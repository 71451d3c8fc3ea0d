---------------------------- MODULE ReportFilters ----------------------------
(***************************************************************************)
(* The noise filters of tools/observed_reports.py: from the report issues  *)
(* of a day, the status of every valid report.  An issue's text is the     *)
(* report it holds, known by its hash; what a report says that the filters *)
(* ask for is given by tables.                                             *)
(***************************************************************************)
EXTENDS Integers, FiniteSets, FiniteSetsExt

CONSTANTS
  Accounts,
  Texts,       \* the valid report texts
  NoReport,    \* what an issue holds that is no valid report
  Cell,        \* text -> its device, profile, network and stack
  Place,       \* text -> its place in results.json
  TestedOn,    \* text -> the day of its test
  Suspect,     \* the texts that a plausibility check flags
  HoldDays, ExpireDays, MonthlyCap,
  DaysAMonth

ASSUME ReportAssumption ==
  /\ NoReport \notin Texts
  /\ TestedOn \in [Texts -> Nat]
  /\ Suspect \subseteq Texts
  /\ HoldDays \in Nat /\ ExpireDays \in Nat /\ MonthlyCap \in Nat /\ DaysAMonth \in Nat \ {0}

RecordStatuses == {"counted", "held", "superseded", "duplicate", "expired"}

MonthOf(day) == day \div DaysAMonth

(* The issues that count and hold a valid report, in the order of their    *)
(* numbers; issues is a function on numbers.                               *)
Accepted(issues) ==
  {n \in DOMAIN issues : issues[n].state \in {"open", "completed"} /\ issues[n].text # NoReport}

(* A report of the same text came first, whoever sent it.                  *)
Duplicate(issues, n) ==
  \E m \in Accepted(issues) : m < n /\ issues[m].text = issues[n].text

(* Mutant: the cell alone tells which report is newer.                     *)
SameCell(s, t) == Cell[s] = Cell[t]

SamePlace(s, t) == Cell[s] = Cell[t] \/ Place[s] = Place[t]

(* A newer issue of the account, a duplicate or not, stands in its place.  *)
Superseded(issues, n) ==
  \E m \in Accepted(issues) :
    /\ m > n
    /\ issues[m].author = issues[n].author
    /\ SamePlace(issues[m].text, issues[n].text)

Sorted(issues, n) == ~Duplicate(issues, n) /\ ~Superseded(issues, n)

Expired(issues, n, day) == day - TestedOn[issues[n].text] > ExpireDays

FirstDay(issues, account) ==
  Min({issues[n].created : n \in {m \in Accepted(issues) : issues[m].author = account}})

(* Mutant: the comparison the wrong way round.                             *)
OldAccount(issues, n, day) == day - FirstDay(issues, issues[n].author) >= HoldDays

NewAccount(issues, n, day) == day - FirstDay(issues, issues[n].author) < HoldDays

(* The unexpired reports of the account and month, up to this one.         *)
InMonth(issues, n, day) ==
  {m \in Accepted(issues) :
     /\ m <= n
     /\ issues[m].author = issues[n].author
     /\ MonthOf(issues[m].created) = MonthOf(issues[n].created)
     /\ Sorted(issues, m) /\ ~Expired(issues, m, day)}

(* Mutant: the cap lets one more through.                                  *)
OverCapByOne(issues, n, day) == Cardinality(InMonth(issues, n, day)) > MonthlyCap + 1

OverCap(issues, n, day) == Cardinality(InMonth(issues, n, day)) > MonthlyCap

Held(issues, n, day) ==
  /\ ~issues[n].released
  /\ \/ NewAccount(issues, n, day)
     \/ issues[n].text \in Suspect
     \/ OverCap(issues, n, day)

StatusOf(issues, n, day) ==
  CASE Duplicate(issues, n)                               -> "duplicate"
    [] Superseded(issues, n) /\ ~Duplicate(issues, n)     -> "superseded"
    [] Sorted(issues, n) /\ Expired(issues, n, day)       -> "expired"
    [] Sorted(issues, n) /\ ~Expired(issues, n, day) /\ Held(issues, n, day) -> "held"
    [] OTHER                                              -> "counted"

(* rebuild: one record per valid report.                                   *)
Records(issues, day) ==
  [n \in Accepted(issues) |-> [text |-> issues[n].text, status |-> StatusOf(issues, n, day)]]

=============================================================================
