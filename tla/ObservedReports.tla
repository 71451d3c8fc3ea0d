--------------------------- MODULE ObservedReports ---------------------------
(***************************************************************************)
(* Report issues, the observed job of ocd-check-report.yml, and observed/  *)
(* on main.  Every issue event and a daily schedule queue the job.  It     *)
(* rebuilds observed/ from all issues on a checkout of main, and opens,    *)
(* replaces or closes the bot's pull request, which a maintainer merges.   *)
(* Issues, the day and main can change while the job runs.                 *)
(***************************************************************************)
EXTENDS ReportFilters, Sequences

CONSTANTS
  MaxIssues,  \* bound: issues opened in one behaviour
  MaxDay,     \* bound: days that pass
  MaxMoves    \* bound: what accounts, maintainers and failures do after that

VARIABLES
  issues,    \* the report issues, by number
  today,
  moves,     \* moves so far
  queued,    \* a run of the job waits
  job,       \* what the running job read, or NoJob
  pull,      \* the bot's open pull request, or NoPull
  observed   \* the records on main

vars == <<issues, today, moves, queued, job, pull, observed>>

ASSUME ObservedAssumption == MaxIssues \in Nat /\ MaxDay \in Nat /\ MaxMoves \in Nat

Nothing == [n \in {} |-> NoReport]

NoJob == [running |-> FALSE, base |-> Nothing, records |-> Nothing]

NoPull == [open |-> FALSE, base |-> Nothing, records |-> Nothing]

-----------------------------------------------------------------------------
Init ==
  /\ issues = <<>>
  /\ today = 0
  /\ moves = 0
  /\ queued = FALSE
  /\ job = NoJob
  /\ pull = NoPull
  /\ observed = Nothing

(* An issue event queues a run; GitHub keeps only the newest that waits.   *)
Event == queued' = TRUE

Submit(account) ==
  /\ Len(issues) < MaxIssues
  /\ \E t \in {s \in Texts : TestedOn[s] <= today} :
       issues' = Append(issues, [author |-> account, text |-> t, created |-> today,
                                 state |-> "open", released |-> FALSE])
  /\ Event
  /\ UNCHANGED <<today, moves, job, pull, observed>>

Move == moves < MaxMoves /\ moves' = moves + 1

(* The author writes another report into the issue, or spoils it.          *)
Edit(n) ==
  /\ Move
  /\ issues[n].state # "deleted"
  /\ \E t \in {s \in Texts : TestedOn[s] <= today} \union {NoReport} :
       issues' = [issues EXCEPT ![n].text = t]
  /\ Event
  /\ UNCHANGED <<today, job, pull, observed>>

(* Closed as not planned, or opened again.                                 *)
Withdraw(n) ==
  /\ Move
  /\ \/ issues[n].state \in {"open", "completed"} /\ issues' = [issues EXCEPT ![n].state = "not_planned"]
     \/ issues[n].state \in {"not_planned", "completed"} /\ issues' = [issues EXCEPT ![n].state = "open"]
  /\ Event
  /\ UNCHANGED <<today, job, pull, observed>>

(* No event of the workflow tells of a deleted issue.                      *)
Delete(n) ==
  /\ Move
  /\ issues[n].state # "deleted"
  /\ issues' = [issues EXCEPT ![n].state = "deleted"]
  /\ UNCHANGED <<today, queued, job, pull, observed>>

(* A maintainer labels the issue report:hold-released.                     *)
Release(n) ==
  /\ Move
  /\ issues[n].state # "deleted" /\ ~issues[n].released
  /\ issues' = [issues EXCEPT ![n].released = TRUE]
  /\ Event
  /\ UNCHANGED <<today, job, pull, observed>>

Tick ==
  /\ today < MaxDay
  /\ today' = today + 1
  /\ UNCHANGED <<issues, moves, queued, job, pull, observed>>

Schedule ==
  /\ ~queued
  /\ queued' = TRUE
  /\ UNCHANGED <<issues, today, moves, job, pull, observed>>

(* Mutant: rebuild leaves the files of reports that no longer count.       *)
KeptRecords(base) ==
  LET new == Records(issues, today)
  IN  [n \in DOMAIN new \union DOMAIN base |-> IF n \in DOMAIN new THEN new[n] ELSE base[n]]

Rebuilt(base) == Records(issues, today)

(* The job checks out main and reads every issue.                          *)
Rebuild ==
  /\ queued /\ ~job.running
  /\ queued' = FALSE
  /\ job' = [running |-> TRUE, base |-> observed, records |-> Rebuilt(observed)]
  /\ UNCHANGED <<issues, today, moves, pull, observed>>

(* It closes its pull request when main was up to date, else puts this     *)
(* rebuild in its place.                                                   *)
Propose ==
  /\ job.running
  /\ pull' = IF job.records = job.base THEN NoPull
             ELSE [open |-> TRUE, base |-> job.base, records |-> job.records]
  /\ job' = NoJob
  /\ UNCHANGED <<issues, today, moves, queued, observed>>

Fail ==
  /\ Move
  /\ job.running
  /\ job' = NoJob
  /\ UNCHANGED <<issues, today, queued, pull, observed>>

(* A maintainer merges the pull request; GitHub closes the issues it adds, *)
(* which is an event.  Two pull requests that change summary.json conflict, *)
(* so one that is built on an older observed/ waits for its next rebuild.  *)
Merge ==
  /\ pull.open
  /\ pull.base = observed
  /\ observed' = pull.records
  /\ pull' = NoPull
  /\ LET added  == DOMAIN pull.records \ DOMAIN observed
         closes == {n \in added : issues[n].state = "open"}
     IN  /\ issues' = [n \in DOMAIN issues |->
                         IF n \in closes THEN [issues[n] EXCEPT !.state = "completed"] ELSE issues[n]]
         /\ queued' = (queued \/ closes # {})
  /\ UNCHANGED <<today, moves, job>>

Next ==
  \/ \E account \in Accounts : Submit(account)
  \/ \E n \in DOMAIN issues : Edit(n) \/ Withdraw(n) \/ Delete(n) \/ Release(n)
  \/ Tick \/ Schedule \/ Rebuild \/ Propose \/ Fail \/ Merge

Spec == Init /\ [][Next]_vars

(* The schedule is daily, GitHub runs a queued job, and a maintainer       *)
(* merges a pull request that stays.                                       *)
Fairness == WF_vars(Schedule) /\ WF_vars(Rebuild) /\ WF_vars(Propose) /\ WF_vars(Merge)

FairSpec == Spec /\ Fairness

-----------------------------------------------------------------------------
IssueRecords ==
  [author : Accounts, text : Texts \union {NoReport}, created : 0..MaxDay,
   state : {"open", "completed", "not_planned", "deleted"}, released : BOOLEAN]

IsRecords(f) ==
  /\ DOMAIN f \subseteq DOMAIN issues
  /\ \A n \in DOMAIN f : f[n] \in [text : Texts, status : RecordStatuses]

(* Issues, the job, its pull request and main hold reports and records.    *)
TypeOK ==
  /\ issues \in Seq(IssueRecords)
  /\ today \in 0..MaxDay /\ moves \in 0..MaxMoves /\ queued \in BOOLEAN
  /\ job.running \in BOOLEAN /\ IsRecords(job.base) /\ IsRecords(job.records)
  /\ pull.open \in BOOLEAN /\ IsRecords(pull.base) /\ IsRecords(pull.records)
  /\ IsRecords(observed)

Counted == {n \in DOMAIN observed : observed[n].status = "counted"}

(* A count on main is a count of accounts: of one text one report counts,  *)
(* and of one account at most one in each cell and each place.             *)
OneCounts ==
  \A n, m \in Counted :
    n # m =>
      LET s == observed[n].text
          t == observed[m].text
      IN  /\ s # t
          /\ issues[n].author = issues[m].author => Cell[s] # Cell[t] /\ Place[s] # Place[t]

(* No account counts more often in a month than the cap, but for reports   *)
(* that a maintainer released.                                             *)
CapHolds ==
  \A account \in Accounts, month \in 0..MonthOf(MaxDay) :
    Cardinality({n \in Counted : /\ issues[n].author = account
                                 /\ MonthOf(issues[n].created) = month
                                 /\ ~issues[n].released}) <= MonthlyCap

Later(status) ==
  CASE status = "held"    -> {"held", "counted", "expired"}
    [] status = "counted" -> {"counted", "expired"}
    [] OTHER              -> {status}

(* While nobody touches an issue, time only lets held reports count and    *)
(* counted ones expire; a report that counts is not held again.            *)
TimeOnlyAdvances ==
  [][issues' = issues =>
       \A n \in Accepted(issues) :
         StatusOf(issues, n, today') \in Later(StatusOf(issues, n, today))]_vars

(* When nothing changes any more, main comes to hold what the issues give: *)
(* withdrawn and deleted reports are gone, held ones count, old ones       *)
(* expire, whatever was read before or merged late.                        *)
MainCatchesUp == <>[](observed = Records(issues, today))

(* A report that its account sends again, as its only one, is not lost: of *)
(* the issues with that text one is neither a duplicate nor superseded.    *)
SentAgainStays ==
  \A n \in Accepted(issues) :
    LET same == {m \in Accepted(issues) : issues[m].text = issues[n].text}
    IN  same = {m \in Accepted(issues) : issues[m].author = issues[n].author} =>
          \E m \in same : StatusOf(issues, m, today) \notin {"duplicate", "superseded"}

=============================================================================
