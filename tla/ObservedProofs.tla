--------------------------- MODULE ObservedProofs ---------------------------
(***************************************************************************)
(* Theorems about ObservedReports, for any accounts, report texts and      *)
(* filters.  The inductive invariant says of every set of records that can *)
(* still reach main what OneCounts and CapHolds say of main's.             *)
(***************************************************************************)
EXTENDS ObservedReports, FiniteSetTheorems, WellFoundedInduction, TLAPS

(* Sets of issue numbers and of days have least and greatest members.      *)
LEMMA LeastExists ==
  ASSUME NEW S, S \subseteq Nat, S # {}
  PROVE  \E least \in S : \A x \in S : least <= x
<1>1. PICK least \in S : \A x \in S : ~ (<<x, least>> \in OpToRel(<, Nat))
  BY WFMin, NatLessThanWellFounded, Zenon
<1>2. ASSUME NEW x \in S, x < least
      PROVE  FALSE
  BY <1>1, <1>2, Zenon DEF OpToRel
<1>3. QED
  BY <1>2

(* The greatest is where the least of the distances to k is.               *)
LEMMA GreatestExists ==
  ASSUME NEW S, NEW k \in Nat, S \subseteq 1..k, S # {}
  PROVE  \E last \in S : \A x \in S : x <= last
<1>1. {k - x : x \in S} \subseteq Nat /\ {k - x : x \in S} # {}
  <2>1. \A x \in S : k - x \in Nat
    OBVIOUS
  <2>2. QED
    BY <2>1
<1>2. PICK least \in {k - x : x \in S} : \A y \in {k - x : x \in S} : least <= y
  BY <1>1, LeastExists
<1>3. PICK last \in S : least = k - last
  BY <1>2
<1>4. \A x \in S : k - last <= k - x
  BY <1>2, <1>3
<1>5. ASSUME NEW x \in S
      PROVE  x <= last
  BY <1>4
<1>6. QED
  BY <1>5

(* What StatusOf gives is a record status, and counted only for a report   *)
(* that no filter stops.                                                   *)
LEMMA StatusIs ==
  ASSUME NEW I, NEW n, NEW day
  PROVE  /\ StatusOf(I, n, day) \in RecordStatuses
         /\ StatusOf(I, n, day) = "counted" =>
              ~Duplicate(I, n) /\ ~Superseded(I, n) /\ ~Expired(I, n, day) /\ ~Held(I, n, day)
BY DEF StatusOf, RecordStatuses, Sorted

CountsOnce(f, I) ==
  \A n, m \in DOMAIN f :
    n # m /\ f[n].status = "counted" /\ f[m].status = "counted" =>
      /\ f[n].text # f[m].text
      /\ I[n].author = I[m].author =>
           Cell[f[n].text] # Cell[f[m].text] /\ Place[f[n].text] # Place[f[m].text]

(* Of two counted reports the later one is no duplicate and the earlier    *)
(* one is not superseded.                                                  *)
LEMMA RebuildCountsOnce ==
  ASSUME issues \in Seq(IssueRecords)
  PROVE  CountsOnce(Records(issues, today), issues)
<1> DEFINE f == Records(issues, today)
<1>1. DOMAIN f = Accepted(issues) /\ Accepted(issues) \subseteq Nat
  BY DEF Records, Accepted
<1>2. ASSUME NEW n \in Accepted(issues), NEW m \in Accepted(issues), n < m,
             f[n].status = "counted", f[m].status = "counted"
      PROVE  /\ issues[n].text # issues[m].text
             /\ issues[n].author = issues[m].author =>
                  ~SamePlace(issues[m].text, issues[n].text)
  <2>1. StatusOf(issues, n, today) = "counted" /\ StatusOf(issues, m, today) = "counted"
    BY <1>2 DEF Records
  <2>2. ~Duplicate(issues, m) /\ ~Superseded(issues, n)
    BY <2>1, StatusIs
  <2>3. m > n
    BY <1>1, <1>2
  <2>4. QED
    BY <1>2, <2>2, <2>3 DEF Duplicate, Superseded
<1>3. \A n \in Accepted(issues) : f[n].text = issues[n].text
  BY DEF Records
<1>4. ASSUME NEW n \in Accepted(issues), NEW m \in Accepted(issues), n # m,
             f[n].status = "counted", f[m].status = "counted"
      PROVE  /\ f[n].text # f[m].text
             /\ issues[n].author = issues[m].author =>
                  Cell[f[n].text] # Cell[f[m].text] /\ Place[f[n].text] # Place[f[m].text]
  <2>1. n < m \/ m < n
    BY <1>1, <1>4
  <2>2. CASE n < m
    BY <1>2, <1>3, <1>4, <2>2 DEF SamePlace
  <2>3. CASE m < n
    BY <1>2, <1>3, <1>4, <2>3 DEF SamePlace
  <2>4. QED
    BY <2>1, <2>2, <2>3
<1>5. QED
  BY <1>1, <1>4 DEF CountsOnce

(* The reports of f that the cap must answer for: of an account's in a     *)
(* month of I, those that count and no maintainer released.                *)
Charged(f, I, account, month) ==
  {n \in DOMAIN f : /\ f[n].status = "counted"
                    /\ I[n].author = account
                    /\ MonthOf(I[n].created) = month
                    /\ ~I[n].released}

Capped(f, I) ==
  \A account \in Accounts, month \in 0..MonthOf(MaxDay) :
    Cardinality(Charged(f, I, account, month)) <= MonthlyCap

(* The last one that counts was not over the cap, and all the others came  *)
(* before it.                                                              *)
LEMMA RebuildCapped ==
  ASSUME issues \in Seq(IssueRecords)
  PROVE  Capped(Records(issues, today), issues)
<1> DEFINE f == Records(issues, today)
<1> SUFFICES ASSUME NEW account, NEW month
             PROVE  Cardinality(Charged(f, issues, account, month)) <= MonthlyCap
  BY DEF Capped
<1> DEFINE C == Charged(f, issues, account, month)
<1>1. Accepted(issues) \subseteq 1..Len(issues) /\ Len(issues) \in Nat
  BY DEF Accepted
<1>2. C \subseteq Accepted(issues) /\ IsFiniteSet(1..Len(issues))
  BY <1>1, FS_Interval DEF Charged, Records
<1>3. CASE C = {}
  BY <1>3, FS_EmptySet, ReportAssumption
<1>4. CASE C # {}
  <2>1. PICK last \in C : \A n \in C : n <= last
    BY <1>1, <1>2, <1>4, GreatestExists
  <2>2. \A n \in C : /\ StatusOf(issues, n, today) = "counted" /\ n \in Accepted(issues)
                     /\ issues[n].author = account /\ MonthOf(issues[n].created) = month
                     /\ ~issues[n].released
    BY <1>2 DEF Charged, Records
  <2>3. \A n \in C : Sorted(issues, n) /\ ~Expired(issues, n, today) /\ ~Held(issues, n, today)
    BY <2>2, StatusIs DEF Sorted
  <2>4. C \subseteq InMonth(issues, last, today)
    BY <2>1, <2>2, <2>3 DEF InMonth
  <2>5. IsFiniteSet(InMonth(issues, last, today))
    <3>1. InMonth(issues, last, today) \subseteq 1..Len(issues)
      BY <1>1 DEF InMonth
    <3>2. QED
      BY <1>2, <3>1, FS_Subset
  <2>6. ~(Cardinality(InMonth(issues, last, today)) > MonthlyCap)
    BY <2>1, <2>2, <2>3 DEF Held, OverCap
  <2>7. /\ Cardinality(InMonth(issues, last, today)) \in Nat /\ Cardinality(C) \in Nat
        /\ Cardinality(C) <= Cardinality(InMonth(issues, last, today))
    BY <2>4, <2>5, FS_Subset, FS_CardinalityType
  <2>8. QED
    BY <2>6, <2>7, ReportAssumption
<1>5. QED
  BY <1>3, <1>4

(* A rebuild writes records of the kinds that validate_tree accepts.       *)
LEMMA RebuildType ==
  ASSUME issues \in Seq(IssueRecords)
  PROVE  IsRecords(Records(issues, today))
<1>1. Accepted(issues) \subseteq DOMAIN issues
  BY DEF Accepted
<1>2. \A n \in DOMAIN issues : issues[n] \in IssueRecords
  OBVIOUS
<1>3. \A n \in Accepted(issues) : issues[n].text \in Texts
  BY <1>1, <1>2 DEF Accepted, IssueRecords
<1>4. QED
  BY <1>1, <1>3, StatusIs DEF IsRecords, Records

-----------------------------------------------------------------------------
(* What no later version of an issue changes, whatever happens to it.      *)
Kept(new, old) ==
  /\ new.author = old.author /\ new.created = old.created
  /\ old.released => new.released

(* Issues stay, in their order.                                            *)
LEMMA IssuesStay ==
  ASSUME TypeOK, [Next]_vars
  PROVE  /\ issues' \in Seq(IssueRecords)
         /\ DOMAIN issues \subseteq DOMAIN issues'
         /\ \A n \in DOMAIN issues : Kept(issues'[n], issues[n])
<1>1. issues \in Seq(IssueRecords) /\ today \in 0..MaxDay
  BY DEF TypeOK
<1>2. ASSUME NEW account \in Accounts, Submit(account)
      PROVE  /\ issues' \in Seq(IssueRecords)
             /\ DOMAIN issues \subseteq DOMAIN issues'
             /\ \A n \in DOMAIN issues : Kept(issues'[n], issues[n])
  <2>1. PICK issue \in IssueRecords : issues' = Append(issues, issue)
    BY <1>1, <1>2 DEF Submit, IssueRecords
  <2>2. QED
    BY <1>1, <2>1 DEF Kept
<1>3. ASSUME NEW n \in DOMAIN issues, NEW issue \in IssueRecords,
             Kept(issue, issues[n]), issues' = [issues EXCEPT ![n] = issue]
      PROVE  /\ issues' \in Seq(IssueRecords)
             /\ DOMAIN issues \subseteq DOMAIN issues'
             /\ \A m \in DOMAIN issues : Kept(issues'[m], issues[m])
  BY <1>1, <1>3 DEF Kept
<1>4. ASSUME NEW n \in DOMAIN issues, Edit(n) \/ Withdraw(n) \/ Delete(n) \/ Release(n)
      PROVE  \E issue \in IssueRecords :
               Kept(issue, issues[n]) /\ issues' = [issues EXCEPT ![n] = issue]
  <2>1. issues[n] \in IssueRecords
    BY <1>1
  <2>2. CASE Edit(n)
    <3>1. PICK t \in Texts \union {NoReport} : issues' = [issues EXCEPT ![n].text = t]
      BY <2>2 DEF Edit
    <3>2. [issues[n] EXCEPT !.text = t] \in IssueRecords
      BY <2>1 DEF IssueRecords
    <3>3. Kept([issues[n] EXCEPT !.text = t], issues[n])
      BY <2>1 DEF IssueRecords, Kept
    <3>4. QED
      BY <3>1, <3>2, <3>3
  <2>3. CASE Withdraw(n)
    <3>1. PICK state \in {"open", "not_planned"} : issues' = [issues EXCEPT ![n].state = state]
      BY <2>3 DEF Withdraw
    <3>2. [issues[n] EXCEPT !.state = state] \in IssueRecords
      BY <2>1 DEF IssueRecords
    <3>3. Kept([issues[n] EXCEPT !.state = state], issues[n])
      BY <2>1 DEF IssueRecords, Kept
    <3>4. QED
      BY <3>1, <3>2, <3>3
  <2>4. CASE Delete(n)
    <3>1. [issues[n] EXCEPT !.state = "deleted"] \in IssueRecords
      BY <2>1 DEF IssueRecords
    <3>2. Kept([issues[n] EXCEPT !.state = "deleted"], issues[n])
      BY <2>1 DEF IssueRecords, Kept
    <3>3. QED
      BY <2>4, <3>1, <3>2 DEF Delete
  <2>5. CASE Release(n)
    <3>1. [issues[n] EXCEPT !.released = TRUE] \in IssueRecords
      BY <2>1 DEF IssueRecords
    <3>2. Kept([issues[n] EXCEPT !.released = TRUE], issues[n])
      BY <2>1 DEF IssueRecords, Kept
    <3>3. QED
      BY <2>5, <3>1, <3>2 DEF Release
  <2>6. QED
    BY <1>4, <2>2, <2>3, <2>4, <2>5
<1>5. CASE Merge
  <2>1. PICK closes : issues' = [n \in DOMAIN issues |->
          IF n \in closes THEN [issues[n] EXCEPT !.state = "completed"] ELSE issues[n]]
    BY <1>5 DEF Merge
  <2>2. \A n \in DOMAIN issues : /\ issues'[n] \in IssueRecords
                                 /\ Kept(issues'[n], issues[n])
    <3>1. ASSUME NEW r \in IssueRecords
          PROVE  /\ [r EXCEPT !.state = "completed"] \in IssueRecords
                 /\ Kept([r EXCEPT !.state = "completed"], r)
      BY <3>1 DEF IssueRecords, Kept
    <3>2. \A n \in DOMAIN issues : issues[n] \in IssueRecords
      BY <1>1
    <3>3. \A n \in DOMAIN issues :
            issues'[n] = IF n \in closes THEN [issues[n] EXCEPT !.state = "completed"] ELSE issues[n]
      BY <2>1
    <3>4. QED
      BY <3>1, <3>2, <3>3 DEF Kept
  <2>3. DOMAIN issues' = 1..Len(issues) /\ Len(issues) \in Nat
    BY <1>1, <2>1
  <2>4. issues' \in [1..Len(issues) -> IssueRecords]
    BY <1>1, <2>1, <2>2, <2>3
  <2>5. QED
    BY <1>1, <2>2, <2>3, <2>4
<1>6. CASE UNCHANGED issues
  BY <1>1, <1>6 DEF Kept
<1>7. QED
  BY <1>2, <1>3, <1>4, <1>5, <1>6 DEF Next, vars, Tick, Schedule, Rebuild, Propose, Fail

(* So what holds of a set of records still holds when issues change.       *)
LEMMA RecordsStay ==
  ASSUME TypeOK, [Next]_vars, NEW f, IsRecords(f)
  PROVE  /\ DOMAIN f \subseteq DOMAIN issues'
         /\ \A n \in DOMAIN f : f[n] \in [text : Texts, status : RecordStatuses]
         /\ CountsOnce(f, issues) => CountsOnce(f, issues')
         /\ Capped(f, issues) => Capped(f, issues')
<1>1. /\ DOMAIN issues \subseteq DOMAIN issues'
      /\ \A n \in DOMAIN issues : Kept(issues'[n], issues[n])
  BY IssuesStay
<1>2. DOMAIN f \subseteq DOMAIN issues
  BY DEF IsRecords
<1>3. CountsOnce(f, issues) => CountsOnce(f, issues')
  BY <1>1, <1>2 DEF CountsOnce, Kept
<1>4. ASSUME NEW account, NEW month
      PROVE  Cardinality(Charged(f, issues', account, month)) <=
               Cardinality(Charged(f, issues, account, month))
  <2>1. Charged(f, issues', account, month) \subseteq Charged(f, issues, account, month)
    BY <1>1, <1>2 DEF Charged, Kept
  <2>2. DOMAIN issues = 1..Len(issues) /\ Len(issues) \in Nat
    BY DEF TypeOK
  <2>3. IsFiniteSet(1..Len(issues))
    BY <2>2, FS_Interval
  <2>4. Charged(f, issues, account, month) \subseteq 1..Len(issues)
    BY <1>2, <2>2 DEF Charged
  <2>5. QED
    BY <2>1, <2>3, <2>4, FS_Subset
<1>5. Capped(f, issues) => Capped(f, issues')
  <2>1. ASSUME NEW account, NEW month
        PROVE  /\ Cardinality(Charged(f, issues, account, month)) \in Nat
               /\ Cardinality(Charged(f, issues', account, month)) \in Nat
    <3>1. DOMAIN f \subseteq 1..Len(issues) /\ Len(issues) \in Nat
      BY <1>2 DEF TypeOK
    <3>2. IsFiniteSet(DOMAIN f)
      <4>1. IsFiniteSet(1..Len(issues))
        BY <3>1, FS_Interval
      <4>2. QED
        BY <3>1, <4>1, FS_Subset
    <3>3. /\ Charged(f, issues, account, month) \subseteq DOMAIN f
          /\ Charged(f, issues', account, month) \subseteq DOMAIN f
      BY DEF Charged
    <3>4. QED
      BY <3>2, <3>3, FS_Subset, FS_CardinalityType
  <2>2. QED
    BY <1>4, <2>1, ReportAssumption DEF Capped
<1>6. QED
  BY <1>1, <1>2, <1>3, <1>5 DEF IsRecords

(* The rebuild that runs and the pull request that is open may be old, but *)
(* each was one rebuild of issues as they were.                            *)
IInv ==
  /\ TypeOK
  /\ CountsOnce(job.records, issues) /\ Capped(job.records, issues)
  /\ CountsOnce(pull.records, issues) /\ Capped(pull.records, issues)
  /\ CountsOnce(observed, issues) /\ Capped(observed, issues)

(* No record is on main or on its way there.                               *)
LEMMA InitIInv == Init => IInv
<1> SUFFICES ASSUME Init PROVE IInv
  OBVIOUS
<1>1. IsRecords(Nothing) /\ CountsOnce(Nothing, issues)
  BY DEF IsRecords, CountsOnce, Nothing
<1>0. Capped(Nothing, issues)
  <2>1. \A account, month : Charged(Nothing, issues, account, month) = {}
    BY DEF Charged, Nothing
  <2>2. QED
    BY <2>1, FS_EmptySet, ReportAssumption DEF Capped
<1>2. /\ job.running = FALSE /\ job.base = Nothing /\ job.records = Nothing
      /\ pull.open = FALSE /\ pull.base = Nothing /\ pull.records = Nothing
      /\ observed = Nothing
  BY DEF Init, NoJob, NoPull
<1>3. issues \in Seq(IssueRecords)
  BY DEF Init
<1>4. today \in 0..MaxDay /\ moves \in 0..MaxMoves
  BY ObservedAssumption DEF Init
<1>5. queued \in BOOLEAN
  BY DEF Init
<1>6. QED
  BY <1>0, <1>1, <1>2, <1>3, <1>4, <1>5 DEF IInv, TypeOK

(* Main takes what the pull request holds, that what the job held, and     *)
(* that a rebuild.                                                         *)
LEMMA NextIInv == IInv /\ [Next]_vars => IInv'
<1> SUFFICES ASSUME IInv, [Next]_vars PROVE IInv'
  OBVIOUS
<1>1. TypeOK
  BY DEF IInv
<1>2. issues' \in Seq(IssueRecords)
  BY <1>1, IssuesStay
<1>3. ASSUME NEW f, IsRecords(f)
      PROVE  /\ DOMAIN f \subseteq DOMAIN issues'
             /\ \A n \in DOMAIN f : f[n] \in [text : Texts, status : RecordStatuses]
             /\ CountsOnce(f, issues) => CountsOnce(f, issues')
             /\ Capped(f, issues) => Capped(f, issues')
  BY <1>1, <1>3, RecordsStay
<1>4. today' \in 0..MaxDay /\ moves' \in 0..MaxMoves /\ queued' \in BOOLEAN
  <2>1. today' = today \/ Tick
    BY DEF Next, vars, Submit, Edit, Withdraw, Delete, Release, Schedule, Rebuild, Propose, Fail, Merge
  <2>2. moves' = moves \/ Move
    BY DEF Next, vars, Submit, Edit, Withdraw, Delete, Release, Tick, Schedule, Rebuild, Propose, Fail, Merge
  <2>3. queued' = queued \/ queued' \in BOOLEAN
    BY DEF Next, vars, Event, Submit, Edit, Withdraw, Delete, Release, Tick, Schedule, Rebuild, Propose,
           Fail, Merge
  <2>4. QED
    BY <1>1, <2>1, <2>2, <2>3, ObservedAssumption DEF TypeOK, Tick, Move
<1>0. \A I : IsRecords(Nothing)' /\ CountsOnce(Nothing, I) /\ Capped(Nothing, I)
  <2>1. \A I, account, month : Charged(Nothing, I, account, month) = {}
    BY DEF Charged, Nothing
  <2>2. \A I : Capped(Nothing, I)
    BY <2>1, FS_EmptySet, ReportAssumption DEF Capped
  <2>3. \A I : IsRecords(Nothing)' /\ CountsOnce(Nothing, I)
    BY DEF IsRecords, CountsOnce, Nothing
  <2>4. QED
    BY <2>2, <2>3
<1>5. /\ job.running' \in BOOLEAN
      /\ IsRecords(job.base)' /\ IsRecords(job.records)' /\ CountsOnce(job.records, issues)' /\ Capped(job.records, issues)'
  <2>1. CASE job' = job
    BY <1>1, <1>3, <2>1 DEF TypeOK, IInv, IsRecords
  <2>2. CASE job' = NoJob
    BY <1>0, <2>2 DEF NoJob, IsRecords, CountsOnce, Capped
  <2>3. CASE Rebuild
    <3>1. issues' = issues /\ job' = [running |-> TRUE, base |-> observed,
                                      records |-> Records(issues, today)]
      BY <2>3 DEF Rebuild, Rebuilt
    <3>2. /\ IsRecords(Records(issues, today))
          /\ CountsOnce(Records(issues, today), issues)
          /\ Capped(Records(issues, today), issues)
      BY <1>1, RebuildType, RebuildCountsOnce, RebuildCapped DEF TypeOK
    <3>3. /\ job'.running = TRUE /\ job'.base = observed
          /\ job'.records = Records(issues, today)
      BY <3>1
    <3>4. IsRecords(observed)
      BY <1>1 DEF TypeOK
    <3>5. QED
      BY <3>1, <3>2, <3>3, <3>4 DEF IsRecords, CountsOnce, Capped, Charged
  <2>4. QED
    BY <2>1, <2>2, <2>3
       DEF Next, vars, Submit, Edit, Withdraw, Delete, Release, Tick, Schedule, Propose, Fail, Merge
<1>6. /\ pull.open' \in BOOLEAN
      /\ IsRecords(pull.base)' /\ IsRecords(pull.records)' /\ CountsOnce(pull.records, issues)' /\ Capped(pull.records, issues)'
  <2>1. CASE pull' = pull
    BY <1>1, <1>3, <2>1 DEF TypeOK, IInv, IsRecords
  <2>2. CASE pull' = NoPull
    BY <1>0, <2>2 DEF NoPull, IsRecords, CountsOnce, Capped
  <2>3. CASE pull' = [open |-> TRUE, base |-> job.base, records |-> job.records]
    BY <1>1, <1>3, <2>3 DEF TypeOK, IInv, IsRecords
  <2>4. QED
    BY <2>1, <2>2, <2>3
       DEF Next, vars, Submit, Edit, Withdraw, Delete, Release, Tick, Schedule, Rebuild, Propose,
           Fail, Merge
<1>7. IsRecords(observed)' /\ CountsOnce(observed, issues)' /\ Capped(observed, issues)'
  <2>1. CASE observed' = observed
    BY <1>1, <1>3, <2>1 DEF TypeOK, IInv, IsRecords
  <2>2. CASE observed' = pull.records
    BY <1>1, <1>3, <2>2 DEF TypeOK, IInv, IsRecords
  <2>3. QED
    BY <2>1, <2>2
       DEF Next, vars, Submit, Edit, Withdraw, Delete, Release, Tick, Schedule, Rebuild, Propose,
           Fail, Merge
<1>8. QED
  BY <1>2, <1>4, <1>5, <1>6, <1>7 DEF IInv, TypeOK

-----------------------------------------------------------------------------
(* Whatever accounts, maintainers and failures do, main, the job and its   *)
(* pull request only hold records of issues, with a status of the list.    *)
THEOREM ReportsTypeCorrect == Spec => []TypeOK
<1>1. IInv => TypeOK
  BY DEF IInv
<1>2. QED
  BY <1>1, InitIInv, NextIInv, PTL DEF Spec

(* No text and no account counts twice on main, though what is merged was  *)
(* rebuilt from issues that have changed since.                            *)
THEOREM OneCountsHolds == Spec => []OneCounts
<1>1. IInv => OneCounts
  BY DEF IInv, CountsOnce, OneCounts, Counted
<1>2. QED
  BY <1>1, InitIInv, NextIInv, PTL DEF Spec

(* Edits, releases and late merges do not let an account count more often  *)
(* in a month than the cap.                                                *)
THEOREM CapAlwaysHolds == Spec => []CapHolds
<1>1. IInv => CapHolds
  BY DEF IInv, Capped, Charged, CapHolds, Counted
<1>2. QED
  BY <1>1, InitIInv, NextIInv, PTL DEF Spec

-----------------------------------------------------------------------------
(* Filters that look at the day only let go of a report, expiry apart.     *)
LEMMA FiltersLetGo ==
  ASSUME issues \in Seq(IssueRecords), NEW day \in Nat, NEW later \in Nat, day <= later,
         NEW n \in Accepted(issues)
  PROVE  /\ Expired(issues, n, day) => Expired(issues, n, later)
         /\ Held(issues, n, later) => Held(issues, n, day)
<1>1. /\ Accepted(issues) \subseteq 1..Len(issues) /\ Len(issues) \in Nat
      /\ \A m \in Accepted(issues) : issues[m] \in IssueRecords /\ issues[m].text \in Texts
  <2>1. \A m \in DOMAIN issues : issues[m] \in IssueRecords
    OBVIOUS
  <2>2. QED
    BY <2>1 DEF Accepted, IssueRecords
<1>2. ASSUME NEW m \in Accepted(issues), Expired(issues, m, day)
      PROVE  Expired(issues, m, later)
  <2>1. TestedOn[issues[m].text] \in Nat /\ ExpireDays \in Nat
    BY <1>1, ReportAssumption
  <2>2. QED
    BY <1>2, <2>1 DEF Expired
<1>3. NewAccount(issues, n, later) => NewAccount(issues, n, day)
  <2> DEFINE days == {issues[k].created : k \in {m \in Accepted(issues) : issues[m].author = issues[n].author}}
  <2>1. days \subseteq Nat /\ days # {}
    BY <1>1 DEF IssueRecords
  <2>2. Min(days) \in Nat
    BY <2>1, LeastExists DEF Min
  <2>3. FirstDay(issues, issues[n].author) = Min(days)
    BY DEF FirstDay
  <2>4. QED
    BY <2>2, <2>3, ReportAssumption DEF NewAccount
<1>4. OverCap(issues, n, later) => OverCap(issues, n, day)
  <2>1. InMonth(issues, n, later) \subseteq InMonth(issues, n, day)
    BY <1>2 DEF InMonth
  <2>2. InMonth(issues, n, day) \subseteq 1..Len(issues)
    BY <1>1 DEF InMonth
  <2>3. IsFiniteSet(InMonth(issues, n, day))
    <3>1. IsFiniteSet(1..Len(issues))
      BY <1>1, FS_Interval
    <3>2. QED
      BY <2>2, <3>1, FS_Subset
  <2>4. /\ Cardinality(InMonth(issues, n, day)) \in Nat
        /\ Cardinality(InMonth(issues, n, later)) \in Nat
        /\ Cardinality(InMonth(issues, n, later)) <= Cardinality(InMonth(issues, n, day))
    BY <2>1, <2>3, FS_Subset, FS_CardinalityType
  <2>5. QED
    BY <2>4, ReportAssumption DEF OverCap
<1>5. QED
  BY <1>2, <1>3, <1>4 DEF Held

(* So a later day moves a status one way.                                  *)
LEMMA StatusAdvances ==
  ASSUME issues \in Seq(IssueRecords), NEW day \in Nat, NEW later \in Nat, day <= later,
         NEW n \in Accepted(issues)
  PROVE  StatusOf(issues, n, later) \in Later(StatusOf(issues, n, day))
<1>1. /\ Expired(issues, n, day) => Expired(issues, n, later)
      /\ Held(issues, n, later) => Held(issues, n, day)
  BY FiltersLetGo
<1>2. CASE ~Sorted(issues, n)
  BY <1>2 DEF StatusOf, Sorted, Later
<1>3. CASE Sorted(issues, n) /\ Expired(issues, n, day)
  <2>1. StatusOf(issues, n, day) = "expired" /\ StatusOf(issues, n, later) = "expired"
    BY <1>1, <1>3 DEF StatusOf, Sorted
  <2>2. QED
    BY <2>1 DEF Later
<1>4. CASE Sorted(issues, n) /\ ~Expired(issues, n, day)
  <2>1. StatusOf(issues, n, day) = IF Held(issues, n, day) THEN "held" ELSE "counted"
    BY <1>4 DEF StatusOf, Sorted
  <2>2. StatusOf(issues, n, later) = IF Expired(issues, n, later) THEN "expired"
                                     ELSE IF Held(issues, n, later) THEN "held" ELSE "counted"
    BY <1>4 DEF StatusOf, Sorted
  <2>3. QED
    BY <1>1, <2>1, <2>2 DEF Later
<1>5. QED
  BY <1>2, <1>3, <1>4

(* Whatever the filters' limits, a step that touches no issue lets held    *)
(* reports count or expire, and counted ones expire, and nothing else.     *)
THEOREM TimeOnlyAdvancesHolds == Spec => TimeOnlyAdvances
<1>1. IInv /\ [Next]_vars =>
        [issues' = issues =>
           \A n \in Accepted(issues) :
             StatusOf(issues, n, today') \in Later(StatusOf(issues, n, today))]_vars
  <2> SUFFICES ASSUME IInv, [Next]_vars, issues' = issues, NEW n \in Accepted(issues)
               PROVE  StatusOf(issues, n, today') \in Later(StatusOf(issues, n, today))
    OBVIOUS
  <2>1. TypeOK
    BY DEF IInv
  <2>2. today' = today \/ today' = today + 1
    BY DEF Next, vars, Submit, Edit, Withdraw, Delete, Release, Tick, Schedule, Rebuild, Propose,
           Fail, Merge
  <2>3. today \in Nat /\ today' \in Nat /\ today <= today'
    BY <2>1, <2>2, ObservedAssumption DEF TypeOK
  <2>4. QED
    BY <2>1, <2>3, StatusAdvances DEF TypeOK
<1>2. QED
  BY <1>1, InitIInv, NextIInv, PTL DEF Spec, TimeOnlyAdvances

=============================================================================
