-------------------------- MODULE RefreshBotProofs --------------------------
(***************************************************************************)
(* Proofs about the refresh bot: for any number of pull requests, pushes   *)
(* and moves of authors, what its jobs report is true of the branches, and *)
(* each push gives a branch a newer main than it has.                      *)
(***************************************************************************)
EXTENDS RefreshBot, SequenceTheorems, TLAPS

Phases == Working \union {"none", "planned", "done", "cancelled"}

Branches == Seq(Commits) \ {<<>>}

Jobs ==
  [phase : Phases, sha : Seq(Commits), main : 0..MaxMain, tree : Seq(Commits),
   status : Statuses \union {"none"}, comment : {"none", "silent", "read", "written", "lost"},
   found : {0, 1}]

Texts == [run : Runs, main : 0..MaxMain, status : Statuses]

(* Main and the moves stay in their bounds, branches are sequences of      *)
(* commits and never empty, jobs and checks are in one of their states.    *)
TypeOK ==
  /\ main \in 0..MaxMain
  /\ moves \in 0..MaxMoves
  /\ opted \in SUBSET PullRequests
  /\ head \in [PullRequests -> Branches]
  /\ planned \in SUBSET Runs
  /\ job \in [Runs -> [PullRequests -> Jobs]]
  /\ check \in [Runs -> [PullRequests -> {"none", "waiting", "started"}]]
  /\ comments \in [PullRequests -> Seq(Texts)]
  /\ untold \in SUBSET Runs

-----------------------------------------------------------------------------
(* The invariant.                                                          *)

Merged(J, r) == J.tree = Append(J.sha, [run |-> r, move |-> 0, main |-> J.main])

(* What a job knows: it checked out a main that holds the push that        *)
(* started its run, and its tree is the planned commit or the merge.       *)
JobOK(J, r) ==
  /\ J.phase \notin {"none", "planned"} => J.main >= r
  /\ J.phase # "none" => J.sha # <<>>
  /\ J.phase \in {"none", "planned", "running"} => J.tree = <<>>
  /\ J.phase \in {"ready", "checked", "pushed", "dispatched"} => Merged(J, r)
  /\ J.phase # "done" => J.status = "none"
  /\ J.status \in {"attention", "refreshed"} => Merged(J, r)
  /\ J.status = "up_to_date" => J.tree = <<>> /\ HasMain(J.sha, J.main)

(* A job that will write a comment has an outcome, and the comment it will *)
(* edit is there.                                                          *)
ReadsOK ==
  \A r \in Runs, b \in PullRequests : job[r][b].comment = "read" =>
    job[r][b].status \in Statuses /\ (job[r][b].found = 1 => comments[b] # <<>>)

JobsOK == \A r \in Runs, b \in PullRequests : JobOK(job[r][b], r)

(* Runs are planned after their push, and jobs only by their run's plan.   *)
PlansOK ==
  /\ \A r \in planned : r <= main
  /\ \A r \in Runs \ planned, b \in PullRequests : job[r][b].phase = "none"

(* A job that has not pushed, or says that it did not.                     *)
NotPushed(J) ==
  \/ J.phase \in {"none", "planned", "running", "ready", "checked"}
  \/ J.status \in {"stopped", "skipped", "up_to_date"}

NoneOf(commits, r) == \A i \in DOMAIN commits : commits[i].run # r

(* No branch holds a commit of a job that has not pushed, and neither does *)
(* what any job has checked out and may push again.                        *)
UnpushedUnseen ==
  \A r \in Runs, b \in PullRequests : NotPushed(job[r][b]) =>
    /\ NoneOf(head[b], r)
    /\ \A s \in Runs : NoneOf(job[s][b].sha, r)

Inv == TypeOK /\ JobsOK /\ ReadsOK /\ PlansOK /\ UnpushedUnseen /\ RefreshedIsChecked

-----------------------------------------------------------------------------
(* Commits and jobs.                                                       *)

LEMMA Bounds == MaxMain \in Nat /\ MaxMoves \in Nat /\ Runs \subseteq 1..MaxMain
BY RefreshAssumption DEF Runs

LEMMA AppendCommit ==
  ASSUME NEW commits \in Seq(Commits), NEW c \in Commits
  PROVE  /\ Append(commits, c) \in Branches
         /\ Last(Append(commits, c)) = c
         /\ \A r : NoneOf(Append(commits, c), r) <=> NoneOf(commits, r) /\ c.run # r
<1>1. /\ Append(commits, c) \in Seq(Commits) /\ Append(commits, c) # <<>>
      /\ Len(commits) \in Nat /\ DOMAIN commits = 1..Len(commits)
      /\ DOMAIN Append(commits, c) = 1..(Len(commits) + 1)
      /\ Len(Append(commits, c)) = Len(commits) + 1
      /\ Append(commits, c)[Len(commits) + 1] = c
      /\ \A i \in DOMAIN commits : Append(commits, c)[i] = commits[i]
  OBVIOUS
<1>2. Last(Append(commits, c)) = c
  BY <1>1 DEF Last
<1>3. ASSUME NEW r
      PROVE  NoneOf(Append(commits, c), r) <=> NoneOf(commits, r) /\ c.run # r
  BY <1>1 DEF NoneOf
<1>4. QED
  BY <1>1, <1>2, <1>3 DEF Branches

LEMMA JobType ==
  ASSUME TypeOK, NEW r \in Runs, NEW b \in PullRequests
  PROVE  job[r][b] \in Jobs /\ head[b] \in Branches /\ head[b] \in Seq(Commits)
BY DEF TypeOK, Branches

(* Setting one job.                                                        *)
LEMMA SetJob ==
  ASSUME TypeOK, NEW r \in Runs, NEW b \in PullRequests, NEW new \in Jobs, Set(r, b, new)
  PROVE  /\ job' \in [Runs -> [PullRequests -> Jobs]]
         /\ job'[r][b] = new
         /\ \A s \in Runs, c \in PullRequests : s # r \/ c # b => job'[s][c] = job[s][c]
BY DEF TypeOK, Set

-----------------------------------------------------------------------------
(* A step of one job that changes neither branches, labels nor runs keeps  *)
(* the invariant if its new state is right and it has not taken a push     *)
(* back.                                                                   *)
LEMMA JobStepKeeps ==
  ASSUME Inv, NEW r \in Runs, NEW b \in PullRequests, NEW new \in Jobs, Set(r, b, new),
         UNCHANGED <<main, moves, opted, head, planned, comments, untold>>,
         check' \in [Runs -> [PullRequests -> {"none", "waiting", "started"}]],
         \A s \in Runs, c \in PullRequests : check[s][c] = "started" => check'[s][c] = "started",
         JobOK(new, r), job[r][b].phase # "none", new.sha = job[r][b].sha,
         NotPushed(new) => NotPushed(job[r][b]),
         new.status = "refreshed" => check'[r][b] = "started",
         new.comment = "read" =>
           new.status \in Statuses /\ (new.found = 1 => comments[b] # <<>>)
  PROVE  Inv'
<1>1. /\ job' \in [Runs -> [PullRequests -> Jobs]]
      /\ job'[r][b] = new
      /\ \A s \in Runs, c \in PullRequests : s # r \/ c # b => job'[s][c] = job[s][c]
  BY SetJob DEF Inv
<1>2. TypeOK'
  BY <1>1 DEF Inv, TypeOK
<1>3. JobsOK'
  <2>1. ASSUME NEW s \in Runs, NEW c \in PullRequests
        PROVE  JobOK(job'[s][c], s)
    BY <1>1 DEF Inv, JobsOK
  <2>2. QED
    BY <2>1 DEF JobsOK, JobOK, HasMain, Merged
<1>4. ReadsOK'
  BY <1>1 DEF Inv, ReadsOK
<1>5. PlansOK'
  <2>1. r \in planned
    BY DEF Inv, PlansOK
  <2>2. QED
    BY <1>1, <2>1 DEF Inv, PlansOK
<1>6. UnpushedUnseen'
  <2>1. \A s \in Runs, c \in PullRequests :
          /\ job'[s][c].sha = job[s][c].sha
          /\ NotPushed(job'[s][c]) => NotPushed(job[s][c])
    BY <1>1
  <2>2. ASSUME NEW s \in Runs, NEW c \in PullRequests, NotPushed(job'[s][c])
        PROVE  NoneOf(head'[c], s) /\ \A q \in Runs : NoneOf(job'[q][c].sha, s)
    BY <2>1, <2>2 DEF Inv, UnpushedUnseen
  <2>3. QED
    BY <2>2 DEF UnpushedUnseen, NoneOf, NotPushed
<1>7. RefreshedIsChecked'
  BY <1>1 DEF Inv, RefreshedIsChecked
<1>8. QED
  BY <1>2, <1>3, <1>4, <1>5, <1>6, <1>7 DEF Inv

(* A step that leaves main's count, branches and jobs as they are.         *)
LEMMA OtherStepKeeps ==
  ASSUME Inv, UNCHANGED <<main, head, planned, job, comments, untold>>, moves' \in 0..MaxMoves,
         opted' \in SUBSET PullRequests,
         check' \in [Runs -> [PullRequests -> {"none", "waiting", "started"}]],
         \A s \in Runs, c \in PullRequests : check[s][c] = "started" => check'[s][c] = "started"
  PROVE  Inv'
<1>1. TypeOK'
  BY DEF Inv, TypeOK
<1>2. RefreshedIsChecked'
  BY DEF Inv, RefreshedIsChecked
<1>3. JobsOK' /\ ReadsOK' /\ PlansOK' /\ UnpushedUnseen'
  BY DEF Inv, JobsOK, ReadsOK, PlansOK, UnpushedUnseen, JobOK, Merged, HasMain, NotPushed, NoneOf
<1>4. QED
  BY <1>1, <1>2, <1>3 DEF Inv

-----------------------------------------------------------------------------
(* main and the plans.                                                     *)

LEMMA PushMainStep == ASSUME Inv, PushMain PROVE Inv'
<1>1. TypeOK'
  BY Bounds DEF Inv, TypeOK, PushMain
<1>2. PlansOK'
  BY DEF Inv, PlansOK, PushMain, TypeOK, Runs
<1>3. JobsOK' /\ ReadsOK' /\ UnpushedUnseen' /\ RefreshedIsChecked'
  BY DEF Inv, PushMain, JobsOK, ReadsOK, UnpushedUnseen, RefreshedIsChecked, JobOK, Merged,
         HasMain, NotPushed, NoneOf
<1>4. QED
  BY <1>1, <1>2, <1>3 DEF Inv

LEMMA PlanStep == ASSUME Inv, NEW r \in Runs, Plan(r) PROVE Inv'
<1> DEFINE New(b) == IF b \in opted THEN [Unplanned EXCEPT !.phase = "planned", !.sha = head[b]]
                     ELSE Unplanned
<1>1. ASSUME NEW b \in PullRequests
      PROVE  /\ New(b) \in Jobs /\ JobOK(New(b), r) /\ New(b).status = "none"
             /\ New(b).comment = "none"
             /\ New(b).sha \in {<<>>, head[b]}
  <2>1. head[b] \in Seq(Commits) /\ head[b] # <<>>
    BY JobType DEF Inv, Branches
  <2>2. Unplanned \in Jobs
    BY Bounds DEF Unplanned, Jobs, Phases
  <2>3. [Unplanned EXCEPT !.phase = "planned", !.sha = head[b]] \in Jobs
    BY <2>1, <2>2 DEF Jobs, Phases
  <2>4. QED
    BY <2>1, <2>2, <2>3 DEF Unplanned, JobOK
<1>2. job' = [job EXCEPT ![r] = [b \in PullRequests |-> New(b)]]
  BY DEF Plan
<1> HIDE DEF New
<1>3. /\ job' \in [Runs -> [PullRequests -> Jobs]]
      /\ \A b \in PullRequests : job'[r][b] = New(b)
      /\ \A s \in Runs \ {r}, b \in PullRequests : job'[s][b] = job[s][b]
  BY <1>1, <1>2 DEF Inv, TypeOK
<1>4. TypeOK'
  BY <1>3 DEF Inv, TypeOK, Plan
<1>5. JobsOK'
  <2>1. ASSUME NEW s \in Runs, NEW b \in PullRequests
        PROVE  JobOK(job'[s][b], s)
    BY <1>1, <1>3 DEF Inv, JobsOK
  <2>2. QED
    BY <2>1 DEF JobsOK, JobOK, Merged, HasMain
<1>6. ReadsOK'
  BY <1>1, <1>3 DEF Inv, ReadsOK, Plan
<1>7. PlansOK'
  BY <1>3 DEF Inv, PlansOK, Plan
<1>8. UnpushedUnseen'
  <2>1. \A b \in PullRequests : NotPushed(job[r][b])
    BY DEF Inv, PlansOK, Plan, NotPushed
  <2>2. ASSUME NEW s \in Runs, NEW b \in PullRequests, NotPushed(job'[s][b])
        PROVE  NoneOf(head'[b], s) /\ \A q \in Runs : NoneOf(job'[q][b].sha, s)
    <3>1. NotPushed(job[s][b])
      BY <1>3, <2>1, <2>2
    <3>2. NoneOf(head[b], s) /\ \A q \in Runs : NoneOf(job[q][b].sha, s)
      BY <3>1 DEF Inv, UnpushedUnseen
    <3>3. NoneOf(<<>>, s)
      BY DEF NoneOf
    <3>4. NoneOf(New(b).sha, s)
      BY <1>1, <3>2, <3>3
    <3>5. \A q \in Runs : NoneOf(job'[q][b].sha, s)
      BY <1>3, <3>2, <3>4
    <3>6. head' = head
      BY DEF Plan
    <3>7. QED
      BY <3>2, <3>5, <3>6
  <2>3. QED
    BY <2>2 DEF UnpushedUnseen, NoneOf, NotPushed
<1>9. RefreshedIsChecked'
  BY <1>1, <1>3 DEF Inv, RefreshedIsChecked, Plan
<1>10. QED
  BY <1>4, <1>5, <1>6, <1>7, <1>8, <1>9 DEF Inv

LEMMA PlanFailsStep == ASSUME Inv, NEW r \in Runs, PlanFails(r) PROVE Inv'
<1>1. TypeOK' /\ PlansOK'
  BY DEF Inv, TypeOK, PlansOK, PlanFails
<1>2. JobsOK' /\ ReadsOK' /\ UnpushedUnseen' /\ RefreshedIsChecked'
  BY DEF Inv, PlanFails, JobsOK, ReadsOK, UnpushedUnseen, RefreshedIsChecked, JobOK, Merged,
         HasMain, NotPushed, NoneOf
<1>3. QED
  BY <1>1, <1>2 DEF Inv

-----------------------------------------------------------------------------
(* The refresh job.                                                        *)

LEMMA StartStep == ASSUME Inv, NEW r \in Runs, NEW b \in PullRequests, Start(r, b) PROVE Inv'
<1> DEFINE Cancelled(J) == IF J.phase \in Working THEN [J EXCEPT !.phase = "cancelled"] ELSE J
           new == [job[r][b] EXCEPT !.phase = "running", !.main = FetchedMain(r)]
<1>1. /\ job' \in [Runs -> [PullRequests -> Jobs]]
      /\ job'[r][b] = new
      /\ \A s \in Runs, c \in PullRequests : c # b => job'[s][c] = job[s][c]
      /\ \A s \in Runs \ {r} : job'[s][b] = Cancelled(job[s][b])
  <2>1. new \in Jobs
    <3>1. job[r][b] \in Jobs /\ FetchedMain(r) \in 0..MaxMain
      BY JobType DEF Inv, TypeOK, FetchedMain
    <3>2. \A J \in Jobs, m \in 0..MaxMain : [J EXCEPT !.phase = "running", !.main = m] \in Jobs
      BY DEF Jobs, Phases, Working
    <3>3. QED
      BY <3>1, <3>2
  <2>2. \A s \in Runs : Cancelled(job[s][b]) \in Jobs
    <3>1. \A J \in Jobs : Cancelled(J) \in Jobs
      BY DEF Jobs, Phases
    <3> HIDE DEF Cancelled
    <3>2. QED
      BY <3>1, JobType DEF Inv
  <2> HIDE DEF new, Cancelled
  <2>3. job' = [s \in Runs |-> [c \in PullRequests |->
          IF c # b THEN job[s][c] ELSE IF s = r THEN new ELSE Cancelled(job[s][b])]]
    BY DEF Start, new, Cancelled
  <2>4. QED
    BY <2>1, <2>2, <2>3, JobType DEF Inv
<1>2. r \in planned /\ r <= main
  BY DEF Start, Inv, PlansOK
<1>3. /\ job[r][b].status = "none" /\ job[r][b].comment # "read" /\ job[r][b].tree = <<>>
      /\ job[r][b].sha # <<>> /\ NotPushed(job[r][b])
  BY DEF Start, Inv, JobsOK, JobOK, ReadsOK, NotPushed, Statuses
<1>4. ASSUME NEW s \in Runs
      PROVE  /\ job'[s][b].sha = job[s][b].sha /\ JobOK(job'[s][b], s)
             /\ NotPushed(job'[s][b]) => NotPushed(job[s][b])
             /\ job'[s][b].comment = job[s][b].comment
             /\ job'[s][b].status = job[s][b].status
             /\ job'[s][b].found = job[s][b].found
             /\ job[s][b].phase = "none" => job'[s][b].phase = "none"
  <2>1. CASE s = r
    <3>1. /\ new.sha = job[r][b].sha /\ new.comment = job[r][b].comment
          /\ new.status = "none" /\ new.found = job[r][b].found /\ new.phase = "running"
          /\ new.main = main /\ new.tree = <<>>
      BY <1>3, JobType DEF Inv, Jobs, FetchedMain
    <3> HIDE DEF new
    <3>2. JobOK(new, r)
      <4>1. main >= r
        BY <1>2, Bounds DEF Inv, TypeOK
      <4>2. QED
        BY <1>3, <3>1, <4>1 DEF JobOK
    <3>3. QED
      BY <1>1, <1>3, <2>1, <3>1, <3>2 DEF Start
  <2>2. CASE s # r /\ job[s][b].phase \in Working
    <3> DEFINE J == job[s][b]
    <3>1. J \in Jobs /\ JobOK(J, s)
      BY JobType DEF Inv, JobsOK
    <3>2. job'[s][b] = [J EXCEPT !.phase = "cancelled"]
      BY <1>1, <2>2
    <3> HIDE DEF J
    <3>3. /\ job'[s][b].sha = J.sha /\ job'[s][b].comment = J.comment
          /\ job'[s][b].status = J.status /\ job'[s][b].found = J.found
          /\ job'[s][b].phase = "cancelled" /\ job'[s][b].main = J.main
          /\ job'[s][b].tree = J.tree
      BY <3>1, <3>2 DEF Jobs
    <3>4. J.phase \in Working
      BY <2>2 DEF J
    <3>5. JobOK(job'[s][b], s) /\ (NotPushed(job'[s][b]) => NotPushed(J))
      BY <3>1, <3>3, <3>4 DEF JobOK, Working, Merged, HasMain, NotPushed
    <3>6. QED
      BY <3>3, <3>4, <3>5 DEF J, Working
  <2>3. CASE s # r /\ job[s][b].phase \notin Working
    BY <1>1, <2>3 DEF Inv, JobsOK
  <2>4. QED
    BY <2>1, <2>2, <2>3
<1> HIDE DEF new, Cancelled
<1>5. TypeOK'
  BY <1>1 DEF Inv, TypeOK, Start
<1>6. JobsOK'
  <2>1. ASSUME NEW s \in Runs, NEW c \in PullRequests
        PROVE  JobOK(job'[s][c], s)
    BY <1>1, <1>4 DEF Inv, JobsOK
  <2>2. QED
    BY <2>1 DEF JobsOK, JobOK, Merged, HasMain
<1>7. ReadsOK' /\ PlansOK' /\ RefreshedIsChecked'
  BY <1>1, <1>4 DEF Inv, ReadsOK, PlansOK, RefreshedIsChecked, Start
<1>8. UnpushedUnseen'
  <2>1. ASSUME NEW s \in Runs, NEW c \in PullRequests, NotPushed(job'[s][c])
        PROVE  NoneOf(head'[c], s) /\ \A q \in Runs : NoneOf(job'[q][c].sha, s)
    BY <1>1, <1>4, <2>1 DEF Inv, UnpushedUnseen, Start
  <2>2. QED
    BY <2>1 DEF UnpushedUnseen, NoneOf, NotPushed
<1>9. QED
  BY <1>5, <1>6, <1>7, <1>8 DEF Inv

LEMMA TimeOutStep == ASSUME Inv, NEW r \in Runs, NEW b \in PullRequests, TimeOut(r, b) PROVE Inv'
<1> DEFINE J == job[r][b]
           new == [J EXCEPT !.phase = "cancelled"]
<1>1. J \in Jobs /\ JobOK(J, r) /\ J.phase \in Working
      /\ (J.comment = "read" => J.status \in Statuses /\ (J.found = 1 => comments[b] # <<>>))
  BY JobType DEF Inv, JobsOK, TimeOut, ReadsOK
<1>2. Set(r, b, new)
  BY DEF TimeOut
<1> HIDE DEF J
<1>3. /\ new \in Jobs /\ new.sha = J.sha /\ new.main = J.main /\ new.tree = J.tree
      /\ new.status = J.status /\ new.comment = J.comment /\ new.found = J.found
      /\ new.phase = "cancelled"
  BY <1>1 DEF Jobs, Phases
<1> HIDE DEF new
<1>4. JobOK(new, r) /\ ~NotPushed(new) /\ J.phase # "none" /\ new.status = "none"
  BY <1>1, <1>3 DEF JobOK, Working, Merged, NotPushed
<1>5. QED
  BY <1>1, <1>2, <1>3, <1>4, JobStepKeeps DEF J, TimeOut, Inv, TypeOK

(* An outcome keeps all else the job knows.                                *)
LEMMA FinishedKeeps ==
  ASSUME NEW J \in Jobs, NEW status \in Statuses
  PROVE  LET N == Finished(J, status)
         IN  /\ N \in Jobs /\ N.phase = "done" /\ N.status = status
             /\ N.sha = J.sha /\ N.main = J.main /\ N.tree = J.tree
             /\ N.comment = J.comment /\ N.found = J.found
BY DEF Finished, Jobs, Phases

(* A step to an outcome.                                                   *)
LEMMA FinishStep ==
  ASSUME Inv, NEW r \in Runs, NEW b \in PullRequests, NEW status \in Statuses,
         Set(r, b, Finished(job[r][b], status)),
         UNCHANGED <<main, moves, opted, head, planned, comments, untold>>,
         check' \in [Runs -> [PullRequests -> {"none", "waiting", "started"}]],
         \A s \in Runs, c \in PullRequests : check[s][c] = "started" => check'[s][c] = "started",
         job[r][b].phase \in Working,
         status \in {"attention", "refreshed"} => Merged(job[r][b], r),
         status = "up_to_date" =>
           job[r][b].tree = <<>> /\ HasMain(job[r][b].sha, job[r][b].main),
         status \in {"stopped", "skipped", "up_to_date"} => NotPushed(job[r][b]),
         status = "refreshed" => check'[r][b] = "started"
  PROVE  Inv'
<1> DEFINE J == job[r][b]
           new == Finished(J, status)
<1>1. /\ J \in Jobs /\ JobOK(J, r)
      /\ (J.comment = "read" => J.status \in Statuses /\ (J.found = 1 => comments[b] # <<>>))
  BY JobType DEF Inv, JobsOK, ReadsOK
<1>2. /\ new \in Jobs /\ new.phase = "done" /\ new.status = status
      /\ new.sha = J.sha /\ new.main = J.main /\ new.tree = J.tree
      /\ new.comment = J.comment /\ new.found = J.found
  BY <1>1, FinishedKeeps
<1>3. Set(r, b, new) /\ J.phase \in Working
  OBVIOUS
<1> HIDE DEF new
<1>4. JobOK(new, r)
  BY <1>1, <1>2, <1>3 DEF JobOK, Working, Merged, HasMain
<1>5. NotPushed(new) => NotPushed(J)
  BY <1>2 DEF NotPushed, Statuses
<1>6. J.phase # "none"
  BY <1>3 DEF Working
<1>7. new.comment = "read" => new.status \in Statuses /\ (new.found = 1 => comments[b] # <<>>)
  BY <1>1, <1>2
<1>8. QED
  BY <1>2, <1>3, <1>4, <1>5, <1>6, <1>7, JobStepKeeps

(* A step from one phase of work to the next.                              *)
LEMMA PhaseStep ==
  ASSUME Inv, NEW r \in Runs, NEW b \in PullRequests, NEW phase \in Working,
         Set(r, b, [job[r][b] EXCEPT !.phase = phase]),
         UNCHANGED <<main, moves, opted, head, planned, check, comments, untold>>,
         job[r][b].phase \in Working, Merged(job[r][b], r),
         phase # "running",
         phase \in {"ready", "checked"} => job[r][b].phase \in {"ready", "checked"}
  PROVE  Inv'
<1> DEFINE J == job[r][b]
           new == [J EXCEPT !.phase = phase]
<1>1. /\ J \in Jobs /\ JobOK(J, r) /\ Set(r, b, new) /\ J.phase \in Working
      /\ (J.comment = "read" => J.status \in Statuses /\ (J.found = 1 => comments[b] # <<>>))
  BY JobType DEF Inv, JobsOK, ReadsOK
<1> HIDE DEF J
<1>2. /\ new \in Jobs /\ new.phase = phase /\ new.status = J.status
      /\ new.sha = J.sha /\ new.main = J.main /\ new.tree = J.tree
      /\ new.comment = J.comment /\ new.found = J.found
  BY <1>1 DEF Jobs, Phases
<1> HIDE DEF new
<1>3. JobOK(new, r)
  BY <1>1, <1>2 DEF J, JobOK, Working, Merged
<1>4. new.status = "none" /\ J.phase # "none"
  BY <1>1, <1>2 DEF JobOK, Working
<1>5. NotPushed(new) => NotPushed(J)
  BY <1>2, <1>4 DEF J, NotPushed, Working
<1>6. check' \in [Runs -> [PullRequests -> {"none", "waiting", "started"}]]
  BY DEF Inv, TypeOK
<1>7. QED
  BY <1>1, <1>2, <1>3, <1>4, <1>5, <1>6, JobStepKeeps DEF J

LEMMA MergeStep == ASSUME Inv, NEW r \in Runs, NEW b \in PullRequests, Merge(r, b) PROVE Inv'
<1> DEFINE J == job[r][b]
           commit == [run |-> r, move |-> 0, main |-> J.main]
           new == [J EXCEPT !.phase = "ready", !.tree = Append(J.sha, commit)]
<1>1. /\ J \in Jobs /\ JobOK(J, r) /\ J.phase = "running" /\ J.tree = <<>> /\ NotPushed(J)
      /\ (J.comment = "read" => J.status \in Statuses /\ (J.found = 1 => comments[b] # <<>>))
      /\ check' \in [Runs -> [PullRequests -> {"none", "waiting", "started"}]]
  BY JobType DEF Inv, TypeOK, JobsOK, JobOK, ReadsOK, Merge, NotPushed
<1>2. CASE UpToDate(J) /\ Set(r, b, Finished(J, "up_to_date"))
  BY <1>1, <1>2, FinishStep DEF Merge, UpToDate, Statuses, Working
<1>3. CASE Set(r, b, Finished(J, "stopped"))
  BY <1>1, <1>3, FinishStep DEF Merge, Statuses, Working
<1>4. CASE Set(r, b, new)
  <2>1. commit \in Commits
    BY <1>1, Bounds DEF Commits, Jobs, Runs
  <2>2. Append(J.sha, commit) \in Seq(Commits)
    BY <1>1, <2>1, AppendCommit DEF Jobs, Branches
  <2> DEFINE tree == Append(J.sha, commit)
  <2>3. tree \in Seq(Commits) /\ tree = Append(J.sha, commit)
    BY <2>2
  <2> HIDE DEF J, commit, tree
  <2>4. /\ new \in Jobs /\ new.phase = "ready" /\ new.status = J.status
        /\ new.sha = J.sha /\ new.main = J.main /\ new.tree = tree
        /\ new.comment = J.comment /\ new.found = J.found
    BY <1>1, <2>3 DEF Jobs, Phases, Working
  <2> HIDE DEF new
  <2>5. JobOK(new, r) /\ new.status = "none" /\ J.phase # "none"
    BY <1>1, <2>3, <2>4 DEF JobOK, Merged, commit
  <2>6. QED
    BY <1>1, <1>4, <2>4, <2>5, JobStepKeeps DEF J, Merge
<1>5. QED
  BY <1>2, <1>3, <1>4 DEF Merge

LEMMA ReadPullRequestStep ==
  ASSUME Inv, NEW r \in Runs, NEW b \in PullRequests, ReadPullRequest(r, b) PROVE Inv'
<1> DEFINE J == job[r][b]
<1>1. J.phase = "ready" /\ J.phase \in Working /\ NotPushed(J) /\ Merged(J, r)
  BY DEF ReadPullRequest, Inv, JobsOK, JobOK, NotPushed, Working
<1>2. check' \in [Runs -> [PullRequests -> {"none", "waiting", "started"}]]
  BY DEF Inv, TypeOK, ReadPullRequest
<1>3. CASE Set(r, b, Finished(J, "stopped"))
  BY <1>1, <1>2, <1>3, FinishStep DEF ReadPullRequest, Statuses
<1>4. CASE Set(r, b, Finished(J, "skipped"))
  BY <1>1, <1>2, <1>4, FinishStep DEF ReadPullRequest, Statuses
<1>5. CASE Set(r, b, [J EXCEPT !.phase = "checked"])
  BY <1>1, <1>5, PhaseStep DEF ReadPullRequest, Working
<1>6. QED
  BY <1>3, <1>4, <1>5 DEF ReadPullRequest

LEMMA PushStep == ASSUME Inv, NEW r \in Runs, NEW b \in PullRequests, Push(r, b) PROVE Inv'
<1> DEFINE J == job[r][b]
           commit == [run |-> r, move |-> 0, main |-> J.main]
           new == [J EXCEPT !.phase = "pushed"]
<1>1. /\ J \in Jobs /\ JobOK(J, r) /\ J.phase = "checked" /\ Merged(J, r) /\ NotPushed(J)
      /\ (J.comment = "read" => J.status \in Statuses /\ (J.found = 1 => comments[b] # <<>>))
      /\ check' \in [Runs -> [PullRequests -> {"none", "waiting", "started"}]]
  BY JobType DEF Inv, TypeOK, JobsOK, JobOK, ReadsOK, Push, NotPushed
<1>2. CASE Set(r, b, Finished(J, "stopped")) /\ UNCHANGED head
  BY <1>1, <1>2, FinishStep DEF Push, Statuses, Working
<1>3. CASE Set(r, b, new) /\ head' = [head EXCEPT ![b] = J.tree]
  <2>1. commit \in Commits /\ J.tree = Append(J.sha, commit) /\ J.sha \in Seq(Commits)
    BY <1>1, Bounds DEF Commits, Jobs, Runs, Merged
  <2>2. J.tree \in Branches /\ \A s : NoneOf(J.tree, s) <=> NoneOf(J.sha, s) /\ commit.run # s
    <3> DEFINE sha == J.sha
    <3>1. commit \in Commits /\ sha \in Seq(Commits) /\ J.tree = Append(sha, commit)
      BY <2>1
    <3> HIDE DEF J, commit, sha
    <3>2. /\ Append(sha, commit) \in Branches
          /\ \A s : NoneOf(Append(sha, commit), s) <=> NoneOf(sha, s) /\ commit.run # s
      BY <3>1, AppendCommit
    <3>3. QED
      BY <3>1, <3>2 DEF sha
  <2>3. commit.run = r
    OBVIOUS
  <2> HIDE DEF J, commit
  <2>4. /\ new \in Jobs /\ new.phase = "pushed" /\ new.status = J.status
        /\ new.sha = J.sha /\ new.main = J.main /\ new.tree = J.tree
        /\ new.comment = J.comment /\ new.found = J.found
    BY <1>1 DEF Jobs, Phases, Working
  <2> HIDE DEF new
  <2>5. JobOK(new, r) /\ new.status = "none" /\ ~NotPushed(new)
    BY <1>1, <2>4 DEF JobOK, Merged, NotPushed
  <2>6. /\ job' \in [Runs -> [PullRequests -> Jobs]]
        /\ job'[r][b] = new
        /\ \A s \in Runs, c \in PullRequests : s # r \/ c # b => job'[s][c] = job[s][c]
    BY <1>3, <2>4, SetJob DEF Inv
  <2>7. /\ head' \in [PullRequests -> Branches] /\ head'[b] = J.tree
        /\ \A c \in PullRequests : c # b => head'[c] = head[c]
    BY <1>3, <2>2 DEF Inv, TypeOK
  <2>8. TypeOK'
    BY <2>6, <2>7 DEF Inv, TypeOK, Push
  <2>9. JobsOK'
    <3>1. ASSUME NEW s \in Runs, NEW c \in PullRequests
          PROVE  JobOK(job'[s][c], s)
      BY <2>5, <2>6 DEF Inv, JobsOK
    <3>2. QED
      BY <3>1 DEF JobsOK, JobOK, Merged, HasMain
  <2>10. ReadsOK' /\ PlansOK' /\ RefreshedIsChecked'
    <3>1. /\ \A s \in Runs, c \in PullRequests :
               /\ job'[s][c].comment = job[s][c].comment
               /\ job'[s][c].status = job[s][c].status
               /\ job'[s][c].found = job[s][c].found
          /\ \A s \in Runs \ {r}, c \in PullRequests : job'[s][c].phase = job[s][c].phase
      BY <2>4, <2>6 DEF J
    <3>2. r \in planned
      BY <1>1 DEF J, Inv, PlansOK
    <3>3. UNCHANGED <<main, planned, check, comments>>
      BY DEF Push
    <3>4. QED
      BY <3>1, <3>2, <3>3 DEF Inv, ReadsOK, PlansOK, RefreshedIsChecked
  <2>11. UnpushedUnseen'
    <3>1. ASSUME NEW s \in Runs, NEW c \in PullRequests, NotPushed(job'[s][c])
          PROVE  NoneOf(head'[c], s) /\ \A q \in Runs : NoneOf(job'[q][c].sha, s)
      <4>1. s # r \/ c # b
        BY <2>5, <2>6, <3>1
      <4>2. NoneOf(head[c], s) /\ \A q \in Runs : NoneOf(job[q][c].sha, s)
        BY <2>6, <3>1, <4>1 DEF Inv, UnpushedUnseen
      <4>3. \A q \in Runs : job'[q][c].sha = job[q][c].sha
        BY <2>4, <2>6 DEF J
      <4>4. NoneOf(head'[c], s)
        BY <2>2, <2>3, <2>7, <4>1, <4>2 DEF J
      <4>5. QED
        BY <4>2, <4>3, <4>4
    <3>2. QED
      BY <3>1 DEF UnpushedUnseen, NoneOf, NotPushed
  <2>12. QED
    BY <2>8, <2>9, <2>10, <2>11 DEF Inv
<1>4. QED
  BY <1>2, <1>3 DEF Push

LEMMA DispatchStep == ASSUME Inv, NEW r \in Runs, NEW b \in PullRequests, Dispatch(r, b) PROVE Inv'
<1> DEFINE J == job[r][b]
<1>1. J.phase = "pushed" /\ J.phase \in Working /\ Merged(J, r)
  BY DEF Dispatch, Inv, JobsOK, JobOK, Working
<1>2. check' \in [Runs -> [PullRequests -> {"none", "waiting", "started"}]]
  BY DEF Inv, TypeOK, Dispatch
<1>3. CASE Set(r, b, [J EXCEPT !.phase = "dispatched"])
  BY <1>1, <1>3, PhaseStep DEF Dispatch, Working
<1>4. CASE Set(r, b, Finished(J, FailedDispatch))
  BY <1>1, <1>2, <1>4, FinishStep DEF Dispatch, Statuses, FailedDispatch
<1>5. QED
  BY <1>3, <1>4 DEF Dispatch

LEMMA CreateCheckStep ==
  ASSUME Inv, NEW r \in Runs, NEW b \in PullRequests, CreateCheck(r, b) PROVE Inv'
<1>1. PICK state \in {"waiting", "started"} : check' = [check EXCEPT ![r][b] = state]
  BY DEF CreateCheck
<1>2. check' \in [Runs -> [PullRequests -> {"none", "waiting", "started"}]]
  BY <1>1 DEF Inv, TypeOK
<1>3. \A s \in Runs, c \in PullRequests : check[s][c] = "started" => check'[s][c] = "started"
  BY <1>1 DEF Inv, TypeOK, CreateCheck
<1>4. moves' \in 0..MaxMoves /\ opted' \in SUBSET PullRequests
  BY DEF Inv, TypeOK, CreateCheck
<1>5. QED
  BY <1>2, <1>3, <1>4, OtherStepKeeps DEF CreateCheck

LEMMA PollStep == ASSUME Inv, NEW r \in Runs, NEW b \in PullRequests, Poll(r, b) PROVE Inv'
<1> DEFINE J == job[r][b]
<1>1. J.phase = "dispatched" /\ J.phase \in Working /\ Merged(J, r)
  BY DEF Poll, Inv, JobsOK, JobOK, Working
<1>2. check \in [Runs -> [PullRequests -> {"none", "waiting", "started"}]]
  BY DEF Inv, TypeOK
<1>3. CASE Running(check[r][b]) /\ Set(r, b, Finished(J, "refreshed")) /\ UNCHANGED check
  BY <1>1, <1>2, <1>3, FinishStep DEF Poll, Statuses, Running
<1>4. CASE /\ Set(r, b, Finished(J, "refreshed"))
           /\ check' = [check EXCEPT ![r][b] = "started"]
  <2>1. /\ check' \in [Runs -> [PullRequests -> {"none", "waiting", "started"}]]
        /\ check'[r][b] = "started"
        /\ \A s \in Runs, c \in PullRequests : check[s][c] = "started" => check'[s][c] = "started"
    BY <1>2, <1>4
  <2>2. QED
    BY <1>1, <1>4, <2>1, FinishStep DEF Poll, Statuses
<1>5. CASE Set(r, b, Finished(J, "attention")) /\ UNCHANGED check
  BY <1>1, <1>2, <1>5, FinishStep DEF Poll, Statuses
<1>6. QED
  BY <1>3, <1>4, <1>5 DEF Poll

-----------------------------------------------------------------------------
(* The comment job.                                                        *)

LEMMA LoseOutcomeStep ==
  ASSUME Inv, NEW r \in Runs, NEW b \in PullRequests, LoseOutcome(r, b) PROVE Inv'
<1> DEFINE J == job[r][b]
           new == [J EXCEPT !.comment = "lost"]
<1>1. /\ J \in Jobs /\ JobOK(J, r) /\ J.phase = "done" /\ Set(r, b, new)
      /\ check' \in [Runs -> [PullRequests -> {"none", "waiting", "started"}]]
      /\ J.status = "refreshed" => check[r][b] = "started"
  BY JobType DEF Inv, TypeOK, JobsOK, LoseOutcome, RefreshedIsChecked
<1> HIDE DEF J
<1>2. /\ new \in Jobs /\ new.phase = J.phase /\ new.status = J.status
      /\ new.sha = J.sha /\ new.main = J.main /\ new.tree = J.tree
      /\ new.comment = "lost" /\ new.found = J.found
  BY <1>1 DEF Jobs
<1> HIDE DEF new
<1>3. JobOK(new, r) /\ (NotPushed(new) => NotPushed(J))
  BY <1>1, <1>2 DEF JobOK, Merged, HasMain, NotPushed
<1>4. new.status = "refreshed" => check'[r][b] = "started"
  BY <1>1, <1>2 DEF LoseOutcome
<1>5. QED
  BY <1>1, <1>2, <1>3, <1>4, JobStepKeeps DEF J, LoseOutcome

LEMMA CommentsFailStep == ASSUME Inv, NEW r \in Runs, CommentsFail(r) PROVE Inv'
<1>1. TypeOK'
  BY DEF Inv, TypeOK, CommentsFail
<1>2. JobsOK' /\ ReadsOK' /\ PlansOK' /\ UnpushedUnseen' /\ RefreshedIsChecked'
  BY DEF Inv, CommentsFail, JobsOK, ReadsOK, PlansOK, UnpushedUnseen, RefreshedIsChecked,
         JobOK, Merged, HasMain, NotPushed, NoneOf
<1>3. QED
  BY <1>1, <1>2 DEF Inv

LEMMA ReadCommentsStep ==
  ASSUME Inv, NEW r \in Runs, NEW b \in PullRequests, ReadComments(r, b) PROVE Inv'
<1> DEFINE J == job[r][b]
           found == IF comments[b] = <<>> THEN 0 ELSE 1
           tells == J.status \in {"stopped", "attention"} \/ (J.status = "refreshed" /\ found # 0)
           comment == IF tells THEN "read" ELSE "silent"
           new == [J EXCEPT !.comment = comment, !.found = found]
<1>1. /\ J \in Jobs /\ JobOK(J, r) /\ J.phase = "done"
      /\ check' \in [Runs -> [PullRequests -> {"none", "waiting", "started"}]]
      /\ J.status = "refreshed" => check[r][b] = "started"
  BY JobType DEF Inv, TypeOK, JobsOK, ReadComments, ToTell, RefreshedIsChecked
<1>2. Set(r, b, new)
  BY DEF ReadComments
<1>3. /\ comment \in {"read", "silent"} /\ found \in {0, 1}
      /\ comment = "read" => J.status \in Statuses
      /\ found = 1 => comments[b] # <<>>
  BY DEF Statuses
<1> HIDE DEF J, comment, found, tells
<1>4. /\ new \in Jobs /\ new.phase = J.phase /\ new.status = J.status
      /\ new.sha = J.sha /\ new.main = J.main /\ new.tree = J.tree
      /\ new.comment = comment /\ new.found = found
  BY <1>1, <1>3 DEF Jobs
<1> HIDE DEF new
<1>5. JobOK(new, r) /\ (NotPushed(new) => NotPushed(J))
  BY <1>1, <1>4 DEF JobOK, Merged, HasMain, NotPushed
<1>6. new.status = "refreshed" => check'[r][b] = "started"
  BY <1>1, <1>4 DEF ReadComments
<1>7. QED
  BY <1>1, <1>2, <1>3, <1>4, <1>5, <1>6, JobStepKeeps DEF J, ReadComments

LEMMA WriteCommentStep ==
  ASSUME Inv, NEW r \in Runs, NEW b \in PullRequests, WriteComment(r, b) PROVE Inv'
<1> DEFINE J == job[r][b]
           text == [run |-> r, main |-> J.main, status |-> J.status]
           new == [J EXCEPT !.comment = "written"]
<1>1. /\ J \in Jobs /\ JobOK(J, r) /\ J.comment = "read" /\ J.status \in Statuses
      /\ (J.found = 1 => comments[b] # <<>>) /\ J.found \in {0, 1}
      /\ J.status = "refreshed" => check[r][b] = "started"
      /\ Set(r, b, new)
      /\ comments' = IF J.found = 0 THEN [comments EXCEPT ![b] = Append(@, text)]
                     ELSE [comments EXCEPT ![b][J.found] = text]
  BY JobType DEF Inv, Jobs, JobsOK, ReadsOK, RefreshedIsChecked, WriteComment
<1>2. text \in Texts
  BY <1>1 DEF Jobs, Texts
<1> HIDE DEF J, text
<1>3. /\ new \in Jobs /\ new.phase = J.phase /\ new.status = J.status
      /\ new.sha = J.sha /\ new.main = J.main /\ new.tree = J.tree
      /\ new.comment = "written" /\ new.found = J.found
  BY <1>1 DEF Jobs
<1> HIDE DEF new
<1>4. /\ job' \in [Runs -> [PullRequests -> Jobs]]
      /\ job'[r][b] = new
      /\ \A s \in Runs, c \in PullRequests : s # r \/ c # b => job'[s][c] = job[s][c]
  BY <1>1, <1>3, SetJob DEF Inv
<1>5. /\ comments' \in [PullRequests -> Seq(Texts)]
      /\ \A c \in PullRequests : comments[c] # <<>> => comments'[c] # <<>>
  <2>1. comments \in [PullRequests -> Seq(Texts)]
    BY DEF Inv, TypeOK
  <2>2. CASE J.found = 0
    <3>1. comments' = [comments EXCEPT ![b] = Append(comments[b], text)]
      BY <1>1, <2>1, <2>2
    <3>2. Append(comments[b], text) \in Seq(Texts) /\ Append(comments[b], text) # <<>>
      BY <1>2, <2>1
    <3>3. QED
      BY <2>1, <3>1, <3>2
  <2>3. CASE J.found = 1
    <3> DEFINE kept == comments[b]
               edited == [kept EXCEPT ![1] = text]
    <3>1. comments' = [comments EXCEPT ![b] = edited]
      BY <1>1, <2>1, <2>3
    <3>2. kept \in Seq(Texts) /\ kept # <<>>
      BY <1>1, <2>1, <2>3
    <3> HIDE DEF kept
    <3>3. edited \in Seq(Texts) /\ edited # <<>>
      BY <1>2, <3>2
    <3> HIDE DEF edited
    <3>4. QED
      BY <2>1, <3>1, <3>3
  <2>4. QED
    BY <1>1, <2>2, <2>3
<1>6. UNCHANGED <<main, moves, opted, head, planned, check, untold>>
  BY DEF WriteComment
<1>7. TypeOK'
  BY <1>4, <1>5, <1>6 DEF Inv, TypeOK
<1>8. \A s \in Runs, c \in PullRequests :
        /\ job'[s][c].sha = job[s][c].sha /\ job'[s][c].phase = job[s][c].phase
        /\ job'[s][c].status = job[s][c].status
        /\ job'[s][c].found = job[s][c].found
        /\ (job'[s][c].comment = "read" => job[s][c].comment = "read")
        /\ JobOK(job'[s][c], s)
  <2>1. JobOK(new, r)
    BY <1>1, <1>3 DEF JobOK, Merged, HasMain
  <2>2. QED
    BY <1>3, <1>4, <2>1 DEF J, Inv, JobsOK
<1>9. JobsOK'
  <2>1. \A s \in Runs, c \in PullRequests : JobOK(job'[s][c], s)
    BY <1>8
  <2>2. QED
    BY <2>1 DEF JobsOK, JobOK, Merged, HasMain
<1>10. ReadsOK'
  BY <1>5, <1>8 DEF Inv, ReadsOK
<1>11. PlansOK' /\ RefreshedIsChecked'
  BY <1>6, <1>8 DEF Inv, PlansOK, RefreshedIsChecked
<1>12. UnpushedUnseen'
  <2>1. ASSUME NEW s \in Runs, NEW c \in PullRequests, NotPushed(job'[s][c])
        PROVE  NoneOf(head'[c], s) /\ \A q \in Runs : NoneOf(job'[q][c].sha, s)
    <3>1. NotPushed(job[s][c])
      BY <1>8, <2>1 DEF NotPushed
    <3>2. QED
      BY <1>6, <1>8, <3>1 DEF Inv, UnpushedUnseen
  <2>2. QED
    BY <2>1 DEF UnpushedUnseen, NoneOf, NotPushed
<1>13. QED
  BY <1>7, <1>9, <1>10, <1>11, <1>12 DEF Inv

-----------------------------------------------------------------------------
(* The authors.                                                            *)

(* What an author does to a branch, from a run of no number.               *)
LEMMA AuthorStep ==
  ASSUME Inv, NEW b \in PullRequests, NEW commits \in Branches,
         \A s \in Runs : NoneOf(head[b], s) => NoneOf(commits, s),
         head' = [head EXCEPT ![b] = commits], moves' \in 0..MaxMoves,
         UNCHANGED <<main, opted, planned, job, check, comments, untold>>
  PROVE  Inv'
<1>1. /\ head' \in [PullRequests -> Branches] /\ head'[b] = commits
      /\ \A c \in PullRequests : c # b => head'[c] = head[c]
  BY DEF Inv, TypeOK
<1>2. TypeOK'
  BY <1>1 DEF Inv, TypeOK
<1>3. JobsOK' /\ ReadsOK' /\ PlansOK' /\ RefreshedIsChecked'
  BY DEF Inv, JobsOK, JobOK, Merged, HasMain, ReadsOK, PlansOK, RefreshedIsChecked
<1>4. UnpushedUnseen'
  <2>1. ASSUME NEW s \in Runs, NEW c \in PullRequests, NotPushed(job[s][c])
        PROVE  NoneOf(head'[c], s) /\ \A q \in Runs : NoneOf(job[q][c].sha, s)
    BY <1>1, <2>1 DEF Inv, UnpushedUnseen
  <2>2. job' = job
    OBVIOUS
  <2>3. QED
    BY <2>1, <2>2 DEF UnpushedUnseen, NoneOf, NotPushed
<1>5. QED
  BY <1>2, <1>3, <1>4 DEF Inv

LEMMA AuthorPushesStep == ASSUME Inv, NEW b \in PullRequests, AuthorPushes(b) PROVE Inv'
<1>1. PICK m \in {Last(head[b]).main, main} :
        head' = [head EXCEPT ![b] = Append(@, [run |-> 0, move |-> moves', main |-> m])]
  BY DEF AuthorPushes
<1> DEFINE commit == [run |-> 0, move |-> moves', main |-> m]
           before == head[b]
<1>2. before \in Seq(Commits) /\ before # <<>>
  BY DEF Inv, TypeOK, Branches
<1>3. moves' \in 0..MaxMoves
  BY Bounds DEF Inv, TypeOK, AuthorPushes, Move
<1>4. m \in 0..MaxMain
  <2>1. Last(before) \in Commits
    <3> HIDE DEF before
    <3>1. QED
      BY <1>2 DEF Last
  <2>2. QED
    BY <1>1, <2>1 DEF Inv, TypeOK, Commits
<1>5. commit \in Commits /\ commit.run = 0
  BY <1>3, <1>4, Bounds DEF Commits
<1>6. head' = [head EXCEPT ![b] = Append(before, commit)]
  BY <1>1 DEF Inv, TypeOK
<1> HIDE DEF commit, before
<1>7. /\ Append(before, commit) \in Branches
      /\ \A s : NoneOf(Append(before, commit), s) <=> NoneOf(before, s) /\ commit.run # s
  BY <1>2, <1>5, AppendCommit
<1>8. \A s \in Runs : NoneOf(before, s) => NoneOf(Append(before, commit), s)
  BY <1>5, <1>7, Bounds DEF Runs
<1>9. QED
  BY <1>3, <1>6, <1>7, <1>8, AuthorStep DEF before, AuthorPushes

LEMMA AuthorTakesBackStep == ASSUME Inv, NEW b \in PullRequests, AuthorTakesBack(b) PROVE Inv'
<1> DEFINE before == head[b]
<1>1. before \in Seq(Commits) /\ Len(before) > 1
  BY DEF Inv, TypeOK, Branches, AuthorTakesBack
<1>2. moves' \in 0..MaxMoves
  BY Bounds DEF Inv, TypeOK, AuthorTakesBack, Move
<1>3. head' = [head EXCEPT ![b] = Front(before)]
  BY DEF Inv, TypeOK, AuthorTakesBack
<1> HIDE DEF before
<1>4. /\ Front(before) \in Branches
      /\ \A i \in DOMAIN Front(before) : i \in DOMAIN before /\ Front(before)[i] = before[i]
  <2>1. Front(before) \in Seq(Commits) /\ Len(Front(before)) = Len(before) - 1
        /\ \A i \in 1..(Len(before) - 1) : Front(before)[i] = before[i]
    BY <1>1 DEF Front
  <2>2. QED
    BY <1>1, <2>1 DEF Branches
<1>5. \A s : NoneOf(before, s) => NoneOf(Front(before), s)
  BY <1>4 DEF NoneOf
<1>6. QED
  BY <1>2, <1>3, <1>4, <1>5, AuthorStep DEF before, AuthorTakesBack

LEMMA AuthorOptsStep == ASSUME Inv, NEW b \in PullRequests, AuthorOpts(b) PROVE Inv'
<1>1. moves' \in 0..MaxMoves /\ opted' \in SUBSET PullRequests
  BY Bounds DEF Inv, TypeOK, AuthorOpts, Move
<1>2. check' \in [Runs -> [PullRequests -> {"none", "waiting", "started"}]]
  BY DEF Inv, TypeOK, AuthorOpts
<1>3. QED
  BY <1>1, <1>2, OtherStepKeeps DEF AuthorOpts

-----------------------------------------------------------------------------

LEMMA InitInv == Init => Inv
<1> SUFFICES ASSUME Init
             PROVE  Inv
  OBVIOUS
<1>1. Unplanned \in Jobs
  BY Bounds DEF Unplanned, Jobs, Phases
<1>2. \A r : JobOK(Unplanned, r)
  BY DEF Unplanned, JobOK
<1>3. \A r \in Runs, b \in PullRequests : job[r][b] = Unplanned
  BY DEF Init
<1>4. TypeOK
  <2>1. <<[run |-> 0, move |-> 0, main |-> 0]>> \in Branches
    BY Bounds DEF Branches, Commits
  <2>2. QED
    BY <1>1, <2>1, Bounds DEF Init, TypeOK
<1>5. JobsOK /\ ReadsOK
  BY <1>2, <1>3 DEF JobsOK, ReadsOK, Unplanned
<1>6. PlansOK /\ RefreshedIsChecked
  BY <1>3 DEF Init, PlansOK, RefreshedIsChecked, Unplanned
<1>7. UnpushedUnseen
  <2>1. \A r \in Runs, b \in PullRequests : NoneOf(head[b], r) /\ NoneOf(Unplanned.sha, r)
    BY Bounds DEF Init, NoneOf, Unplanned, Runs
  <2>2. QED
    BY <1>3, <2>1 DEF UnpushedUnseen
<1>8. QED
  BY <1>4, <1>5, <1>6, <1>7 DEF Inv

LEMMA NextInv == Inv /\ [Next]_vars => Inv'
<1> SUFFICES ASSUME Inv, [Next]_vars
             PROVE  Inv'
  OBVIOUS
<1>1. CASE PushMain
  BY <1>1, PushMainStep
<1>2. ASSUME NEW r \in Runs, Plan(r) \/ PlanFails(r) \/ CommentsFail(r)
      PROVE  Inv'
  BY <1>2, PlanStep, PlanFailsStep, CommentsFailStep
<1>3. ASSUME NEW r \in Runs, NEW b \in PullRequests, JobStep(r, b)
      PROVE  Inv'
  BY <1>3, StartStep, MergeStep, ReadPullRequestStep, PushStep, DispatchStep, PollStep,
     ReadCommentsStep, WriteCommentStep DEF JobStep
<1>4. ASSUME NEW r \in Runs, NEW b \in PullRequests,
             TimeOut(r, b) \/ LoseOutcome(r, b) \/ CreateCheck(r, b)
      PROVE  Inv'
  BY <1>4, TimeOutStep, LoseOutcomeStep, CreateCheckStep
<1>5. ASSUME NEW b \in PullRequests, AuthorPushes(b) \/ AuthorTakesBack(b) \/ AuthorOpts(b)
      PROVE  Inv'
  BY <1>5, AuthorPushesStep, AuthorTakesBackStep, AuthorOptsStep
<1>6. CASE UNCHANGED vars
  BY <1>6 DEF vars, Inv, TypeOK, JobsOK, ReadsOK, PlansOK, UnpushedUnseen, RefreshedIsChecked,
              JobOK, Merged, HasMain, NotPushed, NoneOf
<1>7. QED
  BY <1>1, <1>2, <1>3, <1>4, <1>5, <1>6 DEF Next

LEMMA SpecInv == Spec => []Inv
BY InitInv, NextInv, PTL DEF Spec

-----------------------------------------------------------------------------
(* The results.                                                            *)

(* No branch is ever left without a commit, every job of the workflow is   *)
(* in one of its phases, and its comments are on outcomes, for any number  *)
(* of pull requests, runs and moves (refresh-generated.yml).               *)
THEOREM BotTypesHold == Spec => []TypeOK
<1>1. Inv => TypeOK
  BY DEF Inv
<1>2. QED
  BY <1>1, SpecInv, PTL

LEMMA InvCovers == Inv => OutcomeCoversRun
<1> SUFFICES ASSUME Inv, NEW r \in Runs, NEW b \in PullRequests,
                    job[r][b].status \in {"up_to_date", "attention", "refreshed"}
             PROVE  HasMain(IF job[r][b].tree = <<>> THEN job[r][b].sha ELSE job[r][b].tree, r)
  BY DEF OutcomeCoversRun
<1> DEFINE J == job[r][b]
           sha == J.sha
           commit == [run |-> r, move |-> 0, main |-> J.main]
<1>1. J \in Jobs /\ JobOK(J, r) /\ J.status \in {"up_to_date", "attention", "refreshed"}
  BY JobType DEF Inv, JobsOK
<1>2. J.main >= r /\ sha \in Seq(Commits) /\ sha # <<>> /\ J.main \in 0..MaxMain
  BY <1>1 DEF JobOK, Jobs
<1>3. CASE J.status = "up_to_date"
  <2>1. J.tree = <<>> /\ Last(sha).main >= J.main
    BY <1>1, <1>3 DEF JobOK, HasMain
  <2>2. Last(sha) \in Commits
    <3> HIDE DEF sha
    <3>1. QED
      BY <1>2 DEF Last
  <2>3. Last(sha).main >= r
    BY <1>2, <2>1, <2>2, Bounds DEF Commits, Runs
  <2>4. QED
    BY <2>1, <2>3 DEF HasMain
<1>4. CASE J.status # "up_to_date"
  <2>1. J.tree = Append(sha, commit)
    BY <1>1, <1>4 DEF JobOK, Merged
  <2>2. commit \in Commits /\ commit.main = J.main
    BY <1>2, Bounds DEF Commits, Runs
  <2>3. J.tree # <<>> /\ Last(J.tree) = commit
    <3> HIDE DEF commit, sha
    <3>1. QED
      BY <1>2, <2>1, <2>2, AppendCommit DEF Branches
  <2>4. QED
    BY <1>2, <2>2, <2>3 DEF HasMain
<1>5. QED
  BY <1>3, <1>4

(* What the comment job tells an author is true of the branch, for any     *)
(* number of overlapping runs, cancelled jobs and moves of the author: a   *)
(* run that says the branch has main gave it the main that started the     *)
(* run, one that stopped or skipped changed nothing, and after a refresh   *)
(* the check runs (refresh-generated.yml, jobs refresh and comment).       *)
THEOREM OutcomesStayTrue == Spec => []OutcomesAreTrue
<1>1. Inv => OutcomesAreTrue
  <2> SUFFICES ASSUME Inv
               PROVE  OutcomesAreTrue
    OBVIOUS
  <2>1. OutcomeCoversRun
    BY InvCovers
  <2>2. StoppedChangedNothing
    BY DEF Inv, UnpushedUnseen, NotPushed, NoneOf, StoppedChangedNothing
  <2>3. QED
    BY <2>1, <2>2 DEF Inv, OutcomesAreTrue
<1>2. QED
  BY <1>1, SpecInv, PTL

-----------------------------------------------------------------------------
(* The mains of a branch.                                                  *)

(* No commit contains a newer main than a later one.                       *)
Ordered(commits) == \A i, j \in DOMAIN commits : i <= j => commits[i].main <= commits[j].main

(* Branches and what jobs checked out are ordered, and hold no main that   *)
(* is not there yet; what a job will push has a newer main at its end.     *)
MainsOK ==
  /\ \A b \in PullRequests : Ordered(head[b]) /\ Last(head[b]).main <= main
  /\ \A r \in Runs, b \in PullRequests :
       /\ Ordered(job[r][b].sha) /\ job[r][b].main <= main
       /\ job[r][b].phase \in {"ready", "checked"} => Last(job[r][b].sha).main < job[r][b].main

LEMMA LastCommit ==
  ASSUME NEW commits \in Seq(Commits), commits # <<>>
  PROVE  /\ Len(commits) \in DOMAIN commits /\ Last(commits) = commits[Len(commits)]
         /\ Last(commits).main \in Nat /\ \A i \in DOMAIN commits : commits[i].main \in Nat
<1>1. Len(commits) \in Nat /\ Len(commits) # 0 /\ DOMAIN commits = 1..Len(commits)
      /\ \A i \in DOMAIN commits : commits[i] \in Commits
  OBVIOUS
<1>2. Last(commits) = commits[Len(commits)]
  BY DEF Last
<1>3. QED
  BY <1>1, <1>2, Bounds DEF Commits

LEMMA AppendOrdered ==
  ASSUME NEW commits \in Seq(Commits), commits # <<>>, Ordered(commits), NEW c \in Commits,
         Last(commits).main <= c.main
  PROVE  Ordered(Append(commits, c))
<1> DEFINE all == Append(commits, c)
<1>1. /\ Len(commits) \in Nat /\ DOMAIN commits = 1..Len(commits)
      /\ DOMAIN all = 1..(Len(commits) + 1) /\ all[Len(commits) + 1] = c
      /\ \A i \in DOMAIN commits : all[i] = commits[i]
  OBVIOUS
<1>2. /\ Len(commits) \in DOMAIN commits /\ Last(commits) = commits[Len(commits)]
      /\ \A i \in DOMAIN commits : commits[i].main \in Nat
      /\ c.main \in Nat
  <2>1. c.main \in Nat
    BY Bounds DEF Commits
  <2>2. QED
    BY <2>1, LastCommit
<1> HIDE DEF all
<1>3. ASSUME NEW i \in DOMAIN all, NEW j \in DOMAIN all, i <= j
      PROVE  all[i].main <= all[j].main
  <2>1. CASE j \in DOMAIN commits
    BY <1>1, <1>3, <2>1 DEF Ordered
  <2>2. CASE j = Len(commits) + 1 /\ i \in DOMAIN commits
    <3>1. commits[i].main <= Last(commits).main
      BY <1>1, <1>2, <2>2 DEF Ordered
    <3>2. QED
      BY <1>1, <1>2, <2>2, <3>1
  <2>3. CASE j = Len(commits) + 1 /\ i = j
    BY <1>1, <1>2, <2>3
  <2>4. QED
    BY <1>1, <1>3, <2>1, <2>2, <2>3
<1>4. QED
  BY <1>3 DEF Ordered, all

(* The start of an ordered branch ends no later.                           *)
LEMMA StartOrdered ==
  ASSUME NEW commits \in Seq(Commits), Ordered(commits), NEW start \in Seq(Commits),
         start # <<>>, Len(start) <= Len(commits),
         \A i \in DOMAIN start : start[i] = commits[i]
  PROVE  Ordered(start) /\ Last(start).main <= Last(commits).main
<1>1. /\ Len(start) \in Nat /\ DOMAIN start = 1..Len(start)
      /\ Len(commits) \in Nat /\ DOMAIN commits = 1..Len(commits)
  OBVIOUS
<1>2. commits # <<>> /\ Len(start) \in DOMAIN start /\ Last(start) = start[Len(start)]
  BY <1>1, LastCommit
<1>3. Len(commits) \in DOMAIN commits /\ Last(commits) = commits[Len(commits)]
  BY <1>2, LastCommit
<1>4. Ordered(start)
  BY <1>1 DEF Ordered
<1>5. QED
  BY <1>1, <1>2, <1>3, <1>4 DEF Ordered

LEMMA InitMains == Init => MainsOK
<1> SUFFICES ASSUME Init
             PROVE  MainsOK
  OBVIOUS
<1> DEFINE first == <<[run |-> 0, move |-> 0, main |-> 0]>>
<1>1. Ordered(first) /\ Last(first).main = 0
  BY DEF Ordered, Last
<1>2. Ordered(<<>>)
  BY DEF Ordered
<1>3. \A b \in PullRequests : head[b] = first
  BY DEF Init
<1>4. \A r \in Runs, b \in PullRequests :
        job[r][b].sha = <<>> /\ job[r][b].main = 0 /\ job[r][b].phase = "none"
  BY DEF Init, Unplanned
<1>5. main = 0
  BY DEF Init
<1> HIDE DEF first
<1>6. QED
  BY <1>1, <1>2, <1>3, <1>4, <1>5 DEF MainsOK

(* A step that keeps the branches; a job then looks at a branch as it is,  *)
(* at main as it is, or at what it had, and is ready only once it merged.  *)
LEMMA QuietMains ==
  ASSUME Inv, MainsOK, main' \in Nat, main <= main', UNCHANGED head,
         \A r \in Runs, b \in PullRequests :
           /\ job'[r][b].sha \in {job[r][b].sha, head[b], <<>>}
           /\ job'[r][b].main \in {job[r][b].main, main, 0}
           /\ job'[r][b].phase \in {"ready", "checked"} =>
                /\ job'[r][b].sha = job[r][b].sha /\ job'[r][b].main = job[r][b].main
                /\ Last(job[r][b].sha).main < job[r][b].main
  PROVE  MainsOK'
<1>1. main \in Nat
  BY Bounds DEF Inv, TypeOK
<1>2. ASSUME NEW b \in PullRequests
      PROVE  Ordered(head'[b]) /\ Last(head'[b]).main <= main'
  <2>1. head[b] \in Seq(Commits) /\ head[b] # <<>>
    BY JobType DEF Inv, TypeOK, Branches
  <2>2. Last(head[b]).main \in Nat
    BY <2>1, LastCommit
  <2>3. Ordered(head[b]) /\ Last(head[b]).main <= main
    BY DEF MainsOK
  <2>4. QED
    BY <1>1, <2>2, <2>3
<1>3. ASSUME NEW r \in Runs, NEW b \in PullRequests
      PROVE  /\ Ordered(job'[r][b].sha) /\ job'[r][b].main <= main'
             /\ job'[r][b].phase \in {"ready", "checked"} =>
                  Last(job'[r][b].sha).main < job'[r][b].main
  <2>1. job[r][b].main \in Nat /\ job[r][b].main <= main /\ Ordered(job[r][b].sha)
    BY JobType, Bounds DEF Inv, Jobs, MainsOK
  <2>2. job'[r][b].main <= main'
    BY <1>1, <2>1
  <2>3. Ordered(<<>>) /\ Ordered(head[b])
    BY DEF Ordered, MainsOK
  <2>4. QED
    BY <2>1, <2>2, <2>3
<1>4. \A b \in PullRequests : Ordered(head[b])' /\ (Last(head[b]).main <= main)'
  BY <1>2 DEF Ordered, Last
<1>5. \A r \in Runs, b \in PullRequests :
        /\ Ordered(job[r][b].sha)' /\ (job[r][b].main <= main)'
        /\ (job[r][b].phase \in {"ready", "checked"})' =>
             (Last(job[r][b].sha).main < job[r][b].main)'
  BY <1>3 DEF Ordered, Last
<1>6. QED
  BY <1>4, <1>5 DEF MainsOK

(* A step of one job that keeps the branches.                              *)
LEMMA JobMains ==
  ASSUME Inv, MainsOK, NEW r \in Runs, NEW b \in PullRequests, NEW new, Set(r, b, new),
         UNCHANGED <<main, head>>, new.sha = job[r][b].sha, new.main = job[r][b].main,
         new.phase \in {"ready", "checked"} =>
           Last(job[r][b].sha).main < job[r][b].main
  PROVE  MainsOK'
<1>1. /\ job'[r][b] = new
      /\ \A s \in Runs, c \in PullRequests : s # r \/ c # b => job'[s][c] = job[s][c]
  BY DEF Inv, TypeOK, Set
<1>2. main \in Nat
  BY Bounds DEF Inv, TypeOK
<1>3. ASSUME NEW s \in Runs, NEW c \in PullRequests
      PROVE  /\ job'[s][c].sha = job[s][c].sha /\ job'[s][c].main = job[s][c].main
             /\ job'[s][c].phase \in {"ready", "checked"} =>
                  Last(job[s][c].sha).main < job[s][c].main
  BY <1>1 DEF MainsOK
<1>4. QED
  BY <1>2, <1>3, QuietMains

LEMMA JobStepMains ==
  ASSUME Inv, MainsOK, NEW r \in Runs, NEW b \in PullRequests,
         Merge(r, b) \/ ReadPullRequest(r, b) \/ Dispatch(r, b) \/ Poll(r, b)
           \/ ReadComments(r, b) \/ WriteComment(r, b) \/ TimeOut(r, b) \/ LoseOutcome(r, b)
  PROVE  MainsOK'
<1> DEFINE J == job[r][b]
<1>1. J \in Jobs /\ JobOK(J, r)
      /\ (J.phase = "ready" => Last(J.sha).main < J.main)
  BY JobType DEF Inv, JobsOK, MainsOK
<1>2. UNCHANGED <<main, head>>
  BY DEF Merge, ReadPullRequest, Dispatch, Poll, ReadComments, WriteComment, TimeOut, LoseOutcome
<1>3. ASSUME NEW status, Set(r, b, Finished(J, status))
      PROVE  MainsOK'
  <2> DEFINE new == Finished(J, status)
  <2>1. new.sha = J.sha /\ new.main = J.main /\ new.phase = "done"
    BY <1>1 DEF Finished, Jobs
  <2> HIDE DEF new
  <2>2. QED
    BY <1>2, <1>3, <2>1, JobMains DEF new
<1>4. ASSUME NEW phase, Set(r, b, [J EXCEPT !.phase = phase]),
             phase \in {"ready", "checked"} => Last(J.sha).main < J.main
      PROVE  MainsOK'
  <2> DEFINE new == [J EXCEPT !.phase = phase]
  <2>1. new.sha = J.sha /\ new.main = J.main /\ new.phase = phase
    BY <1>1 DEF Jobs
  <2> HIDE DEF new
  <2>2. QED
    BY <1>2, <1>4, <2>1, JobMains DEF new
<1>5. ASSUME NEW comment, J.phase \in {"done", "cancelled", "none", "planned"},
             Set(r, b, [J EXCEPT !.comment = comment])
      PROVE  MainsOK'
  <2> DEFINE new == [J EXCEPT !.comment = comment]
  <2>1. new.sha = J.sha /\ new.main = J.main /\ new.phase = J.phase
    BY <1>1 DEF Jobs
  <2> HIDE DEF new
  <2>2. QED
    BY <1>2, <1>5, <2>1, JobMains DEF new
<1>6. CASE Merge(r, b)
  <2>1. CASE Set(r, b, Finished(J, "up_to_date")) \/ Set(r, b, Finished(J, "stopped"))
    BY <1>3, <2>1
  <2>2. CASE /\ ~UpToDate(J)
             /\ Set(r, b, [J EXCEPT !.phase = "ready",
                                    !.tree = Append(J.sha, [run |-> r, move |-> 0, main |-> J.main])])
    <3> DEFINE new == [J EXCEPT !.phase = "ready",
                                !.tree = Append(J.sha, [run |-> r, move |-> 0, main |-> J.main])]
    <3>1. new.sha = J.sha /\ new.main = J.main
      BY <1>1 DEF Jobs
    <3>2. J.sha \in Seq(Commits) /\ J.sha # <<>> /\ J.main \in Nat
      BY <1>1, Bounds, <1>6 DEF Jobs, JobOK, Merge
    <3>3. Last(J.sha).main \in Nat
      <4> DEFINE sha == J.sha
      <4> HIDE DEF sha, J
      <4>1. Last(sha).main \in Nat
        BY <3>2, LastCommit DEF sha
      <4>2. QED
        BY <4>1 DEF sha
    <3>4. Last(J.sha).main < J.main
      BY <2>2, <3>2, <3>3 DEF UpToDate, HasMain
    <3>5. Set(r, b, new)
      BY <2>2
    <3> HIDE DEF new
    <3>6. QED
      BY <1>2, <3>1, <3>4, <3>5, JobMains
  <2>3. QED
    BY <1>6, <2>1, <2>2 DEF Merge
<1>7. CASE ReadPullRequest(r, b)
  BY <1>1, <1>3, <1>4, <1>7 DEF ReadPullRequest
<1>8. CASE Dispatch(r, b)
  BY <1>3, <1>4, <1>8 DEF Dispatch
<1>9. CASE Poll(r, b)
  BY <1>3, <1>9 DEF Poll
<1>10. CASE ReadComments(r, b)
  <2>1. J.phase = "done"
    BY <1>10 DEF ReadComments, ToTell
  <2> DEFINE found == IF comments[b] = <<>> THEN 0 ELSE 1
             tells == J.status \in {"stopped", "attention"} \/ (J.status = "refreshed" /\ found # 0)
             comment == IF tells THEN "read" ELSE "silent"
             new == [J EXCEPT !.comment = comment, !.found = found]
  <2>2. new.sha = J.sha /\ new.main = J.main /\ new.phase = J.phase
    BY <1>1 DEF Jobs
  <2>3. Set(r, b, new)
    BY <1>10 DEF ReadComments
  <2> HIDE DEF new
  <2>4. QED
    BY <1>2, <2>1, <2>2, <2>3, JobMains
<1>11. CASE WriteComment(r, b)
  <2>1. J.phase \notin {"ready", "checked"}
    BY <1>11 DEF WriteComment, Inv, ReadsOK, JobsOK, JobOK, Statuses
  <2> DEFINE new == [J EXCEPT !.comment = "written"]
  <2>2. new.sha = J.sha /\ new.main = J.main /\ new.phase = J.phase
    BY <1>1 DEF Jobs
  <2>3. Set(r, b, new)
    BY <1>11 DEF WriteComment
  <2> HIDE DEF new
  <2>4. QED
    BY <1>2, <2>1, <2>2, <2>3, JobMains
<1>12. CASE TimeOut(r, b)
  BY <1>4, <1>12 DEF TimeOut
<1>13. CASE LoseOutcome(r, b)
  BY <1>5, <1>13 DEF LoseOutcome
<1>14. QED
  BY <1>6, <1>7, <1>8, <1>9, <1>10, <1>11, <1>12, <1>13

LEMMA PlanMains == ASSUME Inv, MainsOK, NEW r \in Runs, Plan(r) PROVE MainsOK'
<1>1. main \in Nat /\ UNCHANGED <<main, head>>
  <2>1. UNCHANGED <<main, head>>
    BY DEF Plan
  <2>2. main \in Nat
    BY Bounds DEF Inv, TypeOK
  <2>3. QED
    BY <2>1, <2>2
<1>2. ASSUME NEW s \in Runs, NEW b \in PullRequests
      PROVE  /\ job'[s][b].sha \in {job[s][b].sha, head[b], <<>>}
             /\ job'[s][b].main \in {job[s][b].main, main, 0}
             /\ job'[s][b].phase \in {"ready", "checked"} => job'[s][b] = job[s][b]
  <2> DEFINE some == [Unplanned EXCEPT !.phase = "planned", !.sha = head[b]]
  <2>1. CASE s = r
    <3>1. job'[s][b] = some \/ job'[s][b] = Unplanned
      BY <2>1 DEF Inv, TypeOK, Plan
    <3>2. /\ some.sha = head[b] /\ some.main = 0 /\ some.phase = "planned"
          /\ Unplanned.sha = <<>> /\ Unplanned.main = 0 /\ Unplanned.phase = "none"
      BY DEF Unplanned
    <3> HIDE DEF some
    <3>3. QED
      BY <3>1, <3>2
  <2>2. CASE s # r
    <3>1. job'[s][b] = job[s][b]
      BY <2>2 DEF Inv, TypeOK, Plan
    <3>2. QED
      BY <3>1
  <2>3. QED
    BY <2>1, <2>2
<1>3. \A s \in Runs, b \in PullRequests :
        job[s][b].phase \in {"ready", "checked"} => Last(job[s][b].sha).main < job[s][b].main
  BY DEF MainsOK
<1>4. \A s \in Runs, b \in PullRequests :
        job'[s][b].phase \in {"ready", "checked"} =>
          /\ job'[s][b].sha = job[s][b].sha /\ job'[s][b].main = job[s][b].main
          /\ Last(job[s][b].sha).main < job[s][b].main
  BY <1>2, <1>3
<1>5. QED
  BY <1>1, <1>2, <1>4, QuietMains

LEMMA StartMains ==
  ASSUME Inv, MainsOK, NEW r \in Runs, NEW b \in PullRequests, Start(r, b) PROVE MainsOK'
<1>1. main \in Nat /\ UNCHANGED <<main, head>>
  BY Bounds DEF Inv, TypeOK, Start
<1>2. ASSUME NEW s \in Runs, NEW c \in PullRequests
      PROVE  /\ job'[s][c].sha = job[s][c].sha
             /\ job'[s][c].main \in {job[s][c].main, main, 0}
             /\ job'[s][c].phase \in {"ready", "checked"} => job'[s][c] = job[s][c]
  <2> DEFINE K == job[s][c]
             started == [K EXCEPT !.phase = "running", !.main = main]
             stopped == [K EXCEPT !.phase = "cancelled"]
  <2>1. K \in Jobs
    BY JobType DEF Inv
  <2>2. job'[s][c] \in {K, started, stopped}
    BY DEF Inv, TypeOK, Start, FetchedMain
  <2>3. /\ started.sha = K.sha /\ started.main = main /\ started.phase = "running"
        /\ stopped.sha = K.sha /\ stopped.main = K.main /\ stopped.phase = "cancelled"
    BY <2>1 DEF Jobs
  <2> HIDE DEF started, stopped
  <2>4. QED
    BY <2>2, <2>3
<1>3. \A s \in Runs, c \in PullRequests :
        job[s][c].phase \in {"ready", "checked"} => Last(job[s][c].sha).main < job[s][c].main
  BY DEF MainsOK
<1>4. \A s \in Runs, c \in PullRequests :
        job'[s][c].phase \in {"ready", "checked"} =>
          /\ job'[s][c].sha = job[s][c].sha /\ job'[s][c].main = job[s][c].main
          /\ Last(job[s][c].sha).main < job[s][c].main
  BY <1>2, <1>3
<1>5. QED
  BY <1>1, <1>2, <1>4, QuietMains

(* A new end of one branch.                                                *)
LEMMA BranchMains ==
  ASSUME Inv, MainsOK, NEW b \in PullRequests, NEW commits, Ordered(commits),
         Last(commits).main <= main, head' = [head EXCEPT ![b] = commits], main' = main,
         \A r \in Runs, c \in PullRequests :
           /\ job'[r][c].sha = job[r][c].sha /\ job'[r][c].main = job[r][c].main
           /\ job'[r][c].phase \in {"ready", "checked"} =>
                job[r][c].phase \in {"ready", "checked"}
  PROVE  MainsOK'
<1>1. \A c \in PullRequests : head'[c] = IF c = b THEN commits ELSE head[c]
  BY DEF Inv, TypeOK
<1>2. \A c \in PullRequests : Ordered(head'[c]) /\ Last(head'[c]).main <= main'
  BY <1>1 DEF MainsOK
<1>3. \A r \in Runs, c \in PullRequests :
        /\ Ordered(job'[r][c].sha) /\ job'[r][c].main <= main'
        /\ job'[r][c].phase \in {"ready", "checked"} =>
             Last(job'[r][c].sha).main < job'[r][c].main
  BY DEF MainsOK
<1>4. \A c \in PullRequests : Ordered(head[c])' /\ (Last(head[c]).main <= main)'
  BY <1>2 DEF Ordered, Last
<1>5. \A r \in Runs, c \in PullRequests :
        /\ Ordered(job[r][c].sha)' /\ (job[r][c].main <= main)'
        /\ (job[r][c].phase \in {"ready", "checked"})' =>
             (Last(job[r][c].sha).main < job[r][c].main)'
  BY <1>3 DEF Ordered, Last
<1>6. QED
  BY <1>4, <1>5 DEF MainsOK

(* A push: the branch is a start of what the job checked out, which holds  *)
(* no commit of the job's, and so ends no later than that.                 *)
LEMMA PushMains ==
  ASSUME Inv, MainsOK, NEW r \in Runs, NEW b \in PullRequests, Push(r, b)
  PROVE  /\ MainsOK'
         /\ head'[b] # head[b] => Last(head[b]).main < Last(head'[b]).main
         /\ \A c \in PullRequests \ {b} : head'[c] = head[c]
<1> DEFINE J == job[r][b]
           sha == J.sha
           tree == J.tree
           before == head[b]
           commit == [run |-> r, move |-> 0, main |-> J.main]
<1>1. /\ J \in Jobs /\ J.phase = "checked" /\ tree = Append(sha, commit)
      /\ sha \in Seq(Commits) /\ sha # <<>> /\ Ordered(sha)
      /\ Last(sha).main < J.main /\ J.main <= main /\ J.main \in 0..MaxMain
      /\ before \in Seq(Commits) /\ before # <<>> /\ NoneOf(before, r)
  <2>1. J \in Jobs /\ JobOK(J, r) /\ J.phase = "checked" /\ NotPushed(J)
    BY JobType DEF Inv, JobsOK, Push, NotPushed
  <2>2. NoneOf(before, r)
    BY <2>1 DEF Inv, UnpushedUnseen
  <2>3. tree = Append(sha, commit) /\ sha # <<>> /\ sha \in Seq(Commits) /\ J.main \in 0..MaxMain
    BY <2>1 DEF JobOK, Merged, Jobs
  <2>4. Ordered(sha) /\ Last(sha).main < J.main /\ J.main <= main
    BY <2>1 DEF MainsOK
  <2>5. QED
    BY <2>1, <2>2, <2>3, <2>4, JobType DEF Inv, TypeOK, Branches
<1>2. commit \in Commits /\ commit.main = J.main /\ commit.run = r
  BY <1>1, Bounds DEF Commits, Runs
<1>3. CASE Set(r, b, Finished(J, "stopped")) /\ UNCHANGED head
  <2> DEFINE new == Finished(J, "stopped")
  <2>1. new.sha = J.sha /\ new.main = J.main /\ new.phase = "done"
    BY <1>1 DEF Finished, Jobs
  <2>2. main' = main
    BY DEF Push
  <2> HIDE DEF new
  <2>3. MainsOK'
    BY <1>3, <2>1, <2>2, JobMains DEF new
  <2>4. QED
    BY <1>3, <2>3
<1>4. CASE /\ PlainPush(b, tree)
           /\ Set(r, b, [J EXCEPT !.phase = "pushed"])
           /\ head' = [head EXCEPT ![b] = tree]
  <2> DEFINE new == [J EXCEPT !.phase = "pushed"]
  <2>1. new.sha = sha /\ new.main = J.main /\ new.phase = "pushed"
    BY <1>1 DEF Jobs
  <2>2. Set(r, b, new) /\ IsPrefix(before, tree) /\ head' = [head EXCEPT ![b] = tree]
        /\ main' = main
    BY <1>4 DEF PlainPush, Push
  <2> HIDE DEF new
  <2>3. ASSUME NEW s \in Runs, NEW c \in PullRequests
        PROVE  /\ job'[s][c].sha = job[s][c].sha /\ job'[s][c].main = job[s][c].main
               /\ job'[s][c].phase \in {"ready", "checked"} =>
                    job[s][c].phase \in {"ready", "checked"}
    <3>1. /\ job'[r][b] = new
          /\ s # r \/ c # b => job'[s][c] = job[s][c]
      BY <2>2 DEF Inv, TypeOK, Set
    <3>2. QED
      BY <2>1, <3>1
  <2>4. head'[b] = tree /\ \A c \in PullRequests \ {b} : head'[c] = head[c]
    BY <2>2 DEF Inv, TypeOK
  <2> HIDE DEF J, sha, tree, before, commit
  <2>5. Last(sha).main \in Nat /\ J.main \in Nat /\ Last(before).main \in Nat
    BY <1>1, LastCommit, Bounds
  <2>6. Ordered(tree) /\ Last(tree) = commit
    BY <1>1, <1>2, <2>5, AppendOrdered, AppendCommit
  <2>7. MainsOK'
    BY <1>1, <1>2, <2>2, <2>3, <2>6, BranchMains
  <2>8. Last(before).main <= Last(sha).main
    <3>1. /\ Len(before) \in Nat /\ Len(sha) \in Nat /\ Len(tree) = Len(sha) + 1
          /\ DOMAIN before = 1..Len(before) /\ DOMAIN tree = 1..(Len(sha) + 1)
          /\ tree[Len(sha) + 1] = commit /\ \A i \in 1..Len(sha) : tree[i] = sha[i]
          /\ tree \in Seq(Commits)
      BY <1>1, <1>2
    <3>2. Len(before) <= Len(tree) /\ SubSeq(before, 1, Len(before)) = SubSeq(tree, 1, Len(before))
      BY <2>2 DEF IsPrefix
    <3>3. \A i \in 1..Len(before) : before[i] = tree[i]
      BY <1>1, <3>1, <3>2
    <3>4. Len(before) # Len(sha) + 1
      <4>1. SUFFICES ASSUME Len(before) = Len(sha) + 1
                     PROVE  FALSE
        OBVIOUS
      <4>2. Len(before) \in DOMAIN before /\ Len(before) \in 1..Len(before)
        BY <3>1, <4>1
      <4>3. before[Len(before)] = commit
        BY <3>1, <3>3, <4>1, <4>2
      <4>4. QED
        BY <1>1, <1>2, <4>2, <4>3 DEF NoneOf
    <3>5. Len(before) <= Len(sha) /\ \A i \in DOMAIN before : before[i] = sha[i]
      <4>1. Len(before) <= Len(sha)
        <5>1. Len(before) \in Nat /\ Len(sha) \in Nat /\ Len(tree) = Len(sha) + 1
          BY <3>1
        <5>2. Len(before) <= Len(tree)
          BY <3>2
        <5>3. QED
          BY <3>4, <5>1, <5>2
      <4>2. ASSUME NEW i \in DOMAIN before
            PROVE  before[i] = sha[i]
        <5>1. i \in 1..Len(before) /\ i \in 1..Len(sha)
          BY <3>1, <4>1, <4>2
        <5>2. before[i] = tree[i] /\ tree[i] = sha[i]
          BY <3>1, <3>3, <5>1
        <5>3. QED
          BY <5>2
      <4>3. QED
        BY <4>1, <4>2
    <3>6. QED
      BY <1>1, <3>5, StartOrdered
  <2>9. Last(before).main < Last(tree).main
    BY <1>1, <1>2, <2>5, <2>6, <2>8
  <2>10. QED
    BY <2>4, <2>7, <2>9 DEF before
<1>5. QED
  BY <1>3, <1>4 DEF Push

LEMMA AuthorMains ==
  ASSUME Inv, MainsOK, NEW b \in PullRequests, AuthorPushes(b) \/ AuthorTakesBack(b)
  PROVE  MainsOK'
<1> DEFINE before == head[b]
<1>1. before \in Seq(Commits) /\ before # <<>> /\ Ordered(before) /\ Last(before).main <= main
      /\ main \in 0..MaxMain /\ main \in Nat
  BY JobType, Bounds DEF Inv, TypeOK, Branches, MainsOK
<1>2. Last(before).main \in Nat
  <2> HIDE DEF before
  <2>1. QED
    BY <1>1, LastCommit
<1>3. main' = main /\ job' = job
  BY DEF AuthorPushes, AuthorTakesBack
<1>4. CASE AuthorPushes(b)
  <2>1. PICK m \in {Last(before).main, main} :
          head' = [head EXCEPT ![b] = Append(before, [run |-> 0, move |-> moves', main |-> m])]
    BY <1>4 DEF AuthorPushes, Inv, TypeOK
  <2> DEFINE commit == [run |-> 0, move |-> moves', main |-> m]
  <2>2. m \in 0..MaxMain /\ Last(before).main <= m /\ m <= main
    BY <1>1, <1>2, Bounds
  <2>3. commit \in Commits /\ commit.main = m
    BY <1>4, <2>2, Bounds DEF Commits, AuthorPushes, Move, Inv, TypeOK
  <2> HIDE DEF commit, before
  <2>4. Ordered(Append(before, commit)) /\ Last(Append(before, commit)) = commit
    BY <1>1, <2>2, <2>3, AppendOrdered, AppendCommit
  <2>5. head' = [head EXCEPT ![b] = Append(before, commit)]
    BY <2>1 DEF commit
  <2>6. QED
    BY <1>3, <2>2, <2>3, <2>4, <2>5, BranchMains
<1>5. CASE AuthorTakesBack(b)
  <2>1. head' = [head EXCEPT ![b] = Front(before)] /\ Len(before) > 1
    BY <1>5 DEF AuthorTakesBack, Inv, TypeOK
  <2> HIDE DEF before
  <2>2. /\ Front(before) \in Seq(Commits) /\ Front(before) # <<>>
        /\ Len(Front(before)) <= Len(before)
        /\ \A i \in DOMAIN Front(before) : Front(before)[i] = before[i]
    <3>1. Front(before) \in Seq(Commits) /\ Len(Front(before)) = Len(before) - 1
          /\ \A i \in 1..(Len(before) - 1) : Front(before)[i] = before[i]
      BY <1>1, <2>1 DEF Front
    <3>2. QED
      BY <1>1, <2>1, <3>1
  <2>3. Ordered(Front(before)) /\ Last(Front(before)).main <= Last(before).main
    BY <1>1, <2>2, StartOrdered
  <2>4. Last(Front(before)).main \in Nat
    BY <2>2, LastCommit
  <2>5. Last(Front(before)).main <= main
    BY <1>1, <1>2, <2>3, <2>4
  <2>6. QED
    BY <1>3, <2>1, <2>3, <2>5, BranchMains
<1>6. QED
  BY <1>4, <1>5

LEMMA NextMains ==
  Inv /\ MainsOK /\ [Next]_vars =>
    /\ MainsOK'
    /\ \A b \in PullRequests : BotPushed(b) => Last(head[b]).main < Last(head'[b]).main
<1> SUFFICES ASSUME Inv, MainsOK, [Next]_vars
             PROVE  /\ MainsOK'
                    /\ \A b \in PullRequests :
                         BotPushed(b) => Last(head[b]).main < Last(head'[b]).main
  OBVIOUS
<1>1. main \in Nat /\ moves \in Nat
  BY Bounds DEF Inv, TypeOK
<1>2. ASSUME UNCHANGED head
      PROVE  \A b \in PullRequests : ~BotPushed(b)
  BY <1>2 DEF BotPushed
<1>3. ASSUME UNCHANGED <<head, job>>, main' \in {main, main + 1}
      PROVE  MainsOK'
  <2>1. main' \in Nat /\ main <= main'
    BY <1>1, <1>3
  <2>2. \A r \in Runs, b \in PullRequests :
          job[r][b].phase \in {"ready", "checked"} => Last(job[r][b].sha).main < job[r][b].main
    BY DEF MainsOK
  <2>3. \A r \in Runs, b \in PullRequests :
           /\ job'[r][b].sha \in {job[r][b].sha, head[b], <<>>}
           /\ job'[r][b].main \in {job[r][b].main, main, 0}
           /\ job'[r][b].phase \in {"ready", "checked"} =>
                /\ job'[r][b].sha = job[r][b].sha /\ job'[r][b].main = job[r][b].main
                /\ Last(job[r][b].sha).main < job[r][b].main
    BY <1>3, <2>2
  <2>4. QED
    BY <1>3, <2>1, <2>3, QuietMains
<1>4. CASE PushMain \/ UNCHANGED vars
  BY <1>1, <1>2, <1>3, <1>4 DEF PushMain, vars
<1>5. ASSUME NEW r \in Runs, Plan(r) \/ PlanFails(r) \/ CommentsFail(r)
      PROVE  MainsOK' /\ UNCHANGED head
  BY <1>3, <1>5, PlanMains DEF Plan, PlanFails, CommentsFail
<1>6. ASSUME NEW r \in Runs, NEW c \in PullRequests,
             \/ JobStep(r, c) \/ TimeOut(r, c) \/ LoseOutcome(r, c) \/ CreateCheck(r, c)
      PROVE  /\ MainsOK'
             /\ \A b \in PullRequests :
                  BotPushed(b) => Last(head[b]).main < Last(head'[b]).main
  <2>1. CASE Push(r, c)
    <3>1. \A b \in PullRequests : BotPushed(b) => b = c
      BY <2>1, PushMains DEF BotPushed
    <3>2. QED
      BY <2>1, <3>1, PushMains DEF BotPushed
  <2>2. CASE Start(r, c)
    BY <1>2, <2>2, StartMains DEF Start
  <2>3. CASE CreateCheck(r, c)
    BY <1>2, <1>3, <2>3 DEF CreateCheck
  <2>4. CASE Merge(r, c) \/ ReadPullRequest(r, c) \/ Dispatch(r, c) \/ Poll(r, c)
             \/ ReadComments(r, c) \/ WriteComment(r, c) \/ TimeOut(r, c) \/ LoseOutcome(r, c)
    <3>1. UNCHANGED head
      BY <2>4 DEF Merge, ReadPullRequest, Dispatch, Poll, ReadComments, WriteComment, TimeOut,
                  LoseOutcome
    <3>2. QED
      BY <1>2, <2>4, <3>1, JobStepMains
  <2>5. QED
    BY <1>6, <2>1, <2>2, <2>3, <2>4 DEF JobStep
<1>7. ASSUME NEW c \in PullRequests, AuthorPushes(c) \/ AuthorTakesBack(c) \/ AuthorOpts(c)
      PROVE  MainsOK' /\ \A b \in PullRequests : ~BotPushed(b)
  <2>1. moves' # moves
    BY <1>1, <1>7 DEF AuthorPushes, AuthorTakesBack, AuthorOpts, Move
  <2>2. QED
    BY <1>3, <1>7, <2>1, AuthorMains DEF BotPushed, AuthorOpts
<1>8. QED
  BY <1>2, <1>4, <1>5, <1>6, <1>7 DEF Next

(* A push of the bot gives the branch a newer main than it has, however    *)
(* many of its jobs work on it and whatever its author pushes, merges or   *)
(* takes back between a job's look at the pull request and its push: a     *)
(* plain push, what the job merged and what an author may have merged fit  *)
(* together (refresh-generated.yml, refresh job, and its git push).        *)
THEOREM PushesAlwaysBringMain == Spec => PushesBringMain
BY InitMains, NextMains, SpecInv, PTL DEF Spec, PushesBringMain

=============================================================================
