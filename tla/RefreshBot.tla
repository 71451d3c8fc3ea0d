----------------------------- MODULE RefreshBot -----------------------------
(***************************************************************************)
(* The refresh bot, .github/workflows/refresh-generated.yml.  Every push   *)
(* to main starts a run.  Its plan job lists the opted-in pull requests;   *)
(* one refresh job for each merges main into the planned head, regenerates *)
(* with the branch's tools and pushes; when they are over a comment job    *)
(* tells what needs a hand.  Runs overlap: one refresh job at a time works *)
(* on a branch, the one that starts last cancels the other, and everything *)
(* between two calls of the GitHub API can see the branch, the labels or   *)
(* main change.  The comment job is one loop over the outcomes of its run: *)
(* a call that fails ends it, and the outcomes behind go untold.           *)
(*                                                                         *)
(* What the branch's tools make of the merged sources is left open: they   *)
(* succeed, or the bot stops.                                              *)
(***************************************************************************)
EXTENDS Naturals, Sequences, SequencesExt

CONSTANTS
  PullRequests,
  MaxMain,   \* bound: pushes to main, each of which starts a run
  MaxMoves   \* bound: what authors do, over all pull requests

VARIABLES
  main,      \* the newest commit of main, counted
  moves,     \* what the authors did so far, counted
  opted,     \* the open, labelled pull requests of this repository, no drafts
  head,      \* each branch: its commits since it was opened
  planned,   \* the runs whose plan job is over
  job,       \* the refresh job of each run and pull request
  check,     \* the pull_request validate run of the commit each job pushed
  comments,  \* the bot's comments on each pull request, oldest first
  untold     \* the runs whose comment job failed

vars == <<main, moves, opted, head, planned, job, check, comments, untold>>

ASSUME RefreshAssumption == MaxMain \in Nat /\ MaxMoves \in Nat

Runs == 1..MaxMain

(* A commit: the run that made it or 0, its author's move, and the newest  *)
(* main it contains.                                                       *)
Commits == [run : 0..MaxMain, move : 0..MaxMoves, main : 0..MaxMain]

HasMain(commits, m) == Last(commits).main >= m

Working == {"running", "ready", "checked", "pushed", "dispatched"}

Statuses == {"up_to_date", "stopped", "skipped", "attention", "refreshed"}

(* comment: what became of the outcome, read and written by the comment    *)
(* job or lost; found is the comment it will edit, 0 for none.             *)
Unplanned ==
  [phase |-> "none", sha |-> <<>>, main |-> 0, tree |-> <<>>, status |-> "none",
   comment |-> "none", found |-> 0]

Set(r, b, new) == job' = [job EXCEPT ![r][b] = new]

(* finish: the outcome of a job, kept for the comment job.                 *)
Finished(J, status) == [J EXCEPT !.phase = "done", !.status = status]

Over(J) == J.phase \in {"none", "done", "cancelled"}

-----------------------------------------------------------------------------
Init ==
  /\ main = 0
  /\ moves = 0
  /\ opted \in SUBSET PullRequests
  /\ head = [b \in PullRequests |-> <<[run |-> 0, move |-> 0, main |-> 0]>>]
  /\ planned = {}
  /\ job = [r \in Runs |-> [b \in PullRequests |-> Unplanned]]
  /\ check = [r \in Runs |-> [b \in PullRequests |-> "none"]]
  /\ comments = [b \in PullRequests |-> <<>>]
  /\ untold = {}

PushMain ==
  /\ main < MaxMain
  /\ main' = main + 1
  /\ UNCHANGED <<moves, opted, head, planned, job, check, comments, untold>>

(* The plan job of run r, started by push r.                               *)
Plan(r) ==
  /\ r <= main
  /\ r \notin planned
  /\ planned' = planned \union {r}
  /\ job' = [job EXCEPT ![r] = [b \in PullRequests |->
               IF b \in opted THEN [Unplanned EXCEPT !.phase = "planned", !.sha = head[b]]
               ELSE Unplanned]]
  /\ UNCHANGED <<main, moves, opted, head, check, comments, untold>>

(* It fails, and nothing is refreshed.                                     *)
PlanFails(r) ==
  /\ r <= main
  /\ r \notin planned
  /\ planned' = planned \union {r}
  /\ UNCHANGED <<main, moves, opted, head, job, check, comments, untold>>

(* Mutant: main as it was before the push that started the run.            *)
MainBefore(r) == r - 1

(* origin/main as the checkout of the job fetches it.                      *)
FetchedMain(r) == main

(* A refresh job enters the concurrency group of its branch, cancels the   *)
(* job at work there, and checks out the planned commit and main.          *)
Start(r, b) ==
  LET Cancelled(J) == IF J.phase \in Working THEN [J EXCEPT !.phase = "cancelled"] ELSE J
  IN  /\ job[r][b].phase = "planned"
      /\ job' = [s \in Runs |-> [c \in PullRequests |->
           IF c # b THEN job[s][c]
           ELSE IF s = r THEN [job[r][b] EXCEPT !.phase = "running", !.main = FetchedMain(r)]
           ELSE Cancelled(job[s][b])]]
      /\ UNCHANGED <<main, moves, opted, head, planned, check, comments, untold>>

(* The job runs out of its thirty minutes, or its runner is lost.          *)
TimeOut(r, b) ==
  /\ job[r][b].phase \in Working
  /\ Set(r, b, [job[r][b] EXCEPT !.phase = "cancelled"])
  /\ UNCHANGED <<main, moves, opted, head, planned, check, comments, untold>>

(* Mutant: is-ancestor with its arguments swapped.                         *)
BehindMain(J) == Last(J.sha).main <= J.main

UpToDate(J) == HasMain(J.sha, J.main)

(* Merge main and regenerate: it stops at a conflict outside generated/ or *)
(* when a tool fails.                                                      *)
Merge(r, b) ==
  LET J == job[r][b]
  IN  /\ J.phase = "running"
      /\ \/ UpToDate(J) /\ Set(r, b, Finished(J, "up_to_date"))
         \/ ~UpToDate(J) /\ Set(r, b, Finished(J, "stopped"))
         \/ /\ ~UpToDate(J)
            /\ Set(r, b, [J EXCEPT !.phase = "ready",
                                   !.tree = Append(J.sha, [run |-> r, move |-> 0, main |-> J.main])])
      /\ UNCHANGED <<main, moves, opted, head, planned, check, comments, untold>>

(* The pull request as it is now.                                          *)
ReadPullRequest(r, b) ==
  LET J == job[r][b]
  IN  /\ J.phase = "ready"
      /\ \/ Set(r, b, Finished(J, "stopped"))
         \/ (b \notin opted \/ head[b] # J.sha) /\ Set(r, b, Finished(J, "skipped"))
         \/ b \in opted /\ head[b] = J.sha /\ Set(r, b, [J EXCEPT !.phase = "checked"])
      /\ UNCHANGED <<main, moves, opted, head, planned, check, comments, untold>>

(* Mutant: push --force.                                                   *)
ForcePush(b, tree) == TRUE

(* GitHub takes a plain push only onto an ancestor.                        *)
PlainPush(b, tree) == IsPrefix(head[b], tree)

(* GitHub may refuse any push, as one of workflow files.                   *)
Push(r, b) ==
  LET J == job[r][b]
  IN  /\ J.phase = "checked"
      /\ \/ /\ Set(r, b, Finished(J, "stopped"))
            /\ UNCHANGED head
         \/ /\ PlainPush(b, J.tree)
            /\ Set(r, b, [J EXCEPT !.phase = "pushed"])
            /\ head' = [head EXCEPT ![b] = J.tree]
      /\ UNCHANGED <<main, moves, opted, planned, check, comments, untold>>

(* Mutant: a failed dispatch stops the bot.                                *)
DispatchStops == "stopped"

(* Mutant: it has a status of its own, which the comment job does not know. *)
DispatchFails == "failed"

FailedDispatch == "attention"

(* workflow run validate.yml on the branch.                                *)
Dispatch(r, b) ==
  LET J == job[r][b]
  IN  /\ J.phase = "pushed"
      /\ \/ Set(r, b, [J EXCEPT !.phase = "dispatched"])
         \/ Set(r, b, Finished(J, FailedDispatch))
      /\ UNCHANGED <<main, moves, opted, head, planned, check, comments, untold>>

(* GitHub makes the pull_request run of a pushed commit, as a rule waiting *)
(* for approval.                                                           *)
CreateCheck(r, b) ==
  /\ check[r][b] = "none"
  /\ \E i \in DOMAIN head[b] : head[b][i].run = r
  /\ \E state \in {"waiting", "started"} : check' = [check EXCEPT ![r][b] = state]
  /\ UNCHANGED <<main, moves, opted, head, planned, job, comments, untold>>

(* Mutant: any run of the commit counts as running.                        *)
AnyCheck(state) == state # "none"

Running(state) == state = "started"

(* Up to 24 looks for that run: approve it if it waits, leave it alone if  *)
(* it runs, and ask for a hand if that fails or no look finds it.          *)
Poll(r, b) ==
  LET J == job[r][b]
  IN  /\ J.phase = "dispatched"
      /\ \/ Running(check[r][b]) /\ Set(r, b, Finished(J, "refreshed")) /\ UNCHANGED check
         \/ /\ check[r][b] = "waiting"
            /\ Set(r, b, Finished(J, "refreshed"))
            /\ check' = [check EXCEPT ![r][b] = "started"]
         \/ Set(r, b, Finished(J, "attention")) /\ UNCHANGED check
      /\ UNCHANGED <<main, moves, opted, head, planned, comments, untold>>

-----------------------------------------------------------------------------
(* The comment job of run r, when its refresh jobs are over.               *)

(* Mutant: without always() a failed refresh job skips the comment job.    *)
NoneFailed(r) ==
  /\ r \in planned
  /\ \A b \in PullRequests : Over(job[r][b]) /\ job[r][b].status # "stopped"

RefreshOver(r) == r \in planned /\ \A b \in PullRequests : Over(job[r][b])

(* The runner is lost before it keeps the outcome for the comment job.     *)
LoseOutcome(r, b) ==
  /\ job[r][b].phase = "done" /\ job[r][b].comment = "none"
  /\ Set(r, b, [job[r][b] EXCEPT !.comment = "lost"])
  /\ UNCHANGED <<main, moves, opted, head, planned, check, comments, untold>>

(* What the loop of the comment job has before it.                         *)
ToTell(r) ==
  {b \in PullRequests : job[r][b].phase = "done" /\ job[r][b].comment \in {"none", "read"}}

(* It takes the outcomes one by one, looks for the bot's comment, and says *)
(* nothing of most.                                                        *)
ReadComments(r, b) ==
  LET J     == job[r][b]
      found == IF comments[b] = <<>> THEN 0 ELSE 1
      tells == J.status \in {"stopped", "attention"} \/ (J.status = "refreshed" /\ found # 0)
  IN  /\ RefreshOver(r) /\ r \notin untold
      /\ b \in ToTell(r) /\ \A c \in PullRequests : job[r][c].comment # "read"
      /\ Set(r, b, [J EXCEPT !.comment = IF tells THEN "read" ELSE "silent", !.found = found])
      /\ UNCHANGED <<main, moves, opted, head, planned, check, comments, untold>>

WriteComment(r, b) ==
  LET J    == job[r][b]
      text == [run |-> r, main |-> J.main, status |-> J.status]
  IN  /\ J.comment = "read" /\ r \notin untold
      /\ comments' = IF J.found = 0 THEN [comments EXCEPT ![b] = Append(@, text)]
                     ELSE [comments EXCEPT ![b][J.found] = text]
      /\ Set(r, b, [J EXCEPT !.comment = "written"])
      /\ UNCHANGED <<main, moves, opted, head, planned, check, untold>>

(* A download, a look, an edit or a new comment fails, or the runner is    *)
(* lost: under set -e the loop is over for every outcome behind as well.   *)
CommentsFail(r) ==
  /\ RefreshOver(r) /\ r \notin untold /\ ToTell(r) # {}
  /\ untold' = untold \union {r}
  /\ UNCHANGED <<main, moves, opted, head, planned, job, check, comments>>

-----------------------------------------------------------------------------
(* The author of a pull request pushes a commit, perhaps a merge of main;  *)
(* takes the last commit back; or closes the pull request, makes it a      *)
(* draft or takes the label off, or back.                                  *)

Move == moves < MaxMoves /\ moves' = moves + 1

AuthorPushes(b) ==
  /\ Move
  /\ \E m \in {Last(head[b]).main, main} :
       head' = [head EXCEPT ![b] = Append(@, [run |-> 0, move |-> moves', main |-> m])]
  /\ UNCHANGED <<main, opted, planned, job, check, comments, untold>>

AuthorTakesBack(b) ==
  /\ Move
  /\ Len(head[b]) > 1
  /\ head' = [head EXCEPT ![b] = Front(@)]
  /\ UNCHANGED <<main, opted, planned, job, check, comments, untold>>

AuthorOpts(b) ==
  /\ Move
  /\ opted' = IF b \in opted THEN opted \ {b} ELSE opted \union {b}
  /\ UNCHANGED <<main, head, planned, job, check, comments, untold>>

JobStep(r, b) ==
  \/ Start(r, b) \/ Merge(r, b) \/ ReadPullRequest(r, b) \/ Push(r, b) \/ Dispatch(r, b)
  \/ Poll(r, b) \/ ReadComments(r, b) \/ WriteComment(r, b)

Next ==
  \/ PushMain
  \/ \E r \in Runs : Plan(r) \/ PlanFails(r) \/ CommentsFail(r)
  \/ \E r \in Runs, b \in PullRequests :
       JobStep(r, b) \/ TimeOut(r, b) \/ LoseOutcome(r, b) \/ CreateCheck(r, b)
  \/ \E b \in PullRequests : AuthorPushes(b) \/ AuthorTakesBack(b) \/ AuthorOpts(b)

Spec == Init /\ [][Next]_vars

(* GitHub gives every job a runner at last, and a job that has one goes on. *)
Fairness ==
  /\ \A r \in Runs : WF_vars(Plan(r))
  /\ \A r \in Runs, b \in PullRequests : WF_vars(JobStep(r, b))

FairSpec == Spec /\ Fairness

-----------------------------------------------------------------------------
BotPushed(b) == head'[b] # head[b] /\ moves' = moves

(* A push of the bot always gives the branch a newer main than it has,     *)
(* whatever the author merges or another run pushes between the bot's look *)
(* and its push: no run takes a branch back to the main of an older one.   *)
PushesBringMain ==
  [][\A b \in PullRequests : BotPushed(b) => Last(head[b]).main < Last(head'[b]).main]_vars

(* A run that says the branch has main has given it the main that started  *)
(* the run, or a newer one.                                                *)
OutcomeCoversRun ==
  \A r \in Runs, b \in PullRequests :
    job[r][b].status \in {"up_to_date", "attention", "refreshed"} =>
      HasMain(IF job[r][b].tree = <<>> THEN job[r][b].sha ELSE job[r][b].tree, r)

(* A job that stops or skips has changed nothing on the branch.            *)
StoppedChangedNothing ==
  \A r \in Runs, b \in PullRequests :
    job[r][b].status \in {"stopped", "skipped", "up_to_date"} =>
      \A i \in DOMAIN head[b] : head[b][i].run # r

(* A job that says refreshed leaves the required check of its commit       *)
(* running, not waiting for an approval.                                   *)
RefreshedIsChecked ==
  \A r \in Runs, b \in PullRequests :
    job[r][b].status = "refreshed" => check[r][b] = "started"

(* What the comment job tells an author about the branch is true of it: a  *)
(* run that says it has main gave it the main that started the run, one    *)
(* that stopped changed nothing, and after a refresh the check runs.       *)
OutcomesAreTrue == OutcomeCoversRun /\ StoppedChangedNothing /\ RefreshedIsChecked

(* A stop, or a refresh that needs a hand, is told on the pull request,    *)
(* whatever becomes of the run's other refresh jobs, unless its own        *)
(* outcome is lost or a call of the run's comment job fails.               *)
StopIsTold ==
  \A r \in Runs, b \in PullRequests :
    job[r][b].status \in {"stopped", "attention"} ~>
      job[r][b].comment \in {"written", "lost"} \/ r \in untold

(* The newest run has planned the branch as it is, and no other is left.   *)
Quiet(r, b) ==
  /\ r = main /\ job[r][b].phase = "planned"
  /\ job[r][b].sha = head[b]
  /\ \A s \in Runs \ {r} : s \in planned /\ Over(job[s][b])

(* A run that nothing disturbs gives the branch main, or stops.            *)
QuietRunRefreshes ==
  \A r \in Runs, b \in PullRequests :
    Quiet(r, b) ~> \/ HasMain(head[b], r) \/ job[r][b].status = "stopped"
                   \/ head[b] # job[r][b].sha \/ b \notin opted
                   \/ job[r][b].phase = "cancelled"

(* A branch that its author leaves alone gets the newest main at last,     *)
(* unless the newest run has no job for it, or one that asks for a hand or *)
(* is lost.                                                                *)
NewestMainReaches ==
  \A b \in PullRequests :
    <>[](b \in opted => \/ HasMain(head[b], main)
                         \/ \E r \in Runs : /\ r = main
                                            /\ \/ job[r][b].status = "stopped"
                                               \/ job[r][b].phase \in {"none", "cancelled"})

=============================================================================
