------------------------------ MODULE GuardedMain ------------------------------
(* How apns-conf.xml reaches main past the phone-level guard: the runs of     *)
(* validate.yml on a pull request, on a dispatched branch and in the merge    *)
(* queue, each with the base and the accept lines that tools/guard_context.py *)
(* finds for it. Branches, merges and the queue are GitHub's.                 *)
(*                                                                            *)
(* A file is a function from scopes to the content it gives them. What the    *)
(* guard reads of two files is a table, TripsOf; a digest is the set of trips *)
(* it is the digest of.                                                       *)
EXTENDS Integers, Sequences, FiniteSets, SequencesExt

CONSTANTS
    PRs,          \* pull requests, each of a branch of its own
    Files,        \* the contents of apns-conf.xml
    Absent,       \* the content of a scope a file does not have
    TripsOf,      \* per base and head, the lines the guard holds
    RolesOf,      \* per file, the roles it gives: <<line when lost, scope, type>>
    FirstFiles,   \* the files main may start with
    PushFiles,    \* per pull request and first file, its branch's first file and those pushed later
    Dispatched,   \* the pull requests whose branches get dispatched runs
    MaxCommits,   \* bound: per pull request, commits of its branch
    MaxMain,      \* bound: commits of main
    MaxRuns       \* bound: dispatched runs under way

(* The merge of two files into a third, scope by scope.                       *)
Merges(old, ours, theirs) ==
    \A s \in DOMAIN old : ours[s] = old[s] \/ theirs[s] = old[s] \/ ours[s] = theirs[s]

Merged(old, ours, theirs) ==
    [s \in DOMAIN old |-> IF ours[s] = old[s] THEN theirs[s] ELSE ours[s]]

InFile(f) == {s \in DOMAIN f : f[s] # Absent}

(* Every file is a function of all scopes.                                    *)
ASSUME FilesAssumption ==
    /\ \A f, g \in Files : f = [s \in DOMAIN g |-> f[s]]
    /\ FirstFiles \subseteq Files
    /\ Dispatched \subseteq PRs
    /\ PushFiles \in [PRs -> [FirstFiles -> Files \X SUBSET Files]]
    /\ DOMAIN TripsOf = Files \X Files
    /\ DOMAIN RolesOf = Files
    /\ \A old, ours, theirs \in Files : Merged(old, ours, theirs) \in Files

(* A role lost in a scope of both files is a line the guard holds.            *)
ASSUME LossesTrip ==
    \A f, g \in Files :
        \A r \in RolesOf[f] \ RolesOf[g] :
            r[2] \in InFile(f) \cap InFile(g) =>
                \E t \in TripsOf[<<f, g>>] : <<t[1], t[2], t[3]>> = r

VARIABLES
    main,    \* the commits of main: file, the lines that let it in, bodies it had
    pr,      \* per pull request: state, commits, body, the head the API shows
    passed,  \* per pull request, its commits with a passing run
    runs,    \* dispatched runs under way
    queue    \* the merge groups, each on the one before it

vars == <<main, pr, passed, runs, queue>>

Tip == Last(main).file

--------------------------------------------------------------------------------
(* A branch and its merge into a file.                                        *)

HeadOf(p) == Last(pr[p].commits)
ForkOf(commit) == main[commit.fork].file
MergesInto(p, f) == Merges(ForkOf(HeadOf(p)), HeadOf(p).file, f)
TreeOn(p, f) == Merged(ForkOf(HeadOf(p)), HeadOf(p).file, f)

--------------------------------------------------------------------------------
(* The guard on one tree (main and run_guard).                                *)

(* Mutant: any accept line lets any trips pass.                               *)
AnyLineAccepts(base, tree, accept) ==
    base = tree \/ TripsOf[<<base, tree>>] = {} \/ accept # {}

GuardPasses(base, tree, accept) ==
    base = tree \/ TripsOf[<<base, tree>>] = {} \/ TripsOf[<<base, tree>>] \in accept

--------------------------------------------------------------------------------
(* Runs on a pull request's events and on dispatched branches.                *)

Pass(p, commit) == passed' = [passed EXCEPT ![p] = @ \cup {commit}]

(* A pull_request run takes the base and the body from its event and reads    *)
(* nothing later, so it is done with the event. There is none without a merge *)
(* commit.                                                                    *)
Event(p) ==
    LET head == Last(pr'[p].commits)
        old  == main[head.fork].file
    IN  IF /\ Merges(old, head.file, Tip)
           /\ GuardPasses(Tip, Merged(old, head.file, Tip), pr'[p].body)
        THEN Pass(p, Len(pr'[p].commits)) ELSE UNCHANGED passed

(* Mutant: the one open pull request of the branch, whatever its head.        *)
BranchPullRequest(r) == pr[r.pr].state = "open"

DispatchPullRequest(r) == pr[r.pr].state = "open" /\ pr[r.pr].shown = r.commit

(* A dispatched run looks for its pull request when it resolves its context.  *)
DispatchPasses(r) ==
    IF DispatchPullRequest(r) THEN GuardPasses(r.base, r.tree, pr[r.pr].body)
    ELSE r.base = r.tree

Dispatch(p) ==
    /\ p \in Dispatched /\ pr[p].state # "merged"
    /\ Cardinality(runs) < MaxRuns
    /\ runs' = runs \cup {[pr |-> p, commit |-> Len(pr[p].commits),
                           base |-> ForkOf(HeadOf(p)), tree |-> HeadOf(p).file]}
    /\ UNCHANGED <<main, pr, passed, queue>>

Finish(r) ==
    /\ runs' = runs \ {r}
    /\ IF DispatchPasses(r) THEN Pass(r.pr, r.commit) ELSE UNCHANGED passed
    /\ UNCHANGED <<main, pr, queue>>

--------------------------------------------------------------------------------
(* The merge queue.                                                           *)

QueueTree == IF queue = <<>> THEN Tip ELSE Last(queue).tree

Queued(p) == \E i \in DOMAIN queue : queue[i].pr = p

MergeGroup(p, parent) ==
    [pr |-> p, base |-> parent, tree |-> TreeOn(p, parent), held |-> {pr[p].body},
     check |-> "requested", accept |-> {}]

(* A group that leaves takes those built on it along; their pull requests     *)
(* are queued again.                                                          *)
QueueWithout(i) == SubSeq(queue, 1, i - 1)

Unqueued(p) ==
    IF Queued(p) THEN QueueWithout(CHOOSE i \in DOMAIN queue : queue[i].pr = p) ELSE queue

Enqueue(p) ==
    /\ pr[p].state = "open" /\ ~Queued(p)
    /\ Len(pr[p].commits) \in passed[p]
    /\ MergesInto(p, QueueTree)
    /\ queue' = Append(queue, MergeGroup(p, QueueTree))
    /\ UNCHANGED <<main, pr, passed, runs>>

(* Mutant: every line the head ever carried counts.                           *)
EventLinesCheck(g) ==
    IF pr[g.pr].state # "open" THEN [g EXCEPT !.check = "failed"]
    ELSE LET lines == UNION HeadOf(g.pr).held
         IN  [g EXCEPT !.accept = lines,
                       !.check = IF GuardPasses(g.base, g.tree, lines)
                                 THEN "passed" ELSE "failed"]

(* A queue run names its pull request, which must be open, and reads the body *)
(* it has by now.                                                             *)
GroupChecked(g) ==
    IF pr[g.pr].state # "open" THEN [g EXCEPT !.check = "failed"]
    ELSE [g EXCEPT !.accept = pr[g.pr].body,
                   !.check = IF GuardPasses(g.base, g.tree, pr[g.pr].body)
                             THEN "passed" ELSE "failed"]

QueueRun(i) ==
    /\ queue[i].check = "requested"
    /\ queue' = [queue EXCEPT ![i] = GroupChecked(@)]
    /\ UNCHANGED <<main, pr, passed, runs>>

Land ==
    /\ queue # <<>> /\ Head(queue).check = "passed"
    /\ pr[Head(queue).pr].state = "open"
    /\ Len(main) < MaxMain
    /\ main' = Append(main, [file |-> Head(queue).tree, accept |-> Head(queue).accept,
                             held |-> Head(queue).held])
    /\ pr' = [pr EXCEPT ![Head(queue).pr].state = "merged"]
    /\ queue' = Tail(queue)
    /\ UNCHANGED <<passed, runs>>

Evict(i) ==
    /\ queue[i].check = "failed" \/ pr[queue[i].pr].state # "open"
    /\ queue' = QueueWithout(i)
    /\ UNCHANGED <<main, pr, passed, runs>>

--------------------------------------------------------------------------------
(* What a pull request's author does.                                         *)

NewCommit(p, file, fork) ==
    [file |-> file, fork |-> fork,
     held |-> IF pr[p].state = "open" THEN {pr[p].body} ELSE {}]

Commit(p, file, fork) ==
    /\ Len(pr[p].commits) < MaxCommits[p]
    /\ pr' = [pr EXCEPT ![p] =
                 [@ EXCEPT !.commits = Append(pr[p].commits, NewCommit(p, file, fork)),
                           !.shown = pr[p].shown + (IF p \in Dispatched THEN 0 ELSE 1)]]
    /\ queue' = Unqueued(p)
    /\ IF pr[p].state = "open" THEN Event(p) ELSE UNCHANGED passed
    /\ UNCHANGED <<main, runs>>

Push(p) ==
    /\ pr[p].state \in {"branch", "open"}
    /\ \E f \in PushFiles[p][main[1].file][2] \ {HeadOf(p).file} : Commit(p, f, HeadOf(p).fork)

UpdateBranch(p) ==
    /\ pr[p].state = "open"
    /\ HeadOf(p).fork < Len(main)
    /\ MergesInto(p, Tip)
    /\ Commit(p, TreeOn(p, Tip), Len(main))

(* The API shows a push a while after it; only dispatched runs look.          *)
ShowHead(p) ==
    /\ pr[p].shown < Len(pr[p].commits)
    /\ pr' = [pr EXCEPT ![p].shown = Len(pr[p].commits)]
    /\ UNCHANGED <<main, passed, runs, queue>>

Holding(commits, from, body) ==
    [i \in DOMAIN commits |->
        IF i < from THEN commits[i] ELSE [commits[i] EXCEPT !.held = @ \cup {body}]]

WithBody(p, body) ==
    [pr EXCEPT ![p] = [@ EXCEPT !.state = "open", !.body = body,
                                !.commits = Holding(pr[p].commits, pr[p].shown, body)]]

Open(p) ==
    /\ pr[p].state = "branch"
    /\ pr' = WithBody(p, pr[p].body)
    /\ Event(p)
    /\ UNCHANGED <<main, runs, queue>>

(* The lines an author may add: those the guard prints on the head.           *)
LinesShown(p) ==
    {TripsOf[<<main[i].file, TreeOn(p, main[i].file)>>] :
        i \in {i \in HeadOf(p).fork .. Len(main) : MergesInto(p, main[i].file)}}

EditBody(p) ==
    /\ pr[p].state = "open"
    /\ \E body \in ({{}} \cup {{line} : line \in LinesShown(p) \ {{}}}) \ {pr[p].body} :
          /\ pr' = WithBody(p, body)
          /\ queue' = [i \in DOMAIN queue |->
                          IF queue[i].pr = p THEN [queue[i] EXCEPT !.held = @ \cup {body}]
                          ELSE queue[i]]
    /\ Event(p)
    /\ UNCHANGED <<main, runs>>

Close(p) ==
    /\ pr[p].state = "open"
    /\ pr' = [pr EXCEPT ![p].state = "closed"]
    /\ UNCHANGED <<main, passed, runs, queue>>

--------------------------------------------------------------------------------
Init ==
    /\ \E f \in FirstFiles : main = <<[file |-> f, accept |-> {}, held |-> {}]>>
    /\ pr = [p \in PRs |->
                [state |-> "branch", body |-> {}, shown |-> 1,
                 commits |-> <<[file |-> PushFiles[p][Tip][1], fork |-> 1, held |-> {}]>>]]
    /\ passed = [p \in PRs |-> {}]
    /\ runs = {}
    /\ queue = <<>>

Next ==
    \/ \E p \in PRs :
          \/ Push(p) \/ UpdateBranch(p) \/ ShowHead(p) \/ Open(p) \/ EditBody(p)
          \/ Close(p) \/ Dispatch(p) \/ Enqueue(p)
    \/ \E r \in runs : Finish(r)
    \/ \E i \in DOMAIN queue : QueueRun(i) \/ Evict(i)
    \/ Land

Spec == Init /\ [][Next]_vars

--------------------------------------------------------------------------------
Bodies == SUBSET {TripsOf[f] : f \in Files \X Files}
Landings == [file : Files, accept : Bodies, held : SUBSET Bodies]
Commits == [file : Files, fork : Nat \ {0}, held : SUBSET Bodies]
PullRequests ==
    [state : {"branch", "open", "closed", "merged"}, body : Bodies, shown : Nat,
     commits : Seq(Commits)]
Groups ==
    [pr : PRs, base : Files, tree : Files, held : SUBSET Bodies,
     check : {"requested", "passed", "failed"}, accept : Bodies]

TypeOK ==
    /\ main \in Seq(Landings) /\ main # <<>>
    /\ pr \in [PRs -> PullRequests]
    /\ \A p \in PRs : pr[p].commits # <<>>
    /\ passed \in [PRs -> SUBSET Nat]
    /\ runs \subseteq [pr : PRs, commit : Nat, base : Files, tree : Files]
    /\ queue \in Seq(Groups)

(* A phone that had internet, attach or working MMS at one commit of main and *)
(* has it no more at a later one, its scope in the file all the while, lost it*)
(* in a commit whose pull request carried the line that accepts that loss.    *)
AcceptedLoss(r, k) ==
    /\ \E t \in TripsOf[<<main[k - 1].file, main[k].file>>] : <<t[1], t[2], t[3]>> = r
    /\ TripsOf[<<main[k - 1].file, main[k].file>>] \in main[k].accept

LossesWereAccepted ==
    \A i, j \in DOMAIN main : i < j =>
        \A r \in RolesOf[main[i].file] \ RolesOf[main[j].file] :
            (\A k \in i .. j : r[2] \in InFile(main[k].file)) =>
                \E k \in i + 1 .. j : AcceptedLoss(r, k)

(* What a commit of main holds against the one before it is accepted by a     *)
(* body its pull request had after the group that landed was built, not only  *)
(* by one that an earlier event carried.                                      *)
LandedLinesStood ==
    \A k \in 2 .. Len(main) :
        \E body \in main[k].held : GuardPasses(main[k - 1].file, main[k].file, body)

(* A commit of a branch with a passing run changes nothing since its merge    *)
(* base, or on a commit of main holds nothing, or holds what a body accepted  *)
(* that the pull request had while this commit was its head.                  *)
PassedOnItsOwnBody ==
    \A p \in PRs : \A c \in passed[p] :
        LET commit == pr[p].commits[c]
        IN  \/ commit.file = ForkOf(commit)
            \/ \E i \in commit.fork .. Len(main), body \in commit.held \cup {{}} :
                  LET f == main[i].file
                  IN  /\ Merges(ForkOf(commit), commit.file, f)
                      /\ GuardPasses(f, Merged(ForkOf(commit), commit.file, f), body)
================================================================================
