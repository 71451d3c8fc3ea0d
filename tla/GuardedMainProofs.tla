--------------------------- MODULE GuardedMainProofs ---------------------------
(* Proofs about the way past the guard: for any pull requests, files and      *)
(* tables in which every lost role is a trip, and any bounds, what main loses *)
(* was accepted by the commit that lost it. And about the guard's own lines,  *)
(* for any rows: every lost role is a trip or a line of the report.           *)
EXTENDS GuardedReports, TLAPS

(* What each action changes of a pull request: its body, which then is held   *)
(* by its group too, its state, the commits it adds.                          *)
ForksInMain ==
    \A p \in PRs : \A i \in DOMAIN pr[p].commits : pr[p].commits[i].fork \in DOMAIN main

QueueChained ==
    \A i \in DOMAIN queue : queue[i].base = IF i = 1 THEN Tip ELSE queue[i - 1].tree

GroupOK(g) ==
    /\ pr[g.pr].body \in g.held
    /\ g.check = "passed" => g.accept \in g.held /\ GuardPasses(g.base, g.tree, g.accept)

GroupsOK == \A i \in DOMAIN queue : GroupOK(queue[i])

LandingsOK ==
    \A k \in 2 .. Len(main) :
        /\ main[k].accept \in main[k].held
        /\ GuardPasses(main[k - 1].file, main[k].file, main[k].accept)

Typed == TypeOK /\ ForksInMain /\ main[1].file \in FirstFiles
Inv == Typed /\ QueueChained /\ GroupsOK /\ LandingsOK /\ LossesWereAccepted

--------------------------------------------------------------------------------
(* Sequences.                                                                 *)

LEMMA LastIn ==
  ASSUME NEW S, NEW s \in Seq(S), s # <<>>
  PROVE  Len(s) \in Nat \ {0} /\ Last(s) = s[Len(s)] /\ Last(s) \in S /\ Len(s) \in DOMAIN s
  BY DEF Last

LEMMA AppendType ==
  ASSUME NEW S, NEW s \in Seq(S), NEW e \in S
  PROVE  /\ Append(s, e) \in Seq(S) /\ Append(s, e) # <<>>
         /\ Len(Append(s, e)) = Len(s) + 1 /\ DOMAIN Append(s, e) = 1 .. Len(s) + 1
         /\ Append(s, e)[Len(s) + 1] = e
         /\ \A i \in DOMAIN s : Append(s, e)[i] = s[i]
  OBVIOUS

LEMMA MapType ==
  ASSUME NEW S, NEW n \in Nat, NEW f \in [1 .. n -> S]
  PROVE  f \in Seq(S) /\ Len(f) = n
  OBVIOUS

--------------------------------------------------------------------------------
(* Types.                                                                     *)

LEMMA MainType ==
  ASSUME Typed
  PROVE  /\ \A i \in DOMAIN main : main[i] \in Landings /\ main[i].file \in Files
         /\ Len(main) \in Nat \ {0} /\ DOMAIN main = 1 .. Len(main)
         /\ Tip = main[Len(main)].file /\ Tip \in Files
<1>1. main \in Seq(Landings) /\ main # <<>>
  BY DEF Typed, TypeOK
<1>2. \A i \in DOMAIN main : main[i] \in Landings
  BY <1>1
<1>3. \A i \in DOMAIN main : main[i].file \in Files
  BY <1>2 DEF Landings
<1>4. QED
  BY <1>1, <1>2, <1>3, LastIn DEF Tip

LEMMA HeadType ==
  ASSUME Typed, NEW p \in PRs
  PROVE  /\ pr[p] \in PullRequests
         /\ HeadOf(p) \in Commits /\ HeadOf(p).fork \in DOMAIN main
         /\ HeadOf(p).file \in Files /\ ForkOf(HeadOf(p)) \in Files
<1>1. pr[p] \in PullRequests /\ pr[p].commits # <<>>
  BY DEF Typed, TypeOK
<1>2. pr[p].commits \in Seq(Commits)
  BY <1>1 DEF PullRequests
<1>3. HeadOf(p) \in Commits /\ HeadOf(p).fork \in DOMAIN main
  BY <1>1, <1>2, LastIn DEF HeadOf, Typed, ForksInMain
<1>4. QED
  BY <1>1, <1>3, MainType DEF ForkOf, Commits

LEMMA TreeType ==
  ASSUME Typed, NEW p \in PRs, NEW f \in Files
  PROVE  TreeOn(p, f) \in Files
  BY HeadType, FilesAssumption DEF TreeOn

(* A pull request whose body stays a body and whose commits stay commits.     *)
LEMMA SetPullRequest ==
  ASSUME Typed, NEW p \in PRs, NEW q \in PullRequests, pr' = [pr EXCEPT ![p] = q],
         main' = main, q.commits # <<>>,
         \A i \in DOMAIN q.commits : q.commits[i].fork \in DOMAIN main
  PROVE  /\ pr' \in [PRs -> PullRequests] /\ ForksInMain'
         /\ \A r \in PRs : pr'[r].commits # <<>>
  BY DEF Typed, TypeOK, ForksInMain

LEMMA PassType ==
  ASSUME Typed, NEW p \in PRs, NEW c \in Nat, Pass(p, c) \/ UNCHANGED passed
  PROVE  passed' \in [PRs -> SUBSET Nat]
  BY DEF Typed, TypeOK, Pass

LEMMA EventType ==
  ASSUME Typed, NEW p \in PRs, pr' \in [PRs -> PullRequests], Event(p)
  PROVE  passed' \in [PRs -> SUBSET Nat]
<1>1. pr'[p].commits \in Seq(Commits)
  BY DEF PullRequests
<1>2. Len(pr'[p].commits) \in Nat
  BY <1>1
<1>3. Pass(p, Len(pr'[p].commits)) \/ UNCHANGED passed
  BY DEF Event
<1>4. QED
  BY <1>2, <1>3, PassType

LEMMA Prefix ==
  ASSUME Typed, NEW i \in DOMAIN queue
  PROVE  /\ QueueWithout(i) \in Seq(Groups)
         /\ DOMAIN QueueWithout(i) = 1 .. i - 1
         /\ \A j \in 1 .. i - 1 : QueueWithout(i)[j] = queue[j]
  BY DEF Typed, TypeOK, QueueWithout

LEMMA UnqueuedPrefix ==
  ASSUME Typed, NEW p \in PRs
  PROVE  /\ Unqueued(p) \in Seq(Groups)
         /\ DOMAIN Unqueued(p) \subseteq DOMAIN queue
         /\ \A j \in DOMAIN Unqueued(p) : Unqueued(p)[j] = queue[j]
<1>1. CASE Queued(p)
  <2>1. PICK i \in DOMAIN queue : Unqueued(p) = QueueWithout(i)
    BY <1>1 DEF Unqueued, Queued
  <2>2. queue \in Seq(Groups) /\ DOMAIN queue = 1 .. Len(queue) /\ Len(queue) \in Nat
    BY DEF Typed, TypeOK
  <2>3. 1 .. i - 1 \subseteq DOMAIN queue
    BY <2>2
  <2>4. QED
    BY <2>1, <2>3, Prefix
<1>2. CASE ~Queued(p)
  BY <1>2 DEF Unqueued, Typed, TypeOK
<1>3. QED
  BY <1>1, <1>2
--------------------------------------------------------------------------------
(* What a step does to a pull request's body: only an edit changes it, and    *)
(* then its group takes it in.                                                *)

LEMMA HoldingType ==
  ASSUME NEW commits \in Seq(Commits), NEW from, NEW body \in Bodies
  PROVE  /\ Holding(commits, from, body) \in Seq(Commits)
         /\ DOMAIN Holding(commits, from, body) = DOMAIN commits
         /\ \A i \in DOMAIN commits :
               Holding(commits, from, body)[i].fork = commits[i].fork
<1> DEFINE new == Holding(commits, from, body)
<1>1. DOMAIN commits = 1 .. Len(commits) /\ Len(commits) \in Nat
  OBVIOUS
<1>2. ASSUME NEW i \in DOMAIN commits
      PROVE  new[i] \in Commits /\ new[i].fork = commits[i].fork
  <2>1. commits[i] \in Commits
    OBVIOUS
  <2>2. [commits[i] EXCEPT !.held = @ \cup {body}] \in Commits
    BY <2>1 DEF Commits
  <2>3. new[i] = commits[i] \/ new[i] = [commits[i] EXCEPT !.held = @ \cup {body}]
    BY DEF Holding
  <2>4. QED
    BY <2>1, <2>2, <2>3 DEF Commits
<1>3. new = [i \in DOMAIN commits |-> new[i]]
  BY DEF Holding
<1> HIDE DEF new
<1>4. new \in [1 .. Len(commits) -> Commits]
  BY <1>1, <1>2, <1>3
<1>5. QED
  BY <1>1, <1>2, <1>4, MapType DEF new

LEMMA WithBodyType ==
  ASSUME Typed, NEW p \in PRs, NEW body \in Bodies, pr' = WithBody(p, body), main' = main
  PROVE  /\ pr' \in [PRs -> PullRequests] /\ ForksInMain'
         /\ \A r \in PRs : pr'[r].commits # <<>>
         /\ \A r \in PRs : pr'[r].body = IF r = p THEN body ELSE pr[r].body
<1> DEFINE old == pr[p].commits
           new == Holding(old, pr[p].shown, body)
           q   == [pr[p] EXCEPT !.state = "open", !.body = body, !.commits = new]
<1>1. pr[p] \in PullRequests /\ old \in Seq(Commits) /\ old # <<>>
  BY HeadType DEF Typed, TypeOK, PullRequests
<1>2. new \in Seq(Commits) /\ new # <<>>
  <2>1. Len(old) \in DOMAIN old
    BY <1>1, LastIn
  <2>2. QED
    BY <1>1, <2>1, HoldingType
<1>3. \A i \in DOMAIN new : new[i].fork \in DOMAIN main
  BY <1>1, HoldingType DEF Typed, ForksInMain
<1> HIDE DEF new
<1>4. q \in PullRequests /\ q.commits = new /\ q.body = body
  BY <1>1, <1>2 DEF PullRequests
<1>5. pr' = [pr EXCEPT ![p] = q]
  BY DEF WithBody, new
<1> HIDE DEF q
<1>6. QED
  BY <1>2, <1>3, <1>4, <1>5, SetPullRequest DEF Typed, TypeOK

LEMMA CommitType ==
  ASSUME Typed, NEW p \in PRs, NEW f \in Files, NEW k \in DOMAIN main, Commit(p, f, k)
  PROVE  Typed' /\ \A r \in PRs : pr'[r].body = pr[r].body
<1> DEFINE c   == NewCommit(p, f, k)
           new == Append(pr[p].commits, c)
           show == pr[p].shown + (IF p \in Dispatched THEN 0 ELSE 1)
           q   == [pr[p] EXCEPT !.commits = new, !.shown = show]
<1>1. pr[p] \in PullRequests /\ pr[p].commits \in Seq(Commits) /\ main' = main
  BY HeadType DEF PullRequests, Commit
<1>2. c \in Commits
  BY <1>1, MainType DEF Commits, PullRequests, NewCommit
<1>3. new \in Seq(Commits) /\ new # <<>>
  BY <1>1, <1>2, AppendType
<1>4. \A i \in DOMAIN new : new[i].fork \in DOMAIN main
  <2>1. \A i \in DOMAIN pr[p].commits : pr[p].commits[i].fork \in DOMAIN main
    BY DEF Typed, ForksInMain
  <2>2. DOMAIN pr[p].commits = 1 .. Len(pr[p].commits) /\ Len(pr[p].commits) \in Nat
    BY <1>1
  <2>3. DOMAIN new = 1 .. Len(pr[p].commits) + 1
    BY <1>1, <1>2, AppendType
  <2>4. new[Len(pr[p].commits) + 1].fork = k
    BY <1>1, <1>2, AppendType DEF NewCommit
  <2>5. \A i \in DOMAIN pr[p].commits : new[i] = pr[p].commits[i]
    BY <1>1, <1>2, AppendType
  <2>6. QED
    BY <2>1, <2>2, <2>3, <2>4, <2>5
<1> HIDE DEF new, c
<1>5. show \in Nat
  BY <1>1 DEF PullRequests
<1> HIDE DEF show
<1>6. q \in PullRequests /\ q.commits = new /\ q.body = pr[p].body
  BY <1>1, <1>3, <1>5 DEF PullRequests
<1>7. pr' = [pr EXCEPT ![p] = q]
  BY DEF Commit, new, c, show
<1> HIDE DEF q
<1>8. /\ pr' \in [PRs -> PullRequests] /\ ForksInMain'
      /\ \A r \in PRs : pr'[r].commits # <<>>
  BY <1>1, <1>3, <1>4, <1>5, <1>6, <1>7, SetPullRequest
<1>9. passed' \in [PRs -> SUBSET Nat]
  BY <1>8, EventType DEF Commit, Typed, TypeOK
<1>10. queue' \in Seq(Groups) /\ runs' = runs
  BY UnqueuedPrefix DEF Commit
<1>11. QED
  BY <1>1, <1>6, <1>7, <1>8, <1>9, <1>10 DEF Typed, TypeOK

--------------------------------------------------------------------------------
(* The queue.                                                                 *)

LEMMA GroupType ==
  ASSUME Typed
  PROVE  /\ Len(queue) \in Nat /\ DOMAIN queue = 1 .. Len(queue)
         /\ \A i \in DOMAIN queue :
               /\ queue[i] \in Groups /\ queue[i].pr \in PRs
               /\ queue[i].base \in Files /\ queue[i].tree \in Files
<1>1. queue \in Seq(Groups)
  BY DEF Typed, TypeOK
<1>2. \A i \in DOMAIN queue : queue[i] \in Groups
  BY <1>1
<1>3. QED
  BY <1>1, <1>2 DEF Groups

LEMMA KeptGroups ==
  ASSUME Typed, QueueChained, GroupsOK, main' = main,
         \A p \in PRs : pr'[p].body = pr[p].body,
         NEW n \in Nat, n <= Len(queue), DOMAIN queue' = 1 .. n,
         \A j \in 1 .. n : queue'[j] = queue[j]
  PROVE  QueueChained' /\ GroupsOK'
<1>1. 1 .. n \subseteq DOMAIN queue
  BY GroupType
<1>2. Tip' = Tip
  BY DEF Tip
<1>3. QueueChained'
  BY <1>1, <1>2 DEF QueueChained
<1>4. \A j \in 1 .. n : GroupOK(queue[j])'
  <2> TAKE j \in 1 .. n
  <2>1. GroupOK(queue[j]) /\ queue[j].pr \in PRs
    BY <1>1, GroupType DEF GroupsOK
  <2>2. queue'[j] = queue[j]
    OBVIOUS
  <2>3. QED
    BY <2>1, <2>2 DEF GroupOK, GuardPasses
<1>5. QED
  BY <1>3, <1>4 DEF GroupsOK

LEMMA SameQueue ==
  ASSUME Typed, QueueChained, GroupsOK, main' = main, queue' = queue,
         \A p \in PRs : pr'[p].body = pr[p].body
  PROVE  QueueChained' /\ GroupsOK'
<1>1. DOMAIN queue' = 1 .. Len(queue) /\ Len(queue) \in Nat /\ Len(queue) <= Len(queue)
  BY GroupType
<1>2. QED
  BY <1>1, KeptGroups

LEMMA SameMain ==
  ASSUME main' = main
  PROVE  (LandingsOK => LandingsOK') /\ (LossesWereAccepted => LossesWereAccepted')
  BY DEF LandingsOK, LossesWereAccepted, GuardPasses, AcceptedLoss

--------------------------------------------------------------------------------
(* The steps that leave main as it is.                                        *)

LEMMA CommitStep ==
  ASSUME Inv, NEW p \in PRs, NEW f \in Files, NEW k \in DOMAIN main, Commit(p, f, k)
  PROVE  Inv'
<1>1. Typed' /\ main' = main /\ \A r \in PRs : pr'[r].body = pr[r].body
  BY CommitType DEF Inv, Commit
<1>2. PICK n \in Nat : /\ n <= Len(queue) /\ DOMAIN queue' = 1 .. n
                       /\ \A j \in 1 .. n : queue'[j] = queue[j]
  <2>1. Unqueued(p) \in Seq(Groups)
    BY UnqueuedPrefix DEF Inv
  <2>2. DOMAIN Unqueued(p) = 1 .. Len(Unqueued(p)) /\ Len(Unqueued(p)) \in Nat
    BY <2>1
  <2>3. 1 .. Len(Unqueued(p)) \subseteq 1 .. Len(queue) /\ Len(queue) \in Nat
    BY <2>2, UnqueuedPrefix, GroupType DEF Inv
  <2>4. Len(Unqueued(p)) <= Len(queue)
    BY <2>2, <2>3
  <2>5. queue' = Unqueued(p)
    BY DEF Commit
  <2>6. QED
    BY <2>2, <2>4, <2>5, UnqueuedPrefix DEF Inv
<1>3. QueueChained' /\ GroupsOK'
  BY <1>1, <1>2, KeptGroups DEF Inv
<1>4. QED
  BY <1>1, <1>3, SameMain DEF Inv

LEMMA PushStep == ASSUME Inv, NEW p \in PRs, Push(p) PROVE Inv'
<1> DEFINE files == PushFiles[p][main[1].file]
<1>1. PICK f \in files[2] : Commit(p, f, HeadOf(p).fork)
  BY DEF Push
<1>2. files \in Files \X SUBSET Files
  BY FilesAssumption DEF Inv, Typed
<1>3. f \in Files
  BY <1>1, <1>2
<1>4. QED
  BY <1>1, <1>3, HeadType, CommitStep DEF Inv

LEMMA UpdateStep == ASSUME Inv, NEW p \in PRs, UpdateBranch(p) PROVE Inv'
<1>1. Tip \in Files /\ Len(main) \in DOMAIN main
  BY MainType DEF Inv
<1>2. TreeOn(p, Tip) \in Files
  BY <1>1, TreeType DEF Inv
<1>3. QED
  BY <1>1, <1>2, CommitStep DEF UpdateBranch

(* A step that changes no commits and no body, and not the queue.             *)
LEMMA QuietStep ==
  ASSUME Inv, UNCHANGED <<main, queue>>, pr' \in [PRs -> PullRequests],
         passed' \in [PRs -> SUBSET Nat],
         runs' \subseteq [pr : PRs, commit : Nat, base : Files, tree : Files],
         \A p \in PRs : pr'[p].body = pr[p].body /\ pr'[p].commits = pr[p].commits
  PROVE  Inv'
<1>1. Typed'
  BY DEF Inv, Typed, TypeOK, ForksInMain
<1>2. QED
  BY <1>1, SameQueue, SameMain DEF Inv

LEMMA ShowStep == ASSUME Inv, NEW p \in PRs, ShowHead(p) PROVE Inv'
<1> DEFINE q == [pr[p] EXCEPT !.shown = Len(pr[p].commits)]
<1>1. pr[p] \in PullRequests /\ pr[p].commits \in Seq(Commits)
  BY HeadType DEF Inv, PullRequests
<1>2. Len(pr[p].commits) \in Nat
  BY <1>1
<1>3. q \in PullRequests /\ q.body = pr[p].body /\ q.commits = pr[p].commits
  BY <1>1, <1>2 DEF PullRequests
<1>4. pr' = [pr EXCEPT ![p] = q]
  BY DEF ShowHead
<1> HIDE DEF q
<1>5. /\ pr' \in [PRs -> PullRequests]
      /\ \A r \in PRs : pr'[r].body = pr[r].body /\ pr'[r].commits = pr[r].commits
  BY <1>3, <1>4 DEF Inv, Typed, TypeOK
<1>6. QED
  BY <1>5, QuietStep DEF ShowHead, Inv, Typed, TypeOK

LEMMA CloseStep == ASSUME Inv, NEW p \in PRs, Close(p) PROVE Inv'
<1> DEFINE q == [pr[p] EXCEPT !.state = "closed"]
<1>1. pr[p] \in PullRequests
  BY HeadType DEF Inv
<1>2. q \in PullRequests /\ q.body = pr[p].body /\ q.commits = pr[p].commits
  BY <1>1 DEF PullRequests
<1>3. pr' = [pr EXCEPT ![p] = q]
  BY DEF Close
<1> HIDE DEF q
<1>4. /\ pr' \in [PRs -> PullRequests]
      /\ \A r \in PRs : pr'[r].body = pr[r].body /\ pr'[r].commits = pr[r].commits
  BY <1>2, <1>3 DEF Inv, Typed, TypeOK
<1>5. QED
  BY <1>4, QuietStep DEF Close, Inv, Typed, TypeOK

LEMMA DispatchStep == ASSUME Inv, NEW p \in PRs, Dispatch(p) PROVE Inv'
<1>1. pr[p].commits \in Seq(Commits)
  BY HeadType DEF Inv, PullRequests
<1>2. Len(pr[p].commits) \in Nat
  BY <1>1
<1>3. runs' \subseteq [pr : PRs, commit : Nat, base : Files, tree : Files]
  BY <1>2, HeadType DEF Dispatch, Inv, Typed, TypeOK
<1>4. QED
  BY <1>3, QuietStep DEF Dispatch, Inv, Typed, TypeOK

LEMMA FinishStep == ASSUME Inv, NEW r \in runs, Finish(r) PROVE Inv'
<1>1. r.pr \in PRs /\ r.commit \in Nat
  BY DEF Inv, Typed, TypeOK
<1>2. passed' \in [PRs -> SUBSET Nat]
  BY <1>1, PassType DEF Finish, Inv
<1>3. QED
  BY <1>2, QuietStep DEF Finish, Inv, Typed, TypeOK

LEMMA OpenStep == ASSUME Inv, NEW p \in PRs, Open(p) PROVE Inv'
<1>1. pr[p].body \in Bodies
  BY HeadType DEF Inv, PullRequests
<1>2. /\ pr' \in [PRs -> PullRequests] /\ ForksInMain'
      /\ \A r \in PRs : pr'[r].commits # <<>> /\ pr'[r].body = pr[r].body
  BY <1>1, WithBodyType DEF Open, Inv
<1>3. passed' \in [PRs -> SUBSET Nat]
  BY <1>2, EventType DEF Open, Inv
<1>4. Typed'
  BY <1>2, <1>3 DEF Open, Inv, Typed, TypeOK
<1>5. QED
  BY <1>2, <1>4, SameQueue, SameMain DEF Open, Inv

(* An edit gives the group of the pull request the new body too.              *)
LEMMA EditStep == ASSUME Inv, NEW p \in PRs, EditBody(p) PROVE Inv'
<1> DEFINE Added(g, body) == [g EXCEPT !.held = @ \cup {body}]
<1>1. PICK body \in {{}} \cup {{line} : line \in LinesShown(p)} :
        /\ pr' = WithBody(p, body)
        /\ queue' = [i \in DOMAIN queue |->
                        IF queue[i].pr = p THEN Added(queue[i], body) ELSE queue[i]]
  BY DEF EditBody
<1>2. body \in Bodies
  <2>1. \A line \in LinesShown(p) : \E f \in Files \X Files : line = TripsOf[f]
    <3> TAKE line \in LinesShown(p)
    <3>1. PICK i \in HeadOf(p).fork .. Len(main) :
            line = TripsOf[<<main[i].file, TreeOn(p, main[i].file)>>]
      BY DEF LinesShown
    <3>2. i \in DOMAIN main
      BY HeadType, MainType DEF Inv
    <3>3. main[i].file \in Files /\ TreeOn(p, main[i].file) \in Files
      BY <3>2, MainType, TreeType DEF Inv
    <3>4. QED
      BY <3>1, <3>3
  <2>2. QED
    BY <2>1 DEF Bodies
<1>3. /\ pr' \in [PRs -> PullRequests] /\ ForksInMain'
      /\ \A r \in PRs : pr'[r].commits # <<>>
      /\ \A r \in PRs : pr'[r].body = IF r = p THEN body ELSE pr[r].body
  BY <1>1, <1>2, WithBodyType DEF EditBody, Inv
<1>4. passed' \in [PRs -> SUBSET Nat]
  BY <1>3, EventType DEF EditBody, Inv
<1>5. ASSUME NEW i \in DOMAIN queue
      PROVE  /\ queue'[i] \in Groups /\ GroupOK(queue[i])'
             /\ queue'[i].base = queue[i].base /\ queue'[i].tree = queue[i].tree
  <2>1. queue[i] \in Groups /\ queue[i].pr \in PRs /\ GroupOK(queue[i])
    BY GroupType DEF Inv, GroupsOK
  <2>2. CASE queue[i].pr = p
    <3>1. queue'[i] = Added(queue[i], body)
      BY <1>1, <2>2
    <3>2. Added(queue[i], body) \in Groups
      BY <1>2, <2>1 DEF Groups
    <3>3. /\ queue'[i].pr = p /\ queue'[i].base = queue[i].base
          /\ queue'[i].tree = queue[i].tree /\ queue'[i].check = queue[i].check
          /\ queue'[i].accept = queue[i].accept
          /\ queue'[i].held = queue[i].held \cup {body}
      BY <2>1, <2>2, <3>1 DEF Groups
    <3>4. QED
      BY <1>3, <2>1, <3>1, <3>2, <3>3 DEF GroupOK, GuardPasses
  <2>3. CASE queue[i].pr # p
    <3>1. queue'[i] = queue[i]
      BY <1>1, <2>3
    <3>2. QED
      BY <1>3, <2>1, <2>3, <3>1 DEF GroupOK, GuardPasses
  <2>4. QED
    BY <2>2, <2>3
<1>6. Len(queue) \in Nat /\ DOMAIN queue = 1 .. Len(queue) /\ DOMAIN queue' = DOMAIN queue
  BY <1>1, GroupType DEF Inv
<1>7. queue' \in Seq(Groups)
  <2>1. queue' = [i \in 1 .. Len(queue) |-> queue'[i]]
    BY <1>1, <1>6
  <2>2. queue' \in [1 .. Len(queue) -> Groups]
    BY <1>5, <1>6, <2>1
  <2>3. QED
    BY <1>6, <2>2, MapType
<1>8. Typed'
  BY <1>3, <1>4, <1>7 DEF EditBody, Inv, Typed, TypeOK
<1>9. GroupsOK'
  BY <1>5, <1>6 DEF GroupsOK
<1>10. QueueChained'
  <2>1. Tip' = Tip
    BY DEF EditBody, Tip
  <2>2. \A i \in DOMAIN queue : i # 1 => i - 1 \in DOMAIN queue
    BY <1>6
  <2>3. QED
    BY <1>5, <1>6, <2>1, <2>2 DEF QueueChained, Inv
<1>11. QED
  BY <1>8, <1>9, <1>10, SameMain DEF EditBody, Inv

LEMMA QueueTreeType ==
  ASSUME Typed
  PROVE  QueueTree \in Files
<1>1. CASE queue = <<>>
  BY <1>1, MainType DEF QueueTree
<1>2. CASE queue # <<>>
  <2>1. queue \in Seq(Groups)
    BY DEF Typed, TypeOK
  <2>2. Last(queue) \in Groups
    BY <1>2, <2>1, LastIn
  <2>3. QED
    BY <1>2, <2>2 DEF QueueTree, Groups
<1>3. QED
  BY <1>1, <1>2

(* A new group is built on the last one of the queue, or on main.             *)
LEMMA EnqueueStep == ASSUME Inv, NEW p \in PRs, Enqueue(p) PROVE Inv'
<1> DEFINE g == MergeGroup(p, QueueTree)
<1>1. pr[p] \in PullRequests /\ QueueTree \in Files /\ TreeOn(p, QueueTree) \in Files
  BY HeadType, QueueTreeType, TreeType DEF Inv
<1>2. {} \in Bodies
  BY DEF Bodies
<1>3. /\ g \in Groups /\ g.pr = p /\ g.base = QueueTree
      /\ g.held = {pr[p].body} /\ g.check = "requested"
  BY <1>1, <1>2 DEF MergeGroup, Groups, PullRequests
<1> HIDE DEF g
<1>4. queue \in Seq(Groups) /\ queue' = Append(queue, g)
      /\ main' = main /\ pr' = pr
  BY DEF Enqueue, Inv, Typed, TypeOK, g
<1>5. /\ queue' \in Seq(Groups) /\ DOMAIN queue' = 1 .. Len(queue) + 1
      /\ queue'[Len(queue) + 1] = g /\ \A i \in DOMAIN queue : queue'[i] = queue[i]
  BY <1>3, <1>4, AppendType
<1>6. Len(queue) \in Nat /\ DOMAIN queue = 1 .. Len(queue)
  BY GroupType DEF Inv
<1>7. Typed'
  BY <1>4, <1>5 DEF Enqueue, Inv, Typed, TypeOK, ForksInMain
<1>8. QueueChained'
  <2>1. Tip' = Tip
    BY <1>4 DEF Tip
  <2>2. QueueTree = IF Len(queue) = 0 THEN Tip ELSE queue[Len(queue)].tree
    BY <1>4 DEF QueueTree, Last
  <2>3. ASSUME NEW i \in DOMAIN queue
        PROVE  queue'[i].base = IF i = 1 THEN Tip ELSE queue'[i - 1].tree
    <3>1. i # 1 => i - 1 \in DOMAIN queue
      BY <1>6
    <3>2. QED
      BY <1>5, <3>1 DEF QueueChained, Inv
  <2>4. queue'[Len(queue) + 1].base =
           IF Len(queue) + 1 = 1 THEN Tip ELSE queue'[Len(queue) + 1 - 1].tree
    <3>1. Len(queue) # 0 => Len(queue) \in DOMAIN queue
      BY <1>6
    <3>2. Len(queue) + 1 - 1 = Len(queue) /\ (Len(queue) + 1 = 1 <=> Len(queue) = 0)
      BY <1>6
    <3>3. QED
      BY <1>3, <1>5, <2>2, <3>1, <3>2
  <2>5. \A i \in DOMAIN queue' : i \in DOMAIN queue \/ i = Len(queue) + 1
    BY <1>5, <1>6
  <2>6. QED
    BY <2>1, <2>3, <2>4, <2>5 DEF QueueChained
<1>9. GroupsOK'
  <2>1. \A i \in DOMAIN queue' : queue'[i] = g \/ (i \in DOMAIN queue /\ queue'[i] = queue[i])
    BY <1>5, <1>6
  <2>2. GroupOK(g)
    BY <1>3 DEF GroupOK
  <2>3. \A i \in DOMAIN queue' : GroupOK(queue[i])'
    BY <1>4, <2>1, <2>2 DEF GroupsOK, GroupOK, GuardPasses, Inv
  <2>4. QED
    BY <2>3 DEF GroupsOK
<1>10. QED
  BY <1>4, <1>7, <1>8, <1>9, SameMain DEF Inv

(* A run of the queue reads the body its group holds.                         *)
LEMMA QueueRunStep == ASSUME Inv, NEW i \in DOMAIN queue, QueueRun(i) PROVE Inv'
<1> DEFINE g == queue[i]
           new == GroupChecked(g)
<1>1. g \in Groups /\ g.pr \in PRs /\ GroupOK(g) /\ pr[g.pr].body \in Bodies
  <2>1. g \in Groups /\ g.pr \in PRs
    BY GroupType DEF Inv
  <2>2. QED
    BY <2>1, HeadType DEF GroupsOK, Inv, PullRequests
<1>2. /\ new \in Groups /\ new.pr = g.pr /\ new.base = g.base /\ new.tree = g.tree
      /\ new.held = g.held
      /\ new.check = "passed" =>
            new.accept = pr[g.pr].body /\ GuardPasses(g.base, g.tree, new.accept)
  <2>1. CASE pr[g.pr].state # "open"
    BY <1>1, <2>1 DEF GroupChecked, Groups
  <2>2. CASE pr[g.pr].state = "open"
    <3>1. CASE GuardPasses(g.base, g.tree, pr[g.pr].body)
      <4>1. new = [g EXCEPT !.accept = pr[g.pr].body, !.check = "passed"]
        BY <2>2, <3>1 DEF GroupChecked
      <4>2. QED
        BY <1>1, <3>1, <4>1 DEF Groups
    <3>2. CASE ~GuardPasses(g.base, g.tree, pr[g.pr].body)
      <4>1. new = [g EXCEPT !.accept = pr[g.pr].body, !.check = "failed"]
        BY <2>2, <3>2 DEF GroupChecked
      <4>2. QED
        BY <1>1, <4>1 DEF Groups
    <3>3. QED
      BY <3>1, <3>2
  <2>3. QED
    BY <2>1, <2>2
<1>3. queue' = [queue EXCEPT ![i] = new] /\ main' = main /\ pr' = pr
  BY DEF QueueRun
<1> HIDE DEF new
<1>4. queue \in Seq(Groups) /\ Len(queue) \in Nat /\ DOMAIN queue = 1 .. Len(queue)
  BY GroupType DEF Inv, Typed, TypeOK
<1>5. queue' \in Seq(Groups) /\ DOMAIN queue' = DOMAIN queue
  BY <1>2, <1>3, <1>4
<1>6. ASSUME NEW j \in DOMAIN queue
      PROVE  /\ GroupOK(queue[j])'
             /\ queue'[j].base = queue[j].base /\ queue'[j].tree = queue[j].tree
  <2>1. CASE j = i
    <3>1. queue'[j] = new
      BY <1>3, <1>4, <2>1
    <3>2. QED
      BY <1>1, <1>2, <1>3, <2>1, <3>1 DEF GroupOK, GuardPasses
  <2>2. CASE j # i
    <3>1. queue'[j] = queue[j] /\ GroupOK(queue[j])
      BY <1>3, <1>4, <2>2 DEF GroupsOK, Inv
    <3>2. QED
      BY <1>3, <3>1 DEF GroupOK, GuardPasses
  <2>3. QED
    BY <2>1, <2>2
<1>7. Typed'
  BY <1>3, <1>5 DEF QueueRun, Inv, Typed, TypeOK, ForksInMain
<1>8. GroupsOK'
  BY <1>5, <1>6 DEF GroupsOK
<1>9. QueueChained'
  <2>1. Tip' = Tip
    BY <1>3 DEF Tip
  <2>2. \A j \in DOMAIN queue : j # 1 => j - 1 \in DOMAIN queue
    BY <1>4
  <2>3. QED
    BY <1>5, <1>6, <2>1, <2>2 DEF QueueChained, Inv
<1>10. QED
  BY <1>3, <1>7, <1>8, <1>9, SameMain DEF Inv

LEMMA EvictStep == ASSUME Inv, NEW i \in DOMAIN queue, Evict(i) PROVE Inv'
<1>1. queue' = QueueWithout(i) /\ main' = main /\ pr' = pr
  BY DEF Evict
<1>2. i \in 1 .. Len(queue) /\ Len(queue) \in Nat
  BY GroupType DEF Inv
<1>3. i - 1 \in Nat /\ i - 1 <= Len(queue)
  BY <1>2
<1>4. queue' \in Seq(Groups) /\ DOMAIN queue' = 1 .. i - 1
      /\ \A j \in 1 .. i - 1 : queue'[j] = queue[j]
  BY <1>1, Prefix DEF Inv
<1>5. QueueChained' /\ GroupsOK'
  BY <1>1, <1>3, <1>4, KeptGroups DEF Inv
<1>6. Typed'
  BY <1>1, <1>4 DEF Evict, Inv, Typed, TypeOK, ForksInMain
<1>7. QED
  BY <1>1, <1>5, <1>6, SameMain DEF Inv

--------------------------------------------------------------------------------
(* The step that moves main: the first group lands, built on main's tip.      *)

LEMMA LandLosses ==
  ASSUME Inv, NEW c \in Landings, NEW n \in Nat \ {0}, n = Len(main),
         DOMAIN main' = 1 .. n + 1, main'[n + 1] = c,
         \A k \in 1 .. n : main'[k] = main[k],
         GuardPasses(Tip, c.file, c.accept)
  PROVE  LossesWereAccepted'
<1>1. n \in Nat \ {0} /\ DOMAIN main = 1 .. n /\ Tip = main[n].file /\ Tip \in Files
  BY MainType DEF Inv
<1>2. DOMAIN main' = 1 .. n + 1 /\ main'[n + 1] = c /\ \A k \in 1 .. n : main'[k] = main[k]
  OBVIOUS
<1>3. \A k \in 2 .. n : \A r : AcceptedLoss(r, k) => AcceptedLoss(r, k)'
  <2>1. \A k \in 2 .. n : main'[k] = main[k] /\ main'[k - 1] = main[k - 1]
    BY <1>1, <1>2
  <2>2. QED
    BY <2>1 DEF AcceptedLoss
<1>4. SUFFICES ASSUME NEW i \in 1 .. n + 1, NEW j \in 1 .. n + 1, i < j,
                      NEW r \in RolesOf[main'[i].file] \ RolesOf[main'[j].file],
                      \A k \in i .. j : r[2] \in InFile(main'[k].file)
               PROVE  \E k \in i + 1 .. j : AcceptedLoss(r, k)'
  BY <1>2 DEF LossesWereAccepted
<1>5. i \in 1 .. n /\ main'[i] = main[i]
  BY <1>1, <1>2, <1>4
<1>6. ASSUME NEW m \in 1 .. n, i < m, m <= j, r \notin RolesOf[main[m].file]
      PROVE  \E k \in i + 1 .. j : AcceptedLoss(r, k)'
  <2>1. \A k \in i .. m : k \in 1 .. n /\ k \in i .. j
    BY <1>1, <1>4, <1>5, <1>6
  <2>2. \A k \in i .. m : r[2] \in InFile(main[k].file)
    BY <1>2, <1>4, <2>1
  <2>3. PICK k \in i + 1 .. m : AcceptedLoss(r, k)
    BY <1>1, <1>4, <1>5, <1>6, <2>2 DEF LossesWereAccepted, Inv
  <2>4. k \in 2 .. n /\ k \in i + 1 .. j
    BY <1>1, <1>5, <1>6
  <2>5. QED
    BY <1>3, <2>3, <2>4
<1>7. CASE j # n + 1
  BY <1>1, <1>2, <1>4, <1>6, <1>7
<1>8. CASE j = n + 1 /\ r \notin RolesOf[main[n].file]
  <2>1. i # n
    BY <1>4, <1>5, <1>8
  <2>2. n \in 1 .. n /\ i < n /\ n <= j
    <3>1. i \in Nat /\ i <= n /\ j = n + 1
      BY <1>1, <1>5, <1>8
    <3>2. QED
      BY <1>1, <2>1, <3>1
  <2>3. QED
    BY <1>6, <1>8, <2>2
<1>9. CASE j = n + 1 /\ r \in RolesOf[main[n].file]
  <2>1. r \in RolesOf[Tip] \ RolesOf[c.file]
    BY <1>1, <1>2, <1>4, <1>9
  <2>2. n \in i .. j /\ n + 1 \in i .. j /\ n + 1 \in i + 1 .. j
    BY <1>1, <1>5, <1>9
  <2>3. r[2] \in InFile(Tip) \cap InFile(c.file)
    BY <1>1, <1>2, <1>4, <2>2
  <2>4. Tip \in Files /\ c.file \in Files
    BY <1>1 DEF Landings
  <2>5. \E t \in TripsOf[<<Tip, c.file>>] : <<t[1], t[2], t[3]>> = r
    BY <2>1, <2>3, <2>4, LossesTrip
  <2>6. TripsOf[<<Tip, c.file>>] \in c.accept
    BY <2>1, <2>5 DEF GuardPasses
  <2>7. main'[n + 1 - 1].file = Tip
    <3>1. n + 1 - 1 = n /\ n \in 1 .. n
      BY <1>1
    <3>2. QED
      BY <1>1, <1>2, <3>1
  <2>8. main'[n + 1] = c /\ n + 1 \in i + 1 .. j
    BY <1>1, <1>2, <2>2
  <2>9. AcceptedLoss(r, n + 1)'
    BY <2>5, <2>6, <2>7, <2>8 DEF AcceptedLoss
  <2>10. QED
    BY <2>8, <2>9
<1>10. QED
  BY <1>7, <1>8, <1>9

LEMMA LandStep == ASSUME Inv, Land PROVE Inv'
<1> DEFINE g == Head(queue)
           c == [file |-> g.tree, accept |-> g.accept, held |-> g.held]
           p == g.pr
           q == [pr[p] EXCEPT !.state = "merged"]
<1>1. Len(queue) \in Nat \ {0} /\ DOMAIN queue = 1 .. Len(queue) /\ g = queue[1]
  BY GroupType DEF Inv, Land
<1>2. g \in Groups /\ p \in PRs /\ GroupOK(g) /\ g.base = Tip
  BY <1>1, GroupType DEF Inv, GroupsOK, QueueChained
<1>3. g.accept \in g.held /\ GuardPasses(Tip, g.tree, g.accept)
  BY <1>2 DEF GroupOK, Land
<1>4. c \in Landings /\ main' = Append(main, c)
  BY <1>2 DEF Land, Groups, Landings
<1>5. c.file = g.tree /\ c.accept = g.accept /\ c.held = g.held
  OBVIOUS
<1> HIDE DEF c
<1>6. /\ main \in Seq(Landings) /\ Len(main) \in Nat \ {0} /\ DOMAIN main = 1 .. Len(main)
      /\ Tip = main[Len(main)].file
  BY MainType DEF Inv, Typed, TypeOK
<1>7. /\ main' \in Seq(Landings) /\ main' # <<>> /\ DOMAIN main' = 1 .. Len(main) + 1
      /\ Len(main') = Len(main) + 1
      /\ main'[Len(main) + 1] = c /\ \A k \in DOMAIN main : main'[k] = main[k]
  BY <1>4, <1>6, AppendType
<1>8. LossesWereAccepted'
  <2>1. \A k \in 1 .. Len(main) : main'[k] = main[k]
    BY <1>6, <1>7
  <2>2. QED
    BY <1>3, <1>4, <1>5, <1>6, <1>7, <2>1, LandLosses
<1>9. LandingsOK'
  <2>1. ASSUME NEW k \in 2 .. Len(main)
        PROVE  main'[k] = main[k] /\ main'[k - 1] = main[k - 1]
    BY <1>6, <1>7
  <2>2. main'[Len(main) + 1 - 1].file = Tip
    <3>1. Len(main) + 1 - 1 = Len(main) /\ Len(main) \in DOMAIN main
      BY <1>6
    <3>2. QED
      BY <1>6, <1>7, <3>1
  <2>3. \A k \in 2 .. Len(main) :
            /\ main'[k].accept \in main'[k].held
            /\ GuardPasses(main'[k - 1].file, main'[k].file, main'[k].accept)
    BY <2>1 DEF LandingsOK, Inv
  <2>4. /\ main'[Len(main) + 1].accept \in main'[Len(main) + 1].held
        /\ GuardPasses(main'[Len(main) + 1 - 1].file, main'[Len(main) + 1].file,
                       main'[Len(main) + 1].accept)
    BY <1>3, <1>5, <1>7, <2>2
  <2>5. \A k \in 2 .. Len(main') : k \in 2 .. Len(main) \/ k = Len(main) + 1
    BY <1>6, <1>7
  <2>6. ASSUME NEW k \in 2 .. Len(main')
        PROVE  /\ main'[k].accept \in main'[k].held
               /\ GuardPasses(main'[k - 1].file, main'[k].file, main'[k].accept)
    BY <2>3, <2>4, <2>5
  <2>7. QED
    BY <2>6 DEF LandingsOK, GuardPasses
<1>10. /\ q \in PullRequests /\ q.commits = pr[p].commits /\ q.body = pr[p].body
       /\ pr' = [pr EXCEPT ![p] = q]
  BY <1>2, HeadType DEF Inv, Land, PullRequests
<1> HIDE DEF q
<1>11. /\ pr' \in [PRs -> PullRequests]
       /\ \A r \in PRs : pr'[r].body = pr[r].body /\ pr'[r].commits = pr[r].commits
  BY <1>2, <1>10 DEF Inv, Typed, TypeOK
<1>12. /\ queue' \in Seq(Groups) /\ DOMAIN queue' = 1 .. Len(queue) - 1
       /\ \A i \in DOMAIN queue' : queue'[i] = queue[i + 1]
  BY <1>1 DEF Land, Inv, Typed, TypeOK
<1>13. Typed'
  <2>1. \A k \in DOMAIN main : k \in DOMAIN main'
    BY <1>6, <1>7
  <2>2. main'[1].file \in FirstFiles
    BY <1>6, <1>7 DEF Inv, Typed
  <2>3. QED
    BY <1>7, <1>11, <1>12, <2>1, <2>2 DEF Land, Inv, Typed, TypeOK, ForksInMain
<1>14. \A i \in DOMAIN queue' : i \in DOMAIN queue /\ i + 1 \in DOMAIN queue
  BY <1>1, <1>12
<1>15. GroupsOK'
  <2>1. ASSUME NEW i \in DOMAIN queue'
        PROVE  GroupOK(queue[i])'
    <3>1. GroupOK(queue[i + 1]) /\ queue[i + 1].pr \in PRs /\ queue'[i] = queue[i + 1]
      BY <1>12, <1>14, GroupType DEF Inv, GroupsOK
    <3>2. QED
      BY <1>11, <3>1 DEF GroupOK, GuardPasses
  <2>2. QED
    BY <2>1 DEF GroupsOK
<1>16. QueueChained'
  <2>1. Tip' = g.tree
    BY <1>5, <1>6, <1>7 DEF Tip, Last
  <2>2. ASSUME NEW i \in DOMAIN queue'
        PROVE  queue'[i].base = IF i = 1 THEN g.tree ELSE queue'[i - 1].tree
    <3>1. queue'[i] = queue[i + 1] /\ i + 1 \in DOMAIN queue /\ i + 1 # 1
      BY <1>12, <1>14, <1>1
    <3>2. queue[i + 1].base = queue[i].tree
      <4>1. \A k \in DOMAIN queue : k # 1 => queue[k].base = queue[k - 1].tree
        BY DEF QueueChained, Inv
      <4>2. queue[i + 1].base = queue[(i + 1) - 1].tree
        BY <3>1, <4>1
      <4>3. (i + 1) - 1 = i
        BY <1>1, <1>12
      <4>4. QED
        BY <4>2, <4>3
    <3>3. i # 1 => i - 1 \in DOMAIN queue' /\ queue'[i - 1] = queue[i]
      <4>1. i # 1 => i - 1 \in DOMAIN queue' /\ i - 1 + 1 = i
        BY <1>1, <1>12
      <4>2. QED
        BY <1>12, <4>1
    <3>4. QED
      BY <1>1, <3>1, <3>2, <3>3
  <2>3. QED
    BY <2>1, <2>2 DEF QueueChained
<1>17. QED
  BY <1>8, <1>9, <1>13, <1>15, <1>16 DEF Inv

--------------------------------------------------------------------------------
LEMMA InitInv == Init => Inv
<1> SUFFICES ASSUME Init PROVE Inv
  OBVIOUS
<1>1. PICK f \in FirstFiles : main = <<[file |-> f, accept |-> {}, held |-> {}]>>
  BY DEF Init
<1>2. f \in Files /\ {} \in Bodies
  BY <1>1, FilesAssumption DEF Bodies
<1>3. /\ main \in Seq(Landings) /\ main # <<>> /\ DOMAIN main = {1} /\ Len(main) = 1
      /\ main[1].file = f /\ Tip = f
  BY <1>1, <1>2 DEF Landings, Tip, Last
<1>4. ASSUME NEW p \in PRs
      PROVE  /\ pr[p] \in PullRequests /\ pr[p].commits # <<>>
             /\ \A i \in DOMAIN pr[p].commits : pr[p].commits[i].fork \in DOMAIN main
  <2> DEFINE c == [file |-> PushFiles[p][Tip][1], fork |-> 1, held |-> {}]
  <2>1. PushFiles[p][f] \in Files \X SUBSET Files
    BY <1>1, FilesAssumption
  <2>2. PushFiles[p][Tip][1] \in Files
    BY <1>3, <2>1
  <2>3. c \in Commits /\ c.fork = 1
    BY <2>2 DEF Commits
  <2> HIDE DEF c
  <2>4. <<c>> \in Seq(Commits) /\ <<c>> # <<>> /\ \A i \in DOMAIN <<c>> : <<c>>[i] = c
    BY <2>3
  <2>5. pr[p] = [state |-> "branch", body |-> {}, shown |-> 1, commits |-> <<c>>]
    BY DEF Init, c
  <2>6. pr[p].commits = <<c>>
    BY <2>5
  <2>7. pr[p] \in PullRequests
    BY <1>2, <2>4, <2>5 DEF PullRequests
  <2>8. QED
    BY <1>3, <2>3, <2>4, <2>6, <2>7
<1>5. pr = [p \in PRs |-> pr[p]]
  BY DEF Init
<1>6. Typed
  <2>1. pr \in [PRs -> PullRequests]
    BY <1>4, <1>5
  <2>2. passed \in [PRs -> SUBSET Nat]
    BY DEF Init
  <2>3. runs \subseteq [pr : PRs, commit : Nat, base : Files, tree : Files]
    BY DEF Init
  <2>4. queue \in Seq(Groups)
    BY DEF Init
  <2>5. ForksInMain
    BY <1>4 DEF ForksInMain
  <2>6. QED
    BY <1>1, <1>3, <1>4, <2>1, <2>2, <2>3, <2>4, <2>5 DEF Typed, TypeOK
<1>7. QueueChained /\ GroupsOK
  BY DEF Init, QueueChained, GroupsOK
<1>8. LandingsOK /\ LossesWereAccepted
  BY <1>3 DEF LandingsOK, LossesWereAccepted
<1>9. QED
  BY <1>6, <1>7, <1>8 DEF Inv

LEMMA NextInv == Inv /\ [Next]_vars => Inv'
<1> SUFFICES ASSUME Inv, [Next]_vars PROVE Inv'
  OBVIOUS
<1>1. CASE UNCHANGED vars
  BY <1>1, QuietStep DEF vars, Inv, Typed, TypeOK
<1>2. ASSUME NEW p \in PRs,
             \/ Push(p) \/ UpdateBranch(p) \/ ShowHead(p) \/ Open(p) \/ EditBody(p)
             \/ Close(p) \/ Dispatch(p) \/ Enqueue(p)
      PROVE  Inv'
  BY <1>2, PushStep, UpdateStep, ShowStep, OpenStep, EditStep, CloseStep, DispatchStep,
     EnqueueStep
<1>3. ASSUME NEW r \in runs, Finish(r) PROVE Inv'
  BY <1>3, FinishStep
<1>4. ASSUME NEW i \in DOMAIN queue, QueueRun(i) \/ Evict(i) PROVE Inv'
  BY <1>4, QueueRunStep, EvictStep
<1>5. QED
  BY <1>1, <1>2, <1>3, <1>4, LandStep DEF Next

LEMMA SpecInv == Spec => []Inv
  BY InitInv, NextInv, PTL DEF Spec

(* Files stay files and bodies stay sets of accept lines, whatever order      *)
(* pushes, edits, runs and landings of tools/guard_context.py's callers take. *)
THEOREM TypesHold == Spec => []TypeOK
<1>1. Inv => TypeOK
  BY DEF Inv, Typed
<1>2. QED
  BY <1>1, SpecInv, PTL

(* A commit lands with the guard held against the commit before it, under a   *)
(* body its pull request had since its group was built (run_guard on          *)
(* merge_group).                                                              *)
THEOREM LandedLinesStand == Spec => []LandedLinesStood
<1>1. LandingsOK => LandedLinesStood
  BY DEF LandingsOK, LandedLinesStood
<1>2. QED
  BY <1>1, SpecInv, PTL DEF Inv

(* What a phone loses between two commits of main, its scope in the file all  *)
(* the while, a commit between them lost under a line accepting that loss:    *)
(* the guard compares a tree with the tip it lands on only, and no loss       *)
(* slips through between two landings (check_phone_guard.py main).            *)
THEOREM LossesAreAccepted == Spec => []LossesWereAccepted
<1>1. Inv => LossesWereAccepted
  BY DEF Inv
<1>2. QED
  BY <1>1, SpecInv, PTL

--------------------------------------------------------------------------------
(* Passing runs. What a commit's run found stays true of it: main only grows, *)
(* and so do the bodies a commit was the head under.                          *)

StandsOn(m, commit) ==
    \/ commit.file = m[commit.fork].file
    \/ \E i \in commit.fork .. Len(m), body \in commit.held \cup {{}} :
          LET f == m[i].file
          IN  /\ Merges(m[commit.fork].file, commit.file, f)
              /\ GuardPasses(f, Merged(m[commit.fork].file, commit.file, f), body)

(* The commits that the API may show as the head of an open pull request were *)
(* its head under the body it has.                                            *)
BodyHeld(q) ==
    /\ q.shown \in DOMAIN q.commits
    /\ q.state = "open" =>
          \A i \in DOMAIN q.commits : i >= q.shown => q.body \in q.commits[i].held

PassOK(m, q, c) == c \in DOMAIN q.commits /\ StandsOn(m, q.commits[c])

RunOK(m, q, r) ==
    /\ r.commit \in DOMAIN q.commits
    /\ r.tree = q.commits[r.commit].file
    /\ r.base = m[q.commits[r.commit].fork].file

BodiesHeld == \A p \in PRs : BodyHeld(pr[p])
PassesOK == \A p \in PRs : \A c \in passed[p] : PassOK(main, pr[p], c)
RunsOK == \A r \in runs : RunOK(main, pr[r.pr], r)

OwnInv == BodiesHeld /\ PassesOK /\ RunsOK

LEMMA StandsOnLonger ==
  ASSUME NEW m, NEW n, NEW old, NEW new, Len(m) \in Nat, Len(n) \in Nat, Len(m) <= Len(n),
         \A k \in 1 .. Len(m) : n[k] = m[k], old.fork \in 1 .. Len(m),
         new.file = old.file, new.fork = old.fork, old.held \subseteq new.held,
         StandsOn(m, old)
  PROVE  StandsOn(n, new)
<1>1. n[old.fork].file = m[old.fork].file
  OBVIOUS
<1>2. CASE old.file = m[old.fork].file
  BY <1>1, <1>2 DEF StandsOn
<1>3. ASSUME NEW i \in old.fork .. Len(m), NEW body \in old.held \cup {{}},
             Merges(m[old.fork].file, old.file, m[i].file),
             GuardPasses(m[i].file, Merged(m[old.fork].file, old.file, m[i].file), body)
      PROVE  StandsOn(n, new)
  <2>1. i \in new.fork .. Len(n) /\ body \in new.held \cup {{}} /\ n[i] = m[i]
    BY <1>3
  <2>2. /\ Merges(n[new.fork].file, new.file, n[i].file)
        /\ GuardPasses(n[i].file, Merged(n[new.fork].file, new.file, n[i].file), body)
    BY <1>1, <1>3, <2>1
  <2>3. QED
    BY <2>1, <2>2 DEF StandsOn
<1>4. QED
  BY <1>2, <1>3 DEF StandsOn

(* A file merges into its own merge base as it is.                            *)
LEMMA MergeOnFork ==
  ASSUME NEW old \in Files, NEW f \in Files
  PROVE  Merges(old, f, old) /\ Merged(old, f, old) = f
<1>1. Merges(old, f, old)
  BY DEF Merges
<1>2. Merged(old, f, old) = [s \in DOMAIN old |-> f[s]]
  BY DEF Merged
<1>3. QED
  BY <1>1, <1>2, FilesAssumption

LEMMA CommitsType ==
  ASSUME Typed, NEW p \in PRs
  PROVE  /\ pr[p] \in PullRequests /\ pr[p].commits \in Seq(Commits)
         /\ DOMAIN pr[p].commits = 1 .. Len(pr[p].commits) /\ Len(pr[p].commits) \in Nat \ {0}
         /\ \A c \in DOMAIN pr[p].commits :
               /\ pr[p].commits[c] \in Commits /\ pr[p].commits[c].file \in Files
               /\ pr[p].commits[c].fork \in 1 .. Len(main)
<1>1. pr[p] \in PullRequests /\ pr[p].commits \in Seq(Commits) /\ pr[p].commits # <<>>
  BY DEF Typed, TypeOK, PullRequests
<1>2. \A c \in DOMAIN pr[p].commits : pr[p].commits[c] \in Commits
  BY <1>1
<1>3. \A c \in DOMAIN pr[p].commits : pr[p].commits[c].fork \in 1 .. Len(main)
  BY MainType DEF Typed, ForksInMain
<1>4. QED
  BY <1>1, <1>2, <1>3 DEF Commits

(* A step keeps what passing runs found if branches and main only grow and    *)
(* what it adds stands.                                                       *)
LEMMA OwnStep ==
  ASSUME Inv, Inv', OwnInv, BodiesHeld',
         Len(main) <= Len(main'), \A k \in 1 .. Len(main) : main'[k] = main[k],
         \A p \in PRs : \A c \in DOMAIN pr[p].commits :
             /\ c \in DOMAIN pr'[p].commits
             /\ pr'[p].commits[c].file = pr[p].commits[c].file
             /\ pr'[p].commits[c].fork = pr[p].commits[c].fork
             /\ pr[p].commits[c].held \subseteq pr'[p].commits[c].held,
         \A p \in PRs : \A c \in passed'[p] \ passed[p] : PassOK(main', pr'[p], c),
         \A r \in runs' \ runs : RunOK(main', pr'[r.pr], r)
  PROVE  OwnInv'
<1>1. Len(main) \in Nat /\ Len(main') \in Nat
  BY MainType DEF Inv, Typed, TypeOK
<1>2. ASSUME NEW p \in PRs, NEW c \in passed'[p]
      PROVE  PassOK(main', pr'[p], c)
  <2>1. CASE c \notin passed[p]
    BY <2>1
  <2>2. CASE c \in passed[p]
    <3> DEFINE old == pr[p].commits[c]
               new == pr'[p].commits[c]
    <3>1. c \in DOMAIN pr[p].commits /\ StandsOn(main, old)
      BY <2>2 DEF OwnInv, PassesOK, PassOK
    <3>2. /\ c \in DOMAIN pr'[p].commits /\ new.file = old.file /\ new.fork = old.fork
          /\ old.held \subseteq new.held /\ old.fork \in 1 .. Len(main)
      BY <3>1, CommitsType DEF Inv
    <3> HIDE DEF old, new
    <3>3. StandsOn(main', new)
      BY <1>1, <3>1, <3>2, StandsOnLonger
    <3>4. QED
      BY <3>2, <3>3 DEF PassOK, new
  <2>3. QED
    BY <2>1, <2>2
<1>3. ASSUME NEW r \in runs'
      PROVE  RunOK(main', pr'[r.pr], r)
  <2>1. CASE r \in runs
    <3>1. r.pr \in PRs /\ RunOK(main, pr[r.pr], r)
      BY <2>1 DEF Inv, Typed, TypeOK, OwnInv, RunsOK
    <3>2. pr[r.pr].commits[r.commit].fork \in 1 .. Len(main)
      BY <3>1, CommitsType DEF Inv, RunOK
    <3>3. QED
      BY <3>1, <3>2 DEF RunOK
  <2>2. QED
    BY <2>1
<1>4. PassesOK'
  BY <1>2 DEF PassesOK, PassOK, StandsOn, GuardPasses
<1>5. RunsOK'
  BY <1>3 DEF RunsOK, RunOK
<1>6. QED
  BY <1>4, <1>5 DEF OwnInv

(* The run of an event passes on main as it is, under the body of the event.  *)
LEMMA EventPasses ==
  ASSUME Inv, Inv', main' = main, NEW p \in PRs, Event(p), BodyHeld(pr'[p]),
         pr'[p].state = "open"
  PROVE  \A q \in PRs : \A c \in passed'[q] \ passed[q] : PassOK(main', pr'[q], c)
<1> DEFINE commits == pr'[p].commits
           n == Len(commits)
           head == commits[n]
           old == main[head.fork].file
<1>1. /\ commits \in Seq(Commits) /\ DOMAIN commits = 1 .. n /\ n \in Nat \ {0}
      /\ head.fork \in 1 .. Len(main') /\ head = Last(commits)
  <2>1. pr'[p] \in PullRequests /\ pr'[p].commits # <<>>
    BY DEF Inv, Typed, TypeOK
  <2>2. commits \in Seq(Commits) /\ commits # <<>>
    BY <2>1 DEF PullRequests
  <2>3. DOMAIN commits = 1 .. n /\ n \in Nat \ {0}
    BY <2>2
  <2>4. main' \in Seq(Landings) /\ DOMAIN main' = 1 .. Len(main')
    BY DEF Inv, Typed, TypeOK
  <2>5. head.fork \in 1 .. Len(main')
    BY <2>3, <2>4 DEF Inv, Typed, ForksInMain
  <2>6. QED
    BY <2>2, <2>3, <2>5 DEF Last
<1>2. CASE UNCHANGED passed
  BY <1>2
<1>3. CASE /\ Merges(old, head.file, Tip)
           /\ GuardPasses(Tip, Merged(old, head.file, Tip), pr'[p].body)
           /\ Pass(p, n)
  <2>1. pr'[p].body \in head.held
    <3>1. pr'[p].shown \in 1 .. n /\ n \in DOMAIN commits
      BY <1>1 DEF BodyHeld
    <3>2. n >= pr'[p].shown
      BY <1>1, <3>1
    <3>3. QED
      BY <3>1, <3>2 DEF BodyHeld
  <2>2. Len(main) \in Nat /\ Tip = main[Len(main)].file
    BY MainType DEF Inv
  <2>3. StandsOn(main, head)
    <3>1. Len(main) \in head.fork .. Len(main)
      BY <1>1, <2>2
    <3>2. QED
      BY <1>3, <2>1, <2>2, <3>1 DEF StandsOn
  <2>4. \A q \in PRs : passed'[q] = IF q = p THEN passed[p] \cup {n} ELSE passed[q]
    BY <1>3 DEF Pass, Inv, Typed, TypeOK
  <2>5. PassOK(main', pr'[p], n)
    BY <1>1, <2>3 DEF PassOK
  <2>6. QED
    BY <2>4, <2>5
<1>4. QED
  BY <1>1, <1>2, <1>3 DEF Event

(* A step of no run and of no commit.                                         *)
LEMMA QuietOwn ==
  ASSUME Inv, Inv', OwnInv, main' = main, passed' = passed, runs' = runs, BodiesHeld',
         \A p \in PRs : pr'[p].commits = pr[p].commits
  PROVE  OwnInv'
<1>1. Len(main) \in Nat
  BY MainType DEF Inv
<1>2. QED
  BY <1>1, OwnStep

(* A step that changes only the queue.                                        *)
LEMMA QueueOwn ==
  ASSUME Inv, Inv', OwnInv, UNCHANGED <<main, pr, passed, runs>>
  PROVE  OwnInv'
<1>1. BodiesHeld'
  BY DEF OwnInv, BodiesHeld, BodyHeld
<1>2. QED
  BY <1>1, QuietOwn

LEMMA CommitOwn ==
  ASSUME Inv, Inv', OwnInv, NEW p \in PRs, NEW f \in Files, NEW k \in DOMAIN main, Commit(p, f, k)
  PROVE  OwnInv'
<1> DEFINE old == pr[p].commits
           n   == Len(old)
           c   == NewCommit(p, f, k)
           new == Append(old, c)
           show == pr[p].shown + (IF p \in Dispatched THEN 0 ELSE 1)
<1>1. /\ pr[p] \in PullRequests /\ old \in Seq(Commits) /\ main' = main
      /\ DOMAIN old = 1 .. n /\ n \in Nat \ {0} /\ pr[p].body \in Bodies
  BY CommitsType DEF PullRequests, Commit, Inv
<1>2. c \in Commits /\ (pr[p].state = "open" => c.held = {pr[p].body})
  BY <1>1, MainType DEF Commits, NewCommit, Inv
<1> HIDE DEF c
<1>3. /\ DOMAIN new = 1 .. n + 1 /\ Len(new) = n + 1 /\ new[n + 1] = c
      /\ \A i \in DOMAIN old : new[i] = old[i]
  BY <1>1, <1>2, AppendType
<1>4. /\ pr'[p].commits = new /\ pr'[p].shown = show
      /\ pr'[p].body = pr[p].body /\ pr'[p].state = pr[p].state
      /\ \A q \in PRs : q # p => pr'[q] = pr[q]
  <2>1. pr' = [pr EXCEPT ![p] = [pr[p] EXCEPT !.commits = new, !.shown = show]]
    BY DEF Commit, c
  <2> HIDE DEF new, show
  <2>2. pr'[p] = [pr[p] EXCEPT !.commits = new, !.shown = show]
        /\ \A q \in PRs : q # p => pr'[q] = pr[q]
    BY <2>1 DEF Inv, Typed, TypeOK
  <2>3. QED
    BY <1>1, <2>2 DEF PullRequests
<1> HIDE DEF new
<1>5. BodyHeld(pr'[p])
  <2>1. /\ pr[p].shown \in 1 .. n
        /\ pr[p].state = "open" => \A i \in 1 .. n : i >= pr[p].shown => pr[p].body \in old[i].held
    BY <1>1 DEF OwnInv, BodiesHeld, BodyHeld
  <2>2. show \in 1 .. n + 1 /\ show >= pr[p].shown
    BY <1>1, <2>1
  <2>3. show \in DOMAIN new
    BY <1>3, <2>2
  <2>4. ASSUME pr[p].state = "open", NEW i \in DOMAIN new, i >= show
        PROVE  pr[p].body \in new[i].held
    <3>1. CASE i = n + 1
      BY <1>2, <1>3, <2>4, <3>1
    <3>2. CASE i \in 1 .. n
      <4>1. i >= pr[p].shown
        BY <2>1, <2>2, <2>4, <3>2
      <4>2. QED
        BY <1>1, <1>3, <2>1, <2>4, <3>2, <4>1
    <3>3. QED
      BY <1>1, <1>3, <3>1, <3>2
  <2>5. QED
    BY <1>4, <2>3, <2>4 DEF BodyHeld
<1>6. BodiesHeld'
  <2>1. \A q \in PRs : BodyHeld(pr'[q])
    BY <1>4, <1>5 DEF OwnInv, BodiesHeld
  <2>2. QED
    BY <2>1 DEF BodiesHeld, BodyHeld
<1>7. \A q \in PRs : \A a \in passed'[q] \ passed[q] : PassOK(main', pr'[q], a)
  <2>1. CASE pr[p].state = "open"
    <3>1. Event(p) /\ pr'[p].state = "open"
      BY <1>4, <2>1 DEF Commit
    <3>2. QED
      BY <1>1, <1>5, <3>1, EventPasses
  <2>2. CASE pr[p].state # "open"
    BY <2>2 DEF Commit
  <2>3. QED
    BY <2>1, <2>2
<1>8. \A q \in PRs : \A a \in DOMAIN pr[q].commits :
        a \in DOMAIN pr'[q].commits /\ pr'[q].commits[a] = pr[q].commits[a]
  BY <1>1, <1>3, <1>4
<1>9. Len(main) <= Len(main') /\ \A a \in 1 .. Len(main) : main'[a] = main[a]
  BY <1>1, MainType DEF Inv
<1>10. runs' = runs
  BY DEF Commit
<1>11. QED
  BY <1>6, <1>7, <1>8, <1>9, <1>10, OwnStep

(* A body that an open pull request has from now on.                          *)
LEMMA WithBodyOwn ==
  ASSUME Inv, Inv', OwnInv, NEW p \in PRs, NEW body, pr' = WithBody(p, body),
         main' = main, runs' = runs, Event(p)
  PROVE  OwnInv'
<1> DEFINE old == pr[p].commits
           new == Holding(old, pr[p].shown, body)
<1>1. /\ pr[p] \in PullRequests /\ old \in Seq(Commits) /\ DOMAIN old = 1 .. Len(old)
      /\ Len(old) \in Nat \ {0} /\ pr[p].shown \in DOMAIN old
  BY CommitsType DEF Inv, OwnInv, BodiesHeld, BodyHeld
<1>2. ASSUME NEW i \in DOMAIN old
      PROVE  /\ i \in DOMAIN new /\ new[i].file = old[i].file /\ new[i].fork = old[i].fork
             /\ old[i].held \subseteq new[i].held
             /\ i >= pr[p].shown => body \in new[i].held
  <2>1. old[i] \in Commits /\ i \in Nat /\ pr[p].shown \in Nat
    BY <1>1
  <2>2. new[i] = IF i < pr[p].shown THEN old[i] ELSE [old[i] EXCEPT !.held = @ \cup {body}]
    BY DEF Holding
  <2>3. i \in DOMAIN new
    BY DEF Holding
  <2> HIDE DEF old, new
  <2>4. QED
    BY <2>1, <2>2, <2>3 DEF Commits
<1>3. DOMAIN new = DOMAIN old
  BY DEF Holding
<1> HIDE DEF new
<1>4. /\ pr'[p].commits = new /\ pr'[p].shown = pr[p].shown
      /\ pr'[p].body = body /\ pr'[p].state = "open"
      /\ \A q \in PRs : q # p => pr'[q] = pr[q]
  <2>1. pr' = [pr EXCEPT ![p] = [pr[p] EXCEPT !.state = "open", !.body = body, !.commits = new]]
    BY DEF WithBody, new
  <2>2. pr'[p] = [pr[p] EXCEPT !.state = "open", !.body = body, !.commits = new]
        /\ \A q \in PRs : q # p => pr'[q] = pr[q]
    BY <2>1 DEF Inv, Typed, TypeOK
  <2>3. QED
    BY <1>1, <2>2 DEF PullRequests
<1>5. BodyHeld(pr'[p])
  BY <1>1, <1>2, <1>3, <1>4 DEF BodyHeld
<1>6. BodiesHeld'
  <2>1. \A q \in PRs : BodyHeld(pr'[q])
    BY <1>4, <1>5 DEF OwnInv, BodiesHeld
  <2>2. QED
    BY <2>1 DEF BodiesHeld, BodyHeld
<1>7. \A q \in PRs : \A a \in passed'[q] \ passed[q] : PassOK(main', pr'[q], a)
  BY <1>4, <1>5, EventPasses
<1>8. \A q \in PRs : \A c \in DOMAIN pr[q].commits :
        /\ c \in DOMAIN pr'[q].commits
        /\ pr'[q].commits[c].file = pr[q].commits[c].file
        /\ pr'[q].commits[c].fork = pr[q].commits[c].fork
        /\ pr[q].commits[c].held \subseteq pr'[q].commits[c].held
  BY <1>2, <1>4
<1>9. Len(main) <= Len(main') /\ \A a \in 1 .. Len(main) : main'[a] = main[a]
  BY MainType DEF Inv
<1>10. QED
  BY <1>6, <1>7, <1>8, <1>9, OwnStep

LEMMA ShowOwn == ASSUME Inv, Inv', OwnInv, NEW p \in PRs, ShowHead(p) PROVE OwnInv'
<1> DEFINE n == Len(pr[p].commits)
<1>1. /\ pr[p] \in PullRequests /\ DOMAIN pr[p].commits = 1 .. n /\ n \in Nat \ {0}
      /\ pr[p].shown \in 1 .. n
  BY CommitsType DEF Inv, OwnInv, BodiesHeld, BodyHeld
<1>2. /\ pr'[p].commits = pr[p].commits /\ pr'[p].shown = n
      /\ pr'[p].body = pr[p].body /\ pr'[p].state = pr[p].state
      /\ \A q \in PRs : q # p => pr'[q] = pr[q]
  BY <1>1 DEF ShowHead, PullRequests, Inv, Typed, TypeOK
<1>3. BodyHeld(pr'[p])
  <2>1. n \in DOMAIN pr'[p].commits /\ \A i \in DOMAIN pr'[p].commits : i >= n => i >= pr[p].shown
    BY <1>1, <1>2
  <2>2. QED
    BY <1>2, <2>1 DEF BodyHeld, OwnInv, BodiesHeld
<1>4. BodiesHeld'
  <2>1. \A q \in PRs : BodyHeld(pr'[q])
    BY <1>2, <1>3 DEF OwnInv, BodiesHeld
  <2>2. QED
    BY <2>1 DEF BodiesHeld, BodyHeld
<1>5. \A q \in PRs : pr'[q].commits = pr[q].commits
  BY <1>2
<1>6. QED
  BY <1>4, <1>5, QuietOwn DEF ShowHead

(* A pull request that is no longer open.                                     *)
LEMMA ClosedHeld ==
  ASSUME Inv, OwnInv, NEW p \in PRs, NEW state \in {"closed", "merged"},
         pr' = [pr EXCEPT ![p].state = state]
  PROVE  BodiesHeld' /\ \A q \in PRs : pr'[q].commits = pr[q].commits
<1>1. pr[p] \in PullRequests
  BY CommitsType DEF Inv
<1>2. /\ pr'[p].commits = pr[p].commits /\ pr'[p].shown = pr[p].shown
      /\ pr'[p].state = state /\ \A q \in PRs : q # p => pr'[q] = pr[q]
  BY <1>1 DEF PullRequests, Inv, Typed, TypeOK
<1>3. \A q \in PRs : BodyHeld(pr'[q])
  BY <1>2 DEF OwnInv, BodiesHeld, BodyHeld
<1>4. QED
  BY <1>2, <1>3 DEF BodiesHeld, BodyHeld

LEMMA DispatchOwn == ASSUME Inv, Inv', OwnInv, NEW p \in PRs, Dispatch(p) PROVE OwnInv'
<1> DEFINE commits == pr[p].commits
           n == Len(commits)
           r == [pr |-> p, commit |-> n, base |-> ForkOf(HeadOf(p)), tree |-> HeadOf(p).file]
<1>1. DOMAIN commits = 1 .. n /\ n \in Nat \ {0} /\ HeadOf(p) = commits[n]
  BY CommitsType DEF Inv, HeadOf, Last
<1>2. RunOK(main, pr[p], r)
  BY <1>1 DEF RunOK, ForkOf
<1>3. runs' = runs \cup {r} /\ UNCHANGED <<main, pr, passed, queue>> /\ r.pr = p
  BY DEF Dispatch
<1> HIDE DEF r
<1>4. BodiesHeld'
  BY <1>3 DEF OwnInv, BodiesHeld, BodyHeld
<1>5. Len(main) \in Nat
  BY MainType DEF Inv
<1>6. QED
  BY <1>2, <1>3, <1>4, <1>5, OwnStep

LEMMA FinishOwn == ASSUME Inv, Inv', OwnInv, NEW r \in runs, Finish(r) PROVE OwnInv'
<1> DEFINE p == r.pr
           commit == pr[p].commits[r.commit]
           old == main[commit.fork].file
<1>1. /\ p \in PRs /\ RunOK(main, pr[p], r) /\ BodyHeld(pr[p])
      /\ UNCHANGED <<main, pr>> /\ Len(main) \in Nat
  BY MainType DEF Inv, Typed, TypeOK, OwnInv, RunsOK, BodiesHeld, Finish
<1>2. /\ r.commit \in DOMAIN pr[p].commits /\ r.tree = commit.file /\ r.base = old
      /\ commit.fork \in 1 .. Len(main) /\ commit.file \in Files /\ old \in Files
      /\ r.commit \in Nat
  <2>1. r.commit \in DOMAIN pr[p].commits /\ r.tree = commit.file /\ r.base = old
    BY <1>1 DEF RunOK
  <2>2. /\ DOMAIN pr[p].commits = 1 .. Len(pr[p].commits) /\ Len(pr[p].commits) \in Nat
        /\ commit.fork \in 1 .. Len(main) /\ commit.file \in Files
    BY <1>1, <2>1, CommitsType DEF Inv
  <2>3. old \in Files
    BY <2>2, MainType DEF Inv
  <2>4. QED
    BY <2>1, <2>2, <2>3
<1>3. CASE DispatchPasses(r) /\ Pass(p, r.commit)
  <2>1. StandsOn(main, commit)
    <3>1. CASE DispatchPullRequest(r)
      <4>1. GuardPasses(old, commit.file, pr[p].body)
        BY <1>2, <1>3, <3>1 DEF DispatchPasses
      <4>2. pr[p].body \in commit.held
        <5>1. pr[p].state = "open" /\ pr[p].shown = r.commit /\ r.commit >= pr[p].shown
          BY <1>2, <3>1 DEF DispatchPullRequest
        <5>2. QED
          BY <1>1, <1>2, <5>1 DEF BodyHeld
      <4>3. Merges(old, commit.file, old) /\ Merged(old, commit.file, old) = commit.file
        BY <1>2, MergeOnFork
      <4>4. commit.fork \in commit.fork .. Len(main)
        BY <1>1, <1>2
      <4>5. QED
        BY <4>1, <4>2, <4>3, <4>4 DEF StandsOn
    <3>2. CASE ~DispatchPullRequest(r)
      BY <1>2, <1>3, <3>2 DEF DispatchPasses, StandsOn
    <3>3. QED
      BY <3>1, <3>2
  <2>2. PassOK(main, pr[p], r.commit)
    BY <1>2, <2>1 DEF PassOK
  <2>3. \A q \in PRs : passed'[q] = IF q = p THEN passed[p] \cup {r.commit} ELSE passed[q]
    BY <1>1, <1>3 DEF Pass, Inv, Typed, TypeOK
  <2>4. \A q \in PRs : \A c \in passed'[q] \ passed[q] : PassOK(main', pr'[q], c)
    BY <1>1, <2>2, <2>3
  <2>5. BodiesHeld' /\ runs' \ runs = {}
    BY <1>1 DEF OwnInv, BodiesHeld, BodyHeld, Finish
  <2>6. QED
    BY <1>1, <2>4, <2>5, OwnStep
<1>4. CASE UNCHANGED passed
  <2>1. BodiesHeld' /\ runs' \ runs = {}
    BY <1>1 DEF OwnInv, BodiesHeld, BodyHeld, Finish
  <2>2. QED
    BY <1>1, <1>4, <2>1, OwnStep
<1>5. QED
  BY <1>3, <1>4 DEF Finish

LEMMA LandOwn == ASSUME Inv, Inv', OwnInv, Land PROVE OwnInv'
<1> DEFINE p == Head(queue).pr
           c == [file |-> Head(queue).tree, accept |-> Head(queue).accept,
                 held |-> Head(queue).held]
<1>1. Head(queue) \in Groups /\ p \in PRs
  <2>1. Head(queue) = queue[1] /\ 1 \in DOMAIN queue
    BY GroupType DEF Inv, Land
  <2>2. QED
    BY <2>1, GroupType DEF Inv
<1>2. c \in Landings /\ main' = Append(main, c) /\ main \in Seq(Landings)
  BY <1>1 DEF Land, Groups, Landings, Inv, Typed, TypeOK
<1>3. Len(main) \in Nat /\ Len(main') = Len(main) + 1 /\ \A k \in 1 .. Len(main) : main'[k] = main[k]
  BY <1>2, AppendType
<1>4. BodiesHeld' /\ \A q \in PRs : pr'[q].commits = pr[q].commits
  BY <1>1, ClosedHeld DEF Land
<1>5. passed' = passed /\ runs' = runs
  BY DEF Land
<1>6. QED
  BY <1>3, <1>4, <1>5, OwnStep

LEMMA InitOwn == Init => OwnInv
<1> SUFFICES ASSUME Init PROVE OwnInv
  OBVIOUS
<1>1. ASSUME NEW p \in PRs PROVE BodyHeld(pr[p])
  BY DEF Init, BodyHeld
<1>2. QED
  BY <1>1 DEF Init, OwnInv, BodiesHeld, PassesOK, RunsOK

LEMMA NextOwn == Inv /\ Inv' /\ OwnInv /\ [Next]_vars => OwnInv'
<1> SUFFICES ASSUME Inv, Inv', OwnInv, [Next]_vars PROVE OwnInv'
  OBVIOUS
<1>1. CASE UNCHANGED vars
  BY <1>1, QueueOwn DEF vars
<1>2. ASSUME NEW p \in PRs, Push(p) PROVE OwnInv'
  <2> DEFINE files == PushFiles[p][main[1].file]
  <2>1. PICK f \in files[2] : Commit(p, f, HeadOf(p).fork)
    BY <1>2 DEF Push
  <2>2. files \in Files \X SUBSET Files
    BY FilesAssumption DEF Inv, Typed
  <2>3. f \in Files
    BY <2>1, <2>2
  <2>4. QED
    BY <2>1, <2>3, HeadType, CommitOwn DEF Inv
<1>3. ASSUME NEW p \in PRs, UpdateBranch(p) PROVE OwnInv'
  <2>1. Tip \in Files /\ Len(main) \in DOMAIN main
    BY MainType DEF Inv
  <2>2. TreeOn(p, Tip) \in Files
    BY <2>1, TreeType DEF Inv
  <2>3. QED
    BY <1>3, <2>1, <2>2, CommitOwn DEF UpdateBranch
<1>4. ASSUME NEW p \in PRs, ShowHead(p) \/ Dispatch(p) PROVE OwnInv'
  BY <1>4, ShowOwn, DispatchOwn
<1>5. ASSUME NEW p \in PRs, Open(p) \/ EditBody(p) PROVE OwnInv'
  BY <1>5, WithBodyOwn DEF Open, EditBody
<1>6. ASSUME NEW p \in PRs, Close(p) PROVE OwnInv'
  BY <1>6, ClosedHeld, QuietOwn DEF Close
<1>7. ASSUME NEW p \in PRs, Enqueue(p) PROVE OwnInv'
  BY <1>7, QueueOwn DEF Enqueue
<1>8. ASSUME NEW r \in runs, Finish(r) PROVE OwnInv'
  BY <1>8, FinishOwn
<1>9. ASSUME NEW i \in DOMAIN queue, QueueRun(i) \/ Evict(i) PROVE OwnInv'
  BY <1>9, QueueOwn DEF QueueRun, Evict
<1>10. QED
  BY <1>1, <1>2, <1>3, <1>4, <1>5, <1>6, <1>7, <1>8, <1>9, LandOwn DEF Next

(* A branch commit with a passing run changes nothing since its merge base,   *)
(* or on some commit of main since then the guard held nothing against it or  *)
(* a body of its own accepted what it held: no push, edit, landing or late    *)
(* answer of the API lends a commit the accept lines of another               *)
(* (tools/guard_context.py, pull_request and workflow_dispatch).              *)
THEOREM PassesAreOwn == Spec => []PassedOnItsOwnBody
<1>1. OwnInv => PassedOnItsOwnBody
  BY DEF OwnInv, PassesOK, PassOK, StandsOn, PassedOnItsOwnBody, ForkOf
<1>2. QED
  BY <1>1, SpecInv, InitOwn, NextOwn, PTL DEF Spec

-----------------------------------------------------------------------------
(* The guard's lines, on any two files.                                      *)

LEMMA LineWhen ==
  ASSUME NEW condition, condition, NEW line
  PROVE  line \in When(condition, line)
BY DEF When

LEMMA TripIsShown ==
  ASSUME NEW old, NEW new, NEW s \in DOMAIN old, s \in DOMAIN new, NEW nt \in HoldTypes,
         NEW line,
         line \in TripsOn(s, nt, old[s].leads[nt], new[s].leads[nt], new[s].tuples, old[s].tuples)
  PROVE  line \in Trips(old, new) /\ line \in Shown(old, new)
BY DEF Trips, Shown, Both

LEMMA ScopeLineIsShown ==
  ASSUME NEW old, NEW new, NEW s \in DOMAIN old, s \in DOMAIN new,
         NEW line, line \in ScopeReport(s, old[s], new[s])
  PROVE  line \in Shown(old, new)
BY DEF Shown, Report, Both

LEMMA GoneLineIsShown ==
  ASSUME NEW old, NEW new, NEW line, line \in ScopesGone(old, new)
  PROVE  line \in Shown(old, new)
BY DEF Shown, Report

LEMMA WatchLineIsShown ==
  ASSUME NEW old, NEW new, NEW s \in DOMAIN old, s \in DOMAIN new, NEW nt \in WatchTypes,
         NEW line, line \in WatchTyped(old[s].typed[nt], new[s].typed[nt])
  PROVE  <<line, s>> \in Shown(old, new)
<1>1. <<line, s>> \in WatchOn(s, old[s], new[s], nt)
  BY DEF WatchOn
<1>2. <<line, s>> \in Watch(old, new)
  BY <1>1 DEF Watch, Both
<1>3. QED
  BY <1>2 DEF Shown

(* Whether a role of three is there on a network type.                       *)
Has(state, role) == IF role = "mms" THEN Works(state.mms) ELSE Some(state[role])

LEMMA HasRoles ==
  ASSUME NEW state
  PROVE  /\ Has(state, "internet") <=> Some(state.internet)
         /\ Has(state, "attach") <=> Some(state.attach)
         /\ Has(state, "mms") <=> Works(state.mms)
BY DEF Has

LEMMA LostTypesAre ==
  ASSUME NEW role \in {"internet", "attach", "mms"}, NEW old, NEW new
  PROVE  LostTypes(role, old, new)
            = {nt \in AllNetworkTypes : Has(old[nt], role) /\ ~ Has(new[nt], role)}
BY DEF LostTypes, Has

(* A role lost on a 3GPP type is a trip of the scope.                        *)
LEMMA LossTrips ==
  ASSUME NEW old, NEW new, NEW s \in DOMAIN old, s \in DOMAIN new, NEW nt \in HoldTypes,
         NEW role \in {"internet", "attach", "mms"},
         Has(old[s].leads[nt], role), ~ Has(new[s].leads[nt], role)
  PROVE  \E line \in Trips(old, new) :
            /\ line \in Shown(old, new)
            /\ line[1] = LostLine[role] /\ line[2] = s /\ line[3] = nt
<1> DEFINE was == old[s].leads[nt]
           is == new[s].leads[nt]
           lines == TripsOn(s, nt, was, is, new[s].tuples, old[s].tuples)
<1>1. CASE role = "internet"
  <2>1. <<"internet_lost", s, nt, was.internet[1], "none">> \in lines
    BY <1>1, HasRoles DEF TripsOn, When
  <2>2. QED
    BY <1>1, <2>1, TripIsShown DEF LostLine
<1>2. CASE role = "attach"
  <2>1. <<"attach_lost", s, nt, was.attach[1], "none">> \in lines
    BY <1>2, HasRoles DEF TripsOn, When
  <2>2. QED
    BY <1>2, <2>1, TripIsShown DEF LostLine
<1>3. CASE role = "mms"
  <2>1. <<"mms_lost", s, nt, was.mms, is.mms>> \in lines
    BY <1>3, HasRoles DEF TripsOn, When
  <2>2. QED
    BY <1>3, <2>1, TripIsShown DEF LostLine
<1>4. QED
  BY <1>1, <1>2, <1>3

(* The parts of a scope's report.                                            *)
LEMMA ScopeReportHas ==
  ASSUME NEW s, NEW old, NEW new
  PROVE  /\ LostElsewhere(s, old.leads, new.leads) \subseteq ScopeReport(s, old, new)
         /\ \A nt \in AllNetworkTypes :
               MmsReport(s, old.leads[nt].mms, new.leads[nt].mms, new.tuples)
                 \subseteq ScopeReport(s, old, new)
         /\ \A nt \in AllNetworkTypes : \A role \in {"internet", "attach", "mmslead"} :
               RoleReport(s, role, old.leads[nt][role], new.leads[nt][role], new.vendor)
                 \subseteq ScopeReport(s, old, new)
BY DEF ScopeReport

(* A role lost on any network type has a line of its scope.                  *)
LEMMA LossIsTold ==
  ASSUME NEW old, NEW new, NEW s \in DOMAIN old, s \in DOMAIN new, NEW nt \in AllNetworkTypes,
         NEW role \in {"internet", "attach", "mms"},
         Has(old[s].leads[nt], role), ~ Has(new[s].leads[nt], role)
  PROVE  \E line \in Shown(old, new) : TellsLoss(line, s, role)
<1> DEFINE lost == LostTypes(role, old[s].leads, new[s].leads)
<1>1. lost = {t \in AllNetworkTypes : Has(old[s].leads[t], role) /\ ~ Has(new[s].leads[t], role)}
  BY LostTypesAre
<1>2. nt \in lost
  BY <1>1
<1> HIDE DEF lost
<1>3. CASE lost \cap HoldTypes = {}
  <2>1. <<"lost only on IWLAN or CDMA", s, role>> \in LostElsewhere(s, old[s].leads, new[s].leads)
    BY <1>2, <1>3 DEF LostElsewhere, lost
  <2>2. <<"lost only on IWLAN or CDMA", s, role>> \in ScopeReport(s, old[s], new[s])
    BY <2>1, ScopeReportHas
  <2>3. QED
    BY <2>2, ScopeLineIsShown DEF TellsLoss
<1>4. CASE lost \cap HoldTypes # {}
  <2>1. PICK t \in HoldTypes : Has(old[s].leads[t], role) /\ ~ Has(new[s].leads[t], role)
    BY <1>1, <1>4
  <2>2. \E line \in Shown(old, new) : line[1] = LostLine[role] /\ line[2] = s
    BY <2>1, LossTrips
  <2>3. role # "ims"
    OBVIOUS
  <2>4. QED
    BY <2>2, <2>3 DEF TellsLoss
<1>5. QED
  BY <1>3, <1>4

(* A working MMS lead and one that does not work differ in their MMSC.       *)
LEMMA WorkingMmsMoves ==
  ASSUME NEW old, NEW new, Works(old), ~ Works(new)
  PROVE  Norm(old) # Norm(new)
<1>1. Norm(old)[2] # ""
  BY MmscAssumption DEF Norm, NormMmsc, Works
<1>2. Norm(new)[2] = ""
  BY MmscAssumption DEF Norm, NormMmsc, Works
<1>3. QED
  BY <1>1, <1>2

(* A role an MVNO scope led, and its network does not lead alike, is named    *)
(* when the scope is gone.                                                    *)
LEMMA GoneRoleIsTold ==
  ASSUME NEW old, NEW new, NEW s \in DOMAIN old, s \notin DOMAIN new,
         Host[s] \in DOMAIN new, NEW nt \in WatchTypes,
         NEW role \in FallbackChanges(old[s].leads[nt], new[Host[s]].leads[nt],
                                      old[s].typed[nt], new[Host[s]].typed[nt])
  PROVE  <<"MVNO scope gone", s, role>> \in Shown(old, new)
<1> DEFINE changes(x, t) == FallbackChanges(old[x].leads[t], new[Host[x]].leads[t],
                                            old[x].typed[t], new[Host[x]].typed[t])
           gone == DOMAIN old \ DOMAIN new
           Left(x) == IF Host[x] \notin DOMAIN new THEN {"internet"}
                      ELSE UNION {changes(x, t) : t \in WatchTypes}
           lines(x) == {<<"MVNO scope gone", x, r>> : r \in Left(x)}
           all == UNION {lines(x) : x \in {x \in gone : Mvno(x)}}
<1>1. s \in gone /\ Mvno(s)
  BY DEF Mvno
<1>2. role \in changes(s, nt)
  OBVIOUS
<1>3. all \subseteq ScopesGone(old, new)
  BY DEF ScopesGone
<1> HIDE DEF changes, gone
<1>4. role \in Left(s)
  BY <1>2
<1> HIDE DEF Left
<1>5. <<"MVNO scope gone", s, role>> \in lines(s)
  BY <1>4
<1> HIDE DEF lines
<1>6. <<"MVNO scope gone", s, role>> \in all
  BY <1>1, <1>5
<1> HIDE DEF all
<1>7. QED
  BY <1>3, <1>6, GoneLineIsShown

(* A lost IMS lead is named, on any network type of the watch.               *)
LEMMA ImsLossIsTold ==
  ASSUME NEW old, NEW new, NEW s \in DOMAIN old, s \in DOMAIN new, NEW nt \in WatchTypes,
         Some(old[s].typed[nt].ims.key), ~ Some(new[s].typed[nt].ims.key)
  PROVE  <<"ims lead lost", s>> \in Shown(old, new)
<1>1. "ims lead lost" \in ImsChange(old[s].typed[nt].ims, new[s].typed[nt].ims)
  BY DEF ImsChange
<1>2. "ims lead lost" \in WatchTyped(old[s].typed[nt], new[s].typed[nt])
  BY <1>1 DEF WatchTyped
<1>3. QED
  BY <1>2, WatchLineIsShown

LEMMA RolesOnAre ==
  ASSUME NEW reading, NEW s, NEW nt, NEW role \in RolesOn(reading, s, nt)
  PROVE  \/ role \in {"internet", "attach", "mms"} /\ Has(reading[s].leads[nt], role)
         \/ role = "ims" /\ nt \in WatchTypes /\ Some(reading[s].typed[nt].ims.key)
BY DEF RolesOn, When, Has

LEMMA NotRolesOn ==
  ASSUME NEW reading, NEW s, NEW nt, NEW role, role \notin RolesOn(reading, s, nt)
  PROVE  /\ role \in {"internet", "attach", "mms"} => ~ Has(reading[s].leads[nt], role)
         /\ role = "ims" /\ nt \in WatchTypes => ~ Some(reading[s].typed[nt].ims.key)
BY DEF RolesOn, When, Has

(* No role is lost without a line that tells it, whatever the two files.     *)
LEMMA NoLossUnseen ==
  ASSUME NEW old, NEW new
  PROVE  ~ LossUnseen(old, new, Shown(old, new))
<1> SUFFICES ASSUME NEW s \in DOMAIN old, NEW nt \in WatchTypes, Served(new, s) # NoScope,
                    NEW role \in Lost(old, new, s, nt)
             PROVE  \E line \in Shown(old, new) : TellsLoss(line, s, role)
  BY DEF LossUnseen
<1> DEFINE d == Served(new, s)
<1>1. role \in RolesOn(old, s, nt) /\ role \notin RolesOn(new, d, nt)
  BY DEF Lost
<1>2. nt \in AllNetworkTypes
  BY DEF WatchTypes, HoldTypes, AllNetworkTypes
<1>3. CASE s \in DOMAIN new
  <2>1. d = s
    BY <1>3 DEF Served
  <2>2. CASE role = "ims"
    <3>1. <<"ims lead lost", s>> \in Shown(old, new)
      BY <1>1, <1>3, <2>1, <2>2, RolesOnAre, NotRolesOn, ImsLossIsTold
    <3>2. QED
      BY <2>2, <3>1 DEF TellsLoss
  <2>3. CASE role # "ims"
    <3>1. role \in {"internet", "attach", "mms"} /\ Has(old[s].leads[nt], role)
      BY <1>1, <2>3, RolesOnAre
    <3>2. ~ Has(new[s].leads[nt], role)
      BY <1>1, <2>1, <3>1, NotRolesOn
    <3>3. QED
      BY <1>2, <1>3, <3>1, <3>2, LossIsTold
  <2>4. QED
    BY <2>2, <2>3
<1>4. CASE s \notin DOMAIN new
  <2>1. d = Host[s] /\ Host[s] \in DOMAIN new
    BY <1>4 DEF Served
  <2> DEFINE was == old[s].leads[nt]
             is == new[Host[s]].leads[nt]
  <2>2. role \in FallbackChanges(was, is, old[s].typed[nt], new[Host[s]].typed[nt])
    <3>1. CASE role = "ims"
      <4>1. Some(old[s].typed[nt].ims.key) /\ ~ Some(new[Host[s]].typed[nt].ims.key)
        BY <1>1, <2>1, <3>1, RolesOnAre, NotRolesOn
      <4>2. QED
        BY <3>1, <4>1 DEF FallbackChanges, SameApn, When
    <3>2. CASE role # "ims"
      <4>1. role \in {"internet", "attach", "mms"} /\ Has(was, role)
        BY <1>1, <3>2, RolesOnAre
      <4>2. ~ Has(is, role)
        BY <1>1, <2>1, <4>1, NotRolesOn
      <4>3. CASE role = "mms"
        <5>1. Works(was.mms) /\ Norm(was.mms) # Norm(is.mms)
          BY <4>1, <4>2, <4>3, WorkingMmsMoves DEF Has
        <5>2. QED
          BY <4>3, <5>1 DEF FallbackChanges, When
      <4>4. CASE role # "mms"
        BY <4>1, <4>2, <4>4 DEF FallbackChanges, Has, SameApn
      <4>5. QED
        BY <4>3, <4>4
    <3>3. QED
      BY <3>1, <3>2
  <2>3. <<"MVNO scope gone", s, role>> \in Shown(old, new)
    BY <1>4, <2>1, <2>2, GoneRoleIsTold
  <2>4. QED
    BY <2>3 DEF TellsLoss
<1>5. QED
  BY <1>3, <1>4

(* What an empty report of a lead says: no line of RoleReport.               *)
LEMMA QuietRole ==
  ASSUME NEW s, NEW role, NEW old, NEW new, NEW vendor,
         RoleReport(s, role, old, new, vendor) = {}
  PROVE  /\ SendsAlike(old, new)
         /\ role # "mmslead" /\ Some(old) /\ Some(new) /\ ~ SameApn(old, new)
              => GivenTypes(vendor, new) \cap RoleTypes[role] # {}
<1>1. CASE ~ Some(new) \/ old = new
  BY <1>1 DEF SameApn, SendsAlike
<1>2. CASE Some(new) /\ old # new
  <2> DEFINE gained == new[3] # "" /\ (~ Some(old) \/ old[3] # new[3])
             lost == SendsCredentials(old) /\ ~ SendsCredentials(new)
             proxy == new[2] # "" /\ (~ Some(old) \/ old[2] # new[2])
             moved == /\ role # "mmslead" /\ Some(old) /\ ~ SameApn(old, new)
                      /\ GivenTypes(vendor, new) \cap RoleTypes[role] = {}
  <2>1. ~ gained /\ ~ lost /\ ~ proxy /\ ~ moved
    BY <1>2, LineWhen DEF RoleReport
  <2>2. SendsAlike(old, new)
    BY <2>1 DEF SendsCredentials, SendsAlike
  <2>3. QED
    BY <1>2, <2>1, <2>2
<1>3. QED
  BY <1>1, <1>2

LEMMA QuietMms ==
  ASSUME NEW s, NEW old, NEW new, NEW tuples, Works(old), Works(new),
         MmsReport(s, old, new, tuples) = {}
  PROVE  Norm(new) \in {Norm(old)} \cup tuples
BY DEF MmsReport

LEMMA QuietIms ==
  ASSUME NEW old, NEW new, Some(old.key), ImsChange(old, new) = {}
  PROVE  SameApn(old.key, new.key)
BY DEF ImsChange

LEMMA QuietEmergency ==
  ASSUME NEW old, NEW new, EmergencyChange(old, new) = {}
  PROVE  old = new
BY DEF EmergencyChange

(* No line at all: nothing of a scope of both files changes unsaid.          *)
LEMMA QuietScope ==
  ASSUME NEW old, NEW new, Shown(old, new) = {}, NEW s \in DOMAIN old, s \in DOMAIN new,
         NEW nt \in AllNetworkTypes
  PROVE  QuietOn(old, new, s, nt)
<1> DEFINE was == old[s].leads[nt]
           is == new[s].leads[nt]
           vendor == new[s].vendor
<1>1. \A role \in {"internet", "attach", "mms"} : Has(was, role) => Has(is, role)
  BY LossIsTold
<1>2. ScopeReport(s, old[s], new[s]) = {}
  <2>1. ~ \E line : line \in ScopeReport(s, old[s], new[s])
    BY ScopeLineIsShown
  <2>2. QED
    BY <2>1
<1>3. /\ MmsReport(s, was.mms, is.mms, new[s].tuples) = {}
      /\ \A role \in {"internet", "attach", "mmslead"} :
            RoleReport(s, role, was[role], is[role], vendor) = {}
  BY <1>2, ScopeReportHas
<1>4. GivenOrSame(was.internet, is.internet, new[s], {"default"})
  <2>1. SUFFICES ASSUME Some(was.internet), ~ SameApn(was.internet, is.internet)
                 PROVE  GivenTypes(vendor, is.internet) \cap {"default"} # {}
    BY DEF GivenOrSame
  <2>2. Some(is.internet)
    BY <1>1, <2>1, HasRoles
  <2>3. RoleReport(s, "internet", was.internet, is.internet, vendor) = {}
    BY <1>3
  <2>4. GivenTypes(vendor, is.internet) \cap RoleTypes["internet"] # {}
    BY <2>1, <2>2, <2>3, QuietRole
  <2>5. QED
    BY <2>4 DEF RoleTypes
<1>5. GivenOrSame(was.attach, is.attach, new[s], {"default", "ia"})
  <2>1. SUFFICES ASSUME Some(was.attach), ~ SameApn(was.attach, is.attach)
                 PROVE  GivenTypes(vendor, is.attach) \cap {"default", "ia"} # {}
    BY DEF GivenOrSame
  <2>2. Some(is.attach)
    BY <1>1, <2>1, HasRoles
  <2>3. RoleReport(s, "attach", was.attach, is.attach, vendor) = {}
    BY <1>3
  <2>4. GivenTypes(vendor, is.attach) \cap RoleTypes["attach"] # {}
    BY <2>1, <2>2, <2>3, QuietRole
  <2>5. QED
    BY <2>4 DEF RoleTypes
<1>6. \A role \in {"internet", "attach", "mmslead"} : SendsAlike(was[role], is[role])
  BY <1>3, QuietRole
<1>7. Works(was.mms) => Norm(is.mms) \in {Norm(was.mms)} \cup new[s].tuples
  BY <1>1, <1>3, HasRoles, QuietMms
<1>8. nt \in WatchTypes =>
        /\ old[s].typed[nt].emergency = new[s].typed[nt].emergency
        /\ Some(old[s].typed[nt].ims.key) =>
              SameApn(old[s].typed[nt].ims.key, new[s].typed[nt].ims.key)
  <2> SUFFICES ASSUME nt \in WatchTypes
               PROVE  /\ old[s].typed[nt].emergency = new[s].typed[nt].emergency
                      /\ Some(old[s].typed[nt].ims.key) =>
                            SameApn(old[s].typed[nt].ims.key, new[s].typed[nt].ims.key)
    OBVIOUS
  <2>1. ~ \E line : line \in WatchTyped(old[s].typed[nt], new[s].typed[nt])
    BY WatchLineIsShown
  <2>2. /\ ImsChange(old[s].typed[nt].ims, new[s].typed[nt].ims) = {}
        /\ EmergencyChange(old[s].typed[nt].emergency, new[s].typed[nt].emergency) = {}
    BY <2>1 DEF WatchTyped
  <2>3. QED
    BY <2>2, QuietIms, QuietEmergency
<1>9. QED
  BY <1>4, <1>5, <1>6, <1>7, <1>8 DEF QuietOn

(* A report with no line: the phones of either file lead alike, or as a       *)
(* vendor says.                                                               *)
LEMMA ShownNothingQuiet ==
  ASSUME NEW old, NEW new, Shown(old, new) = {}
  PROVE  Quiet(old, new)
<1> SUFFICES ASSUME NEW s \in DOMAIN old
             PROVE  s \in DOMAIN new /\ \A nt \in AllNetworkTypes : QuietOn(old, new, s, nt)
  BY DEF Quiet
<1>1. s \in DOMAIN new
  <2> SUFFICES ASSUME s \notin DOMAIN new PROVE FALSE
    OBVIOUS
  <2>1. <<"scopes gone", s>> \in ScopesGone(old, new)
    BY DEF ScopesGone
  <2>2. QED
    BY <2>1, GoneLineIsShown
<1>2. QED
  BY <1>1, QuietScope

-----------------------------------------------------------------------------
(* What the lines of a pair of files tell.                                   *)

LEMMA LossRoles ==
  ASSUME NEW role \in {"internet", "attach", "mms"}
  PROVE  /\ LostLine[role] \in {"internet_lost", "attach_lost", "mms_lost"}
         /\ \A reading, nt : Gives(reading, LostLine[role], nt) <=> Has(reading.leads[nt], role)
<1>1. CASE role = "internet"
  BY <1>1 DEF LostLine, Gives, Has
<1>2. CASE role = "attach"
  BY <1>2 DEF LostLine, Gives, Has
<1>3. CASE role = "mms"
  BY <1>3 DEF LostLine, Gives, Has
<1>4. QED
  BY <1>1, <1>2, <1>3

(* A role that the guard reads of the old file and not of the new is a trip  *)
(* on its scope and network type, in any two files that both have the scope: *)
(* what LossesTrip assumes of the tables holds of the guard's own readings   *)
(* (tools/check_phone_guard.py, trips).                                      *)
THEOREM LossesAlwaysTrip ==
  ASSUME NEW old, NEW new, NEW r \in GuardRoles(old) \ GuardRoles(new),
         r[2] \in Both(old, new)
  PROVE  \E t \in Trips(old, new) : <<t[1], t[2], t[3]>> = r
<1>1. /\ r[1] \in {"internet_lost", "attach_lost", "mms_lost"}
      /\ r[2] \in DOMAIN old /\ r[2] \in DOMAIN new /\ r[3] \in HoldTypes
      /\ r = <<r[1], r[2], r[3]>>
  BY DEF GuardRoles, Both
<1>2. PICK role \in {"internet", "attach", "mms"} : LostLine[role] = r[1]
  BY <1>1 DEF LostLine
<1>3. Gives(old[r[2]], r[1], r[3]) /\ ~ Gives(new[r[2]], r[1], r[3])
  BY <1>1 DEF GuardRoles
<1>4. Has(old[r[2]].leads[r[3]], role) /\ ~ Has(new[r[2]].leads[r[3]], role)
  BY <1>2, <1>3, LossRoles
<1>5. PICK line \in Trips(old, new) :
         line[1] = LostLine[role] /\ line[2] = r[2] /\ line[3] = r[3]
  BY <1>1, <1>4, LossTrips
<1>6. QED
  BY <1>1, <1>2, <1>5

(* Of any files that get to main, whatever rows they give their scopes, the  *)
(* lines of the guard tell every role lost, also by the SIMs of an MVNO that *)
(* fall back to their network, and an empty report is of files that phones   *)
(* read alike, or as a current vendor says (tools/check_phone_guard.py).     *)
THEOREM ReportsTellAll == Spec => []ReportTellsAll
<1>1. ReportTellsAll
  <2>1. ASSUME NEW p \in Files \X Files
        PROVE  LinesOf[p] = Shown(Readings[p[1]], Readings[p[2]])
    BY DEF LinesOf
  <2>2. BeforeUnseen = {}
    BY <2>1, NoLossUnseen DEF BeforeUnseen
  <2>3. BeforeSilent = {}
    BY <2>1, ShownNothingQuiet DEF BeforeSilent
  <2>4. QED
    BY <2>2, <2>3 DEF ReportTellsAll, LossIsSeen, SilentMeansSame
<1>2. QED
  BY <1>1, PTL

================================================================================
