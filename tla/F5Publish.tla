------------------------------ MODULE F5Publish ------------------------------
(***************************************************************************)
(* The pull requests that change main's APN rows, and the reads they       *)
(* publish: the publisher (f5_read.py publish, with an agent's read where  *)
(* there is one), the refresh bot of refresh-generated.yml (publish        *)
(* without one, stopping at a hold), a bridge to older rows (backfill      *)
(* --onto), and the merge queue, which squashes a pull request onto        *)
(* whatever main is by then and runs check on the result.                  *)
(***************************************************************************)
EXTENDS F5Gate

CONSTANTS
  Start,       \* the tree the chain begins on
  Older,       \* the commits that changed the rows before the chain began
  Branches,    \* pull requests open at once
  MaxHistory   \* bound: commits of main in one behaviour

VARIABLES
  branch,  \* each pull request
  agents   \* the sets of lines an agent has read and passed

vars == <<main, history, branch, agents>>

ASSUME PublishAssumption ==
  /\ Start \in Trees /\ Start.doc.reads = <<>>
  /\ FileValid(Start.doc, Start.rows, Start.context)
  /\ Older \in Seq(Commits)
  /\ \A i \in 2..Len(Older) : Older[i - 1].rows # Older[i].rows
  /\ MaxHistory \in Nat

Closed == [open |-> FALSE, base |-> Start, tree |-> Start]

IsOpen(b) == branch[b].open

SetTree(b, base, tree) ==
  branch' = [branch EXCEPT ![b] = [open |-> TRUE, base |-> base, tree |-> tree]]

-----------------------------------------------------------------------------
(* publish: the documents it may write for a tree, from main's rows and a  *)
(* chain that stands there.  None when append_read refuses the chain.      *)

Published(tree, mainRows, chain, passed) ==
  IF tree.rows = mainRows
  THEN {chain}
  ELSE LET read == WithAgentRead(ReadFiles(mainRows, tree.rows, tree.context), passed)
       IN  {AppendRead(chain, read) : c \in {x \in {chain} : Appends(x, read)}}

HoldsLast(doc) == doc.reads # <<>> /\ Last(doc.reads).verdict = "hold"

(* backfill: the reads of the changes between older commits; those that    *)
(* left the rows as they were are skipped.                                 *)
Backfill(commits, passed) ==
  LET Change(i) == ReadFiles(commits[i].rows, commits[i + 1].rows, commits[i + 1].context)
  IN  [since |-> [named |-> TRUE, rows |-> commits[1].rows],
       rows  |-> commits[Len(commits)].rows,
       reads |-> [i \in 1..(Len(commits) - 1) |-> WithAgentRead(Change(i), passed)]]

-----------------------------------------------------------------------------
(* The squash onto main: apns-conf.xml, the files the rules read and       *)
(* f5-reads.json merge one by one, and a file both sides changed conflicts. *)
(* Appending a read and putting reads in front touch the same lines of     *)
(* f5-reads.json.                                                          *)

Conflicts(base, ours, theirs) ==
  theirs # base /\ ours # base /\ theirs # ours

Merged(base, ours, theirs) == IF theirs = base THEN ours ELSE theirs

MergeTrees(base, ours, theirs) ==
  [rows    |-> Merged(base.rows, ours.rows, theirs.rows),
   context |-> Merged(base.context, ours.context, theirs.context),
   doc     |-> Merged(base.doc, ours.doc, theirs.doc)]

TreesConflict(base, ours, theirs) ==
  \/ Conflicts(base.rows, ours.rows, theirs.rows)
  \/ Conflicts(base.context, ours.context, theirs.context)
  \/ Conflicts(base.doc, ours.doc, theirs.doc)

-----------------------------------------------------------------------------
Init ==
  /\ main = Start
  /\ history = <<CommitOf(Start)>>
  /\ branch = [b \in Branches |-> Closed]
  /\ agents = {}

(* A pull request forks from main, or its sources change again.            *)
Edit(b) ==
  /\ \E rows \in Rows, context \in Contexts :
       LET fork == IF IsOpen(b) THEN branch[b] ELSE [base |-> main, tree |-> main]
       IN  /\ rows # fork.tree.rows \/ context # fork.tree.context
           /\ SetTree(b, fork.base, [fork.tree EXCEPT !.rows = rows, !.context = context])
  /\ UNCHANGED <<main, history, agents>>

(* The publisher runs publish on its branch against main as it is, with    *)
(* main's chain or the one in its checkout, and an agent's read of exactly *)
(* these lines.                                                            *)
Publish(b) ==
  LET tree == branch[b].tree
  IN  /\ IsOpen(b)
      /\ \E chain \in {tree.doc, main.doc} :
           \E doc \in Published(tree, main.rows, chain, agents) :
             SetTree(b, branch[b].base, [tree EXCEPT !.doc = doc])
      /\ UNCHANGED <<main, history, agents>>

(* An independent agent reads a held branch's lines and passes them.       *)
AgentReads(b) ==
  /\ IsOpen(b)
  /\ HoldsLast(branch[b].tree.doc)
  /\ agents' = agents \union {Last(branch[b].tree.doc.reads).lines}
  /\ UNCHANGED <<main, history, branch>>

(* The bot merges main into the branch, regenerates the rows from the      *)
(* merged sources and publishes their read on main's chain; it never       *)
(* supplies an agent's read and stops at a hold, pushing nothing.          *)
Refresh(b) ==
  LET B == branch[b]
  IN  /\ IsOpen(b)
      /\ B.base # main
      /\ \E rows \in Rows, context \in {main.context, B.tree.context} :
           LET tree == [rows |-> rows, context |-> context, doc |-> main.doc]
           IN  \E doc \in Published(tree, main.rows, main.doc, {}) :
                 /\ rows # main.rows => ~HoldsLast(doc)
                 /\ SetTree(b, main, [tree EXCEPT !.doc = doc])
      /\ UNCHANGED <<main, history, agents>>

(* A maintainer merges main by hand, taking each file from either side.    *)
MergeMain(b) ==
  LET B == branch[b]
  IN  /\ IsOpen(b)
      /\ B.base # main
      /\ \E rows \in Rows,
            context \in {main.context, B.tree.context},
            doc \in {main.doc, B.tree.doc} :
           SetTree(b, main, [rows |-> rows, context |-> context, doc |-> doc])
      /\ UNCHANGED <<main, history, agents>>

(* backfill --onto main's chain: the reads of older commits in front.      *)
Bridge(b) ==
  LET bridge == Backfill(Older, agents)
  IN  /\ ~IsOpen(b)
      /\ Older # <<>>
      /\ Bridges(bridge, main.doc)
      /\ SetTree(b, main, [main EXCEPT !.doc = Bridged(bridge, main.doc)])
      /\ UNCHANGED <<main, history, agents>>

(* Mutant: the branch was checked on its own base before main moved.       *)
LandChecked(b) ==
  LET B    == branch[b]
      tree == MergeTrees(B.base, main, B.tree)
  IN  /\ IsOpen(b)
      /\ Len(history) < MaxHistory
      /\ ~TreesConflict(B.base, main, B.tree)
      /\ Check(B.base, B.tree)
      /\ main' = tree
      /\ history' = Append(history, CommitOf(tree))
      /\ branch' = [branch EXCEPT ![b] = Closed]
      /\ UNCHANGED agents

Land(b) ==
  LET B    == branch[b]
      tree == MergeTrees(B.base, main, B.tree)
  IN  /\ IsOpen(b)
      /\ Len(history) < MaxHistory
      /\ ~TreesConflict(B.base, main, B.tree)
      /\ Check(main, tree)
      /\ main' = tree
      /\ history' = Append(history, CommitOf(tree))
      /\ branch' = [branch EXCEPT ![b] = Closed]
      /\ UNCHANGED agents

Close(b) ==
  /\ IsOpen(b)
  /\ branch' = [branch EXCEPT ![b] = Closed]
  /\ UNCHANGED <<main, history, agents>>

Next ==
  \E b \in Branches :
    \/ Edit(b) \/ Publish(b) \/ AgentReads(b) \/ Refresh(b) \/ MergeMain(b)
    \/ Bridge(b) \/ Land(b) \/ Close(b)

Spec == Init /\ [][Next]_vars

-----------------------------------------------------------------------------
(* main and every pull request hold trees with chains of reads.            *)
TypeOK ==
  /\ GateTypeOK
  /\ branch \in [Branches -> [open : BOOLEAN, base : Trees, tree : Trees]]
  /\ agents \in SUBSET SUBSET AllLines

(* How many changes of the rows the first n commits made.                  *)
ChangesUpTo(commits, n) ==
  Cardinality({i \in 2..n : commits[i - 1].rows # commits[i].rows})

(* After the first reads, skip of them, come those of the changes that     *)
(* commits made, in order.                                                 *)
AreReadAfter(reads, skip, commits) ==
  \A i \in 2..Len(commits) :
    commits[i - 1].rows # commits[i].rows =>
      LET read == reads[skip + ChangesUpTo(commits, i)]
      IN  read.base = commits[i - 1].rows /\ read.head = commits[i].rows

(* The chain holds one read for each change of the rows on main, oldest    *)
(* first, and before them the changes a bridge reached back to.            *)
ChainIsHistory ==
  LET reads == main.doc.reads
      older == ChangesUpTo(Older, Len(Older))
      since == ChangesUpTo(history, Len(history))
  IN  \/ Len(reads) = since /\ AreReadAfter(reads, 0, history)
      \/ /\ Len(reads) = older + since
         /\ AreReadAfter(reads, 0, Older)
         /\ AreReadAfter(reads, older, history)

=============================================================================
