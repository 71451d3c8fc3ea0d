------------------------------- MODULE F5Gate -------------------------------
(***************************************************************************)
(* main's APN rows and their chain of F5 reads behind the validate job:    *)
(* whatever a pull request holds, its tree lands only when                 *)
(* tools/f5_read.py check passes it against the tree it lands on.  history *)
(* is main's first-parent history since the chain began, which consumers   *)
(* installed their rows from; nothing in the gate reads it.                *)
(***************************************************************************)
EXTENDS F5Reads

VARIABLES
  main,    \* the committed tree
  history  \* the rows and context of each commit of main, oldest first

Commits == [rows : Rows, context : Contexts]

CommitOf(tree) == [rows |-> tree.rows, context |-> tree.context]

(* publish wrote the first chain, with no read and the commit it starts at. *)
GateInit ==
  /\ main \in Trees
  /\ main.doc.reads = <<>>
  /\ FileValid(main.doc, main.rows, main.context)
  /\ history = <<CommitOf(main)>>

GateLand ==
  /\ main' \in Trees
  /\ Check(main, main')
  /\ history' = Append(history, CommitOf(main'))

GateSpec == GateInit /\ [][GateLand]_<<main, history>>

-----------------------------------------------------------------------------
(* main is a tree of the model, and its history a sequence of its commits. *)
GateTypeOK ==
  /\ main \in Trees
  /\ history \in Seq(Commits)

(* A consumer that installed the rows of any commit of main, however long  *)
(* ago, can walk the chain to main's rows, and the walk lets it take them. *)
NeverStranded ==
  \A i \in DOMAIN history : Takes(main.doc, history[i].rows, main.rows)

(* Every change main made has its read on the chain, of that change's      *)
(* lines; where the rules of the commit hold one of them, an agent read it. *)
ChangesWereRead ==
  \A i \in 2..Len(history) :
    LET before == history[i - 1]
        after  == history[i]
    IN  before.rows # after.rows =>
          \E k \in DOMAIN main.doc.reads :
            LET read == main.doc.reads[k]
            IN  /\ read.base = before.rows
                /\ read.head = after.rows
                /\ read.lines = Lines[before.rows][after.rows]
                /\ \/ read.method = "agent"
                   \/ read.lines \intersect Held[after.context] = {}

(* Once the rules have read a change, main keeps their version: every read *)
(* on main must be of the tool's version, and no read may be rewritten.    *)
RulesStay ==
  [][(\E i \in DOMAIN main.doc.reads : main.doc.reads[i].method = "deterministic")
       => RulesOf[main'.context] = RulesOf[main.context]]_<<main, history>>

=============================================================================
