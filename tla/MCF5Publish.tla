----------------------------- MODULE MCF5Publish -----------------------------
(* Three files of rows and one older one, and three emergency lines: one    *)
(* that every context proceeds, one that a newer carrier list (c2) holds,   *)
(* one that all hold.  next is a checkout with another version of the rules. *)
EXTENDS F5Publish, TLC

VARIABLE scenario

MCRows == {"old", "r0", "r1", "r2"}

MCAllLines == {"default", "stated", "gap"}

MCContexts == {"c1", "c2", "next"}

MCLines ==
  [a \in MCRows |-> [b \in MCRows |->
     CASE a = b \/ {a, b} = {"r0", "r1"} -> {}
       [] {a, b} = {"r0", "r2"}          -> {"default", "stated"}
       [] {a, b} = {"r1", "r2"}          -> {"gap"}
       [] OTHER                          -> {"default"}]]

MCHeld == [c \in MCContexts |-> IF c = "c2" THEN {"stated", "gap"} ELSE {"gap"}]

MCRulesOf == [c \in MCContexts |-> IF c = "next" THEN 3 ELSE 2]

MCStart ==
  [rows |-> "r0", context |-> "c1",
   doc  |-> [since |-> [named |-> TRUE, rows |-> "r0"], rows |-> "r0", reads |-> <<>>]]

MCOlder == <<[rows |-> "old", context |-> "c1"], [rows |-> "r0", context |-> "c1"]>>

(* One pull request at a time over three landings, with new rules and a     *)
(* bridge.                                                                  *)
Alone == [open |-> 1, contexts |-> {"c1", "next"}, landings |-> 3, edits |-> TRUE]

(* Two pull requests race over two landings while the carrier list changes. *)
Race == [open |-> 2, contexts |-> {"c1", "c2"}, landings |-> 2, edits |-> FALSE]

(* Two pull requests race over three landings, so rows can come back while  *)
(* a pull request is open.                                                  *)
Return == [open |-> 2, contexts |-> {"c1"}, landings |-> 3, edits |-> FALSE]

MCInit == Init /\ scenario \in {Alone, Race, Return}

MCNext ==
  /\ Next
  /\ UNCHANGED scenario
  /\ Len(history') <= scenario.landings + 1
  /\ Cardinality({b \in Branches : branch'[b].open}) <= scenario.open
  /\ \A b \in Branches :
       LET tree == branch'[b].tree
       IN  /\ tree.rows # "old"
           /\ tree.context \in scenario.contexts
           /\ \/ scenario.edits \/ ~branch[b].open \/ ~branch'[b].open
              \/ tree.doc # branch[b].tree.doc \/ tree.rows = branch[b].tree.rows

MCSpec == MCInit /\ [][MCNext]_<<vars, scenario>>

BranchSymmetry == Permutations(Branches)

=============================================================================
