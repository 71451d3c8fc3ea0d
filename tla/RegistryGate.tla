---------------------------- MODULE RegistryGate ----------------------------
(***************************************************************************)
(* The registry on main behind its gate.  Every landing goes through the   *)
(* merge queue, where the validate job runs tools/profile_ids.py check on  *)
(* the tree that lands, against the tree it lands on.  Nothing else is     *)
(* assumed of the tree: whoever wrote it, it lands only if both checks     *)
(* report no problem.                                                      *)
(***************************************************************************)
EXTENDS ProfileTree

VARIABLE main

GateInit == IsTree(main) /\ TreeValid(main)

GateLand ==
  /\ IsTree(main')
  /\ TreeValid(main')
  /\ BaseValid(main, main')

GateSpec == GateInit /\ [][GateLand]_main

-----------------------------------------------------------------------------
(* The promise the gate keeps, read off the tree.                          *)

StatusOf(tree) ==
  [id \in Ids |-> IF id \in DOMAIN tree.live THEN "live"
                  ELSE IF id \in DOMAIN tree.aliases THEN "retired"
                  ELSE "unissued"]

SimsOf(tree) == [id \in DOMAIN tree.live |-> KeyOf[tree.live[id]]]

CarriedOf(tree) ==
  {id \in DOMAIN tree.continued : tree.continued[id].basis = "continuity_entry"}

Ledger ==
  INSTANCE IdLedger WITH Keys    <- {KeyOf[m] : m \in Matches},
                         status  <- StatusOf(main),
                         sims    <- SimsOf(main),
                         carried <- CarriedOf(main)

(* main is a registry tree.                                                *)
GateTypeOK == IsTree(main)

(* An ID never comes back after it retired, never disappears, and is never *)
(* moved to other SIMs without an accepted continuity entry; SIMs that     *)
(* have an ID keep it: whatever pull requests bring, the two checks of     *)
(* profile_ids.py let main change only as the ledger allows.               *)
KeepsLedger == Ledger!Spec

=============================================================================
