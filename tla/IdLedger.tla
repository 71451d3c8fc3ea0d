------------------------------ MODULE IdLedger ------------------------------
(***************************************************************************)
(* What the profile ID registry promises the readers of main: an ID is     *)
(* issued once, stays live or retires, and never comes back; a set of SIMs *)
(* that has an ID keeps it; an ID moves to other SIMs only when an accepted *)
(* continuity entry carries it.                                            *)
(***************************************************************************)
CONSTANTS Ids, Keys

VARIABLES
  status,   \* each ID's status
  sims,     \* the SIMs of each live ID
  carried   \* the live IDs that a continuity entry carries

vars == <<status, sims, carried>>

Live == {id \in Ids : status[id] = "live"}

Init ==
  /\ status \in [Ids -> {"unissued", "live", "retired"}]
  /\ DOMAIN sims = Live
  /\ \A id \in Live : sims[id] \in Keys
  /\ carried \subseteq Live

(* One landing changes any number of IDs.                                  *)
Next ==
  /\ status' \in [Ids -> {"unissued", "live", "retired"}]
  /\ DOMAIN sims' = Live'
  /\ carried' \subseteq Live'
  /\ \A id \in Live' : sims'[id] \in Keys
  /\ \A id \in Ids :
       /\ status[id] = "retired" => status'[id] = "retired"
       /\ status[id] = "live" => status'[id] \in {"live", "retired"}
  /\ \A id \in Live' :
       /\ (\E h \in Live : sims[h] = sims'[id]) =>
            id \in Live /\ sims[id] = sims'[id]
       /\ id \in Live => sims'[id] = sims[id] \/ id \in carried'

Spec == Init /\ [][Next]_vars

=============================================================================
