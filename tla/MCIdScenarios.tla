---------------------------- MODULE MCIdScenarios ----------------------------
(* ProfileIds over several small instances in one run: each behaviour picks *)
(* the match sets its builds may have, the builders, and the landings.      *)
EXTENDS MCProfileIds

VARIABLE scenario

(* Rules that split and merge, one builder at a time.                       *)
Splits ==
  [matches |-> {"gid1", "gid2", "both"}, builders |-> {"b1"}, landings |-> 3]

(* A spelling that changes and comes back, with IDs that retire and return. *)
Spellings ==
  [matches |-> {"gid1", "upper", "lower"}, builders |-> {"b1"}, landings |-> 3]

(* Two builds under way at once.                                            *)
Race ==
  [matches |-> {"gid1", "upper", "lower"}, builders |-> {"b1", "b2"}, landings |-> 2]

(* Hashes that collide, and builds that write the same SIMs twice.          *)
Collisions ==
  [matches |-> {"gid1", "clash", "upper", "lower"}, builders |-> {"b1"}, landings |-> 2]

(* A profile that narrows to SIMs that a build writes twice.                *)
Narrowing ==
  [matches |-> {"wide", "upper", "lower"}, builders |-> {"b1"}, landings |-> 2]

Scenarios == {Splits, Spellings, Race, Collisions, Narrowing}

(* The scenarios whose builds may write the same SIMs twice.                *)
WithTwins == {Collisions, Narrowing}

(* gid1 and gid2 are alike, so beside "both" one of them is enough.         *)
ScenarioYields ==
  {S \in AnyYield : \E s \in Scenarios : S \subseteq s.matches}
    \ {{"both", "gid2"}, {"both", "gid1", "gid2"}}

YieldsOf(s) ==
  {S \in ScenarioYields : S \subseteq s.matches
                             /\ (s \in WithTwins \/ S \in PlainYield)}

MCInit == Init /\ scenario \in Scenarios

MCNext ==
  /\ Next
  /\ landings' <= scenario.landings
  /\ \A b \in Builders :
       /\ build'[b].matches \in YieldsOf(scenario) \union {Idle.matches}
       /\ b \notin scenario.builders => build'[b] = Idle
  /\ UNCHANGED scenario

MCSpec == MCInit /\ [][MCNext]_<<vars, scenario>>

=============================================================================
