---------------------------- MODULE MatchMeaning ----------------------------
(***************************************************************************)
(* What the relations of MatchRules and the alias targets of ProfileTree   *)
(* mean for SIMs: any three match sets, a retired one and two of a new     *)
(* tree, in front of any SIM.                                              *)
(***************************************************************************)
EXTENDS ProfileTree

CONSTANTS
  Sims,   \* the SIMs in view
  Digits  \* the characters of IMSIs and network codes

VARIABLES old, first, second

survey_vars == <<old, first, second>>

TextOf(S) == SUBSET Seq(S)

(* What validate_public_carrier_data.py accepts as a match set: networks, *)
(* and IMSI patterns of digits and wildcards.                              *)
IsMatchSet(match) ==
  /\ \A key \in TextKeys : match[key] \in TextOf(Chars)
  /\ match["mccmnc"] # {} /\ match["mccmnc"] \in TextOf(Digits)
  /\ match["imsi_prefix_patterns"]
       \in TextOf(Digits \union {c \in Chars : Fold[c] = Wildcard})
  /\ match["android_carrier_ids"] \in SUBSET Nat

(* A SIM has one network, and of every other text one or none; its carrier *)
(* ID and specific carrier ID are two numbers at most.                     *)
IsSim(sim) ==
  /\ sim = [key \in MatchKeys |-> sim[key]]
  /\ \A key \in TextKeys :
       sim[key] \in TextOf(Chars) /\ \A x, y \in sim[key] : x = y
  /\ sim["mccmnc"] # {} /\ sim["mccmnc"] \in TextOf(Digits)
  /\ sim["imsi_prefix_patterns"] \in TextOf(Digits)
  /\ sim["android_carrier_ids"] \in SUBSET Nat
  /\ \A i, j, k \in sim["android_carrier_ids"] : i = j \/ j = k \/ i = k

ASSUME MeaningAssumption ==
  /\ Digits \in SUBSET Chars /\ Digits # {}
  /\ \A d \in Digits : Fold[d] = d /\ d # Wildcard
  /\ \A m \in Matches : IsMatchSet(Rules[m])
  /\ \A sim \in Sims : IsSim(sim)

SurveyInit == old \in Matches /\ first \in Matches /\ second \in Matches

(* Another rule retires.                                                   *)
Retire ==
  /\ \E m \in Matches : old' = m
  /\ UNCHANGED <<first, second>>

SurveySpec == SurveyInit /\ [][Retire]_survey_vars

-----------------------------------------------------------------------------
Covering == [m \in Matches |-> {sim \in Sims : ProfileMatches(Rules[m], sim)}]

NoCarrierIds(m) == Rules[m].android_carrier_ids = {}

NewTree == [m \in {first, second} |-> m]

(* rule_implies never claims too much: every SIM that matches the narrow   *)
(* rule matches the wide one.                                              *)
ImpliesIsSound == Covers[old][first] => Covering[old] \subseteq Covering[first]

(* Two match sets with one same_sims_key cover exactly the same SIMs.      *)
KeyIsSims == KeyOf[old] = KeyOf[first] => Covering[old] = Covering[first]

(* rules_overlap misses no SIM that matches two rules that do not both     *)
(* name carrier IDs.  A SIM has a carrier ID and a specific one, so it may *)
(* match two rules with different IDs, which rules_overlap does not see.   *)
OverlapIsCompleteByText ==
  /\ NoCarrierIds(old) \/ NoCarrierIds(first) \/ KeyOf[old] = KeyOf[first]
  /\ Covering[old] \intersect Covering[first] # {}
  => Meets[old][first]

(* An alias never redirects to a profile that no SIM of the retired rule   *)
(* matches.                                                                *)
TargetsShareSims ==
  \A t \in AliasTargets(old, NewTree) : Covering[old] \intersect Covering[t] # {}

(* A SIM of the retired rule that a new profile on the same selectors, a   *)
(* narrower or a wider one matches, matches one of the alias's targets.    *)
TargetsHoldSims ==
  \A t \in DOMAIN NewTree :
    /\ NoCarrierIds(old) \/ NoCarrierIds(t)
    /\ Covers[old][t] \/ Covers[t][old] \/ DimensionsOf[t] = DimensionsOf[old]
    => Covering[old] \intersect Covering[t]
         \subseteq UNION {Covering[u] : u \in AliasTargets(old, NewTree)}

(* The three relations mean what the code takes them to mean.              *)
RelationsMeanSims == ImpliesIsSound /\ KeyIsSims /\ OverlapIsCompleteByText

(* Aliases of a retired match set name profiles that share its SIMs and,   *)
(* among those comparable to it, all that do.                              *)
AliasesHoldSims == TargetsShareSims /\ TargetsHoldSims

=============================================================================
