--------------------------- MODULE CarrierResolver ---------------------------
(***************************************************************************)
(* tools/resolve_carrier_profiles.py beyond its matcher (MatchRules): the  *)
(* order of a SIM's profiles, why the last one serves, and what --explain  *)
(* says the SIM gets.                                                      *)
(*                                                                         *)
(* A profile is a record with its id (a number for the byte order of IDs), *)
(* kind, match and values.  An APN row has a network, at most one MVNO     *)
(* selector <<kind, text>> and an APN.                                     *)
(***************************************************************************)
EXTENDS MatchRules

CONSTANT
  CarrierIdTable  \* <<carrier ID, network>> to Android's rules, column sets

RuleWeights ==
  [mccmnc |-> 256, imsi_prefix_xpattern |-> 128, iccid_prefix |-> 64,
   gid1 |-> 32, gid2 |-> 16, plmn |-> 8, privilege_access_rule |-> 4,
   spn |-> 2, apn |-> 1]

(* The rule column whose weight SELECTOR_WEIGHTS gives a selector.          *)
SelectorColumns ==
  [imsi_prefix_patterns |-> "imsi_prefix_xpattern",
   iccid_prefixes |-> "iccid_prefix", gid1_prefixes |-> "gid1",
   gid2_prefixes |-> "gid2", spn |-> "spn"]

OrderSteps ==
  <<"weight", "carrier_id", "prefix", "prefix", "prefix", "prefix",
    "ocd_before_fill_only", "fewer_values", "fewer_networks", "profile_id">>

-----------------------------------------------------------------------------
(* The order key.                                                          *)

(* The weights are powers of two, so the code's | of two of them is the     *)
(* weight of the union of their columns.                                   *)
RuleWeight(columns) ==
  LET Of(c) == IF c \in columns THEN RuleWeights[c] ELSE 0
  IN  Of("mccmnc") + Of("imsi_prefix_xpattern") + Of("iccid_prefix") + Of("gid1")
      + Of("gid2") + Of("plmn") + Of("privilege_access_rule") + Of("spn") + Of("apn")

RawColumns(match) ==
  {"mccmnc"} \union
    {SelectorColumns[d] : d \in {s \in DOMAIN SelectorColumns : match[s] # {}}}

RulesOf(id, net) ==
  IF <<id, net>> \in DOMAIN CarrierIdTable
  THEN CarrierIdTable[<<id, net>>] ELSE {{"mccmnc"}}

AndroidWeight(match, net) ==
  IF match.android_carrier_ids = {}
  THEN RuleWeight(RawColumns(match))
  ELSE Min({RuleWeight(RawColumns(match) \union rule) :
              rule \in UNION {RulesOf(id, net) : id \in match.android_carrier_ids}})

FixedLength(dimension, value) ==
  IF dimension = "imsi_prefix_patterns"
  THEN Cardinality({i \in DOMAIN value : Fold[value[i]] # Wildcard})
  ELSE Len(value)

ShortestOf(dimension, values) ==
  IF values = {} THEN 0 ELSE Min({FixedLength(dimension, v) : v \in values})

ListValueCount(match) ==
  LET Of(d) == Cardinality(match[d])
  IN  Of("spn") + Of("imsi_prefix_patterns") + Of("gid1_prefixes") + Of("gid2_prefixes")
      + Of("iccid_prefixes") + Of("android_carrier_ids")

OrderKey(profile, net) ==
  LET match == profile.match
      Prefix(d) == ShortestOf(d, match[d])
  IN  <<AndroidWeight(match, net),
        IF match.android_carrier_ids = {} THEN 0 ELSE 1,
        Prefix("imsi_prefix_patterns"), Prefix("iccid_prefixes"),
        Prefix("gid1_prefixes"), Prefix("gid2_prefixes"),
        IF profile.kind = "fill_only" THEN 0 ELSE 1,
        0 - ListValueCount(match),
        0 - Cardinality(match.mccmnc),
        profile.id>>

KeyLess(a, b) ==
  \E i \in DOMAIN a : a[i] < b[i] /\ \A j \in 1..(i - 1) : a[j] = b[j]

DecidingStep(lower, upper) ==
  LET apart == {i \in DOMAIN lower : lower[i] # upper[i]}
  IN  IF apart = {} THEN "profile_id" ELSE OrderSteps[Min(apart)]

-----------------------------------------------------------------------------
(* Stacks, generic to specific.                                            *)

SortedBy(key, profiles) ==
  [i \in 1..Cardinality(profiles) |->
     CHOOSE p \in profiles :
       Cardinality({q \in profiles : KeyLess(key[q.id], key[p.id])}) = i - 1]

OrderKeys(profiles, net) ==
  [id \in {p.id : p \in profiles} |->
     OrderKey(CHOOSE p \in profiles : p.id = id, net)]

CountKey(profile) == <<Specificity(profile.match), profile.id>>

CountKeys(profiles) ==
  [id \in {p.id : p \in profiles} |->
     CountKey(CHOOSE p \in profiles : p.id = id)]

Matching(profiles, sim) == {p \in profiles : ProfileMatches(p.match, sim)}

Resolve(profiles, sim, net) ==
  LET matches == Matching(profiles, sim)
  IN  SortedBy(OrderKeys(matches, net), matches)

ResolveByCount(profiles, sim) ==
  LET matches == Matching(profiles, sim)
  IN  SortedBy(CountKeys(matches), matches)

ServingReason(stack, net) ==
  CASE stack = <<>> -> "default"
    [] Len(stack) = 1 -> "only"
    [] OTHER -> DecidingStep(OrderKey(stack[Len(stack) - 1], net),
                             OrderKey(Last(stack), net))

-----------------------------------------------------------------------------
(* What --explain says the SIM gets.                                       *)

(* The last profile of the stack that states a key applies.                *)
Overlay(stack) ==
  [key \in UNION {DOMAIN stack[i].values : i \in DOMAIN stack} |->
     stack[Max({i \in DOMAIN stack : key \in DOMAIN stack[i].values})].values[key]]

MvnoRowMatches(selector, sim) ==
  LET data == selector[2]
  IN  CASE selector[1] = "spn" -> \E f \in sim.spn : Folded(f) = Folded(data)
        [] selector[1] = "gid" ->
             \E f \in sim.gid1_prefixes : IsPrefix(Folded(data), Folded(f))
        [] selector[1] = "imsi" ->
             \E f \in sim.imsi_prefix_patterns : ImsiPatternMatches(data, f)
        [] selector[1] = "iccid" -> \E f \in sim.iccid_prefixes : IsPrefix(data, f)
        [] OTHER -> FALSE

(* The rows of the SIM's MVNO selectors when any match, else the plain ones. *)
ExplainedRows(rows, sim, net) ==
  LET network_rows == {r \in rows : r.net = net}
      mvno_rows == {r \in network_rows :
                      \E selector \in r.mvno : MvnoRowMatches(selector, sim)}
  IN  IF mvno_rows # {} THEN mvno_rows ELSE {r \in network_rows : r.mvno = {}}

=============================================================================
