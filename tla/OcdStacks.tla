------------------------------ MODULE OcdStacks ------------------------------
(***************************************************************************)
(* tools/ocd_dataset.py: its own matcher and resolution order (the ones    *)
(* the phone's reader copies), the Google fill of a profile, the stack a   *)
(* profile's SIMs always have, and the tie check.  A SIM and a match set   *)
(* are as in MatchRules.  A Google rule is [entry, mvno], a fill item      *)
(* [entry, when]; mvno and when hold at most one <<dimension, text>>.      *)
(***************************************************************************)
EXTENDS Integers, Sequences, FiniteSets, FiniteSetsExt, SequencesExt

CONSTANTS
  JavaFold,       \* lower case of the upper case, character by character
  Wildcards,      \* x and X
  AospRules       \* <<carrier ID, network>> to Android's rules, column sets

Dimensions ==
  {"spn", "imsi_prefix_patterns", "gid1_prefixes", "gid2_prefixes",
   "iccid_prefixes", "android_carrier_ids"}

-----------------------------------------------------------------------------
(* The matcher.                                                            *)

JavaEqualsIgnoreCase(a, b) ==
  /\ Len(a) = Len(b)
  /\ \A i \in DOMAIN a : JavaFold[a[i]] = JavaFold[b[i]]

JavaStartsWithIgnoreCase(value, prefix) ==
  /\ Len(value) >= Len(prefix)
  /\ JavaEqualsIgnoreCase(SubSeq(value, 1, Len(prefix)), prefix)

ImsiPatternMatches(pattern, imsi) ==
  /\ Len(pattern) <= Len(imsi)
  /\ \A i \in DOMAIN pattern : pattern[i] \in Wildcards \/ pattern[i] = imsi[i]

TextHolds(dimension, value, text) ==
  CASE dimension = "spn" -> JavaEqualsIgnoreCase(text, value)
    [] dimension = "imsi_prefix_patterns" -> ImsiPatternMatches(value, text)
    [] dimension \in {"gid1_prefixes", "gid2_prefixes"} ->
         JavaStartsWithIgnoreCase(text, value)
    [] dimension = "iccid_prefixes" -> IsPrefix(value, text)

DimensionHolds(dimension, values, sim) ==
  IF dimension = "android_carrier_ids"
  THEN sim[dimension] \intersect values # {}
  ELSE \E text \in sim[dimension], value \in values :
         TextHolds(dimension, value, text)

Used(match) == {d \in Dimensions : match[d] # {}}

ProfileHolds(profile, sim) ==
  /\ sim.mccmnc \intersect profile.match.mccmnc # {}
  /\ \A d \in Used(profile.match) : DimensionHolds(d, profile.match[d], sim)

-----------------------------------------------------------------------------
(* The resolution order.                                                   *)

ColumnWeight ==
  [mccmnc |-> 256, imsi_prefix_xpattern |-> 128, iccid_prefix |-> 64,
   gid1 |-> 32, gid2 |-> 16, plmn |-> 8, privilege_access_rule |-> 4,
   spn |-> 2, apn |-> 1]

ColumnOf ==
  [imsi_prefix_patterns |-> "imsi_prefix_xpattern",
   iccid_prefixes |-> "iccid_prefix", gid1_prefixes |-> "gid1",
   gid2_prefixes |-> "gid2", spn |-> "spn"]

StepNames ==
  <<"weight", "carrier_id", "prefix", "prefix", "prefix", "prefix",
    "ocd_before_fill_only", "fewer_values", "fewer_networks", "profile_id">>

Weigh(columns) ==
  LET Of(c) == IF c \in columns THEN ColumnWeight[c] ELSE 0
  IN  Of("mccmnc") + Of("imsi_prefix_xpattern") + Of("iccid_prefix") + Of("gid1")
      + Of("gid2") + Of("plmn") + Of("privilege_access_rule") + Of("spn") + Of("apn")

(* Mutant: an ID with several rules takes the highest of their weights.     *)
AndroidWeightByBest(match, net) ==
  LET raw == {"mccmnc"} \union {ColumnOf[d] : d \in Used(match) \intersect DOMAIN ColumnOf}
      rules == UNION {IF <<id, net>> \in DOMAIN AospRules
                      THEN AospRules[<<id, net>>] ELSE {{"mccmnc"}} :
                        id \in match.android_carrier_ids}
  IN  IF rules = {} THEN Weigh(raw) ELSE Max({Weigh(raw \union r) : r \in rules})

AndroidWeight(match, net) ==
  LET raw == {"mccmnc"} \union {ColumnOf[d] : d \in Used(match) \intersect DOMAIN ColumnOf}
      rules == UNION {IF <<id, net>> \in DOMAIN AospRules
                      THEN AospRules[<<id, net>>] ELSE {{"mccmnc"}} :
                        id \in match.android_carrier_ids}
  IN  IF rules = {} THEN Weigh(raw) ELSE Min({Weigh(raw \union r) : r \in rules})

FixedLength(dimension, value) ==
  IF dimension = "imsi_prefix_patterns"
  THEN Cardinality({i \in DOMAIN value : value[i] \notin Wildcards})
  ELSE Len(value)

Shortest(dimension, values) ==
  IF values = {} THEN 0 ELSE Min({FixedLength(dimension, v) : v \in values})

ValueCount(match) ==
  LET Of(d) == Cardinality(match[d])
  IN  Of("spn") + Of("imsi_prefix_patterns") + Of("gid1_prefixes") + Of("gid2_prefixes")
      + Of("iccid_prefixes") + Of("android_carrier_ids")

ResolutionKey(profile, net) ==
  LET match == profile.match
      ShortestOf(d) == Shortest(d, match[d])
  IN  <<AndroidWeight(match, net),
        IF match.android_carrier_ids # {} THEN 1 ELSE 0,
        ShortestOf("imsi_prefix_patterns"), ShortestOf("iccid_prefixes"),
        ShortestOf("gid1_prefixes"), ShortestOf("gid2_prefixes"),
        IF profile.kind = "fill_only" THEN 0 ELSE 1,
        0 - ValueCount(match),
        0 - Cardinality(match.mccmnc),
        profile.id>>

KeyBelow(a, b) ==
  \E i \in DOMAIN a : a[i] < b[i] /\ \A j \in 1..(i - 1) : a[j] = b[j]

StackOrderKey(profile) == <<Cardinality(Used(profile.match)), profile.id>>

(* Profiles from generic to specific by KEY, a function of their IDs.       *)
Sorted(profiles, key) ==
  [i \in 1..Cardinality(profiles) |->
     CHOOSE p \in profiles :
       Cardinality({q \in profiles : KeyBelow(key[q.id], key[p.id])}) = i - 1]

ResolutionKeys(profiles, net) ==
  [id \in {p.id : p \in profiles} |->
     ResolutionKey(CHOOSE p \in profiles : p.id = id, net)]

Holding(profiles, sim) == {p \in profiles : ProfileHolds(p, sim)}

ResolveStack(profiles, sim, net) ==
  Sorted(Holding(profiles, sim), ResolutionKeys(profiles, net))

StepBetween(lower, upper) ==
  LET apart == {i \in DOMAIN lower : lower[i] # upper[i]}
  IN  IF apart = {} THEN "profile_id" ELSE StepNames[Min(apart)]

ReasonServing(stack, net) ==
  IF stack = <<>> THEN "default"
  ELSE IF Len(stack) = 1 THEN "only"
  ELSE StepBetween(ResolutionKey(stack[Len(stack) - 1], net),
                   ResolutionKey(Last(stack), net))

-----------------------------------------------------------------------------
(* How two selector values relate, and the Google fill of a profile.       *)

ValuesOverlap(dimension, w, v) ==
  CASE dimension = "spn" -> JavaEqualsIgnoreCase(w, v)
    [] dimension \in {"gid1_prefixes", "gid2_prefixes"} ->
         JavaStartsWithIgnoreCase(w, v) \/ JavaStartsWithIgnoreCase(v, w)
    [] dimension = "iccid_prefixes" -> IsPrefix(v, w) \/ IsPrefix(w, v)
    [] dimension = "imsi_prefix_patterns" ->
         \A i \in DOMAIN w \intersect DOMAIN v :
           {w[i], v[i]} \intersect Wildcards # {} \/ w[i] = v[i]

(* Mutant: an IMSI pattern's length is not compared.                        *)
ValueImpliesZipped(dimension, w, v) ==
  CASE dimension = "spn" -> JavaEqualsIgnoreCase(w, v)
    [] dimension \in {"gid1_prefixes", "gid2_prefixes"} -> JavaStartsWithIgnoreCase(w, v)
    [] dimension = "iccid_prefixes" -> IsPrefix(v, w)
    [] dimension = "imsi_prefix_patterns" ->
         \A i \in DOMAIN w \intersect DOMAIN v : v[i] \in Wildcards \/ w[i] = v[i]

ValueImplies(dimension, w, v) ==
  CASE dimension = "spn" -> JavaEqualsIgnoreCase(w, v)
    [] dimension \in {"gid1_prefixes", "gid2_prefixes"} -> JavaStartsWithIgnoreCase(w, v)
    [] dimension = "iccid_prefixes" -> IsPrefix(v, w)
    [] dimension = "imsi_prefix_patterns" ->
         /\ Len(w) >= Len(v)
         /\ \A i \in DOMAIN v :
              v[i] \in Wildcards \/ (w[i] \notin Wildcards /\ w[i] = v[i])

(* What a Google rule does to a profile's fill list: "ends" it, adds an     *)
(* item "when" its own condition holds, or adds nothing.                   *)
RuleEffect(profile, rule) ==
  IF rule.mvno = {} THEN "ends"
  ELSE LET datum == CHOOSE d \in rule.mvno : TRUE
           own == profile.match[datum[1]]
           named == /\ own = {} /\ datum[1] = "spn"
                    /\ profile.match.iccid_prefixes # {}
                    /\ JavaEqualsIgnoreCase(profile.name, datum[2])
       IN  IF named THEN "when"
           ELSE IF ~ \E w \in own : ValuesOverlap(datum[1], w, datum[2]) THEN "skips"
           ELSE IF \A w \in own : ValueImplies(datum[1], w, datum[2]) THEN "ends" ELSE "when"

(* Rules, and the fill items made of them, are lists given by position in   *)
(* the file: functions from the positions of those that are there.         *)
ComputeFill(profile, rules) ==
  LET Effect(i) == RuleEffect(profile, rules[i])
      taken == {i \in DOMAIN rules :
                  Effect(i) # "skips" /\ ~ \E j \in DOMAIN rules : j < i /\ Effect(j) = "ends"}
  IN  [i \in taken |-> [entry |-> rules[i].entry,
                       when |-> IF Effect(i) = "ends" THEN {} ELSE rules[i].mvno]]

WhenHolds(when, sim) == \A datum \in when : DimensionHolds(datum[1], {datum[2]}, sim)

(* The entry a SIM picks: at most one, among the lane's entries.            *)
PickFill(fill, sim, entries) ==
  LET holding == {i \in DOMAIN fill : fill[i].entry \in entries
                                       /\ WhenHolds(fill[i].when, sim)}
  IN  IF holding = {} THEN {} ELSE {fill[Min(holding)].entry}

=============================================================================
