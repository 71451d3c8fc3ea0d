----------------------------- MODULE MatchRules -----------------------------
(***************************************************************************)
(* Match sets and the relations tools/profile_ids.py decides between them: *)
(* which two match sets cover the same SIMs, which one implies another,    *)
(* which two overlap, and how specific one is.  ProfileMatches is the      *)
(* matcher of tools/resolve_carrier_profiles.py, the meaning all of these  *)
(* relations stand for.                                                    *)
(*                                                                         *)
(* A match set is a function from match keys to sets of values; the empty  *)
(* set stands for an absent key, as an absent and an empty list do in the  *)
(* code.  Taking sets instead of lists is normalise_match (sorted, no      *)
(* duplicates), so two equal functions are one match set "as published".   *)
(* A text value is a sequence of characters; a carrier ID is a number.     *)
(***************************************************************************)
EXTENDS Integers, Sequences, FiniteSets, FiniteSetsExt, SequencesExt

CONSTANTS
  Chars,    \* the characters of text values
  Fold,     \* casefold, character by character
  Wildcard  \* the IMSI wildcard x, folded

ASSUME FoldAssumption ==
  /\ Fold \in [Chars -> Chars]
  /\ \A c \in Chars : Fold[Fold[c]] = Fold[c]
  /\ Wildcard \in Chars
  /\ Fold[Wildcard] = Wildcard

PrefixKeys == {"gid1_prefixes", "gid2_prefixes", "iccid_prefixes"}

SelectorKeys ==
  PrefixKeys \union {"imsi_prefix_patterns", "spn", "android_carrier_ids"}

MatchKeys == {"mccmnc"} \union SelectorKeys

TextKeys == MatchKeys \ {"android_carrier_ids"}

Folded(text) == [i \in DOMAIN text |-> Fold[text[i]]]

-----------------------------------------------------------------------------
(* The matcher.  A SIM's field is a set of at most one text, empty when    *)
(* the SIM does not state it; carrier_ids holds its carrier ID and its     *)
(* specific carrier ID.                                                    *)

ImsiPatternMatches(pattern, imsi) ==
  /\ Len(imsi) >= Len(pattern)
  /\ \A i \in DOMAIN pattern :
       Fold[pattern[i]] = Wildcard \/ pattern[i] = imsi[i]

ValueMatches(key, value, sim) ==
  IF key \in PrefixKeys
  THEN \E field \in sim[key] : IsPrefix(Folded(value), Folded(field))
  ELSE CASE key = "spn" -> \E field \in sim.spn : Folded(field) = Folded(value)
         [] key = "imsi_prefix_patterns" ->
              \E field \in sim[key] : ImsiPatternMatches(value, field)
         [] OTHER -> value \in sim[key]

ProfileMatches(match, sim) ==
  \A key \in MatchKeys :
    \/ match[key] = {} /\ key # "mccmnc"
    \/ \E value \in match[key] : ValueMatches(key, value, sim)

-----------------------------------------------------------------------------
(* The relations of profile_ids.py.                                        *)

(* Mutant: the key leaves out the carrier IDs, which are no text.          *)
KeyWithoutCarrierIds(match) ==
  [key \in TextKeys |-> {Folded(v) : v \in match[key]}]

SameSimsKey(match) ==
  [key \in MatchKeys |->
     IF key \in TextKeys THEN {Folded(v) : v \in match[key]} ELSE match[key]]

PrefixImplies(narrow, wide) == IsPrefix(Folded(wide), Folded(narrow))

(* Mutant: zip alone, without the length check.                            *)
ImsiImpliesZipped(narrow, wide) ==
  \A i \in DOMAIN wide \intersect DOMAIN narrow :
    Fold[wide[i]] = Wildcard \/ Fold[narrow[i]] = Fold[wide[i]]

ImsiImplies(narrow, wide) ==
  /\ Len(wide) <= Len(narrow)
  /\ \A i \in DOMAIN wide :
       Fold[wide[i]] = Wildcard \/ Fold[narrow[i]] = Fold[wide[i]]

(* Mutant: a wildcard counts on one side only.                             *)
ImsiOverlapOneSided(a, b) ==
  \A i \in DOMAIN a \intersect DOMAIN b :
    Fold[a[i]] = Wildcard \/ Fold[a[i]] = Fold[b[i]]

ImsiOverlap(a, b) ==
  \A i \in DOMAIN a \intersect DOMAIN b :
    \/ Wildcard \in {Fold[a[i]], Fold[b[i]]}
    \/ Fold[a[i]] = Fold[b[i]]

DimensionImplies(key, narrow, wide) ==
  \/ wide = {}
  \/ /\ narrow # {}
     /\ CASE key \in PrefixKeys ->
               \A a \in narrow : \E b \in wide : PrefixImplies(a, b)
          [] key = "imsi_prefix_patterns" ->
               \A a \in narrow : \E b \in wide : ImsiImplies(a, b)
          [] key = "spn" ->
               {Folded(a) : a \in narrow} \subseteq {Folded(b) : b \in wide}
          [] OTHER -> narrow \subseteq wide

DimensionOverlap(key, a, b) ==
  \/ a = {} \/ b = {}
  \/ CASE key \in PrefixKeys ->
            \E x \in a, y \in b : PrefixImplies(x, y) \/ PrefixImplies(y, x)
       [] key = "imsi_prefix_patterns" ->
            \E x \in a, y \in b : ImsiOverlap(x, y)
       [] key = "spn" ->
            {Folded(x) : x \in a} \intersect {Folded(y) : y \in b} # {}
       [] OTHER -> a \intersect b # {}

RuleImplies(narrow, wide) ==
  \A key \in MatchKeys : DimensionImplies(key, narrow[key], wide[key])

RulesOverlap(a, b) ==
  \A key \in MatchKeys : DimensionOverlap(key, a[key], b[key])

Dimensions(match) == {key \in MatchKeys : match[key] # {}}

Specificity(match) == Cardinality(Dimensions(match) \intersect SelectorKeys)

=============================================================================
