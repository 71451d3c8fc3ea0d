------------------------- MODULE MatchMeaningProofs -------------------------
(***************************************************************************)
(* The relations of profile_ids.py mean what it takes them to mean: for    *)
(* texts of any length over any alphabet, any match sets and any SIMs.     *)
(***************************************************************************)
EXTENDS MatchMeaning, FiniteSetTheorems, TLAPS

-----------------------------------------------------------------------------
(* What the relations mean.                                                *)

Texts == Seq(Chars)

(* What profile_matches asks of a SIM, key by key.                         *)
KeyMatches(match, key, sim) ==
  \/ match[key] = {} /\ key # "mccmnc"
  \/ \E value \in match[key] : ValueMatches(key, value, sim)

LEMMA MatchesByKey ==
  ASSUME NEW match, NEW sim
  PROVE  ProfileMatches(match, sim) <=> \A key \in MatchKeys : KeyMatches(match, key, sim)
BY DEF ProfileMatches, KeyMatches

-----------------------------------------------------------------------------
(* Texts.                                                                  *)

LEMMA FoldedText ==
  ASSUME NEW text \in Texts
  PROVE  /\ Folded(text) \in Texts
         /\ Len(Folded(text)) = Len(text) /\ Len(text) \in Nat
         /\ DOMAIN text = 1..Len(text)
         /\ \A i \in 1..Len(text) : Folded(text)[i] = Fold[text[i]]
<1>1. Len(text) \in Nat /\ DOMAIN text = 1..Len(text) /\ \A i \in 1..Len(text) : text[i] \in Chars
  BY DEF Texts
<1>2. Folded(text) = [i \in 1..Len(text) |-> Fold[text[i]]]
  BY <1>1 DEF Folded
<1>3. Folded(text) \in [1..Len(text) -> Chars]
  BY <1>1, <1>2, FoldAssumption
<1>4. Folded(text) \in Texts
  BY <1>1, <1>3 DEF Texts
<1>5. DOMAIN Folded(text) = 1..Len(text)
  BY <1>2
<1>6. Len(Folded(text)) = Len(text)
  BY <1>1, <1>4, <1>5 DEF Texts
<1>7. QED
  BY <1>1, <1>2, <1>4, <1>6

LEMMA PrefixIs ==
  ASSUME NEW s \in Texts, NEW t \in Texts
  PROVE  IsPrefix(s, t) <=> Len(s) <= Len(t) /\ \A i \in 1..Len(s) : s[i] = t[i]
<1>1. /\ s = [i \in 1..Len(s) |-> s[i]] /\ Len(s) \in Nat
      /\ Len(t) \in Nat
  BY DEF Texts
<1>2. ASSUME Len(s) <= Len(t)
      PROVE  /\ SubSeq(s, 1, Len(s)) = [i \in 1..Len(s) |-> s[i]]
             /\ SubSeq(t, 1, Len(s)) = [i \in 1..Len(s) |-> t[i]]
  BY <1>1, <1>2 DEF Texts
<1>3. QED
  BY <1>1, <1>2 DEF IsPrefix

LEMMA PrefixOfItself ==
  ASSUME NEW s \in Texts
  PROVE  IsPrefix(s, s)
<1>1. Len(s) \in Nat
  BY DEF Texts
<1>2. QED
  BY <1>1, PrefixIs

LEMMA PrefixOfPrefix ==
  ASSUME NEW s \in Texts, NEW t \in Texts, NEW u \in Texts, IsPrefix(s, t), IsPrefix(t, u)
  PROVE  IsPrefix(s, u)
<1>1. Len(s) \in Nat /\ Len(t) \in Nat /\ Len(u) \in Nat
  BY DEF Texts
<1>2. /\ Len(s) <= Len(t) /\ \A i \in 1..Len(s) : s[i] = t[i]
      /\ Len(t) <= Len(u) /\ \A i \in 1..Len(t) : t[i] = u[i]
  BY PrefixIs
<1>3. \A i \in 1..Len(s) : i \in 1..Len(t)
  BY <1>1, <1>2
<1>4. Len(s) <= Len(u) /\ \A i \in 1..Len(s) : s[i] = u[i]
  BY <1>1, <1>2, <1>3
<1>5. QED
  BY <1>4, PrefixIs

(* Of two prefixes of one text, one is a prefix of the other.              *)
LEMMA PrefixesOfOne ==
  ASSUME NEW s \in Texts, NEW t \in Texts, NEW u \in Texts, IsPrefix(s, u), IsPrefix(t, u)
  PROVE  IsPrefix(s, t) \/ IsPrefix(t, s)
<1>1. Len(s) \in Nat /\ Len(t) \in Nat /\ Len(u) \in Nat
  BY DEF Texts
<1>2. /\ Len(s) <= Len(u) /\ \A i \in 1..Len(s) : s[i] = u[i]
      /\ Len(t) <= Len(u) /\ \A i \in 1..Len(t) : t[i] = u[i]
  BY PrefixIs
<1>3. CASE Len(s) <= Len(t)
  <2>1. \A i \in 1..Len(s) : i \in 1..Len(t)
    BY <1>1, <1>3
  <2>2. \A i \in 1..Len(s) : s[i] = t[i]
    BY <1>2, <2>1
  <2>3. QED
    BY <1>3, <2>2, PrefixIs
<1>4. CASE Len(t) <= Len(s)
  <2>1. \A i \in 1..Len(t) : i \in 1..Len(s)
    BY <1>1, <1>4
  <2>2. \A i \in 1..Len(t) : t[i] = s[i]
    BY <1>2, <2>1
  <2>3. QED
    BY <1>4, <2>2, PrefixIs
<1>5. QED
  BY <1>1, <1>3, <1>4

-----------------------------------------------------------------------------
(* IMSI patterns.                                                          *)

PatternChars == Digits \union {c \in Chars : Fold[c] = Wildcard}

LEMMA PatternIs ==
  ASSUME NEW pattern \in Seq(PatternChars)
  PROVE  /\ pattern \in Texts /\ Len(pattern) \in Nat /\ DOMAIN pattern = 1..Len(pattern)
         /\ \A i \in 1..Len(pattern) :
              \/ Fold[pattern[i]] = Wildcard
              \/ pattern[i] \in Digits /\ Fold[pattern[i]] = pattern[i]
<1>1. PatternChars \subseteq Chars
  BY MeaningAssumption DEF PatternChars
<1>2. pattern \in Texts
  BY <1>1 DEF Texts
<1>3. \A i \in 1..Len(pattern) : pattern[i] \in PatternChars
  OBVIOUS
<1>4. QED
  BY <1>2, <1>3, MeaningAssumption DEF PatternChars, Texts

LEMMA ImsiSound ==
  ASSUME NEW narrow \in Seq(PatternChars), NEW wide \in Seq(PatternChars), NEW imsi \in Seq(Digits),
         ImsiImplies(narrow, wide), ImsiPatternMatches(narrow, imsi)
  PROVE  ImsiPatternMatches(wide, imsi)
<1>1. /\ Len(narrow) \in Nat /\ Len(wide) \in Nat /\ Len(imsi) \in Nat
      /\ DOMAIN narrow = 1..Len(narrow) /\ DOMAIN wide = 1..Len(wide)
  BY PatternIs
<1>2. /\ Len(wide) <= Len(narrow) /\ Len(narrow) <= Len(imsi)
      /\ \A i \in 1..Len(wide) : Fold[wide[i]] = Wildcard \/ Fold[narrow[i]] = Fold[wide[i]]
      /\ \A i \in 1..Len(narrow) : Fold[narrow[i]] = Wildcard \/ narrow[i] = imsi[i]
  BY <1>1 DEF ImsiImplies, ImsiPatternMatches
<1>3. ASSUME NEW i \in 1..Len(wide), Fold[wide[i]] # Wildcard
      PROVE  wide[i] = imsi[i]
  <2>1. i \in 1..Len(narrow)
    BY <1>1, <1>2
  <2>2. Fold[wide[i]] = wide[i] /\ Fold[narrow[i]] = wide[i]
    BY <1>2, <1>3, PatternIs
  <2>3. Fold[narrow[i]] = narrow[i]
    BY <1>2, <1>3, <2>1, PatternIs
  <2>4. QED
    BY <1>2, <1>3, <2>1, <2>2, <2>3
<1>4. QED
  BY <1>1, <1>2, <1>3 DEF ImsiPatternMatches

LEMMA ImsiMeets ==
  ASSUME NEW a \in Seq(PatternChars), NEW b \in Seq(PatternChars), NEW imsi \in Seq(Digits),
         ImsiPatternMatches(a, imsi), ImsiPatternMatches(b, imsi)
  PROVE  ImsiOverlap(a, b)
BY DEF ImsiOverlap, ImsiPatternMatches

-----------------------------------------------------------------------------
(* One key of two match sets, in front of a SIM.                           *)

LEMMA KeyTypes ==
  ASSUME NEW match, IsMatchSet(match)
  PROVE  /\ \A key \in TextKeys : match[key] \subseteq Texts
         /\ match["mccmnc"] # {} /\ match["mccmnc"] \subseteq Seq(Digits)
         /\ match["imsi_prefix_patterns"] \subseteq Seq(PatternChars)
BY DEF IsMatchSet, TextOf, Texts, PatternChars

LEMMA SimTypes ==
  ASSUME NEW sim, IsSim(sim)
  PROVE  /\ \A key \in TextKeys : sim[key] \subseteq Texts /\ \A x, y \in sim[key] : x = y
         /\ sim["imsi_prefix_patterns"] \subseteq Seq(Digits)
BY DEF IsSim, TextOf, Texts

LEMMA KeyCases ==
  ASSUME NEW key \in MatchKeys
  PROVE  \/ key \in PrefixKeys /\ key \in TextKeys /\ key # "spn" /\ key # "imsi_prefix_patterns" /\ key # "mccmnc"
         \/ key = "imsi_prefix_patterns" /\ key \notin PrefixKeys /\ key \in TextKeys /\ key # "mccmnc"
         \/ key = "spn" /\ key \notin PrefixKeys /\ key \in TextKeys /\ key # "mccmnc"
         \/ /\ key \in {"mccmnc", "android_carrier_ids"}
            /\ key \notin PrefixKeys /\ key # "spn" /\ key # "imsi_prefix_patterns"
BY DEF MatchKeys, SelectorKeys, PrefixKeys, TextKeys

(* What a key of the narrow rule implies, its SIMs show.                   *)
LEMMA KeySound ==
  ASSUME NEW a, NEW b, IsMatchSet(a), IsMatchSet(b), NEW sim, IsSim(sim), NEW key \in MatchKeys,
         DimensionImplies(key, a[key], b[key]), KeyMatches(a, key, sim)
  PROVE  KeyMatches(b, key, sim)
<1>1. CASE b[key] = {}
  <2>1. key # "mccmnc"
    BY <1>1, KeyTypes
  <2>2. QED
    BY <1>1, <2>1 DEF KeyMatches
<1>2. CASE b[key] # {}
  <2>1. a[key] # {}
    BY <1>2 DEF DimensionImplies
  <2>2. PICK value \in a[key] : ValueMatches(key, value, sim)
    BY <2>1 DEF KeyMatches
  <2>3. SUFFICES \E wide \in b[key] : ValueMatches(key, wide, sim)
    BY DEF KeyMatches
  <2>4. CASE key \in PrefixKeys
    <3>1. /\ key \in TextKeys /\ key # "spn" /\ key # "imsi_prefix_patterns"
          /\ value \in Texts
      BY <2>4, KeyCases, KeyTypes
    <3>2. PICK wide \in b[key] : PrefixImplies(value, wide)
      BY <1>2, <2>4, <3>1 DEF DimensionImplies
    <3>3. PICK field \in sim[key] : IsPrefix(Folded(value), Folded(field))
      BY <2>2, <2>4 DEF ValueMatches
    <3>4. wide \in Texts /\ field \in Texts
      BY <3>1, KeyTypes, SimTypes
    <3>5. IsPrefix(Folded(wide), Folded(field))
      BY <3>1, <3>2, <3>3, <3>4, FoldedText, PrefixOfPrefix DEF PrefixImplies
    <3>6. QED
      BY <2>4, <3>5 DEF ValueMatches
  <2>5. CASE key = "imsi_prefix_patterns"
    <3>1. key \notin PrefixKeys /\ key # "spn" /\ a[key] \subseteq Seq(PatternChars) /\ b[key] \subseteq Seq(PatternChars)
      BY <2>5, KeyCases, KeyTypes
    <3>2. PICK wide \in b[key] : ImsiImplies(value, wide)
      BY <1>2, <2>5, <3>1 DEF DimensionImplies
    <3>3. PICK field \in sim[key] : ImsiPatternMatches(value, field)
      BY <2>2, <2>5, <3>1 DEF ValueMatches
    <3>4. field \in Seq(Digits)
      BY <2>5, SimTypes
    <3>5. ImsiPatternMatches(wide, field)
      BY <3>1, <3>2, <3>3, <3>4, ImsiSound
    <3>6. QED
      BY <2>5, <3>1, <3>5 DEF ValueMatches
  <2>6. CASE key = "spn"
    <3>1. key \notin PrefixKeys /\ key # "imsi_prefix_patterns"
      BY <2>6, KeyCases
    <3>2. {Folded(x) : x \in a[key]} \subseteq {Folded(x) : x \in b[key]}
      BY <1>2, <2>6, <3>1 DEF DimensionImplies
    <3>3. PICK wide \in b[key] : Folded(value) = Folded(wide)
      BY <3>2
    <3>4. PICK field \in sim[key] : Folded(field) = Folded(value)
      BY <2>2, <2>6, <3>1 DEF ValueMatches
    <3>5. QED
      BY <2>6, <3>1, <3>3, <3>4 DEF ValueMatches
  <2>7. CASE key \in {"mccmnc", "android_carrier_ids"}
    <3>1. key \notin PrefixKeys /\ key # "spn" /\ key # "imsi_prefix_patterns"
      BY <2>7 DEF PrefixKeys
    <3>2. a[key] \subseteq b[key]
      BY <1>2, <3>1 DEF DimensionImplies
    <3>3. QED
      BY <2>2, <3>1, <3>2 DEF ValueMatches
  <2>8. QED
    BY <2>4, <2>5, <2>6, <2>7, KeyCases
<1>3. QED
  BY <1>1, <1>2

(* Match sets with one key imply each other.                               *)
LEMMA SameKeyImplies ==
  ASSUME NEW a, NEW b, IsMatchSet(a), IsMatchSet(b), SameSimsKey(a) = SameSimsKey(b)
  PROVE  RuleImplies(a, b)
<1> SUFFICES ASSUME NEW key \in MatchKeys, b[key] # {}
             PROVE  DimensionImplies(key, a[key], b[key])
  BY DEF RuleImplies, DimensionImplies
<1>1. SameSimsKey(a)[key] = SameSimsKey(b)[key]
  OBVIOUS
<1>2. key \in TextKeys => {Folded(v) : v \in a[key]} = {Folded(v) : v \in b[key]}
  BY <1>1 DEF SameSimsKey
<1>3. key \notin TextKeys => a[key] = b[key]
  BY <1>1 DEF SameSimsKey
<1>4. a[key] # {}
  BY <1>2, <1>3
<1>5. ASSUME key \in TextKeys, NEW x \in a[key]
      PROVE  \E y \in b[key] : Folded(x) = Folded(y)
  BY <1>2, <1>5
<1>6. CASE key \in PrefixKeys
  <2>1. /\ key \in TextKeys /\ key # "spn" /\ key # "imsi_prefix_patterns"
        /\ a[key] \subseteq Texts
    BY <1>6, KeyCases, KeyTypes
  <2>2. ASSUME NEW x \in a[key]
        PROVE  \E y \in b[key] : PrefixImplies(x, y)
    <3>1. PICK y \in b[key] : Folded(x) = Folded(y)
      BY <1>5, <2>1
    <3>2. IsPrefix(Folded(y), Folded(x))
      BY <2>1, <3>1, FoldedText, PrefixOfItself
    <3>3. QED
      BY <3>2 DEF PrefixImplies
  <2>3. QED
    BY <1>4, <1>6, <2>1, <2>2 DEF DimensionImplies
<1>7. CASE key = "imsi_prefix_patterns"
  <2>1. key \in TextKeys /\ key \notin PrefixKeys /\ a[key] \subseteq Texts /\ b[key] \subseteq Texts
    BY <1>7, KeyCases, KeyTypes
  <2>2. ASSUME NEW x \in a[key]
        PROVE  \E y \in b[key] : ImsiImplies(x, y)
    <3>1. PICK y \in b[key] : Folded(x) = Folded(y)
      BY <1>5, <2>1
    <3>2. x \in Texts /\ y \in Texts
      BY <2>1
    <3>3. Len(x) = Len(y)
      BY <3>1, <3>2, FoldedText
    <3>4. \A i \in 1..Len(y) : Fold[x[i]] = Fold[y[i]]
      BY <3>1, <3>2, <3>3, FoldedText
    <3>5. DOMAIN y = 1..Len(y) /\ Len(y) \in Nat
      BY <3>2, FoldedText
    <3>6. QED
      BY <3>3, <3>4, <3>5 DEF ImsiImplies
  <2>3. QED
    BY <1>4, <1>7, <2>1, <2>2 DEF DimensionImplies
<1>8. CASE key = "spn"
  <2>1. key \in TextKeys /\ key \notin PrefixKeys /\ key # "imsi_prefix_patterns"
    BY <1>8, KeyCases
  <2>2. QED
    BY <1>2, <1>4, <1>8, <2>1 DEF DimensionImplies
<1>9. CASE key \in {"mccmnc", "android_carrier_ids"}
  <2>1. key \notin PrefixKeys /\ key # "spn" /\ key # "imsi_prefix_patterns"
    BY <1>9 DEF PrefixKeys
  <2>2. a[key] \subseteq b[key]
    <3>1. CASE key = "mccmnc"
      <4>1. key \in TextKeys
        BY <3>1 DEF TextKeys, MatchKeys
      <4>2. \A x \in a[key] \union b[key] : Folded(x) = x
        <5>1. a[key] \union b[key] \subseteq Seq(Digits)
          BY <3>1, KeyTypes
        <5>2. ASSUME NEW x \in Seq(Digits)
              PROVE  Folded(x) = x
          <6>1. x = [i \in 1..Len(x) |-> x[i]] /\ \A i \in 1..Len(x) : Fold[x[i]] = x[i]
            BY MeaningAssumption
          <6>2. DOMAIN x = 1..Len(x)
            OBVIOUS
          <6>3. QED
            BY <6>1, <6>2 DEF Folded
        <5>3. QED
          BY <5>1, <5>2
      <4>3. QED
        BY <1>5, <4>1, <4>2
    <3>2. CASE key = "android_carrier_ids"
      BY <1>3, <3>2 DEF TextKeys
    <3>3. QED
      BY <1>9, <3>1, <3>2
  <2>3. QED
    BY <1>4, <2>1, <2>2 DEF DimensionImplies
<1>10. QED
  BY <1>6, <1>7, <1>8, <1>9, KeyCases

(* A SIM that both match shows that they overlap, but for carrier IDs.     *)
LEMMA KeyMeets ==
  ASSUME NEW a, NEW b, IsMatchSet(a), IsMatchSet(b), NEW sim, IsSim(sim), NEW key \in MatchKeys,
         KeyMatches(a, key, sim), KeyMatches(b, key, sim),
         key = "android_carrier_ids" => a[key] = {} \/ b[key] = {} \/ a[key] = b[key]
  PROVE  DimensionOverlap(key, a[key], b[key])
<1> SUFFICES ASSUME a[key] # {}, b[key] # {}
             PROVE  DimensionOverlap(key, a[key], b[key])
  BY DEF DimensionOverlap
<1>1. PICK x \in a[key] : ValueMatches(key, x, sim)
  BY DEF KeyMatches
<1>2. PICK y \in b[key] : ValueMatches(key, y, sim)
  BY DEF KeyMatches
<1>3. CASE key \in PrefixKeys
  <2>1. key \in TextKeys /\ key # "spn" /\ key # "imsi_prefix_patterns"
    BY <1>3, KeyCases
  <2>2. PICK field \in sim[key] : IsPrefix(Folded(x), Folded(field))
    BY <1>1, <1>3 DEF ValueMatches
  <2>3. IsPrefix(Folded(y), Folded(field))
    BY <1>2, <1>3, <2>1, <2>2, SimTypes DEF ValueMatches
  <2>4. x \in Texts /\ y \in Texts /\ field \in Texts
    BY <2>1, KeyTypes, SimTypes
  <2>5. IsPrefix(Folded(x), Folded(y)) \/ IsPrefix(Folded(y), Folded(x))
    BY <2>2, <2>3, <2>4, FoldedText, PrefixesOfOne
  <2>6. QED
    BY <1>3, <2>1, <2>5 DEF DimensionOverlap, PrefixImplies
<1>4. CASE key = "imsi_prefix_patterns"
  <2>1. key \notin PrefixKeys /\ key # "spn" /\ key \in TextKeys
    BY <1>4, KeyCases
  <2>2. PICK field \in sim[key] : ImsiPatternMatches(x, field)
    BY <1>1, <1>4, <2>1 DEF ValueMatches
  <2>3. ImsiPatternMatches(y, field)
    BY <1>2, <1>4, <2>1, <2>2, SimTypes DEF ValueMatches
  <2>4. x \in Seq(PatternChars) /\ y \in Seq(PatternChars) /\ field \in Seq(Digits)
    BY <1>4, KeyTypes, SimTypes
  <2>5. ImsiOverlap(x, y)
    BY <2>2, <2>3, <2>4, ImsiMeets
  <2>6. QED
    BY <1>4, <2>1, <2>5 DEF DimensionOverlap
<1>5. CASE key = "spn"
  <2>1. key \notin PrefixKeys /\ key # "imsi_prefix_patterns" /\ key \in TextKeys
    BY <1>5, KeyCases
  <2>2. PICK field \in sim[key] : Folded(field) = Folded(x)
    BY <1>1, <1>5, <2>1 DEF ValueMatches
  <2>3. Folded(field) = Folded(y)
    BY <1>2, <1>5, <2>1, <2>2, SimTypes DEF ValueMatches
  <2>4. QED
    BY <1>5, <2>1, <2>2, <2>3 DEF DimensionOverlap
<1>6. CASE key \in {"mccmnc", "android_carrier_ids"}
  <2>1. key \notin PrefixKeys /\ key # "spn" /\ key # "imsi_prefix_patterns"
    BY <1>6 DEF PrefixKeys
  <2>2. x \in sim[key] /\ y \in sim[key]
    BY <1>1, <1>2, <2>1 DEF ValueMatches
  <2>3. a[key] \intersect b[key] # {}
    <3>1. CASE key = "mccmnc"
      <4>1. key \in TextKeys
        BY <3>1 DEF TextKeys, MatchKeys
      <4>2. x = y
        BY <2>2, <4>1, SimTypes
      <4>3. QED
        BY <4>2
    <3>2. CASE key = "android_carrier_ids"
      BY <3>2
    <3>3. QED
      BY <1>6, <3>1, <3>2
  <2>4. QED
    BY <2>1, <2>3 DEF DimensionOverlap
<1>7. QED
  BY <1>3, <1>4, <1>5, <1>6, KeyCases

-----------------------------------------------------------------------------
(* rule_implies, same_sims_key and rules_overlap say of rules what the     *)
(* matcher does to SIMs.                                                   *)

LEMMA ImpliesSims ==
  ASSUME NEW a \in Matches, NEW b \in Matches, RuleImplies(Rules[a], Rules[b])
  PROVE  Covering[a] \subseteq Covering[b]
<1> SUFFICES ASSUME NEW sim \in Sims, ProfileMatches(Rules[a], sim)
             PROVE  ProfileMatches(Rules[b], sim)
  BY DEF Covering
<1>1. IsMatchSet(Rules[a]) /\ IsMatchSet(Rules[b]) /\ IsSim(sim)
  BY MeaningAssumption
<1>2. ASSUME NEW key \in MatchKeys
      PROVE  KeyMatches(Rules[b], key, sim)
  <2>1. DimensionImplies(key, Rules[a][key], Rules[b][key]) /\ KeyMatches(Rules[a], key, sim)
    BY MatchesByKey DEF RuleImplies
  <2>2. QED
    BY <1>1, <2>1, KeySound
<1>3. QED
  BY <1>2, MatchesByKey

LEMMA SharedSimMeets ==
  ASSUME NEW a \in Matches, NEW b \in Matches,
         NoCarrierIds(a) \/ NoCarrierIds(b) \/ KeyOf[a] = KeyOf[b],
         NEW sim \in Covering[a] \intersect Covering[b]
  PROVE  Meets[a][b]
<1>1. IsMatchSet(Rules[a]) /\ IsMatchSet(Rules[b]) /\ IsSim(sim)
  BY MeaningAssumption DEF Covering
<1>2. ProfileMatches(Rules[a], sim) /\ ProfileMatches(Rules[b], sim)
  BY DEF Covering
<1> DEFINE ids == "android_carrier_ids"
<1>3. Rules[a][ids] = {} \/ Rules[b][ids] = {} \/ Rules[a][ids] = Rules[b][ids]
  <2>1. CASE KeyOf[a] = KeyOf[b]
    <3>1. SameSimsKey(Rules[a])[ids] = SameSimsKey(Rules[b])[ids]
      BY <2>1 DEF KeyOf
    <3>2. ids \in MatchKeys /\ ids \notin TextKeys
      BY DEF MatchKeys, SelectorKeys, TextKeys
    <3>3. QED
      BY <3>1, <3>2 DEF SameSimsKey
  <2>2. QED
    BY <2>1 DEF NoCarrierIds
<1>4. ASSUME NEW key \in MatchKeys
      PROVE  DimensionOverlap(key, Rules[a][key], Rules[b][key])
  <2>1. KeyMatches(Rules[a], key, sim) /\ KeyMatches(Rules[b], key, sim)
    BY <1>2, MatchesByKey
  <2>2. QED
    BY <1>1, <1>3, <2>1, KeyMeets
<1>5. RulesOverlap(Rules[a], Rules[b])
  BY <1>4 DEF RulesOverlap
<1>6. QED
  BY <1>5 DEF Meets

LEMMA SurveyTypes == SurveySpec => [](SurveyInit)
<1>1. SurveyInit /\ [Retire]_survey_vars => SurveyInit'
  BY DEF SurveyInit, Retire, survey_vars
<1>2. QED
  BY <1>1, PTL DEF SurveySpec

(* For match sets and SIMs of texts of any length over any alphabet,       *)
(* rule_implies claims nothing a SIM could contradict, match sets with one *)
(* same_sims_key match the same SIMs, and rules_overlap misses no SIM that *)
(* two rules share by their texts.                                         *)
THEOREM RelationsMean == SurveySpec => []RelationsMeanSims
<1>1. SurveyInit => RelationsMeanSims
  <2> SUFFICES ASSUME SurveyInit
               PROVE  RelationsMeanSims
    OBVIOUS
  <2>1. old \in Matches /\ first \in Matches
    BY DEF SurveyInit
  <2>2. ImpliesIsSound
    BY <2>1, ImpliesSims DEF ImpliesIsSound, Covers
  <2>3. KeyIsSims
    <3>1. SUFFICES ASSUME KeyOf[old] = KeyOf[first]
                   PROVE  Covering[old] = Covering[first]
      BY DEF KeyIsSims
    <3>2. /\ SameSimsKey(Rules[old]) = SameSimsKey(Rules[first])
          /\ IsMatchSet(Rules[old]) /\ IsMatchSet(Rules[first])
      BY <2>1, <3>1, MeaningAssumption DEF KeyOf
    <3>3. RuleImplies(Rules[old], Rules[first]) /\ RuleImplies(Rules[first], Rules[old])
      BY <3>2, SameKeyImplies
    <3>4. Covering[old] \subseteq Covering[first]
      BY <2>1, <3>3, ImpliesSims
    <3>5. Covering[first] \subseteq Covering[old]
      BY <2>1, <3>3, ImpliesSims
    <3>6. QED
      BY <3>4, <3>5
  <2>4. OverlapIsCompleteByText
    <3>1. SUFFICES ASSUME NoCarrierIds(old) \/ NoCarrierIds(first) \/ KeyOf[old] = KeyOf[first],
                          NEW sim \in Covering[old] \intersect Covering[first]
                   PROVE  Meets[old][first]
      BY DEF OverlapIsCompleteByText
    <3>2. QED
      BY <2>1, <3>1, SharedSimMeets
  <2>5. QED
    BY <2>2, <2>3, <2>4 DEF RelationsMeanSims
<1>2. QED
  BY <1>1, SurveyTypes, PTL

-----------------------------------------------------------------------------
(* A SIM that two rules share, where they overlap.                         *)

(* What a SIM may state under a key.                                       *)
IsField(key, field) ==
  /\ key \in TextKeys => field \in TextOf(Chars) /\ \A x, y \in field : x = y
  /\ key = "mccmnc" => field # {} /\ field \in TextOf(Digits)
  /\ key = "imsi_prefix_patterns" => field \in TextOf(Digits)
  /\ key = "android_carrier_ids" =>
       field \in SUBSET Nat /\ \A i, j, k \in field : i = j \/ j = k \/ i = k

Fields == SUBSET (Texts \union Nat)

EverySim == Sims = {sim \in [MatchKeys -> Fields] : IsSim(sim)}

(* The values of two rules that a SIM may have together.                   *)
ValuesMeet(key, x, y) ==
  \/ key \in PrefixKeys /\ (PrefixImplies(x, y) \/ PrefixImplies(y, x))
  \/ key = "imsi_prefix_patterns" /\ ImsiOverlap(x, y)
  \/ key = "spn" /\ Folded(x) = Folded(y)
  \/ key \in {"mccmnc", "android_carrier_ids"} /\ x = y

LEMMA ImsiOfBoth ==
  ASSUME NEW x \in Seq(PatternChars), NEW y \in Seq(PatternChars), ImsiOverlap(x, y)
  PROVE  \E imsi \in Seq(Digits) : ImsiPatternMatches(x, imsi) /\ ImsiPatternMatches(y, imsi)
<1>1. /\ Len(x) \in Nat /\ DOMAIN x = 1..Len(x)
      /\ Len(y) \in Nat /\ DOMAIN y = 1..Len(y)
      /\ \A i \in 1..Len(x) : Fold[x[i]] = Wildcard \/ (x[i] \in Digits /\ Fold[x[i]] = x[i])
      /\ \A i \in 1..Len(y) : Fold[y[i]] = Wildcard \/ (y[i] \in Digits /\ Fold[y[i]] = y[i])
  BY PatternIs
<1>2. PICK n \in Nat : Len(x) <= n /\ Len(y) <= n
  <2>1. CASE Len(x) <= Len(y)
    BY <1>1, <2>1
  <2>2. CASE Len(y) <= Len(x)
    BY <1>1, <2>2
  <2>3. QED
    BY <1>1, <2>1, <2>2
<1>3. PICK d \in Digits : TRUE
  BY MeaningAssumption
<1> DEFINE At(i) == IF i \in 1..Len(x) /\ Fold[x[i]] # Wildcard THEN x[i]
                    ELSE IF i \in 1..Len(y) /\ Fold[y[i]] # Wildcard THEN y[i] ELSE d
           imsi == [i \in 1..n |-> At(i)]
<1>4. \A i \in 1..n : At(i) \in Digits
  BY <1>1
<1>5. \A i \in 1..Len(x) : Fold[x[i]] = Wildcard \/ x[i] = At(i)
  OBVIOUS
<1>6. ASSUME NEW i \in 1..Len(y), Fold[y[i]] # Wildcard
      PROVE  y[i] = At(i)
  <2>1. ASSUME i \in 1..Len(x), Fold[x[i]] # Wildcard
        PROVE  x[i] = y[i]
    <3>1. Wildcard \in {Fold[x[i]], Fold[y[i]]} \/ Fold[x[i]] = Fold[y[i]]
      BY <1>1, <2>1 DEF ImsiOverlap
    <3>2. QED
      BY <1>1, <1>6, <2>1, <3>1
  <2>2. QED
    BY <1>6, <2>1
<1> HIDE DEF At
<1>7. imsi \in Seq(Digits) /\ Len(imsi) = n
  BY <1>2, <1>4
<1>8. /\ \A i \in 1..Len(x) : i \in 1..n /\ imsi[i] = At(i)
      /\ \A i \in 1..Len(y) : i \in 1..n /\ imsi[i] = At(i)
  BY <1>1, <1>2
<1> HIDE DEF imsi
<1>9. ImsiPatternMatches(x, imsi) /\ ImsiPatternMatches(y, imsi)
  BY <1>1, <1>2, <1>5, <1>6, <1>7, <1>8 DEF ImsiPatternMatches
<1>10. QED
  BY <1>7, <1>9

LEMMA FieldOfBoth ==
  ASSUME NEW a, NEW b, IsMatchSet(a), IsMatchSet(b), NEW key \in MatchKeys,
         NEW x \in a[key], NEW y \in b[key], ValuesMeet(key, x, y)
  PROVE  \E field \in Fields :
           /\ IsField(key, field)
           /\ \A sim : sim[key] = field => ValueMatches(key, x, sim) /\ ValueMatches(key, y, sim)
<1>1. CASE key \in PrefixKeys
  <2>1. /\ key \in TextKeys /\ key # "spn" /\ key # "imsi_prefix_patterns" /\ key # "mccmnc"
        /\ key # "android_carrier_ids"
    BY <1>1, KeyCases DEF TextKeys
  <2>2. x \in Texts /\ y \in Texts
    BY <2>1, KeyTypes
  <2>3. PICK text \in {x, y} : IsPrefix(Folded(x), Folded(text)) /\ IsPrefix(Folded(y), Folded(text))
    <3>1. PrefixImplies(x, y) \/ PrefixImplies(y, x)
      BY <1>1, <2>1 DEF ValuesMeet, PrefixKeys
    <3>2. IsPrefix(Folded(x), Folded(x)) /\ IsPrefix(Folded(y), Folded(y))
      BY <2>2, FoldedText, PrefixOfItself
    <3>3. QED
      BY <3>1, <3>2 DEF PrefixImplies
  <2>4. {text} \in Fields /\ IsField(key, {text})
    BY <2>1, <2>2 DEF Fields, IsField, TextOf, Texts
  <2>5. ASSUME NEW sim, sim[key] = {text}
        PROVE  ValueMatches(key, x, sim) /\ ValueMatches(key, y, sim)
    BY <1>1, <2>1, <2>3, <2>5 DEF ValueMatches
  <2>6. QED
    BY <2>4, <2>5
<1>2. CASE key = "imsi_prefix_patterns"
  <2>1. key \notin PrefixKeys /\ key # "spn" /\ key # "mccmnc" /\ key # "android_carrier_ids"
    BY <1>2, KeyCases
  <2>2. x \in Seq(PatternChars) /\ y \in Seq(PatternChars)
    BY <1>2, KeyTypes
  <2>3. ImsiOverlap(x, y)
    BY <1>2, <2>1 DEF ValuesMeet
  <2>4. PICK imsi \in Seq(Digits) : ImsiPatternMatches(x, imsi) /\ ImsiPatternMatches(y, imsi)
    BY <2>2, <2>3, ImsiOfBoth
  <2>5. imsi \in Texts
    BY MeaningAssumption DEF Texts
  <2>6. {imsi} \in Fields /\ IsField(key, {imsi})
    BY <2>1, <2>5 DEF Fields, IsField, TextOf, Texts
  <2>7. ASSUME NEW sim, sim[key] = {imsi}
        PROVE  ValueMatches(key, x, sim) /\ ValueMatches(key, y, sim)
    BY <1>2, <2>1, <2>4, <2>7 DEF ValueMatches
  <2>8. QED
    BY <2>6, <2>7
<1>3. CASE key = "spn"
  <2>1. /\ key \in TextKeys /\ key \notin PrefixKeys /\ key # "mccmnc"
        /\ key # "android_carrier_ids" /\ key # "imsi_prefix_patterns"
    BY <1>3, KeyCases
  <2>2. x \in Texts /\ Folded(x) = Folded(y)
    BY <1>3, <2>1, KeyTypes DEF ValuesMeet
  <2>3. {x} \in Fields /\ IsField(key, {x})
    BY <2>1, <2>2 DEF Fields, IsField, TextOf, Texts
  <2>4. ASSUME NEW sim, sim[key] = {x}
        PROVE  ValueMatches(key, x, sim) /\ ValueMatches(key, y, sim)
    BY <1>3, <2>1, <2>2, <2>4 DEF ValueMatches
  <2>5. QED
    BY <2>3, <2>4
<1>4. CASE key \in {"mccmnc", "android_carrier_ids"}
  <2>1. key \notin PrefixKeys /\ key # "spn" /\ key # "imsi_prefix_patterns"
    BY <1>4 DEF PrefixKeys
  <2>2. x = y
    BY <2>1 DEF ValuesMeet
  <2>3. {x} \in Fields /\ IsField(key, {x})
    <3>1. CASE key = "mccmnc"
      <4>1. x \in Seq(Digits) /\ x \in Texts
        BY <3>1, KeyTypes DEF TextKeys, MatchKeys
      <4>2. QED
        BY <3>1, <4>1 DEF Fields, IsField, TextOf, Texts
    <3>2. CASE key = "android_carrier_ids"
      <4>1. x \in Nat /\ key \notin TextKeys
        BY <3>2 DEF IsMatchSet, TextKeys
      <4>2. QED
        BY <3>2, <4>1 DEF Fields, IsField
    <3>3. QED
      BY <1>4, <3>1, <3>2
  <2>4. ASSUME NEW sim, sim[key] = {x}
        PROVE  ValueMatches(key, x, sim) /\ ValueMatches(key, y, sim)
    BY <2>1, <2>2, <2>4 DEF ValueMatches
  <2>5. QED
    BY <2>3, <2>4
<1>5. QED
  BY <1>1, <1>2, <1>3, <1>4, KeyCases

LEMMA KeyOfBoth ==
  ASSUME NEW a, NEW b, IsMatchSet(a), IsMatchSet(b), NEW key \in MatchKeys,
         DimensionOverlap(key, a[key], b[key])
  PROVE  \E field \in Fields :
           /\ IsField(key, field)
           /\ \A sim : sim[key] = field => KeyMatches(a, key, sim) /\ KeyMatches(b, key, sim)
<1>1. a[key] = {} \/ b[key] = {} => key # "mccmnc"
  BY KeyTypes
<1>2. CASE a[key] = {} /\ b[key] = {}
  <2>1. {} \in Fields /\ IsField(key, {})
    BY <1>1, <1>2 DEF Fields, IsField, TextOf
  <2>2. \A sim : KeyMatches(a, key, sim) /\ KeyMatches(b, key, sim)
    BY <1>1, <1>2 DEF KeyMatches
  <2>3. QED
    BY <2>1, <2>2
<1>3. ASSUME NEW m, IsMatchSet(m), NEW v \in m[key]
      PROVE  ValuesMeet(key, v, v)
  <2>1. CASE key \in PrefixKeys
    <3>1. v \in Texts
      BY <1>3, <2>1, KeyCases, KeyTypes
    <3>2. PrefixImplies(v, v)
      BY <3>1, FoldedText, PrefixOfItself DEF PrefixImplies
    <3>3. QED
      BY <2>1, <3>2 DEF ValuesMeet
  <2>2. CASE key = "imsi_prefix_patterns"
    BY <2>2 DEF ValuesMeet, ImsiOverlap
  <2>3. CASE key \in {"spn", "mccmnc", "android_carrier_ids"}
    BY <2>3 DEF ValuesMeet
  <2>4. QED
    BY <2>1, <2>2, <2>3, KeyCases
<1>4. CASE a[key] = {} /\ b[key] # {}
  <2>1. PICK y \in b[key] : TRUE
    BY <1>4
  <2>2. PICK field \in Fields :
          /\ IsField(key, field)
          /\ \A sim : sim[key] = field => ValueMatches(key, y, sim) /\ ValueMatches(key, y, sim)
    BY <1>3, FieldOfBoth
  <2>3. \A sim : sim[key] = field => KeyMatches(a, key, sim) /\ KeyMatches(b, key, sim)
    BY <1>1, <1>4, <2>2 DEF KeyMatches
  <2>4. QED
    BY <2>2, <2>3
<1>5. CASE a[key] # {} /\ b[key] = {}
  <2>1. PICK x \in a[key] : TRUE
    BY <1>5
  <2>2. PICK field \in Fields :
          /\ IsField(key, field)
          /\ \A sim : sim[key] = field => ValueMatches(key, x, sim) /\ ValueMatches(key, x, sim)
    BY <1>3, FieldOfBoth
  <2>3. \A sim : sim[key] = field => KeyMatches(a, key, sim) /\ KeyMatches(b, key, sim)
    BY <1>1, <1>5, <2>2 DEF KeyMatches
  <2>4. QED
    BY <2>2, <2>3
<1>6. CASE a[key] # {} /\ b[key] # {}
  <2>1. PICK x \in a[key], y \in b[key] : ValuesMeet(key, x, y)
    <3>1. CASE key \in PrefixKeys
      <4>1. key # "spn" /\ key # "imsi_prefix_patterns"
        BY <3>1, KeyCases
      <4>2. QED
        BY <1>6, <3>1, <4>1 DEF DimensionOverlap, ValuesMeet
    <3>2. CASE key = "imsi_prefix_patterns"
      <4>1. key # "spn" /\ key \notin PrefixKeys
        BY <3>2, KeyCases
      <4>2. QED
        BY <1>6, <3>2, <4>1 DEF DimensionOverlap, ValuesMeet
    <3>3. CASE key = "spn"
      <4>1. key # "imsi_prefix_patterns" /\ key \notin PrefixKeys
        BY <3>3, KeyCases
      <4>2. {Folded(x) : x \in a[key]} \intersect {Folded(y) : y \in b[key]} # {}
        BY <1>6, <3>3, <4>1 DEF DimensionOverlap
      <4>3. PICK x \in a[key], y \in b[key] : Folded(x) = Folded(y)
        BY <4>2
      <4>4. QED
        BY <3>3, <4>3 DEF ValuesMeet
    <3>4. CASE key \in {"mccmnc", "android_carrier_ids"}
      <4>1. key \notin PrefixKeys /\ key # "spn" /\ key # "imsi_prefix_patterns"
        BY <3>4 DEF PrefixKeys
      <4>2. a[key] \intersect b[key] # {}
        BY <1>6, <4>1 DEF DimensionOverlap
      <4>3. QED
        BY <3>4, <4>2 DEF ValuesMeet
    <3>5. QED
      BY <3>1, <3>2, <3>3, <3>4, KeyCases
  <2>2. PICK field \in Fields :
          /\ IsField(key, field)
          /\ \A sim : sim[key] = field => ValueMatches(key, x, sim) /\ ValueMatches(key, y, sim)
    BY <2>1, FieldOfBoth
  <2>3. \A sim : sim[key] = field => KeyMatches(a, key, sim) /\ KeyMatches(b, key, sim)
    BY <2>2 DEF KeyMatches
  <2>4. QED
    BY <2>2, <2>3
<1>7. QED
  BY <1>2, <1>4, <1>5, <1>6

(* rules_overlap claims no SIM that is not there.                          *)
LEMMA MeetingSim ==
  ASSUME EverySim, NEW a \in Matches, NEW b \in Matches, Meets[a][b]
  PROVE  Covering[a] \intersect Covering[b] # {}
<1> DEFINE OfBoth(key, field) ==
             /\ IsField(key, field)
             /\ \A sim : sim[key] = field => KeyMatches(Rules[a], key, sim) /\ KeyMatches(Rules[b], key, sim)
           s == [key \in MatchKeys |-> CHOOSE field \in Fields : OfBoth(key, field)]
<1>1. IsMatchSet(Rules[a]) /\ IsMatchSet(Rules[b]) /\ RulesOverlap(Rules[a], Rules[b])
  BY MeaningAssumption DEF Meets
<1>2. ASSUME NEW key \in MatchKeys
      PROVE  \E field \in Fields : OfBoth(key, field)
  BY <1>1, KeyOfBoth DEF RulesOverlap
<1> HIDE DEF OfBoth
<1>3. \A key \in MatchKeys : s[key] \in Fields /\ OfBoth(key, s[key])
  BY <1>2
<1>4. s \in [MatchKeys -> Fields] /\ s = [key \in MatchKeys |-> s[key]]
  BY <1>3
<1> HIDE DEF s
<1>5. \A key \in MatchKeys :
        /\ IsField(key, s[key])
        /\ KeyMatches(Rules[a], key, s) /\ KeyMatches(Rules[b], key, s)
  BY <1>3 DEF OfBoth
<1>6. IsSim(s)
  <2>1. /\ TextKeys \subseteq MatchKeys
        /\ {"mccmnc", "imsi_prefix_patterns", "android_carrier_ids"} \subseteq MatchKeys
    BY DEF TextKeys, MatchKeys, SelectorKeys
  <2>2. QED
    BY <1>4, <1>5, <2>1 DEF IsSim, IsField
<1>7. s \in Sims
  BY <1>4, <1>6 DEF EverySim
<1>8. ProfileMatches(Rules[a], s) /\ ProfileMatches(Rules[b], s)
  BY <1>5, MatchesByKey
<1>9. QED
  BY <1>7, <1>8 DEF Covering

-----------------------------------------------------------------------------
(* The targets of an alias.                                                *)

(* A set gains at most one by an element.                                  *)
LEMMA AddOne ==
  ASSUME NEW A, NEW e, NEW n \in Nat, IsFiniteSet(A), Cardinality(A) <= n
  PROVE  IsFiniteSet(A \union {e}) /\ Cardinality(A \union {e}) <= n + 1
<1>1. /\ IsFiniteSet(A \union {e})
      /\ \/ Cardinality(A \union {e}) = Cardinality(A)
         \/ Cardinality(A \union {e}) = Cardinality(A) + 1
  BY FS_AddElement
<1>2. Cardinality(A) \in Nat
  BY FS_CardinalityType
<1>3. QED
  BY <1>1, <1>2

LEMMA SpecificityBound ==
  ASSUME NEW m \in Matches
  PROVE  SpecificityOf[m] \in 0..6
<1> DEFINE keys == Dimensions(Rules[m]) \intersect SelectorKeys
<1>1. SelectorKeys = {"gid1_prefixes", "gid2_prefixes", "iccid_prefixes", "imsi_prefix_patterns",
                      "spn", "android_carrier_ids"}
  BY DEF SelectorKeys, PrefixKeys
<1>2. IsFiniteSet(SelectorKeys) /\ Cardinality(SelectorKeys) <= 6
  <2>1. IsFiniteSet({"gid1_prefixes"}) /\ Cardinality({"gid1_prefixes"}) <= 1
    <3>1. IsFiniteSet({"gid1_prefixes"}) /\ Cardinality({"gid1_prefixes"}) = 1
      BY FS_Singleton
    <3>2. QED
      BY <3>1
  <2>2. PICK one : one = {"gid1_prefixes"}
    OBVIOUS
  <2>3. PICK two : two = one \union {"gid2_prefixes"}
    OBVIOUS
  <2>4. PICK three : three = two \union {"iccid_prefixes"}
    OBVIOUS
  <2>5. PICK four : four = three \union {"imsi_prefix_patterns"}
    OBVIOUS
  <2>6. PICK five : five = four \union {"spn"}
    OBVIOUS
  <2>7. PICK six : six = five \union {"android_carrier_ids"}
    OBVIOUS
  <2>8. IsFiniteSet(two) /\ Cardinality(two) <= 2
    <3>1. IsFiniteSet(one) /\ Cardinality(one) <= 1
      BY <2>1, <2>2
    <3>2. /\ IsFiniteSet(one \union {"gid2_prefixes"})
          /\ Cardinality(one \union {"gid2_prefixes"}) <= 1 + 1
      BY <3>1, AddOne
    <3>3. QED
      BY <3>2, <2>3
  <2>9. IsFiniteSet(three) /\ Cardinality(three) <= 3
    <3>1. IsFiniteSet(two) /\ Cardinality(two) <= 2
      BY <2>8
    <3>2. /\ IsFiniteSet(two \union {"iccid_prefixes"})
          /\ Cardinality(two \union {"iccid_prefixes"}) <= 2 + 1
      BY <3>1, AddOne
    <3>3. QED
      BY <3>2, <2>4
  <2>10. IsFiniteSet(four) /\ Cardinality(four) <= 4
    <3>1. IsFiniteSet(three) /\ Cardinality(three) <= 3
      BY <2>9
    <3>2. /\ IsFiniteSet(three \union {"imsi_prefix_patterns"})
          /\ Cardinality(three \union {"imsi_prefix_patterns"}) <= 3 + 1
      BY <3>1, AddOne
    <3>3. QED
      BY <3>2, <2>5
  <2>11. IsFiniteSet(five) /\ Cardinality(five) <= 5
    <3>1. IsFiniteSet(four) /\ Cardinality(four) <= 4
      BY <2>10
    <3>2. /\ IsFiniteSet(four \union {"spn"})
          /\ Cardinality(four \union {"spn"}) <= 4 + 1
      BY <3>1, AddOne
    <3>3. QED
      BY <3>2, <2>6
  <2>12. IsFiniteSet(six) /\ Cardinality(six) <= 6
    <3>1. IsFiniteSet(five) /\ Cardinality(five) <= 5
      BY <2>11
    <3>2. /\ IsFiniteSet(five \union {"android_carrier_ids"})
          /\ Cardinality(five \union {"android_carrier_ids"}) <= 5 + 1
      BY <3>1, AddOne
    <3>3. QED
      BY <3>2, <2>7
  <2>13. six = SelectorKeys
    BY <1>1, <2>2, <2>3, <2>4, <2>5, <2>6, <2>7
  <2>14. QED
    BY <2>12, <2>13
<1>3. Cardinality(keys) <= Cardinality(SelectorKeys) /\ IsFiniteSet(keys)
  BY <1>2, FS_Subset
<1>4. Cardinality(keys) \in Nat /\ Cardinality(SelectorKeys) \in Nat
  BY <1>2, <1>3, FS_CardinalityType
<1>5. SpecificityOf[m] = Cardinality(keys)
  BY DEF SpecificityOf, Specificity
<1>6. QED
  BY <1>2, <1>3, <1>4, <1>5

(* Of some profiles, one is the most specific.                             *)
LEMMA MostSpecific ==
  ASSUME NEW S \in SUBSET Matches, S # {}
  PROVE  \E t \in S : \A u \in S : SpecificityOf[u] <= SpecificityOf[t]
<1> DEFINE Has(n) == \E t \in S : SpecificityOf[t] = n
<1>1. \A t \in S : SpecificityOf[t] \in 0..6
  BY SpecificityBound
<1>2. \E n \in 0..6 : Has(n) /\ \A k \in 0..6 : Has(k) => k <= n
  <2>1. Has(0) \/ Has(1) \/ Has(2) \/ Has(3) \/ Has(4) \/ Has(5) \/ Has(6)
    <3>1. PICK t \in S : TRUE
      OBVIOUS
    <3>2. Has(SpecificityOf[t]) /\ SpecificityOf[t] \in 0..6
      BY <1>1
    <3> HIDE DEF Has
    <3>3. QED
      BY <3>2
  <2> HIDE DEF Has
  <2>2. QED
    BY <2>1
<1>3. QED
  BY <1>1, <1>2

(* The targets that finish gives a retired match set share SIMs with it,   *)
(* over every SIM there can be; and of its SIMs, those that a comparable   *)
(* new profile matches, a target matches.                                  *)
THEOREM AliasesHold ==
  ASSUME EverySim
  PROVE  SurveySpec => []AliasesHoldSims
<1>1. SurveyInit => AliasesHoldSims
  <2> SUFFICES ASSUME SurveyInit
               PROVE  AliasesHoldSims
    OBVIOUS
  <2> DEFINE meeting  == {t \in DOMAIN NewTree : Meets[old][NewTree[t]]}
             covering == {t \in meeting : Covers[old][NewTree[t]]}
  <2>1. /\ old \in Matches /\ {first, second} \subseteq Matches
        /\ DOMAIN NewTree = {first, second} /\ \A t \in {first, second} : NewTree[t] = t
    BY DEF SurveyInit, NewTree
  <2>2. TargetsShareSims
    <3>1. SUFFICES ASSUME NEW t \in AliasTargets(old, NewTree)
                   PROVE  Covering[old] \intersect Covering[t] # {}
      BY DEF TargetsShareSims
    <3>2. t \in {first, second} /\ Meets[old][t]
      BY <2>1 DEF AliasTargets
    <3>3. QED
      BY <2>1, <3>2, MeetingSim
  <2>3. TargetsHoldSims
    <3>1. SUFFICES ASSUME NEW t \in {first, second},
                          NoCarrierIds(old) \/ NoCarrierIds(t),
                          Covers[old][t] \/ Covers[t][old] \/ DimensionsOf[t] = DimensionsOf[old],
                          NEW sim \in Covering[old] \intersect Covering[t]
                   PROVE  \E u \in AliasTargets(old, NewTree) : sim \in Covering[u]
      BY <2>1 DEF TargetsHoldSims
    <3>2. t \in meeting
      BY <2>1, <3>1, SharedSimMeets
    <3>3. CASE ~Covers[old][t]
      <4>1. t \in AliasTargets(old, NewTree)
        BY <2>1, <3>1, <3>2, <3>3 DEF AliasTargets
      <4>2. QED
        BY <4>1
    <3>4. CASE Covers[old][t]
      <4>1. covering \in SUBSET Matches /\ covering # {} /\ covering \subseteq {first, second}
        BY <2>1, <3>2, <3>4
      <4>2. PICK u \in covering : \A v \in covering : SpecificityOf[v] <= SpecificityOf[u]
        BY <4>1, MostSpecific
      <4>3. u \in AliasTargets(old, NewTree)
        BY <2>1, <4>1, <4>2 DEF AliasTargets
      <4>4. Covers[old][u] /\ u \in Matches
        BY <2>1, <4>1, <4>2
      <4>5. Covering[old] \subseteq Covering[u]
        BY <2>1, <4>4, ImpliesSims DEF Covers
      <4>6. QED
        BY <4>3, <4>5
    <3>5. QED
      BY <3>3, <3>4
  <2>4. QED
    BY <2>2, <2>3 DEF AliasesHoldSims
<1>2. QED
  BY <1>1, SurveyTypes, PTL

=============================================================================
