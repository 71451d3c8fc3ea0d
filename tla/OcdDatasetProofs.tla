--------------------------- MODULE OcdDatasetProofs ---------------------------
(***************************************************************************)
(* Proofs about OcdDataset: what is published was generated from a tree    *)
(* the source has been, and by reads on main, and what a phone made of it  *)
(* is the stack of its SIM.  From that, no group A value reaches a SIM     *)
(* unread, both resolvers agree, and what is worked out from a profile     *)
(* holds for its SIMs.  The first part is about the stacks of OcdStacks    *)
(* and OcdTies: the resolution key orders any profiles with different IDs, *)
(* so a stack lists every profile that holds, once each, from the least    *)
(* key to the greatest.                                                    *)
(***************************************************************************)
EXTENDS OcdDataset, OrderVectors, FiniteSetTheorems, SequenceTheorems,
        WellFoundedInduction, TLAPS

-----------------------------------------------------------------------------
(* Least and greatest numbers.                                             *)

LEMMA LeastIs ==
  ASSUME NEW S, S \subseteq Nat, S # {}
  PROVE  Min(S) \in S /\ \A x \in S : Min(S) <= x
<1>1. PICK least \in S : \A x \in S : ~ (<<x, least>> \in OpToRel(<, Nat))
  BY WFMin, NatLessThanWellFounded, Zenon
<1>2. ASSUME NEW x \in S, x < least
      PROVE  FALSE
  BY <1>1, <1>2, Zenon DEF OpToRel
<1>3. \A x \in S : least <= x
  BY <1>2
<1>4. QED
  BY <1>3 DEF Min

LEMMA GreatestIs ==
  ASSUME NEW S, NEW k \in Nat, S \subseteq 1..k, S # {}
  PROVE  Max(S) \in S /\ \A x \in S : x <= Max(S)
<1>1. {k - x : x \in S} \subseteq Nat /\ {k - x : x \in S} # {}
  <2>1. \A x \in S : k - x \in Nat
    OBVIOUS
  <2>2. QED
    BY <2>1
<1>2. PICK least \in {k - x : x \in S} : \A y \in {k - x : x \in S} : least <= y
  BY <1>1, LeastIs
<1>3. PICK last \in S : least = k - last
  BY <1>2
<1>4. \A x \in S : k - last <= k - x
  BY <1>2, <1>3
<1>5. ASSUME NEW x \in S
      PROVE  x <= last
  BY <1>4
<1>6. QED
  BY <1>5 DEF Max

(* Two sets with the same least member up to something that is in both.    *)
LEMMA LeastIsOne ==
  ASSUME NEW S, S \subseteq Nat, NEW n \in S, \A x \in S : n <= x
  PROVE  Min(S) = n
<1>1. \A x \in S : (\A y \in S : x <= y) => x = n
  OBVIOUS
<1>2. QED
  BY <1>1 DEF Min

LEMMA GreatestIsOne ==
  ASSUME NEW S, S \subseteq Nat, NEW n \in S, \A x \in S : x <= n
  PROVE  Max(S) = n
<1>1. \A x \in S : (\A y \in S : x >= y) => x = n
  OBVIOUS
<1>2. \A y \in S : n >= y
  OBVIOUS
<1>3. QED
  BY <1>1, <1>2 DEF Max

-----------------------------------------------------------------------------
(* Keys compared step by step.                                             *)

IsKey(key, n) == DOMAIN key = 1..n /\ \A i \in 1..n : key[i] \in Int

LEMMA BelowIrreflexive ==
  ASSUME NEW n \in Nat, NEW a, IsKey(a, n)
  PROVE  ~ KeyBelow(a, a)
BY DEF KeyBelow, IsKey

LEMMA BelowTransitive ==
  ASSUME NEW n \in Nat, NEW a, NEW b, NEW c, IsKey(a, n), IsKey(b, n), IsKey(c, n),
         KeyBelow(a, b), KeyBelow(b, c)
  PROVE  KeyBelow(a, c)
<1>1. PICK i \in 1..n : a[i] < b[i] /\ \A k \in 1..(i - 1) : a[k] = b[k]
  BY DEF KeyBelow, IsKey
<1>2. PICK j \in 1..n : b[j] < c[j] /\ \A k \in 1..(j - 1) : b[k] = c[k]
  BY DEF KeyBelow, IsKey
<1>3. \A k \in 1..n : a[k] \in Int /\ b[k] \in Int /\ c[k] \in Int
  BY DEF IsKey
<1>4. CASE i <= j
  <2>1. a[i] < c[i]
    BY <1>1, <1>2, <1>3, <1>4
  <2>2. \A k \in 1..(i - 1) : a[k] = c[k]
    BY <1>1, <1>2, <1>4
  <2>3. QED
    BY <2>1, <2>2 DEF KeyBelow, IsKey
<1>5. CASE j < i
  <2>1. a[j] < c[j]
    BY <1>1, <1>2, <1>3, <1>5
  <2>2. \A k \in 1..(j - 1) : a[k] = c[k]
    BY <1>1, <1>2, <1>5
  <2>3. QED
    BY <2>1, <2>2 DEF KeyBelow, IsKey
<1>6. QED
  BY <1>4, <1>5

LEMMA BelowTotal ==
  ASSUME NEW n \in Nat, NEW a, NEW b, IsKey(a, n), IsKey(b, n),
         \E i \in 1..n : a[i] # b[i]
  PROVE  KeyBelow(a, b) \/ KeyBelow(b, a)
<1> DEFINE apart == {i \in 1..n : a[i] # b[i]}
           first == Min(apart)
<1>1. first \in apart /\ \A i \in apart : first <= i
  <2>1. apart \subseteq Nat /\ apart # {}
    OBVIOUS
  <2>2. QED
    BY <2>1, LeastIs
<1> HIDE DEF first
<1>2. \A k \in 1..(first - 1) : a[k] = b[k] /\ b[k] = a[k]
  BY <1>1
<1>3. a[first] \in Int /\ b[first] \in Int /\ a[first] # b[first] /\ first \in 1..n
  BY <1>1 DEF IsKey
<1>4. CASE a[first] < b[first]
  BY <1>2, <1>3, <1>4 DEF KeyBelow, IsKey
<1>5. CASE b[first] < a[first]
  BY <1>2, <1>3, <1>5 DEF KeyBelow, IsKey
<1>6. QED
  BY <1>3, <1>4, <1>5

-----------------------------------------------------------------------------
(* A finite set in a total order: each member has a rank of its own.       *)

StrictOrder(S, R) ==
  /\ \A p \in S : <<p, p>> \notin R
  /\ \A p, q, r \in S : <<p, q>> \in R /\ <<q, r>> \in R => <<p, r>> \in R
  /\ \A p, q \in S : p # q => <<p, q>> \in R \/ <<q, p>> \in R

RankIn(S, R) == [p \in S |-> Cardinality({q \in S : <<q, p>> \in R})]

Ranked(S, R, rank) ==
  /\ Cardinality(S) \in Nat
  /\ \A p \in S : rank[p] \in 0..(Cardinality(S) - 1)
  /\ \A p, q \in S : <<p, q>> \in R => rank[p] < rank[q]
  /\ \A p, q \in S : rank[p] = rank[q] => p = q
  /\ \A i \in 0..(Cardinality(S) - 1) : \E p \in S : rank[p] = i

LEMMA RanksAreAll ==
  ASSUME NEW S, IsFiniteSet(S), NEW R, StrictOrder(S, R), NEW rank, rank = RankIn(S, R)
  PROVE  Ranked(S, R, rank)
<1> DEFINE Below(p) == {q \in S : <<q, p>> \in R}
           n == Cardinality(S)
<1>1. n \in Nat
  BY FS_CardinalityType
<1>2. \A p \in S : Below(p) \in SUBSET S /\ p \notin Below(p) /\ rank[p] = Cardinality(Below(p))
  BY DEF StrictOrder, RankIn
<1>3. \A p \in S : /\ IsFiniteSet(Below(p)) /\ Cardinality(Below(p)) \in Nat
                   /\ Cardinality(Below(p)) <= n /\ (Cardinality(Below(p)) = n => Below(p) = S)
  BY <1>2, FS_Subset, FS_CardinalityType
<1>4. \A p \in S : rank[p] \in 0..(n - 1)
  <2> HIDE DEF Below, n
  <2>1. ASSUME NEW p \in S
        PROVE  rank[p] \in 0..(n - 1)
    <3>1. rank[p] = Cardinality(Below(p)) /\ p \notin Below(p)
      BY <1>2, Zenon
    <3>2. /\ Cardinality(Below(p)) \in Nat /\ Cardinality(Below(p)) <= n
          /\ (Cardinality(Below(p)) = n => Below(p) = S)
      BY <1>3, Zenon
    <3>3. Cardinality(Below(p)) # n
      BY <2>1, <3>1, <3>2, Zenon
    <3>4. QED
      BY <1>1, <3>1, <3>2, <3>3
  <2>2. QED
    BY <2>1
<1>5. ASSUME NEW p \in S, NEW q \in S, <<p, q>> \in R
      PROVE  rank[p] < rank[q]
  <2>1. Below(p) \in SUBSET Below(q) /\ p \in Below(q) /\ p \notin Below(p)
    BY <1>5 DEF StrictOrder
  <2>2. Cardinality(Below(p)) <= Cardinality(Below(q)) /\ Cardinality(Below(p)) # Cardinality(Below(q))
    BY <1>3, <2>1, FS_Subset
  <2> HIDE DEF Below
  <2>3. rank[p] = Cardinality(Below(p)) /\ rank[q] = Cardinality(Below(q))
    BY <1>2, Zenon
  <2>4. Cardinality(Below(p)) \in Nat /\ Cardinality(Below(q)) \in Nat
    BY <1>3, Zenon
  <2>5. QED
    <3>1. \A k, l \in Nat : k <= l /\ k # l => k < l
      OBVIOUS
    <3>2. QED
      BY <2>2, <2>3, <2>4, <3>1, Zenon
<1>6. \A p, q \in S : rank[p] = rank[q] => p = q
  <2>1. \A p \in S : rank[p] \in Int
    BY <1>1, <1>4
  <2>2. ASSUME NEW p \in S, NEW q \in S, rank[p] = rank[q], p # q
        PROVE  FALSE
    <3>1. rank[p] < rank[q] \/ rank[q] < rank[p]
      BY <1>5, <2>2, Zenon DEF StrictOrder
    <3>2. QED
      BY <2>1, <2>2, <3>1
  <2>3. QED
    BY <2>2
<1>7. IsFiniteSet(0..(n - 1)) /\ Cardinality(0..(n - 1)) = n
  BY <1>1, FS_Interval
<1>8. rank \in Injection(S, 0..(n - 1))
  <2>1. rank \in [S -> 0..(n - 1)]
    BY <1>4 DEF RankIn
  <2>2. QED
    BY <1>6, <2>1 DEF Injection, IsInjective
<1>9. rank \in Surjection(S, 0..(n - 1))
  BY <1>7, <1>8, FS_Injection
<1>10. \A i \in 0..(n - 1) : \E p \in S : rank[p] = i
  BY <1>9 DEF Surjection
<1>11. QED
  BY <1>1, <1>4, <1>5, <1>6, <1>10 DEF Ranked

-----------------------------------------------------------------------------
(* Sorting by keys.                                                        *)

(* Keys of profiles: one per ID, and none equal to another's.              *)
Keyed(S, key, n) ==
  /\ \A p \in S : IsKey(key[p.id], n)
  /\ \A p, q \in S : p # q => \E i \in 1..n : key[p.id][i] # key[q.id][i]

(* Sorted lists a finite set, each member once, by its keys.               *)
LEMMA SortedLists ==
  ASSUME NEW S, IsFiniteSet(S), NEW n \in Nat, NEW key, Keyed(S, key, n),
         NEW list, list = Sorted(S, key)
  PROVE  /\ Cardinality(S) \in Nat /\ DOMAIN list = 1..Cardinality(S)
         /\ \A i \in DOMAIN list : list[i] \in S
         /\ \A p \in S : \E i \in DOMAIN list : list[i] = p
         /\ \A i, j \in DOMAIN list : i < j => KeyBelow(key[list[i].id], key[list[j].id])
         /\ \A i, j \in DOMAIN list : list[i] = list[j] => i = j
<1> DEFINE R == {pair \in S \X S : KeyBelow(key[pair[1].id], key[pair[2].id])}
           m == Cardinality(S)
<1>0. PICK rank : rank = RankIn(S, R)
  OBVIOUS
<1>1. \A p, q \in S : <<p, q>> \in R <=> KeyBelow(key[p.id], key[q.id])
  OBVIOUS
<1>2. \A p \in S : IsKey(key[p.id], n)
  BY DEF Keyed
<1>3. \A p, q \in S : p # q => \E i \in 1..n : key[p.id][i] # key[q.id][i]
  BY DEF Keyed
<1> HIDE DEF R
<1>4. \A p \in S : <<p, p>> \notin R
  BY <1>1, <1>2, BelowIrreflexive
<1>5. \A p, q, r \in S : <<p, q>> \in R /\ <<q, r>> \in R => <<p, r>> \in R
  BY <1>1, <1>2, BelowTransitive
<1>6. \A p, q \in S : p # q => <<p, q>> \in R \/ <<q, p>> \in R
  BY <1>1, <1>2, <1>3, BelowTotal
<1>7. /\ m \in Nat
      /\ \A p \in S : rank[p] \in 0..(m - 1)
      /\ \A p, q \in S : <<p, q>> \in R => rank[p] < rank[q]
      /\ \A p, q \in S : rank[p] = rank[q] => p = q
      /\ \A i \in 0..(m - 1) : \E p \in S : rank[p] = i
  <2>1. StrictOrder(S, R)
    BY <1>4, <1>5, <1>6 DEF StrictOrder
  <2>2. Ranked(S, R, rank)
    BY <1>0, <2>1, RanksAreAll
  <2>3. QED
    BY <2>2 DEF Ranked
<1>8. \A p \in S : rank[p] = Cardinality({q \in S : KeyBelow(key[q.id], key[p.id])})
  <2>1. \A p \in S : {q \in S : <<q, p>> \in R} = {q \in S : KeyBelow(key[q.id], key[p.id])}
    BY <1>1
  <2>2. QED
    BY <1>0, <2>1 DEF RankIn
<1> HIDE DEF m
<1>9. DOMAIN list = 1..m
  BY DEF Sorted, m
<1>10. \A i \in 1..m : list[i] \in S /\ rank[list[i]] = i - 1
  <2>1. SUFFICES ASSUME NEW i \in 1..m
                 PROVE  list[i] \in S /\ rank[list[i]] = i - 1
    OBVIOUS
  <2>2. list[i] = CHOOSE p \in S : Cardinality({q \in S : KeyBelow(key[q.id], key[p.id])}) = i - 1
    BY DEF Sorted, m
  <2>3. i - 1 \in 0..(m - 1)
    BY <1>7
  <2>4. PICK p \in S : rank[p] = i - 1
    BY <1>7, <2>3
  <2>5. Cardinality({q \in S : KeyBelow(key[q.id], key[p.id])}) = i - 1
    BY <1>8, <2>4
  <2>6. list[i] \in S /\ Cardinality({q \in S : KeyBelow(key[q.id], key[list[i].id])}) = i - 1
    BY <2>2, <2>5
  <2>7. QED
    BY <1>8, <2>6
<1>11. \A p \in S : \E i \in 1..m : list[i] = p
  <2>1. SUFFICES ASSUME NEW p \in S
                 PROVE  \E i \in 1..m : list[i] = p
    OBVIOUS
  <2>2. rank[p] \in 0..(m - 1) /\ rank[p] + 1 \in 1..m
    BY <1>7
  <2>3. rank[list[rank[p] + 1]] = rank[p] /\ list[rank[p] + 1] \in S
    BY <1>10, <2>2
  <2>4. QED
    BY <1>7, <2>2, <2>3
<1>12. ASSUME NEW i \in 1..m, NEW j \in 1..m, i < j
       PROVE  KeyBelow(key[list[i].id], key[list[j].id])
  <2>1. list[i] \in S /\ list[j] \in S /\ rank[list[i]] = i - 1 /\ rank[list[j]] = j - 1
    BY <1>10
  <2>2. list[i] # list[j] /\ ~ (rank[list[j]] < rank[list[i]])
    BY <1>7, <1>12, <2>1
  <2>3. <<list[i], list[j]>> \in R
    BY <1>6, <1>7, <2>1, <2>2
  <2>4. QED
    BY <1>1, <2>1, <2>3
<1>13. \A i, j \in 1..m : list[i] = list[j] => i = j
  BY <1>7, <1>10
<1>14. QED
  BY <1>7, <1>9, <1>10, <1>11, <1>12, <1>13 DEF m

(* Two keys that order a set alike give one list.                          *)
LEMMA SortedAlike ==
  ASSUME NEW S, NEW key, NEW other,
         \A p, q \in S : KeyBelow(key[p.id], key[q.id]) <=> KeyBelow(other[p.id], other[q.id])
  PROVE  Sorted(S, key) = Sorted(S, other)
<1>1. \A p \in S : {q \in S : KeyBelow(key[q.id], key[p.id])} = {q \in S : KeyBelow(other[q.id], other[p.id])}
  OBVIOUS
<1> DEFINE Here(i) == {p \in S : Cardinality({q \in S : KeyBelow(key[q.id], key[p.id])}) = i - 1}
           There(i) == {p \in S : Cardinality({q \in S : KeyBelow(other[q.id], other[p.id])}) = i - 1}
<1>2. \A i : Here(i) = There(i)
  BY <1>1
<1> DEFINE Mine(i) == CHOOSE p \in S : Cardinality({q \in S : KeyBelow(key[q.id], key[p.id])}) = i - 1
           Theirs(i) == CHOOSE p \in S : Cardinality({q \in S : KeyBelow(other[q.id], other[p.id])}) = i - 1
<1>3. \A i : Mine(i) = CHOOSE p : p \in Here(i)
  OBVIOUS
<1>4. \A i : Theirs(i) = CHOOSE p : p \in There(i)
  OBVIOUS
<1> HIDE DEF Here, There
<1>5. \A i : Mine(i) = Theirs(i)
  BY <1>2, <1>3, <1>4
<1> HIDE DEF Mine, Theirs
<1>6. [i \in 1..Cardinality(S) |-> Mine(i)] = [i \in 1..Cardinality(S) |-> Theirs(i)]
  BY <1>5
<1>7. QED
  BY <1>6 DEF Sorted, Mine, Theirs

-----------------------------------------------------------------------------
(* The keys of profiles.                                                   *)

LEMMA WeighIs ==
  ASSUME NEW columns
  PROVE  Weigh(columns) \in Nat
<1> DEFINE Of(c) == IF c \in columns THEN ColumnWeight[c] ELSE 0
<1>1. /\ ColumnWeight["mccmnc"] \in Nat /\ ColumnWeight["imsi_prefix_xpattern"] \in Nat
      /\ ColumnWeight["iccid_prefix"] \in Nat /\ ColumnWeight["gid1"] \in Nat
      /\ ColumnWeight["gid2"] \in Nat /\ ColumnWeight["plmn"] \in Nat
      /\ ColumnWeight["privilege_access_rule"] \in Nat /\ ColumnWeight["spn"] \in Nat
      /\ ColumnWeight["apn"] \in Nat
  BY DEF ColumnWeight
<1>2. /\ Of("mccmnc") \in Nat /\ Of("imsi_prefix_xpattern") \in Nat
      /\ Of("iccid_prefix") \in Nat /\ Of("gid1") \in Nat
      /\ Of("gid2") \in Nat /\ Of("plmn") \in Nat
      /\ Of("privilege_access_rule") \in Nat /\ Of("spn") \in Nat
      /\ Of("apn") \in Nat
  BY <1>1
<1> HIDE DEF Of
<1>3. Of("mccmnc") + Of("imsi_prefix_xpattern") + Of("iccid_prefix") + Of("gid1")
      + Of("gid2") + Of("plmn") + Of("privilege_access_rule") + Of("spn") + Of("apn") \in Nat
  BY <1>2
<1>4. QED
  BY <1>3 DEF Weigh, Of

TableHasRules == \A row \in DOMAIN AospRules : AospRules[row] # {}

LEMMA WeightIs ==
  ASSUME NEW match, NEW net, TableHasRules
  PROVE  AndroidWeight(match, net) \in Nat
<1> DEFINE raw == {"mccmnc"} \union {ColumnOf[d] : d \in Used(match) \intersect DOMAIN ColumnOf}
           rules == UNION {IF <<id, net>> \in DOMAIN AospRules
                           THEN AospRules[<<id, net>>] ELSE {{"mccmnc"}} :
                             id \in match.android_carrier_ids}
           weights == {Weigh(raw \union r) : r \in rules}
<1>1. weights \subseteq Nat
  BY WeighIs
<1>2. rules # {} => weights # {}
  <2> HIDE DEF rules, raw
  <2>1. QED
    OBVIOUS
<1>3. rules # {} => Min(weights) \in Nat
  BY <1>1, <1>2, LeastIs
<1>4. Weigh(raw) \in Nat
  BY WeighIs
<1>5. AndroidWeight(match, net) = IF rules = {} THEN Weigh(raw) ELSE Min(weights)
  BY DEF AndroidWeight
<1>6. QED
  BY <1>3, <1>4, <1>5

(* The text values of a match set are sequences; only their lengths matter. *)
Lengthy(match) ==
  \A d \in Dimensions \union {"mccmnc"} :
    /\ IsFiniteSet(match[d])
    /\ d # "android_carrier_ids" /\ d # "mccmnc" =>
         \A v \in match[d] : DOMAIN v = 1..Len(v) /\ Len(v) \in Nat

LEMMA FixedLengthIs ==
  ASSUME NEW d, NEW v, DOMAIN v = 1..Len(v), Len(v) \in Nat
  PROVE  FixedLength(d, v) \in Nat
<1>1. {i \in DOMAIN v : v[i] \notin Wildcards} \in SUBSET (1..Len(v))
  OBVIOUS
<1>2. IsFiniteSet(1..Len(v))
  BY FS_Interval
<1>3. Cardinality({i \in DOMAIN v : v[i] \notin Wildcards}) \in Nat
  BY <1>1, <1>2, FS_Subset, FS_CardinalityType
<1>4. QED
  BY <1>3 DEF FixedLength

LEMMA ShortestIs ==
  ASSUME NEW d, NEW values, \A v \in values : DOMAIN v = 1..Len(v) /\ Len(v) \in Nat
  PROVE  Shortest(d, values) \in Nat
<1> DEFINE lengths == {FixedLength(d, v) : v \in values}
<1>1. lengths \subseteq Nat
  BY FixedLengthIs
<1>2. values # {} => Min(lengths) \in Nat
  BY <1>1, LeastIs
<1>3. QED
  BY <1>2 DEF Shortest

LEMMA ValueCountIs ==
  ASSUME NEW match, Lengthy(match)
  PROVE  ValueCount(match) \in Nat
<1>1. \A d \in Dimensions : Cardinality(match[d]) \in Nat
  BY FS_CardinalityType DEF Lengthy
<1>2. /\ Cardinality(match["spn"]) \in Nat /\ Cardinality(match["imsi_prefix_patterns"]) \in Nat
      /\ Cardinality(match["gid1_prefixes"]) \in Nat /\ Cardinality(match["gid2_prefixes"]) \in Nat
      /\ Cardinality(match["iccid_prefixes"]) \in Nat /\ Cardinality(match["android_carrier_ids"]) \in Nat
  BY <1>1 DEF Dimensions
<1>3. QED
  BY <1>2 DEF ValueCount

LEMMA ResolutionKeyIs ==
  ASSUME NEW p, NEW net, TableHasRules, Lengthy(p.match), p.id \in Int
  PROVE  IsKey(ResolutionKey(p, net), 10) /\ ResolutionKey(p, net)[10] = p.id
<1> DEFINE match == p.match
           ShortestOf(d) == Shortest(d, match[d])
<1>1. AndroidWeight(match, net) \in Int
  BY WeightIs
<1>2. \A d \in {"imsi_prefix_patterns", "iccid_prefixes", "gid1_prefixes", "gid2_prefixes"} :
        ShortestOf(d) \in Int
  BY ShortestIs DEF Lengthy, Dimensions
<1>3. 0 - ValueCount(match) \in Int
  BY ValueCountIs
<1>4. 0 - Cardinality(match.mccmnc) \in Int
  BY FS_CardinalityType DEF Lengthy
<1>5. PICK weight : weight = AndroidWeight(match, net)
  OBVIOUS
<1>6. PICK imsi, iccid, gid1, gid2 :
        /\ imsi = ShortestOf("imsi_prefix_patterns") /\ iccid = ShortestOf("iccid_prefixes")
        /\ gid1 = ShortestOf("gid1_prefixes") /\ gid2 = ShortestOf("gid2_prefixes")
  OBVIOUS
<1>7. PICK ids, kind, count, nets :
        /\ ids = (IF match.android_carrier_ids # {} THEN 1 ELSE 0)
        /\ kind = (IF p.kind = "fill_only" THEN 0 ELSE 1)
        /\ count = 0 - ValueCount(match) /\ nets = 0 - Cardinality(match.mccmnc)
  OBVIOUS
<1>8. ResolutionKey(p, net) = <<weight, ids, imsi, iccid, gid1, gid2, kind, count, nets, p.id>>
  BY <1>5, <1>6, <1>7 DEF ResolutionKey
<1>9. /\ weight \in Int /\ ids \in Int /\ imsi \in Int /\ iccid \in Int /\ gid1 \in Int
      /\ gid2 \in Int /\ kind \in Int /\ count \in Int /\ nets \in Int
  BY <1>1, <1>2, <1>3, <1>4, <1>5, <1>6, <1>7
<1>10. QED
  BY <1>8, <1>9 DEF IsKey

LEMMA CountKeyIs ==
  ASSUME NEW p, p.id \in Int
  PROVE  IsKey(StackOrderKey(p), 2) /\ StackOrderKey(p)[2] = p.id
<1>1. Used(p.match) \in SUBSET Dimensions
  BY DEF Used
<1>2. IsFiniteSet(Dimensions)
  <2>1. Dimensions = {"spn"} \union {"imsi_prefix_patterns"} \union {"gid1_prefixes"}
                     \union {"gid2_prefixes"} \union {"iccid_prefixes"} \union {"android_carrier_ids"}
    BY DEF Dimensions
  <2>2. \A x : IsFiniteSet({x})
    BY FS_Singleton
  <2>3. QED
    BY <2>1, <2>2, FS_Union
<1>3. Cardinality(Used(p.match)) \in Nat
  BY <1>1, <1>2, FS_Subset, FS_CardinalityType
<1>4. QED
  BY <1>3 DEF StackOrderKey, IsKey

Ascending(list, S, key) ==
  /\ DOMAIN list = 1..Cardinality(S) /\ list = [i \in 1..Cardinality(S) |-> list[i]]
  /\ \A i \in DOMAIN list : list[i] \in S
  /\ \A p \in S : \E i \in DOMAIN list : list[i] = p
  /\ \A i, j \in DOMAIN list : i < j => KeyBelow(key[list[i].id], key[list[j].id])

(* A list of the profiles in ascending order is the sorted list: where the  *)
(* two first differ, each would put the other's profile later.              *)
LEMMA SortedUnique ==
  ASSUME NEW S, IsFiniteSet(S), NEW n \in Nat, NEW key, Keyed(S, key, n),
         NEW other, Ascending(other, S, key)
  PROVE  Sorted(S, key) = other
<1>0. /\ DOMAIN other = 1..Cardinality(S) /\ other = [i \in 1..Cardinality(S) |-> other[i]]
      /\ \A i \in DOMAIN other : other[i] \in S
      /\ \A p \in S : \E i \in DOMAIN other : other[i] = p
      /\ \A i, j \in DOMAIN other : i < j => KeyBelow(key[other[i].id], key[other[j].id])
  BY DEF Ascending
<1>1. PICK list : list = Sorted(S, key)
  OBVIOUS
<1>2. /\ Cardinality(S) \in Nat /\ DOMAIN list = 1..Cardinality(S)
      /\ \A i \in DOMAIN list : list[i] \in S
      /\ \A p \in S : \E i \in DOMAIN list : list[i] = p
      /\ \A i, j \in DOMAIN list : i < j => KeyBelow(key[list[i].id], key[list[j].id])
  BY <1>1, SortedLists
<1>3. list = [i \in 1..Cardinality(S) |-> list[i]]
  <2> DEFINE At(i) == CHOOSE p \in S : Cardinality({q \in S : KeyBelow(key[q.id], key[p.id])}) = i - 1
  <2>1. list = [i \in 1..Cardinality(S) |-> At(i)]
    BY <1>1, Zenon DEF Sorted
  <2> HIDE DEF At
  <2>2. QED
    BY <2>1
<1> DEFINE apart == {i \in 1..Cardinality(S) : list[i] # other[i]}
<1>4. SUFFICES ASSUME apart # {} PROVE FALSE
  <2>1. \A i \in 1..Cardinality(S) : list[i] = other[i]
    BY <1>4
  <2>2. [i \in 1..Cardinality(S) |-> list[i]] = [i \in 1..Cardinality(S) |-> other[i]]
    BY <2>1
  <2>3. QED
    BY <1>0, <1>1, <1>3, <2>2
<1>5. PICK m : m = Min(apart)
  OBVIOUS
<1>6. apart \subseteq Nat
  BY <1>2
<1>7. m \in apart /\ \A i \in apart : m <= i
  BY <1>4, <1>5, <1>6, LeastIs
<1>8. m \in 1..Cardinality(S) /\ list[m] # other[m] /\ m \in Nat
  BY <1>2, <1>7
<1>9. \A i \in 1..Cardinality(S) : i < m => list[i] = other[i]
  <2>1. SUFFICES ASSUME NEW i \in 1..Cardinality(S), i < m, list[i] # other[i] PROVE FALSE
    OBVIOUS
  <2>2. i \in apart
    BY <2>1
  <2>3. m <= i /\ i \in Nat
    BY <1>2, <1>7, <2>2
  <2>4. QED
    BY <1>8, <2>1, <2>3
<1> HIDE DEF apart
<1>10. PICK i \in 1..Cardinality(S) : other[i] = list[m]
  BY <1>0, <1>2, <1>8
<1>11. PICK j \in 1..Cardinality(S) : list[j] = other[m]
  BY <1>0, <1>2, <1>8
<1>12. /\ IsKey(key[list[m].id], n) /\ IsKey(key[other[m].id], n)
       /\ ~ KeyBelow(key[list[m].id], key[list[m].id])
  BY <1>0, <1>2, <1>8, BelowIrreflexive DEF Keyed
<1>13. m < i
  <2>1. ~ i < m
    <3>1. SUFFICES ASSUME i < m PROVE FALSE
      OBVIOUS
    <3>2. list[i] = list[m]
      BY <1>9, <1>10, <3>1
    <3>3. KeyBelow(key[list[i].id], key[list[m].id])
      BY <1>2, <1>8, <3>1
    <3>4. QED
      BY <1>12, <3>2, <3>3
  <2>2. i # m
    BY <1>8, <1>10
  <2>3. i \in Nat
    BY <1>2, <1>10
  <2>4. QED
    BY <1>8, <2>1, <2>2, <2>3
<1>14. m < j
  <2>1. ~ j < m
    <3>1. SUFFICES ASSUME j < m PROVE FALSE
      OBVIOUS
    <3>2. other[j] = other[m]
      BY <1>9, <1>11, <3>1
    <3>3. KeyBelow(key[other[j].id], key[other[m].id])
      BY <1>0, <1>8, <3>1
    <3>4. ~ KeyBelow(key[other[m].id], key[other[m].id])
      BY <1>12, BelowIrreflexive
    <3>5. QED
      BY <3>2, <3>3, <3>4
  <2>2. j # m
    BY <1>8, <1>11
  <2>3. j \in Nat
    BY <1>2, <1>11
  <2>4. QED
    BY <1>8, <2>1, <2>2, <2>3
<1>15. KeyBelow(key[other[m].id], key[list[m].id])
  BY <1>0, <1>8, <1>10, <1>13
<1>16. KeyBelow(key[list[m].id], key[other[m].id])
  BY <1>2, <1>8, <1>11, <1>14
<1>17. QED
  BY <1>12, <1>15, <1>16, BelowTransitive

-----------------------------------------------------------------------------
(* The profiles of a tree.                                                 *)

Everyone(s) == s.profiles \union FillOnly(s.rules, s.profiles)

(* A tree as the inputs give it and the profile releases leave it.          *)
TreeOK(s) ==
  /\ IsFiniteSet(s.profiles)
  /\ \A p \in s.profiles : IsProfile(p)
  /\ \A p, q \in s.profiles : p.id = q.id => p = q
  /\ DOMAIN s.rules = 1..Len(s.rules) /\ Len(s.rules) \in Nat
  /\ \A i \in DOMAIN s.rules : IsRule(s.rules[i])

(* Profiles that keys can order.                                            *)
Distinct(profiles) ==
  /\ IsFiniteSet(profiles)
  /\ \A p \in profiles : p.id \in Int /\ IsMatch(p.match) /\ p.name \in Seq(Chars)
  /\ \A p, q \in profiles : p.id = q.id => p = q

LEMMA MatchLengthy ==
  ASSUME NEW match, IsMatch(match)
  PROVE  Lengthy(match)
<1>1. \A d \in TextDimensions : \A v \in match[d] : v \in Seq(Chars)
  BY DEF IsMatch, IsSelector
<1>2. \A v \in Seq(Chars) : DOMAIN v = 1..Len(v) /\ Len(v) \in Nat
  OBVIOUS
<1>3. \A d \in Dimensions \union {"mccmnc"} :
        d # "android_carrier_ids" /\ d # "mccmnc" => d \in TextDimensions
  BY DEF TextDimensions
<1>4. QED
  BY <1>1, <1>2, <1>3 DEF Lengthy, IsMatch

LEMMA RuleMatchIs ==
  ASSUME NEW rule, IsRule(rule)
  PROVE  IsMatch(RuleMatch(rule))
<1>1. \A d \in Dimensions : RuleMatch(rule)[d] = {datum[2] : datum \in {x \in rule.mvno : x[1] = d}}
  BY DEF RuleMatch, Dimensions
<1>2. \A x, y \in rule.mvno : x = y
  BY DEF IsRule
<1>3. \A x : IsFiniteSet({x}) /\ IsFiniteSet({})
  BY FS_Singleton, FS_EmptySet
<1>4. ASSUME NEW d \in Dimensions
      PROVE  IsFiniteSet(RuleMatch(rule)[d])
  <2>1. RuleMatch(rule)[d] = {} \/ \E x : RuleMatch(rule)[d] = {x}
    <3>1. ASSUME NEW x \in rule.mvno, x[1] = d
          PROVE  RuleMatch(rule)[d] = {x[2]}
      BY <1>1, <1>2, <3>1
    <3>2. CASE ~ \E x \in rule.mvno : x[1] = d
      BY <1>1, <3>2
    <3>3. QED
      BY <3>1, <3>2
  <2>2. QED
    BY <1>3, <2>1
<1>5. RuleMatch(rule)["mccmnc"] = {rule.net}
  BY DEF RuleMatch
<1>6. \A d \in TextDimensions : \A text \in RuleMatch(rule)[d] : IsSelector(d, text)
  BY <1>1 DEF TextDimensions, IsRule
<1>7. QED
  BY <1>3, <1>4, <1>5, <1>6 DEF IsMatch

LEMMA FillOnlyIs ==
  ASSUME NEW s, TreeOK(s), NEW i \in DOMAIN s.rules, NEW p, p = FillOnlyProfile(s.rules, i)
  PROVE  /\ p.id = 0 - i /\ i \in Nat /\ i > 0 /\ p.match = RuleMatch(s.rules[i])
         /\ IsMatch(p.match) /\ p.name \in Seq(Chars) /\ DOMAIN p.values = {} /\ p.kind = "fill_only"
         /\ ProfileFields \subseteq DOMAIN p
<1>1. p = [id |-> 0 - i, kind |-> "fill_only", name |-> s.rules[i].name,
           match |-> RuleMatch(s.rules[i]), values |-> <<>>, sources |-> <<>>, apns |-> {}, fill |-> <<>>]
  BY DEF FillOnlyProfile
<1>2. p.id = 0 - i /\ p.kind = "fill_only" /\ p.name = s.rules[i].name /\ p.match = RuleMatch(s.rules[i])
      /\ p.values = <<>>
  BY <1>1
<1>3. ProfileFields \subseteq DOMAIN p
  BY <1>1 DEF ProfileFields
<1>4. IsRule(s.rules[i]) /\ i \in Nat /\ i > 0
  BY DEF TreeOK
<1>5. s.rules[i].name \in Seq(Chars)
  BY <1>4 DEF IsRule
<1>6. DOMAIN <<>> = {}
  OBVIOUS
<1>7. QED
  BY <1>2, <1>3, <1>4, <1>5, <1>6, RuleMatchIs

LEMMA FillOnlyFinite ==
  ASSUME NEW s, TreeOK(s)
  PROVE  /\ IsFiniteSet(FillOnly(s.rules, s.profiles))
         /\ \A p \in FillOnly(s.rules, s.profiles) :
              \E i \in DOMAIN s.rules : p = FillOnlyProfile(s.rules, i)
<1> DEFINE none == {i \in DOMAIN s.rules : ~ ExactProfileExists(s.rules[i], s.profiles)}
           first == {i \in none :
                       ~ \E j \in none : j < i /\ ExactProfileExists(s.rules[i], {FillOnlyProfile(s.rules, j)})}
           Make == [i \in first |-> FillOnlyProfile(s.rules, i)]
<1>1. FillOnly(s.rules, s.profiles) = {FillOnlyProfile(s.rules, i) : i \in first}
  BY DEF FillOnly
<1>2. first \in SUBSET (DOMAIN s.rules)
  OBVIOUS
<1>3. IsFiniteSet(DOMAIN s.rules)
  BY FS_Interval DEF TreeOK
<1> HIDE DEF none, first
<1>4. IsFiniteSet(first)
  BY <1>2, <1>3, FS_Subset
<1>5. Make \in Surjection(first, {FillOnlyProfile(s.rules, i) : i \in first})
  BY Zenon DEF Surjection, Make
<1>6. IsFiniteSet({FillOnlyProfile(s.rules, i) : i \in first})
  BY <1>4, <1>5, FS_Surjection
<1>7. QED
  BY <1>1, <1>2, <1>6

LEMMA EveryoneIs ==
  ASSUME NEW s, TreeOK(s)
  PROVE  /\ Distinct(Everyone(s))
         /\ \A p \in Everyone(s) :
              /\ ProfileFields \subseteq DOMAIN p
              /\ DOMAIN p.values # {} => p \in s.profiles
<1> DEFINE filled == FillOnly(s.rules, s.profiles)
<1>1. IsFiniteSet(filled)
  BY FillOnlyFinite
<1>2. \A p \in filled : \E i \in DOMAIN s.rules : p = FillOnlyProfile(s.rules, i) /\ p.id = 0 - i
                                                  /\ i \in Nat /\ i > 0
  BY FillOnlyFinite, FillOnlyIs
<1>3. \A p \in filled :
        /\ IsMatch(p.match) /\ p.name \in Seq(Chars) /\ DOMAIN p.values = {}
        /\ ProfileFields \subseteq DOMAIN p
  <2>1. SUFFICES ASSUME NEW p \in filled
                 PROVE  /\ IsMatch(p.match) /\ p.name \in Seq(Chars) /\ DOMAIN p.values = {}
                        /\ ProfileFields \subseteq DOMAIN p
    BY Zenon
  <2>2. PICK i \in DOMAIN s.rules : p = FillOnlyProfile(s.rules, i)
    BY <1>2
  <2>3. QED
    BY <2>2, FillOnlyIs, Zenon
<1> HIDE DEF filled
<1>4. \A p, q \in filled : p.id = q.id => p = q
  <2>1. SUFFICES ASSUME NEW p \in filled, NEW q \in filled, p.id = q.id
                 PROVE  p = q
    OBVIOUS
  <2>2. PICK i \in DOMAIN s.rules : p = FillOnlyProfile(s.rules, i) /\ p.id = 0 - i /\ i \in Nat
    BY <1>2
  <2>3. PICK j \in DOMAIN s.rules : q = FillOnlyProfile(s.rules, j) /\ q.id = 0 - j /\ j \in Nat
    BY <1>2
  <2>4. i = j
    BY <2>1, <2>2, <2>3
  <2>5. QED
    BY <2>2, <2>3, <2>4
<1>5. \A p \in filled : p.id \in Int /\ p.id < 0
  BY <1>2
<1>6. \A p \in s.profiles :
        /\ p.id \in Nat /\ p.name \in Seq(Chars) /\ IsMatch(p.match)
        /\ ProfileFields \subseteq DOMAIN p
  BY DEF TreeOK, IsProfile
<1>7. Everyone(s) = s.profiles \union filled
  BY DEF Everyone, filled
<1>8. IsFiniteSet(Everyone(s))
  <2>1. IsFiniteSet(s.profiles)
    BY DEF TreeOK
  <2>2. QED
    BY <1>1, <1>7, <2>1, FS_Union, Zenon
<1>9. \A p, q \in Everyone(s) : p.id = q.id => p = q
  <2>1. \A p \in s.profiles, q \in filled : p.id # q.id
    BY <1>5, <1>6
  <2>2. \A p, q \in s.profiles : p.id = q.id => p = q
    BY DEF TreeOK
  <2>3. QED
    BY <1>4, <1>7, <2>1, <2>2
<1>10. \A p \in Everyone(s) : p.id \in Int /\ IsMatch(p.match) /\ p.name \in Seq(Chars)
  BY <1>3, <1>5, <1>6, <1>7
<1>11. QED
  BY <1>3, <1>6, <1>7, <1>8, <1>9, <1>10 DEF Distinct

-----------------------------------------------------------------------------
(* The profiles of a network: each is one of the tree's, with its fill.     *)

OnNetwork(q, p, rules, net) ==
  /\ net \in p.match.mccmnc
  /\ q = [p EXCEPT !.fill = ComputeFill(p, RulesOn(rules, net))]
  /\ q.id = p.id /\ q.match = p.match /\ q.name = p.name /\ q.kind = p.kind
  /\ q.values = p.values /\ q.sources = p.sources
  /\ q.fill = ComputeFill(p, RulesOn(rules, net))

LEMMA NetworkIs ==
  ASSUME NEW s, TreeOK(s), NEW net, NEW profiles,
         profiles = NetworkProfiles(Everyone(s), s.rules, net)
  PROVE  /\ Distinct(profiles)
         /\ \A q \in profiles : \E p \in Everyone(s) : OnNetwork(q, p, s.rules, net)
         /\ \A p \in Everyone(s) : net \in p.match.mccmnc =>
              \E q \in profiles : OnNetwork(q, p, s.rules, net)
<1> DEFINE here == {q \in Everyone(s) : net \in q.match.mccmnc}
           On(p) == [p EXCEPT !.fill = ComputeFill(p, RulesOn(s.rules, net))]
           Make == [p \in here |-> On(p)]
<1>1. profiles = {On(p) : p \in here}
  BY DEF NetworkProfiles
<1>2. \A p \in here : OnNetwork(On(p), p, s.rules, net)
  <2>1. SUFFICES ASSUME NEW p \in here
                 PROVE  OnNetwork(On(p), p, s.rules, net)
    OBVIOUS
  <2>2. ProfileFields \subseteq DOMAIN p
    BY EveryoneIs, Zenon DEF here
  <2>3. PICK fill : fill = ComputeFill(p, RulesOn(s.rules, net))
    OBVIOUS
  <2>4. PICK q : q = [p EXCEPT !.fill = fill]
    OBVIOUS
  <2>5. /\ q.id = p.id /\ q.match = p.match /\ q.name = p.name /\ q.kind = p.kind
        /\ q.values = p.values /\ q.sources = p.sources /\ q.fill = fill
    BY <2>2, <2>4 DEF ProfileFields
  <2>6. QED
    BY <2>3, <2>4, <2>5 DEF OnNetwork
<1>3. IsFiniteSet(here)
  <2>1. here \in SUBSET Everyone(s)
    OBVIOUS
  <2>2. QED
    BY <2>1, EveryoneIs, FS_Subset DEF Distinct
<1> HIDE DEF here, On
<1>4. Make \in Surjection(here, profiles)
  BY <1>1, Zenon DEF Surjection
<1>5. IsFiniteSet(profiles)
  BY <1>3, <1>4, FS_Surjection
<1>6. \A q \in profiles : \E p \in Everyone(s) : OnNetwork(q, p, s.rules, net) /\ q = On(p)
  BY <1>1, <1>2 DEF here
<1>7. \A q \in profiles : q.id \in Int /\ IsMatch(q.match) /\ q.name \in Seq(Chars)
  <2>1. \A p \in Everyone(s) : p.id \in Int /\ IsMatch(p.match) /\ p.name \in Seq(Chars)
    BY EveryoneIs DEF Distinct
  <2>2. QED
    BY <1>6, <2>1 DEF OnNetwork
<1>8. ASSUME NEW q \in profiles, NEW r \in profiles, q.id = r.id
      PROVE  q = r
  <2>1. PICK p \in Everyone(s) : OnNetwork(q, p, s.rules, net) /\ q = On(p)
    BY <1>6
  <2>2. PICK o \in Everyone(s) : OnNetwork(r, o, s.rules, net) /\ r = On(o)
    BY <1>6
  <2>3. p.id = o.id
    BY <1>8, <2>1, <2>2 DEF OnNetwork
  <2>4. p = o
    BY <2>3, EveryoneIs DEF Distinct
  <2>5. QED
    BY <2>1, <2>2, <2>4
<1>9. \A p \in Everyone(s) : net \in p.match.mccmnc => \E q \in profiles : OnNetwork(q, p, s.rules, net)
  BY <1>1, <1>2 DEF here
<1>10. QED
  BY <1>5, <1>6, <1>7, <1>8, <1>9 DEF Distinct

-----------------------------------------------------------------------------
(* Stacks.                                                                 *)

LEMMA DistinctKeys ==
  ASSUME NEW profiles, Distinct(profiles), NEW net
  PROVE  /\ \A p \in profiles : ResolutionKeys(profiles, net)[p.id] = ResolutionKey(p, net)
         /\ \A p \in profiles : IsKey(ResolutionKey(p, net), 10) /\ ResolutionKey(p, net)[10] = p.id
         /\ \A p, q \in profiles : p # q => p.id # q.id
         /\ \A some \in SUBSET profiles : Keyed(some, ResolutionKeys(profiles, net), 10)
<1>1. ASSUME NEW p \in profiles
      PROVE  ResolutionKeys(profiles, net)[p.id] = ResolutionKey(p, net)
  <2>1. (CHOOSE q \in profiles : q.id = p.id) = p
    BY DEF Distinct
  <2>2. ResolutionKeys(profiles, net)[p.id] = ResolutionKey(CHOOSE q \in profiles : q.id = p.id, net)
    BY DEF ResolutionKeys
  <2>3. QED
    BY <2>1, <2>2
<1>2. TableHasRules
  BY TextAssumption DEF TableHasRules
<1>3. \A p \in profiles : IsKey(ResolutionKey(p, net), 10) /\ ResolutionKey(p, net)[10] = p.id
  <2>1. \A p \in profiles : Lengthy(p.match) /\ p.id \in Int
    BY MatchLengthy DEF Distinct
  <2>2. QED
    BY <1>2, <2>1, ResolutionKeyIs
<1>4. \A p, q \in profiles : p # q => p.id # q.id
  BY DEF Distinct
<1>5. ASSUME NEW some \in SUBSET profiles
      PROVE  Keyed(some, ResolutionKeys(profiles, net), 10)
  <2>1. \A p \in some : IsKey(ResolutionKeys(profiles, net)[p.id], 10)
    BY <1>1, <1>3
  <2>2. 10 \in 1..10
    OBVIOUS
  <2>3. \A p, q \in some : p # q =>
          ResolutionKeys(profiles, net)[p.id][10] # ResolutionKeys(profiles, net)[q.id][10]
    BY <1>1, <1>3, <1>4
  <2>4. QED
    BY <2>1, <2>2, <2>3 DEF Keyed
<1>6. QED
  BY <1>1, <1>3, <1>4, <1>5

(* A stack of some profiles, from the least key to the greatest.            *)
Stacked(stack, some, net) ==
  /\ stack \in Seq(some) /\ Len(stack) \in Nat /\ DOMAIN stack = 1..Len(stack)
  /\ \A i \in DOMAIN stack : stack[i] \in some
  /\ \A p \in some : \E i \in DOMAIN stack : stack[i] = p
  /\ \A i, j \in DOMAIN stack :
       i < j => KeyBelow(ResolutionKey(stack[i], net), ResolutionKey(stack[j], net))
  /\ \A i, j \in DOMAIN stack : stack[i] = stack[j] => i = j

LEMMA StackIs ==
  ASSUME NEW profiles, Distinct(profiles), NEW net, NEW some \in SUBSET profiles,
         NEW stack, stack = Sorted(some, ResolutionKeys(profiles, net))
  PROVE  Stacked(stack, some, net) /\ ToSet(stack) = some
<1> DEFINE key == ResolutionKeys(profiles, net)
           n == Cardinality(some)
<1>1. IsFiniteSet(some)
  <2>1. IsFiniteSet(profiles)
    BY DEF Distinct
  <2>2. QED
    BY <2>1, FS_Subset
<1>2. Keyed(some, key, 10) /\ \A p \in some : key[p.id] = ResolutionKey(p, net)
  BY DistinctKeys
<1> HIDE DEF key
<1>3. /\ n \in Nat /\ DOMAIN stack = 1..n
      /\ \A i \in DOMAIN stack : stack[i] \in some
      /\ \A p \in some : \E i \in DOMAIN stack : stack[i] = p
      /\ \A i, j \in DOMAIN stack : i < j => KeyBelow(key[stack[i].id], key[stack[j].id])
      /\ \A i, j \in DOMAIN stack : stack[i] = stack[j] => i = j
  <2>1. stack = Sorted(some, key)
    BY DEF key
  <2>2. PICK k \in Nat : Keyed(some, key, k)
    BY <1>2
  <2>3. QED
    BY <1>1, <2>1, <2>2, SortedLists
<1> HIDE DEF n
<1>4. Len(stack) = n /\ stack \in Seq(some)
  <2>1. stack = [i \in 1..n |-> stack[i]]
    <3>1. stack = [i \in 1..n |-> CHOOSE p \in some :
                     Cardinality({q \in some : KeyBelow(key[q.id], key[p.id])}) = i - 1]
      BY DEF Sorted, key, n
    <3>2. QED
      BY <1>3, <3>1
  <2>2. stack \in [1..n -> some]
    BY <1>3, <2>1
  <2>3. stack \in Seq(some)
    BY <1>3, <2>2, SeqDef
  <2>4. QED
    BY <1>3, <2>3
<1>5. \A i, j \in DOMAIN stack :
        i < j => KeyBelow(ResolutionKey(stack[i], net), ResolutionKey(stack[j], net))
  BY <1>2, <1>3
<1>6. ToSet(stack) = some
  BY <1>3 DEF ToSet
<1>7. QED
  BY <1>3, <1>4, <1>5, <1>6 DEF Stacked

LEMMA ResolveStackIs ==
  ASSUME NEW profiles, Distinct(profiles), NEW sim, NEW net, NEW stack,
         stack = ResolveStack(profiles, sim, net)
  PROVE  Stacked(stack, Holding(profiles, sim), net) /\ ToSet(stack) = Holding(profiles, sim)
<1>1. Holding(profiles, sim) \in SUBSET profiles
  BY DEF Holding
<1>2. QED
  BY <1>1, StackIs DEF ResolveStack

(* The profiles certain for the SIMs of one.                                *)
Certain(profiles, profile, net) ==
  {q \in profiles :
     \/ q.id = profile.id
     \/ /\ KeyBelow(ResolutionKey(q, net), ResolutionKey(profile, net))
        /\ ImpliedMatch(profile.match, q.match)}

LEMMA ProfileStackIs ==
  ASSUME NEW profiles, Distinct(profiles), NEW profile, NEW net, NEW stack,
         stack = ProfileStack(profiles, profile, net)
  PROVE  /\ Stacked(stack, Certain(profiles, profile, net), net)
         /\ ToSet(stack) = Certain(profiles, profile, net)
<1>1. Certain(profiles, profile, net) \in SUBSET profiles
  BY DEF Certain
<1>2. stack = Sorted(Certain(profiles, profile, net), ResolutionKeys(profiles, net))
  BY DEF ProfileStack, Certain
<1>3. QED
  BY <1>1, <1>2, StackIs

(* The profile whose value of a key applies is one of the stack that states *)
(* the key.                                                                *)
LEMMA CarrierIs ==
  ASSUME NEW stack, Len(stack) \in Nat, DOMAIN stack = 1..Len(stack),
         NEW keys, NEW key \in CarriedKeys(stack, keys)
  PROVE  /\ \E i \in DOMAIN stack : CarrierOf(stack, key) = stack[i]
         /\ key \in DOMAIN CarrierOf(stack, key).values
<1> DEFINE stating == {i \in DOMAIN stack : key \in DOMAIN stack[i].values}
<1>1. stating \subseteq 1..Len(stack) /\ stating # {}
  BY DEF CarriedKeys
<1>2. Max(stating) \in stating
  BY <1>1, GreatestIs
<1>3. CarrierOf(stack, key) = stack[Max(stating)]
  BY DEF CarrierOf
<1>4. QED
  BY <1>2, <1>3

-----------------------------------------------------------------------------
(* What is generated.                                                      *)

NetworksIn(s) ==
  [n \in NetworksOf(Everyone(s)) |-> NetworkProfiles(Everyone(s), s.rules, n)]

Waiting(s, rs) == Candidates(NetworksIn(s), s.lane, GroupAKeys(rs))

LEMMA GeneratedIs ==
  ASSUME NEW s, NEW rs, NEW d, d = Generated(s, rs)
  PROVE  /\ d.tree = s /\ d.networks = NetworksIn(s) /\ d.lane = s.lane
         /\ d.rows = IndexRows(s.profiles)
         /\ d.items = ReadItems(Waiting(s, rs), rs, MatchSets(s.profiles), s.unapplied)
         /\ d.unrecorded = Unrecorded(Waiting(s, rs), rs, MatchSets(s.profiles), s.unapplied)
         /\ d.pending = Pending(Waiting(s, rs), rs, MatchSets(s.profiles), s.unapplied)
         /\ d.left = LeftGroupA(rs)
<1>1. PICK networks, candidates, current :
        networks = NetworksIn(s) /\ candidates = Waiting(s, rs) /\ current = MatchSets(s.profiles)
  OBVIOUS
<1>2. d = [tree |-> s, networks |-> networks, lane |-> s.lane, rows |-> IndexRows(s.profiles),
           items |-> ReadItems(candidates, rs, current, s.unapplied),
           unrecorded |-> Unrecorded(candidates, rs, current, s.unapplied),
           pending |-> Pending(candidates, rs, current, s.unapplied),
           left |-> LeftGroupA(rs)]
  BY <1>1, Zenon DEF Generated, NetworksIn, Waiting, Everyone
<1>3. PICK items, unrecorded, pending, left, rows :
        /\ items = ReadItems(candidates, rs, current, s.unapplied)
        /\ unrecorded = Unrecorded(candidates, rs, current, s.unapplied)
        /\ pending = Pending(candidates, rs, current, s.unapplied)
        /\ left = LeftGroupA(rs) /\ rows = IndexRows(s.profiles)
  OBVIOUS
<1>4. d = [tree |-> s, networks |-> networks, lane |-> s.lane, rows |-> rows, items |-> items,
           unrecorded |-> unrecorded, pending |-> pending, left |-> left]
  BY <1>2, <1>3
<1>5. /\ d.tree = s /\ d.networks = networks /\ d.lane = s.lane /\ d.rows = rows /\ d.items = items
      /\ d.unrecorded = unrecorded /\ d.pending = pending /\ d.left = left
  BY <1>4
<1>6. QED
  BY <1>1, <1>3, <1>5

(* Each network of a tree has distinct profiles, the tree's with their fill. *)
LEMMA NetworksAre ==
  ASSUME NEW s, TreeOK(s), NEW net \in DOMAIN NetworksIn(s), NEW profiles,
         profiles = NetworksIn(s)[net]
  PROVE  /\ Distinct(profiles)
         /\ \A q \in profiles : \E p \in Everyone(s) : OnNetwork(q, p, s.rules, net)
         /\ \A p \in Everyone(s) : net \in p.match.mccmnc =>
              \E q \in profiles : OnNetwork(q, p, s.rules, net)
<1>1. profiles = NetworkProfiles(Everyone(s), s.rules, net)
  BY DEF NetworksIn
<1>2. QED
  BY <1>1, NetworkIs

(* A profile that states a key is a published one.                          *)
LEMMA StatingIsPublished ==
  ASSUME NEW s, TreeOK(s), NEW net \in DOMAIN NetworksIn(s), NEW q \in NetworksIn(s)[net],
         NEW key \in DOMAIN q.values
  PROVE  \E p \in s.profiles :
           /\ q.id = p.id /\ q.match = p.match /\ key \in DOMAIN p.values
           /\ q.values = p.values /\ q.sources = p.sources
<1>1. PICK p \in Everyone(s) : OnNetwork(q, p, s.rules, net)
  BY NetworksAre
<1>2. q.id = p.id /\ q.match = p.match /\ q.values = p.values /\ q.sources = p.sources
  BY <1>1 DEF OnNetwork
<1>3. p \in s.profiles
  BY <1>2, EveryoneIs
<1>4. QED
  BY <1>2, <1>3

(* A value that waits for a read is one that a published profile states.    *)
OfProfile(c, p) ==
  /\ c.profile = p.id /\ c.key \in DOMAIN p.values /\ c.value = p.values[c.key]
  /\ c.families = FamiliesOf(p, c.key)

LEMMA CandidatesAre ==
  ASSUME NEW networks, NEW lane, NEW keys, NEW c
  PROVE  c \in Candidates(networks, lane, keys) <=>
           \E net \in DOMAIN networks : \E q \in networks[net] :
             c \in CandidatesOf(networks[net], q, net, lane, keys)
<1> DEFINE From(net, q) == CandidatesOf(networks[net], q, net, lane, keys)
           On(net) == UNION {From(net, q) : q \in networks[net]}
<1>1. Candidates(networks, lane, keys) = UNION {On(net) : net \in DOMAIN networks}
  BY Zenon DEF Candidates
<1>2. \A net : c \in On(net) <=> \E q \in networks[net] : c \in From(net, q)
  <2> HIDE DEF From
  <2>1. QED
    OBVIOUS
<1> HIDE DEF On
<1>3. c \in UNION {On(net) : net \in DOMAIN networks} <=> \E net \in DOMAIN networks : c \in On(net)
  OBVIOUS
<1>4. QED
  BY <1>1, <1>2, <1>3

LEMMA CandidateIs ==
  ASSUME NEW s, TreeOK(s), NEW rs, NEW c \in Waiting(s, rs)
  PROVE  \E p \in s.profiles : OfProfile(c, p)
<1>1. PICK net \in DOMAIN NetworksIn(s) : \E q \in NetworksIn(s)[net] :
        c \in CandidatesOf(NetworksIn(s)[net], q, net, s.lane, GroupAKeys(rs))
  BY CandidatesAre DEF Waiting
<1>1q. PICK q \in NetworksIn(s)[net] :
        c \in CandidatesOf(NetworksIn(s)[net], q, net, s.lane, GroupAKeys(rs))
  BY <1>1
<1>2. PICK profiles : profiles = NetworksIn(s)[net]
  OBVIOUS
<1>3. PICK stack : stack = ProfileStack(profiles, q, net)
  OBVIOUS
<1>4. PICK key \in CarriedKeys(stack, GroupAKeys(rs)) :
        c = [key |-> key, value |-> CarrierOf(stack, key).values[key],
             profile |-> CarrierOf(stack, key).id, families |-> FamiliesOf(CarrierOf(stack, key), key)]
  BY <1>1q, <1>2, <1>3, Zenon DEF CandidatesOf
<1>5. PICK owner : owner = CarrierOf(stack, key)
  OBVIOUS
<1>6. c.key = key /\ c.value = owner.values[key] /\ c.profile = owner.id /\ c.families = FamiliesOf(owner, key)
  BY <1>4, <1>5
<1>7. Distinct(profiles)
  BY <1>2, NetworksAre
<1>8. Stacked(stack, Certain(profiles, q, net), net)
  BY <1>3, <1>7, ProfileStackIs
<1>9. owner \in profiles /\ key \in DOMAIN owner.values
  BY <1>5, <1>8, CarrierIs DEF Stacked, Certain
<1>10. PICK p \in s.profiles :
         /\ owner.id = p.id /\ key \in DOMAIN p.values
         /\ owner.values = p.values /\ owner.sources = p.sources
  BY <1>2, <1>9, StatingIsPublished
<1>11. FamiliesOf(owner, key) = FamiliesOf(p, key)
  BY <1>10 DEF FamiliesOf
<1>12. QED
  BY <1>6, <1>10, <1>11 DEF OfProfile

-----------------------------------------------------------------------------
(* The invariant.                                                          *)

IdsOf(profiles) == {p.id : p \in profiles}

(* A tree of this behaviour: profiles are replaced under their IDs, rules   *)
(* and lane stay as they are.                                              *)
TreeHere(s) ==
  /\ TreeOK(s) /\ IdsOf(s.profiles) = IdsOf(input.source.profiles)
  /\ s.rules = input.source.rules /\ s.lane = input.source.lane

SourceInv ==
  /\ input \in Inputs /\ TreeHere(source)
  /\ {"profiles", "rules", "lane", "unapplied", "written", "statements"} \subseteq DOMAIN source

(* What is published passed validate, and was generated from its tree and   *)
(* reads that are on main.                                                 *)
DatasetInv ==
  \A d \in dataset :
    /\ \E rs \in SUBSET reads : d = Generated(d.tree, rs)
    /\ TreeHere(d.tree) /\ TiesSettled(d) /\ FillsInLane(d) /\ Lookup!TreeHolds(d.tree)

(* A reader saw the match set of every profile his read names.              *)
ReadsInv == \A r \in reads : r.subject = "value" => r.profiles \subseteq DOMAIN r.hashes

(* What the phone makes of a dataset for a SIM.                             *)
ServedTo(d, sim) ==
  LET net == NetOf(sim)
      stack == ResolveStack(ProfilesFor(d, net), sim, net)
  IN  [sim |-> sim, stack |-> stack, reason |-> ReasonServing(stack, net),
       outcome |-> Outcome(stack, sim, net, d.rows, DOMAIN d.lane),
       for_you |-> AnswersFor(d, stack)]

ServedInv ==
  /\ \A d, e \in dataset : d = e
  /\ \A s \in served : \E d \in dataset, sim \in input.sims : s = ServedTo(d, sim)

Inv == SourceInv /\ DatasetInv /\ ReadsInv /\ ServedInv

LEMMA InitInv == Init => Inv
<1> SUFFICES ASSUME Init PROVE Inv
  OBVIOUS
<1>1. input \in Inputs /\ source = input.source /\ reads = {} /\ dataset = {} /\ served = {}
  BY DEF Init
<1>2. /\ {"profiles", "rules", "lane", "unapplied", "written", "statements"} \subseteq DOMAIN source
      /\ IsFiniteSet(source.profiles) /\ \A p \in source.profiles : IsProfile(p)
      /\ \A p, q \in source.profiles : p.id = q.id => p = q
      /\ DOMAIN source.rules = 1..Len(source.rules) /\ Len(source.rules) \in Nat
      /\ \A i \in DOMAIN source.rules : IsRule(source.rules[i])
  BY <1>1, InputsAssumption
<1>3. TreeHere(source)
  BY <1>1, <1>2 DEF TreeHere, TreeOK
<1>4. QED
  BY <1>1, <1>2, <1>3 DEF Inv, SourceInv, DatasetInv, ReadsInv, ServedInv

(* A change of the tree that leaves profiles, rules and lane as they are.   *)
LEMMA SourceKept ==
  ASSUME SourceInv, NEW field \in {"unapplied", "written", "statements"}, NEW value,
         source' = [source EXCEPT ![field] = value], UNCHANGED input
  PROVE  SourceInv'
<1>1. /\ source'.profiles = source.profiles /\ source'.rules = source.rules
      /\ source'.lane = source.lane /\ DOMAIN source' = DOMAIN source
  BY DEF SourceInv
<1>2. TreeHere(source)'
  BY <1>1 DEF SourceInv, TreeHere, TreeOK, IdsOf
<1>3. QED
  BY <1>1, <1>2 DEF SourceInv

LEMMA ReviseInv ==
  ASSUME SourceInv, NEW p \in input.revisions, Revise(p)
  PROVE  SourceInv'
<1> DEFINE others == {q \in source.profiles : q.id # p.id}
<1>1. source' = [source EXCEPT !.profiles = others \union {p}] /\ input' = input
  BY DEF Revise
<1>2. /\ source'.profiles = others \union {p} /\ source'.rules = source.rules
      /\ source'.lane = source.lane /\ DOMAIN source' = DOMAIN source
  BY <1>1 DEF SourceInv
<1>3. IsProfile(p)
  BY InputsAssumption DEF SourceInv
<1>4. IsFiniteSet(others \union {p})
  <2>1. IsFiniteSet(source.profiles) /\ others \in SUBSET source.profiles
    BY DEF SourceInv, TreeHere, TreeOK
  <2>2. IsFiniteSet(others) /\ IsFiniteSet({p})
    BY <2>1, FS_Subset, FS_Singleton
  <2>3. QED
    BY <2>2, FS_Union
<1>5. /\ \A q \in source.profiles : IsProfile(q)
      /\ \A q, r \in source.profiles : q.id = r.id => q = r
  BY DEF SourceInv, TreeHere, TreeOK
<1>6. \A q, r \in others \union {p} : q.id = r.id => q = r
  BY <1>5
<1>7. IdsOf(others \union {p}) = IdsOf(source.profiles)
  <2>1. \E q \in source.profiles : q.id = p.id
    BY DEF Revise
  <2>2. QED
    BY <2>1 DEF IdsOf
<1>8. /\ DOMAIN source.rules = 1..Len(source.rules) /\ Len(source.rules) \in Nat
      /\ \A i \in DOMAIN source.rules : IsRule(source.rules[i])
      /\ IdsOf(source.profiles) = IdsOf(input.source.profiles)
      /\ source.rules = input.source.rules /\ source.lane = input.source.lane
  BY DEF SourceInv, TreeHere, TreeOK
<1>9. \A q \in others \union {p} : IsProfile(q)
  BY <1>3, <1>5
<1> HIDE DEF others
<1>10. TreeOK(source')
  BY <1>2, <1>4, <1>6, <1>8, <1>9 DEF TreeOK
<1>11. TreeHere(source)'
  BY <1>1, <1>2, <1>7, <1>8, <1>10 DEF TreeHere
<1>12. QED
  BY <1>1, <1>2, <1>11 DEF SourceInv

LEMMA DatasetKept ==
  ASSUME DatasetInv, dataset' = dataset, reads \subseteq reads', input' = input
  PROVE  DatasetInv'
<1>1. ASSUME NEW d \in dataset
      PROVE  /\ \E rs \in SUBSET reads' : d = Generated(d.tree, rs)
             /\ TreeHere(d.tree)' /\ TiesSettled(d) /\ FillsInLane(d) /\ Lookup!TreeHolds(d.tree)
  <2>1. /\ \E rs \in SUBSET reads : d = Generated(d.tree, rs)
        /\ TreeHere(d.tree) /\ TiesSettled(d) /\ FillsInLane(d) /\ Lookup!TreeHolds(d.tree)
    BY DEF DatasetInv
  <2>2. TreeHere(d.tree)'
    BY <2>1 DEF TreeHere
  <2>3. QED
    BY <2>1, <2>2
<1>2. QED
  BY <1>1 DEF DatasetInv

LEMMA ReadValueInv ==
  ASSUME SourceInv, DatasetInv, ReadsInv, NEW key, NEW value, NEW verdict,
         ReadValue(key, value, verdict)
  PROVE  ReadsInv' /\ reads \subseteq reads'
<1>1. PICK d \in dataset :
        LET waiting == {c \in d.pending : c.key = key /\ c.value = value}
            ids == {c.profile : c \in waiting}
            current == MatchSets(source.profiles)
            read == [subject |-> "value", key |-> key, value |-> value,
                     profiles |-> ids, families |-> UNION {c.families : c \in waiting},
                     hashes |-> [id \in ids \intersect DOMAIN current |-> current[id]],
                     verdict |-> verdict, effect |-> "call_path"]
        IN  waiting # {} /\ ReadsAllowed(source, {read}) /\ reads' = reads \union {read}
  BY Zenon DEF ReadValue
<1> DEFINE waiting == {c \in d.pending : c.key = key /\ c.value = value}
           ids == {c.profile : c \in waiting}
<1>2. PICK current, families :
        current = MatchSets(source.profiles) /\ families = UNION {c.families : c \in waiting}
  OBVIOUS
<1>3. PICK hashes : hashes = [id \in ids \intersect DOMAIN current |-> current[id]]
  OBVIOUS
<1>4. PICK read : read = [subject |-> "value", key |-> key, value |-> value, profiles |-> ids,
                          families |-> families, hashes |-> hashes, verdict |-> verdict,
                          effect |-> "call_path"]
  OBVIOUS
<1>5. reads' = reads \union {read}
  BY <1>1, <1>2, <1>3, <1>4
<1>6. \A c \in d.pending : c.profile \in IdsOf(source.profiles)
  <2>1. PICK rs \in SUBSET reads : d = Generated(d.tree, rs)
    BY DEF DatasetInv
  <2>2. d.pending \subseteq Waiting(d.tree, rs)
    BY <2>1, GeneratedIs DEF Pending
  <2>3. TreeHere(d.tree) /\ TreeHere(source)
    BY DEF DatasetInv, SourceInv
  <2>4. IdsOf(d.tree.profiles) = IdsOf(source.profiles) /\ TreeOK(d.tree)
    BY <2>3 DEF TreeHere
  <2>5. \A c \in d.pending : \E p \in d.tree.profiles : c.profile = p.id
    BY <2>2, <2>4, CandidateIs DEF OfProfile
  <2>6. QED
    BY <2>4, <2>5 DEF IdsOf
<1>7. DOMAIN current = IdsOf(source.profiles)
  BY <1>2 DEF MatchSets, IdsOf
<1>8. ids \subseteq DOMAIN current
  BY <1>6, <1>7
<1> HIDE DEF ids
<1>9. read.profiles = ids /\ read.hashes = hashes
  BY <1>4
<1>10. DOMAIN hashes = ids
  BY <1>3, <1>8
<1>11. QED
  BY <1>5, <1>9, <1>10 DEF ReadsInv

LEMMA ReadKeyInv ==
  ASSUME ReadsInv, NEW key, ReadKey(key)
  PROVE  ReadsInv' /\ reads \subseteq reads'
<1>1. PICK read : read = [subject |-> "key", key |-> key, value |-> "none", profiles |-> {},
                          families |-> {}, hashes |-> <<>>, verdict |-> "proceed",
                          effect |-> "display_only"]
  OBVIOUS
<1>2. reads' = reads \union {read}
  BY <1>1 DEF ReadKey
<1>3. read.subject = "key"
  BY <1>1
<1>4. QED
  BY <1>2, <1>3 DEF ReadsInv

LEMMA GenerateInv ==
  ASSUME Inv, Generate
  PROVE  DatasetInv' /\ ServedInv'
<1>1. PICK d : d = Generated(source, reads)
  OBVIOUS
<1>2. /\ TiesSettled(d) /\ FillsInLane(d) /\ Lookup!TreeHolds(source) /\ dataset' = {d} /\ served' = {}
      /\ input' = input /\ source' = source /\ reads' = reads
  BY <1>1, Zenon DEF Generate
<1>3. d.tree = source
  BY <1>1, GeneratedIs
<1>4. TreeHere(source)' /\ TreeHere(source)
  BY <1>2 DEF Inv, SourceInv, TreeHere
<1>5. TreeHere(d.tree)'
  BY <1>2, <1>3, <1>4 DEF TreeHere
<1>6. DatasetInv'
  <2>1. d = Generated(d.tree, reads)
    BY <1>1, <1>3
  <2>2. \E rs \in SUBSET reads' : d = Generated(d.tree, rs)
    BY <1>2, <2>1
  <2>3. Lookup!TreeHolds(d.tree)
    BY <1>2, <1>3
  <2>4. QED
    BY <1>2, <1>5, <2>2, <2>3 DEF DatasetInv
<1>7. ServedInv'
  BY <1>2 DEF ServedInv
<1>8. QED
  BY <1>6, <1>7

LEMMA InsertInv ==
  ASSUME ServedInv, NEW sim \in input.sims, Insert(sim)
  PROVE  ServedInv'
<1>1. PICK d \in dataset : served' = {ServedTo(d, sim)}
  BY Zenon DEF Insert, ServedTo
<1>2. dataset' = dataset /\ input' = input
  BY DEF Insert
<1>3. QED
  BY <1>1, <1>2 DEF ServedInv

LEMMA ServedKept ==
  ASSUME ServedInv, dataset' = dataset, served' = served, input' = input
  PROVE  ServedInv'
BY DEF ServedInv

LEMMA NextInv == Inv /\ [Next]_vars => Inv'
<1> SUFFICES ASSUME Inv, [Next]_vars PROVE Inv'
  OBVIOUS
<1> USE DEF Inv
<1>1. CASE Generate
  <2>1. input' = input /\ source' = source /\ reads' = reads
    BY <1>1 DEF Generate
  <2>2. SourceInv' /\ ReadsInv'
    BY <2>1 DEF SourceInv, TreeHere, ReadsInv
  <2>3. QED
    BY <1>1, <2>2, GenerateInv
<1>2. CASE WriteAnswers
  <2>1. /\ source' = [source EXCEPT !.written = Lookup!Derived(source)]
        /\ input' = input /\ reads' = reads /\ dataset' = dataset /\ served' = served
    BY <1>2 DEF WriteAnswers
  <2>2. SourceInv'
    BY <2>1, SourceKept
  <2>3. QED
    BY <2>1, <2>2, DatasetKept, ServedKept DEF ReadsInv
<1>3. ASSUME NEW p \in input.revisions, Revise(p)
      PROVE  Inv'
  <2>1. input' = input /\ reads' = reads /\ dataset' = dataset /\ served' = served
    BY <1>3 DEF Revise
  <2>2. QED
    BY <1>3, <2>1, ReviseInv, DatasetKept, ServedKept DEF ReadsInv
<1>4. ASSUME NEW mark \in input.flags, Flag(mark)
      PROVE  Inv'
  <2>1. /\ source' = [source EXCEPT !.unapplied = source.unapplied \union {mark}]
        /\ input' = input /\ reads' = reads /\ dataset' = dataset /\ served' = served
    BY <1>4 DEF Flag
  <2>2. SourceInv'
    BY <2>1, SourceKept
  <2>3. QED
    BY <2>1, <2>2, DatasetKept, ServedKept DEF ReadsInv
<1>5. ASSUME NEW id \in input.lapses, Lapse(id)
      PROVE  Inv'
  <2>1. PICK statements : source' = [source EXCEPT !.statements = statements]
    BY <1>5 DEF Lapse
  <2>2. input' = input /\ reads' = reads /\ dataset' = dataset /\ served' = served
    BY <1>5 DEF Lapse
  <2>3. SourceInv'
    BY <2>1, <2>2, SourceKept
  <2>4. QED
    BY <2>2, <2>3, DatasetKept, ServedKept DEF ReadsInv
<1>6. ASSUME NEW key, NEW value, NEW verdict, ReadValue(key, value, verdict)
      PROVE  Inv'
  <2>1. input' = input /\ source' = source /\ dataset' = dataset /\ served' = served
    BY <1>6 DEF ReadValue
  <2>2. SourceInv'
    BY <2>1 DEF SourceInv, TreeHere
  <2>3. ReadsInv' /\ reads \subseteq reads'
    BY <1>6, ReadValueInv
  <2>4. QED
    BY <2>1, <2>2, <2>3, DatasetKept, ServedKept
<1>7. ASSUME NEW key \in input.key_reads, ReadKey(key)
      PROVE  Inv'
  <2>1. input' = input /\ source' = source /\ dataset' = dataset /\ served' = served
    BY <1>7 DEF ReadKey
  <2>2. SourceInv'
    BY <2>1 DEF SourceInv, TreeHere
  <2>3. QED
    BY <1>7, <2>1, <2>2, ReadKeyInv, DatasetKept, ServedKept
<1>8. ASSUME NEW sim \in input.sims, Insert(sim)
      PROVE  Inv'
  <2>1. input' = input /\ source' = source /\ dataset' = dataset /\ reads' = reads
    BY <1>8 DEF Insert
  <2>2. SourceInv' /\ ReadsInv'
    BY <2>1 DEF SourceInv, TreeHere, ReadsInv
  <2>3. QED
    BY <1>8, <2>1, <2>2, InsertInv, DatasetKept
<1>9. CASE UNCHANGED vars
  <2>1. /\ input' = input /\ source' = source /\ dataset' = dataset /\ reads' = reads
        /\ served' = served
    BY <1>9 DEF vars
  <2>2. SourceInv' /\ ReadsInv'
    BY <2>1 DEF SourceInv, TreeHere, ReadsInv
  <2>3. QED
    BY <2>1, <2>2, DatasetKept, ServedKept
<1>10. QED
  BY <1>1, <1>2, <1>3, <1>4, <1>5, <1>6, <1>7, <1>8, <1>9 DEF Next

(* What is published was generated from a tree that passed validate and     *)
(* from reads on main, and what a phone made of it is its SIM's stack.      *)
THEOREM Invariance == Spec => []Inv
<1>1. QED
  BY InitInv, NextInv, PTL DEF Spec

-----------------------------------------------------------------------------
(* What a phone gets, in the terms of the dataset it got it from.           *)

LEMMA ServedToIs ==
  ASSUME NEW d, NEW sim, NEW s, s = ServedTo(d, sim)
  PROVE  /\ s.sim = sim
         /\ s.stack = ResolveStack(ProfilesFor(d, NetOf(sim)), sim, NetOf(sim))
         /\ s.reason = ReasonServing(s.stack, NetOf(sim))
         /\ s.outcome = Outcome(s.stack, sim, NetOf(sim), d.rows, DOMAIN d.lane)
         /\ s.for_you = AnswersFor(d, s.stack)
<1>1. PICK net : net = NetOf(sim)
  OBVIOUS
<1>2. PICK stack : stack = ResolveStack(ProfilesFor(d, net), sim, net)
  OBVIOUS
<1>3. PICK reason, outcome, answers :
        /\ reason = ReasonServing(stack, net)
        /\ outcome = Outcome(stack, sim, net, d.rows, DOMAIN d.lane)
        /\ answers = AnswersFor(d, stack)
  OBVIOUS
<1>4. s = [sim |-> sim, stack |-> stack, reason |-> reason, outcome |-> outcome, for_you |-> answers]
  BY <1>1, <1>2, <1>3, Zenon DEF ServedTo
<1>5. s.sim = sim /\ s.stack = stack /\ s.reason = reason /\ s.outcome = outcome /\ s.for_you = answers
  BY <1>4
<1>6. QED
  BY <1>1, <1>2, <1>3, <1>5

(* A SIM with a stack is on a network of the dataset, and its stack is of   *)
(* the profiles there that hold for it.                                    *)
LEMMA ServedIs ==
  ASSUME Inv, NEW d \in dataset, NEW s \in served, NEW net, net = NetOf(s.sim),
         NEW profiles, profiles = ProfilesFor(d, net)
  PROVE  /\ s.sim \in input.sims /\ IsSim(s.sim) /\ s = ServedTo(d, s.sim)
         /\ TreeHere(d.tree) /\ d.networks = NetworksIn(d.tree) /\ d.lane = d.tree.lane
         /\ Distinct(profiles)
         /\ Stacked(s.stack, Holding(profiles, s.sim), net)
         /\ ToSet(s.stack) = Holding(profiles, s.sim)
         /\ s.stack # <<>> => net \in DOMAIN d.networks /\ profiles = d.networks[net]
<1>1. PICK e \in dataset, sim \in input.sims : s = ServedTo(e, sim)
  BY DEF Inv, ServedInv
<1>2. e = d
  BY DEF Inv, ServedInv
<1>3. s.sim = sim
  BY <1>1, ServedToIs
<1>4. s = ServedTo(d, s.sim) /\ s.sim \in input.sims
  BY <1>1, <1>2, <1>3
<1>5. IsSim(s.sim)
  BY <1>4, InputsAssumption DEF Inv, SourceInv
<1>6. PICK rs \in SUBSET reads : d = Generated(d.tree, rs)
  BY DEF Inv, DatasetInv
<1>7. d.networks = NetworksIn(d.tree) /\ d.lane = d.tree.lane
  BY <1>6, GeneratedIs
<1>8. TreeHere(d.tree)
  BY DEF Inv, DatasetInv
<1>9. Distinct(profiles)
  <2>1. CASE net \in DOMAIN d.networks
    <3>1. TreeOK(d.tree) /\ profiles = NetworksIn(d.tree)[net] /\ net \in DOMAIN NetworksIn(d.tree)
      BY <1>7, <1>8, <2>1 DEF ProfilesFor, TreeHere
    <3>2. QED
      BY <3>1, NetworksAre
  <2>2. CASE net \notin DOMAIN d.networks
    BY <2>2, FS_EmptySet DEF ProfilesFor, Distinct
  <2>3. QED
    BY <2>1, <2>2
<1>10. s.stack = ResolveStack(profiles, s.sim, net)
  BY <1>4, ServedToIs
<1>11. Stacked(s.stack, Holding(profiles, s.sim), net) /\ ToSet(s.stack) = Holding(profiles, s.sim)
  BY <1>9, <1>10, ResolveStackIs
<1>12. ASSUME s.stack # <<>>
       PROVE  net \in DOMAIN d.networks /\ profiles = d.networks[net]
  <2>1. CASE net \notin DOMAIN d.networks
    <3>1. Holding(profiles, s.sim) = {}
      BY <2>1 DEF ProfilesFor, Holding
    <3>2. s.stack = [i \in 1..Cardinality({}) |->
                       CHOOSE p \in {} : Cardinality({q \in {} :
                         KeyBelow(ResolutionKeys(profiles, net)[q.id], ResolutionKeys(profiles, net)[p.id])}) = i - 1]
      BY <1>10, <3>1, Zenon DEF ResolveStack, Sorted
    <3>3. Cardinality({}) = 0
      BY FS_EmptySet
    <3>4. s.stack = <<>>
      BY <3>2, <3>3
    <3>5. QED
      BY <1>12, <3>4
  <2>2. QED
    BY <2>1 DEF ProfilesFor
<1>13. QED
  BY <1>4, <1>5, <1>7, <1>8, <1>9, <1>11, <1>12

-----------------------------------------------------------------------------
(* Fill lists, and the entry a SIM picks from one.                          *)

LEMMA FillIs ==
  ASSUME NEW p, NEW rules, DOMAIN rules \subseteq Nat, NEW fill, fill = ComputeFill(p, rules)
  PROVE  DOMAIN fill \subseteq DOMAIN rules /\ DOMAIN fill \subseteq Nat
BY DEF ComputeFill

LEMMA PickFillIs ==
  ASSUME NEW fill, DOMAIN fill \subseteq Nat, NEW sim, NEW entries
  PROVE  \/ /\ PickFill(fill, sim, entries) = {}
            /\ \A i \in DOMAIN fill : ~ (fill[i].entry \in entries /\ WhenHolds(fill[i].when, sim))
         \/ \E i \in DOMAIN fill :
              /\ PickFill(fill, sim, entries) = {fill[i].entry}
              /\ fill[i].entry \in entries /\ WhenHolds(fill[i].when, sim)
              /\ \A j \in DOMAIN fill :
                   j < i => ~ (fill[j].entry \in entries /\ WhenHolds(fill[j].when, sim))
<1> DEFINE holding == {i \in DOMAIN fill : fill[i].entry \in entries /\ WhenHolds(fill[i].when, sim)}
<1>1. CASE holding = {}
  BY <1>1 DEF PickFill
<1>2. CASE holding # {}
  <2>1. Min(holding) \in holding /\ \A j \in holding : Min(holding) <= j
    BY <1>2, LeastIs
  <2>2. PickFill(fill, sim, entries) = {fill[Min(holding)].entry}
    BY <1>2 DEF PickFill
  <2>3. PICK i : i = Min(holding)
    OBVIOUS
  <2>4. \A j \in DOMAIN fill : j < i => j \notin holding
    BY <2>1, <2>3
  <2>5. QED
    BY <2>1, <2>2, <2>3, <2>4
<1>3. QED
  BY <1>1, <1>2

(* The entry a SIM picks from a fill list is one of its Google bundles.     *)
LEMMA PickIsVariant ==
  ASSUME NEW profile, DOMAIN profile.fill \subseteq Nat, NEW lane, NEW sim,
         NEW fill, fill = PickFill(profile.fill, sim, DOMAIN lane)
  PROVE  \/ /\ fill = {}
            /\ [entry |-> fill, bundle |-> DefaultOf(lane)] \in FillVariants(profile, lane)
         \/ \E e \in DOMAIN lane :
              /\ fill = {e}
              /\ [entry |-> fill, bundle |-> WithDefault(lane, e)] \in FillVariants(profile, lane)
<1>1. PICK items : items = profile.fill
  OBVIOUS
<1> DEFINE known == {i \in DOMAIN items : items[i].entry \in DOMAIN lane}
           ends == {i \in known : items[i].when = {}}
           Here(i) == [entry |-> {items[i].entry}, bundle |-> WithDefault(lane, items[i].entry)]
           None == [entry |-> {}, bundle |-> DefaultOf(lane)]
<1>2. FillVariants(profile, lane) =
        {Here(i) : i \in {k \in known : ~ \E j \in ends : j < k}}
          \union (IF ends = {} THEN {None} ELSE {})
  BY <1>1, Zenon DEF FillVariants
<1>3. \A i \in ends : items[i].entry \in DOMAIN lane /\ WhenHolds(items[i].when, sim)
  BY DEF WhenHolds
<1>4. CASE /\ fill = {}
           /\ \A i \in DOMAIN items : ~ (items[i].entry \in DOMAIN lane /\ WhenHolds(items[i].when, sim))
  <2>1. ends = {}
    BY <1>3, <1>4
  <2>2. None \in FillVariants(profile, lane)
    BY <1>2, <2>1
  <2>3. QED
    BY <1>4, <2>2
<1>5. ASSUME NEW i \in DOMAIN items, fill = {items[i].entry}, items[i].entry \in DOMAIN lane,
             \A j \in DOMAIN items :
               j < i => ~ (items[j].entry \in DOMAIN lane /\ WhenHolds(items[j].when, sim))
      PROVE  \E e \in DOMAIN lane :
              /\ fill = {e}
              /\ [entry |-> fill, bundle |-> WithDefault(lane, e)] \in FillVariants(profile, lane)
  <2>1. i \in {k \in known : ~ \E j \in ends : j < k}
    BY <1>3, <1>5
  <2>2. Here(i) \in FillVariants(profile, lane)
    BY <1>2, <2>1
  <2>3. QED
    BY <1>5, <2>2
<1>6. QED
  BY <1>1, <1>4, <1>5, PickFillIs

(* ... and it states what Google's bundle for the SIM states.               *)
LEMMA VariantStates ==
  ASSUME NEW d, NEW fill, NEW key, NEW value, NEW bundle,
         \/ fill = {} /\ bundle = DefaultOf(d.lane)
         \/ \E e \in DOMAIN d.lane : fill = {e} /\ bundle = WithDefault(d.lane, e)
  PROVE  States(bundle, key, value) <=> States(GoogleBundle(d, fill), key, value)
<1>1. PICK default : default = DefaultOf(d.lane)
  OBVIOUS
<1> DEFINE entry == UNION {DOMAIN d.lane[e] : e \in fill}
<1>2. GoogleBundle(d, fill) = [k \in entry \union DOMAIN default |->
         IF k \in entry THEN d.lane[CHOOSE e \in fill : TRUE][k] ELSE default[k]]
  BY <1>1, Zenon DEF GoogleBundle
<1>3. CASE fill = {} /\ bundle = DefaultOf(d.lane)
  <2>1. entry = {}
    BY <1>3
  <2>2. DOMAIN GoogleBundle(d, fill) = DOMAIN default
        /\ \A k \in DOMAIN default : GoogleBundle(d, fill)[k] = default[k]
    BY <1>2, <2>1
  <2>3. QED
    BY <1>1, <1>3, <2>2 DEF States
<1>4. ASSUME NEW e \in DOMAIN d.lane, fill = {e}, bundle = WithDefault(d.lane, e)
      PROVE  States(bundle, key, value) <=> States(GoogleBundle(d, fill), key, value)
  <2>1. PICK own : own = d.lane[e]
    OBVIOUS
  <2>3. bundle = [k \in (DOMAIN own) \union (DOMAIN default) |->
                   IF k \in DOMAIN own THEN own[k] ELSE default[k]]
    BY <1>1, <1>4, <2>1, Zenon DEF WithDefault
  <2>4. entry = DOMAIN own /\ d.lane[CHOOSE f \in fill : TRUE] = own
    BY <1>4, <2>1
  <2>5. GoogleBundle(d, fill) = bundle
    BY <1>2, <2>3, <2>4
  <2>6. QED
    BY <2>5
<1>5. QED
  BY <1>3, <1>4

-----------------------------------------------------------------------------
(* No group A value reaches a SIM unread.                                   *)

Item(c, f, r) == [key |-> c.key, value |-> c.value, profile |-> c.profile, family |-> f, verdict |-> r.verdict]

LEMMA ReadItemsAre ==
  ASSUME NEW candidates, NEW rs, NEW current, NEW unapplied, NEW i
  PROVE  i \in ReadItems(candidates, rs, current, unapplied) <=>
           \E c \in candidates : \E r \in ReadsOf(c, rs) :
             /\ Covers(r, c.profile, current, unapplied)
             /\ \E f \in c.families \intersect r.families : i = Item(c, f, r)
<1> DEFINE By(c, r) == {Item(c, f, r) : f \in c.families \intersect r.families}
           Covering(c) == {x \in ReadsOf(c, rs) : Covers(x, c.profile, current, unapplied)}
           For(c) == UNION {By(c, r) : r \in Covering(c)}
<1>1. ReadItems(candidates, rs, current, unapplied) = UNION {For(c) : c \in candidates}
  BY Zenon DEF ReadItems, Item
<1>2. \A c, r : i \in By(c, r) <=> \E f \in c.families \intersect r.families : i = Item(c, f, r)
  OBVIOUS
<1>3. \A c, r : r \in Covering(c) <=> r \in ReadsOf(c, rs) /\ Covers(r, c.profile, current, unapplied)
  OBVIOUS
<1> HIDE DEF By, Covering
<1>4. \A c : i \in For(c) <=> \E r \in Covering(c) : i \in By(c, r)
  OBVIOUS
<1> HIDE DEF For
<1>5. i \in UNION {For(c) : c \in candidates} <=> \E c \in candidates : i \in For(c)
  OBVIOUS
<1>6. QED
  BY <1>1, <1>2, <1>3, <1>4, <1>5, Zenon

(* What an item of a candidate says of it.                                  *)
LEMMA ItemIs ==
  ASSUME NEW c, NEW f, NEW r, NEW i, i = Item(c, f, r)
  PROVE  i.key = c.key /\ i.value = c.value /\ i.profile = c.profile /\ i.family = f /\ i.verdict = r.verdict
BY DEF Item

LEMMA ReachAre ==
  ASSUME NEW networks, NEW lane, NEW items, NEW net \in DOMAIN networks, NEW q \in networks[net],
         NEW proceeding, proceeding = {i \in items : i.verdict = "proceed"},
         NEW b \in ReachOf(networks[net], q, net, lane, proceeding)
  PROVE  b \in Reach(networks, lane, items)
<1> DEFINE some == {i \in items : i.verdict = "proceed"}
           From(n, p) == ReachOf(networks[n], p, n, lane, some)
           On(n) == UNION {From(n, p) : p \in networks[n]}
<1>1. Reach(networks, lane, items) = UNION {On(n) : n \in DOMAIN networks}
  BY Zenon DEF Reach
<1>2. b \in On(net)
  <2> HIDE DEF From, some
  <2>1. b \in From(net, q)
    BY DEF From, some
  <2>2. QED
    BY <2>1
<1> HIDE DEF On
<1>3. QED
  BY <1>1, <1>2

(* The profile whose value a candidate of a network's profile has.          *)
LEMMA CandidateHere ==
  ASSUME NEW networks, NEW net \in DOMAIN networks, NEW top \in networks[net], NEW lane, NEW keys,
         NEW stack, stack = ProfileStack(networks[net], top, net),
         NEW key \in CarriedKeys(stack, keys), NEW owner, owner = CarrierOf(stack, key),
         NEW v \in FillVariants(top, lane), ~ States(v.bundle, key, owner.values[key])
  PROVE  [key |-> key, value |-> owner.values[key], profile |-> owner.id,
          families |-> FamiliesOf(owner, key)] \in Candidates(networks, lane, keys)
<1> DEFINE differs == {k \in CarriedKeys(stack, keys) :
                         \E x \in FillVariants(top, lane) :
                           ~ States(x.bundle, k, CarrierOf(stack, k).values[k])}
           Of(k) == [key |-> k, value |-> CarrierOf(stack, k).values[k],
                     profile |-> CarrierOf(stack, k).id, families |-> FamiliesOf(CarrierOf(stack, k), k)]
<1>1. CandidatesOf(networks[net], top, net, lane, keys) = {Of(k) : k \in differs}
  BY Zenon DEF CandidatesOf
<1>2. key \in differs
  OBVIOUS
<1> HIDE DEF differs
<1>3. Of(key) \in CandidatesOf(networks[net], top, net, lane, keys)
  BY <1>1, <1>2
<1>4. Of(key) \in Candidates(networks, lane, keys)
  BY <1>3, CandidatesAre
<1>5. QED
  BY <1>4

(* The bundle of a network's profile on which an item acts.                 *)
LEMMA ReachHere ==
  ASSUME NEW profiles, NEW top, NEW net, NEW lane, NEW items,
         NEW stack, stack = ProfileStack(profiles, top, net),
         NEW keys, NEW key \in CarriedKeys(stack, keys), NEW owner, owner = CarrierOf(stack, key),
         NEW i \in items, i.key = key, i.profile = owner.id, i.value = owner.values[key],
         i.family \in FamiliesOf(owner, key),
         NEW v \in FillVariants(top, lane), ~ States(v.bundle, key, owner.values[key])
  PROVE  \E b \in ReachOf(profiles, top, net, lane, items) :
           b.key = key /\ b.owner = owner.id /\ b.net = net /\ b.profile = top.id /\ b.entry = v.entry
<1> DEFINE there == ProfileStack(profiles, top, net)
           acting == {k \in CarriedKeys(there, {j.key : j \in items}) :
                        \E j \in items :
                          /\ j.key = k
                          /\ j.profile = CarrierOf(there, k).id
                          /\ j.value = CarrierOf(there, k).values[k]
                          /\ j.family \in FamiliesOf(CarrierOf(there, k), k)}
           Bundle(k, x) == [key |-> k, value |-> CarrierOf(there, k).values[k], owner |-> CarrierOf(there, k).id,
                            net |-> net, profile |-> top.id, entry |-> x.entry,
                            class |-> BundleClass(k, x.entry, lane),
                            fill |-> IF x.entry \in OwnEntries(CarrierOf(there, k)) THEN "own" ELSE "another_entry"]
           Apart(k) == {x \in FillVariants(top, lane) : ~ States(x.bundle, k, CarrierOf(there, k).values[k])}
           By(k) == {Bundle(k, x) : x \in Apart(k)}
<1>1. ReachOf(profiles, top, net, lane, items) = UNION {By(k) : k \in acting}
  BY Zenon DEF ReachOf
<1>2. there = stack /\ CarrierOf(there, key) = owner
  OBVIOUS
<1> HIDE DEF there
<1>3. key \in acting
  <2>1. key \in CarriedKeys(there, {j.key : j \in items})
    BY <1>2 DEF CarriedKeys
  <2>2. QED
    BY <1>2, <2>1
<1>4. v \in Apart(key)
  BY <1>2
<1> HIDE DEF acting, Apart
<1>5. Bundle(key, v) \in By(key)
  BY <1>4
<1>6. By(key) \in {By(k) : k \in acting}
  BY <1>3
<1> HIDE DEF By
<1>7. Bundle(key, v) \in ReachOf(profiles, top, net, lane, items)
  BY <1>1, <1>5, <1>6
<1>8. PICK class, filled, value :
        /\ class = BundleClass(key, v.entry, lane)
        /\ filled = (IF v.entry \in OwnEntries(owner) THEN "own" ELSE "another_entry")
        /\ value = owner.values[key]
  OBVIOUS
<1>9. Bundle(key, v) = [key |-> key, value |-> value, owner |-> owner.id, net |-> net, profile |-> top.id,
                        entry |-> v.entry, class |-> class, fill |-> filled]
  BY <1>2, <1>8
<1> HIDE DEF Bundle
<1>10. /\ Bundle(key, v).key = key /\ Bundle(key, v).owner = owner.id /\ Bundle(key, v).net = net
       /\ Bundle(key, v).profile = top.id /\ Bundle(key, v).entry = v.entry
  BY <1>9
<1>11. QED
  BY <1>7, <1>10

(* The fill list of a network's profile is given by positions in the file.  *)
LEMMA FillPositions ==
  ASSUME NEW s, TreeOK(s), NEW net \in DOMAIN NetworksIn(s), NEW q \in NetworksIn(s)[net]
  PROVE  DOMAIN q.fill \subseteq Nat
<1>1. PICK p \in Everyone(s) : OnNetwork(q, p, s.rules, net)
  BY NetworksAre
<1>2. PICK rules : rules = RulesOn(s.rules, net)
  OBVIOUS
<1>3. DOMAIN rules \subseteq DOMAIN s.rules /\ DOMAIN s.rules \subseteq Nat
  BY <1>2 DEF RulesOn, Restrict, TreeOK
<1>4. q.fill = ComputeFill(p, rules)
  BY <1>1, <1>2 DEF OnNetwork
<1>5. QED
  BY <1>3, <1>4, FillIs

(* A value that neither waits nor left group A: reads of it speak for every *)
(* family behind it, and none lets a flagged value through.                *)
LEMMA ReadOfCandidate ==
  ASSUME Inv, NEW d \in dataset, NEW rs \in SUBSET reads, d = Generated(d.tree, rs),
         NEW owner, NEW key, NEW c \in Waiting(d.tree, rs),
         c.key = key, c.value = owner.values[key], c.profile = owner.id,
         c.families = FamiliesOf(owner, key),
         NEW p \in d.tree.profiles, owner.id = p.id, owner.match = p.match
  PROVE  Accounted(d, owner, key)
<1> DEFINE current == MatchSets(d.tree.profiles)
           unapplied == d.tree.unapplied
<1>1. /\ d.items = ReadItems(Waiting(d.tree, rs), rs, current, unapplied)
      /\ d.unrecorded = Unrecorded(Waiting(d.tree, rs), rs, current, unapplied)
      /\ d.pending = Pending(Waiting(d.tree, rs), rs, current, unapplied)
      /\ d.left = LeftGroupA(rs)
  BY GeneratedIs
<1>2. current[owner.id] = owner.match
  <2>1. (CHOOSE q \in d.tree.profiles : q.id = p.id) = p
    BY DEF Inv, DatasetInv, TreeHere, TreeOK
  <2>2. current[p.id] = (CHOOSE q \in d.tree.profiles : q.id = p.id).match
    BY DEF MatchSets
  <2>3. QED
    BY <2>1, <2>2
<1> HIDE DEF current
<1>3. CASE key \in d.left \/ c \in d.pending \union d.unrecorded
  BY <1>3 DEF Accounted
<1>4. CASE key \notin d.left /\ c \notin d.pending /\ c \notin d.unrecorded
  <2>1. PICK r \in ReadsOf(c, rs) : Covers(r, c.profile, current, unapplied) /\ c.families \subseteq r.families
    BY <1>1, <1>4 DEF Pending
  <2>2. c.families # {}
    BY <1>1, <1>4, <2>1 DEF Unrecorded
  <2>3. r \in reads /\ r.subject = "value" /\ r.key = key /\ r.value = owner.values[key]
    BY <2>1 DEF ReadsOf
  <2>4. /\ owner.id \in r.profiles /\ (r.verdict = "proceed" => <<owner.id, key>> \notin d.tree.unapplied)
        /\ owner.id \in DOMAIN r.hashes => current[owner.id] = r.hashes[owner.id]
    BY <2>1, <2>3 DEF Covers, UnderCurrentMatchSet
  <2>5. owner.id \in DOMAIN r.hashes /\ r.hashes[owner.id] = owner.match
    BY <1>2, <2>3, <2>4 DEF Inv, ReadsInv
  <2>6. ASSUME NEW f \in FamiliesOf(owner, key)
        PROVE  \E i \in ItemsOf(d, owner, key), x \in reads :
                 /\ i.family = f /\ x.verdict = i.verdict
                 /\ x.key = key /\ x.value = owner.values[key] /\ f \in x.families
                 /\ owner.id \in DOMAIN x.hashes /\ x.hashes[owner.id] = owner.match
                 /\ x.verdict = "proceed" => <<owner.id, key>> \notin d.tree.unapplied
    <3>1. PICK i : i = Item(c, f, r)
      OBVIOUS
    <3>2. i \in d.items
      <4>1. f \in c.families \intersect r.families
        BY <2>1
      <4>2. QED
        BY <1>1, <2>1, <3>1, <4>1, ReadItemsAre
    <3>3. i.key = key /\ i.value = owner.values[key] /\ i.profile = owner.id /\ i.family = f
          /\ i.verdict = r.verdict
      BY <3>1, ItemIs
    <3>4. i \in ItemsOf(d, owner, key)
      BY <3>2, <3>3 DEF ItemsOf
    <3>5. f \in r.families
      BY <2>1
    <3>6. QED
      BY <2>3, <2>4, <2>5, <3>3, <3>4, <3>5
  <2>7. QED
    BY <2>2, <2>6 DEF Accounted
<1>5. QED
  BY <1>3, <1>4

LEMMA DifferenceIsRead == Inv => EveryDifferenceIsRead
<1> SUFFICES ASSUME Inv, NEW d \in dataset, NEW s \in served, NEW net, net = NetOf(s.sim),
                    NEW top, top = Last(s.stack),
                    NEW fill, fill = PickFill(top.fill, s.sim, DOMAIN d.lane),
                    s.stack # <<>>, s.stack = ProfileStack(d.networks[net], top, net),
                    NEW key \in CarriedKeys(s.stack, Keys),
                    NEW owner, owner = CarrierOf(s.stack, key),
                    ~ States(GoogleBundle(d, fill), key, owner.values[key])
             PROVE  /\ Accounted(d, owner, key)
                    /\ (\E i \in ItemsOf(d, owner, key) : i.verdict = "proceed") =>
                         Shown(d, s.stack, net, fill, key)
  BY Zenon DEF EveryDifferenceIsRead
<1>1. PICK profiles : profiles = ProfilesFor(d, net)
  OBVIOUS
<1>2. /\ TreeHere(d.tree) /\ d.networks = NetworksIn(d.tree) /\ d.lane = d.tree.lane
      /\ Distinct(profiles) /\ Stacked(s.stack, Holding(profiles, s.sim), net)
      /\ net \in DOMAIN d.networks /\ profiles = d.networks[net]
  BY <1>1, ServedIs
<1>3. TreeOK(d.tree)
  BY <1>2 DEF TreeHere
<1>4. PICK rs \in SUBSET reads : d = Generated(d.tree, rs)
  BY DEF Inv, DatasetInv
<1>5. s.stack \in Seq(profiles) /\ Len(s.stack) \in Nat /\ DOMAIN s.stack = 1..Len(s.stack)
      /\ \A i \in DOMAIN s.stack : s.stack[i] \in profiles
  <2>1. Holding(profiles, s.sim) \in SUBSET profiles
    BY DEF Holding
  <2>2. QED
    BY <1>2, <2>1 DEF Stacked
<1>6. top \in profiles
  BY <1>5 DEF Last
<1>7. owner \in profiles /\ key \in DOMAIN owner.values
  BY <1>5, CarrierIs
<1>8. PICK p \in d.tree.profiles : owner.id = p.id /\ owner.match = p.match
                                   /\ owner.values = p.values /\ owner.sources = p.sources
  BY <1>2, <1>3, <1>7, StatingIsPublished
<1>9. PICK v \in FillVariants(top, d.lane) : v.entry = fill /\ ~ States(v.bundle, key, owner.values[key])
  <2>1. DOMAIN top.fill \subseteq Nat
    BY <1>2, <1>3, <1>6, FillPositions
  <2>2. PICK bundle :
          /\ [entry |-> fill, bundle |-> bundle] \in FillVariants(top, d.lane)
          /\ \/ fill = {} /\ bundle = DefaultOf(d.lane)
             \/ \E e \in DOMAIN d.lane : fill = {e} /\ bundle = WithDefault(d.lane, e)
    <3>1. \/ /\ fill = {}
             /\ [entry |-> fill, bundle |-> DefaultOf(d.lane)] \in FillVariants(top, d.lane)
          \/ \E e \in DOMAIN d.lane :
               /\ fill = {e}
               /\ [entry |-> fill, bundle |-> WithDefault(d.lane, e)] \in FillVariants(top, d.lane)
      BY <2>1, PickIsVariant
    <3>2. QED
      BY <3>1, Zenon
  <2>3. ~ States(bundle, key, owner.values[key])
    BY <2>2, VariantStates
  <2>4. QED
    BY <2>2, <2>3
<1>10. Accounted(d, owner, key)
  <2>1. CASE key \notin GroupAKeys(rs)
    <3>1. key \in LeftGroupA(rs)
      BY <2>1 DEF GroupAKeys, Keys, CarriedKeys
    <3>2. d.left = LeftGroupA(rs)
      BY <1>4, GeneratedIs
    <3>3. QED
      BY <3>1, <3>2 DEF Accounted
  <2>2. CASE key \in GroupAKeys(rs)
    <3>1. key \in CarriedKeys(s.stack, GroupAKeys(rs))
      BY <2>2 DEF CarriedKeys
    <3>2. PICK c : c = [key |-> key, value |-> owner.values[key], profile |-> owner.id,
                        families |-> FamiliesOf(owner, key)]
      OBVIOUS
    <3>3. c \in Waiting(d.tree, rs)
      BY <1>2, <1>6, <1>9, <3>1, <3>2, CandidateHere DEF Waiting
    <3>4. c.key = key /\ c.value = owner.values[key] /\ c.profile = owner.id
          /\ c.families = FamiliesOf(owner, key)
      BY <3>2
    <3>5. QED
      BY <1>4, <1>8, <3>3, <3>4, ReadOfCandidate
  <2>3. QED
    BY <2>1, <2>2
<1>11. ASSUME NEW i \in ItemsOf(d, owner, key), i.verdict = "proceed"
       PROVE  Shown(d, s.stack, net, fill, key)
  <2>1. i \in d.items /\ i.key = key /\ i.value = owner.values[key] /\ i.profile = owner.id
    BY DEF ItemsOf
  <2>2. i.family \in FamiliesOf(owner, key)
    <3>1. d.items = ReadItems(Waiting(d.tree, rs), rs, MatchSets(d.tree.profiles), d.tree.unapplied)
      BY <1>4, GeneratedIs
    <3>2. PICK c \in Waiting(d.tree, rs) : \E r, f : f \in c.families /\ i = Item(c, f, r)
      BY <2>1, <3>1, ReadItemsAre
    <3>3. i.profile = c.profile /\ i.key = c.key /\ i.family \in c.families
      BY <3>2, ItemIs
    <3>4. PICK o \in d.tree.profiles : OfProfile(c, o)
      BY <1>3, CandidateIs
    <3>5. o = p
      <4>1. o.id = p.id
        BY <1>8, <2>1, <3>3, <3>4 DEF OfProfile
      <4>2. \A x, y \in d.tree.profiles : x.id = y.id => x = y
        BY <1>3 DEF TreeOK
      <4>3. QED
        BY <4>1, <4>2
    <3>6. FamiliesOf(p, key) = FamiliesOf(owner, key)
      BY <1>8 DEF FamiliesOf
    <3>7. QED
      BY <2>1, <3>3, <3>4, <3>5, <3>6 DEF OfProfile
  <2>3. PICK proceeding : proceeding = {j \in d.items : j.verdict = "proceed"}
    OBVIOUS
  <2>4. i \in proceeding
    BY <1>11, <2>1, <2>3
  <2>5. PICK b \in ReachOf(d.networks[net], top, net, d.lane, proceeding) :
          b.key = key /\ b.owner = owner.id /\ b.net = net /\ b.profile = top.id /\ b.entry = fill
    BY <1>9, <2>1, <2>2, <2>4, ReachHere
  <2>6. b \in Reach(d.networks, d.lane, d.items)
    BY <1>2, <1>6, <2>3, <2>5, ReachAre
  <2>7. QED
    BY <2>5, <2>6 DEF Shown
<1>12. QED
  BY <1>10, <1>11

(* No group A value that differs from a SIM's Google bundle reaches the SIM *)
(* unread, whatever is revised, flagged, read and generated in between.     *)
THEOREM NoValueUnread == Spec => []EveryDifferenceIsRead
<1>1. QED
  BY Invariance, DifferenceIsRead, PTL

-----------------------------------------------------------------------------
(* Texts, position by position.                                             *)

LEMMA TextIs ==
  ASSUME NEW s \in Seq(Chars)
  PROVE  /\ Len(s) \in Nat /\ DOMAIN s = 1..Len(s)
         /\ \A i \in 1..Len(s) : s[i] \in Chars
OBVIOUS

LEMMA PrefixIs ==
  ASSUME NEW s \in Seq(Chars), NEW t \in Seq(Chars)
  PROVE  IsPrefix(s, t) <=> Len(s) <= Len(t) /\ \A i \in 1..Len(s) : s[i] = t[i]
<1>1. SUFFICES ASSUME Len(s) <= Len(t)
               PROVE  SubSeq(s, 1, Len(s)) = SubSeq(t, 1, Len(s)) <=> \A i \in 1..Len(s) : s[i] = t[i]
  BY DEF IsPrefix
<1>2. /\ SubSeq(s, 1, Len(s)) = [i \in 1..Len(s) |-> s[i]]
      /\ SubSeq(t, 1, Len(s)) = [i \in 1..Len(s) |-> t[i]]
  BY <1>1
<1>3. QED
  BY <1>2

LEMMA StartsIs ==
  ASSUME NEW s \in Seq(Chars), NEW t \in Seq(Chars)
  PROVE  JavaStartsWithIgnoreCase(t, s) <=>
           Len(s) <= Len(t) /\ \A i \in 1..Len(s) : JavaFold[t[i]] = JavaFold[s[i]]
<1>1. SUFFICES ASSUME Len(s) <= Len(t)
               PROVE  JavaEqualsIgnoreCase(SubSeq(t, 1, Len(s)), s)
                        <=> \A i \in 1..Len(s) : JavaFold[t[i]] = JavaFold[s[i]]
  BY TextIs DEF JavaStartsWithIgnoreCase
<1>2. PICK u : u = SubSeq(t, 1, Len(s))
  OBVIOUS
<1>3. u \in Seq(Chars) /\ Len(u) = Len(s) /\ \A i \in 1..Len(s) : u[i] = t[i]
  BY <1>1, <1>2
<1>4. DOMAIN u = 1..Len(s)
  BY <1>3
<1>5. QED
  BY <1>2, <1>3, <1>4 DEF JavaEqualsIgnoreCase

LEMMA EqualIs ==
  ASSUME NEW s \in Seq(Chars), NEW t \in Seq(Chars)
  PROVE  JavaEqualsIgnoreCase(s, t) <=>
           Len(s) = Len(t) /\ \A i \in 1..Len(s) : JavaFold[s[i]] = JavaFold[t[i]]
BY TextIs DEF JavaEqualsIgnoreCase

LEMMA FoldedIs ==
  ASSUME NEW s \in Seq(Chars), NEW f, f = Lookup!Folded(s)
  PROVE  f \in Seq(Chars) /\ Len(f) = Len(s) /\ \A i \in 1..Len(s) : f[i] = Fold[s[i]]
<1>1. f = [i \in 1..Len(s) |-> Fold[s[i]]]
  BY TextIs DEF Lookup!Folded
<1>2. \A i \in 1..Len(s) : Fold[s[i]] \in Chars
  BY TextIs, TextAssumption
<1>3. Len(s) \in Nat
  OBVIOUS
<1>4. f \in Seq(Chars)
  BY <1>1, <1>2, <1>3, SeqDef
<1>5. QED
  BY <1>1, <1>3, <1>4

-----------------------------------------------------------------------------
(* Where casefold and Java compare alike.                                   *)

Plain(text) == \A i \in DOMAIN text : text[i] \notin FoldedApart

LEMMA FoldsAgree ==
  ASSUME NEW c \in Chars, NEW b \in Chars, c \notin FoldedApart
  PROVE  Fold[c] = Fold[b] <=> JavaFold[c] = JavaFold[b]
BY DEF FoldedApart

LEMMA PlainEqual ==
  ASSUME NEW s \in Seq(Chars), NEW t \in Seq(Chars), Plain(s)
  PROVE  /\ JavaEqualsIgnoreCase(s, t) <=> Lookup!Folded(s) = Lookup!Folded(t)
         /\ JavaEqualsIgnoreCase(t, s) <=> Lookup!Folded(t) = Lookup!Folded(s)
<1>1. PICK f, g : f = Lookup!Folded(s) /\ g = Lookup!Folded(t)
  OBVIOUS
<1>2. /\ f \in Seq(Chars) /\ Len(f) = Len(s) /\ \A i \in 1..Len(s) : f[i] = Fold[s[i]]
      /\ g \in Seq(Chars) /\ Len(g) = Len(t) /\ \A i \in 1..Len(t) : g[i] = Fold[t[i]]
  BY <1>1, FoldedIs
<1>3. f = g <=> Len(f) = Len(g) /\ \A i \in 1..Len(f) : f[i] = g[i]
  <2>1. f = [i \in 1..Len(f) |-> f[i]] /\ g = [i \in 1..Len(g) |-> g[i]]
    BY <1>2
  <2>2. ASSUME Len(f) = Len(g), \A i \in 1..Len(f) : f[i] = g[i]
        PROVE  f = g
    <3>1. [i \in 1..Len(f) |-> f[i]] = [i \in 1..Len(g) |-> g[i]]
      BY <2>2
    <3>2. QED
      BY <2>1, <3>1
  <2>3. QED
    BY <2>2
<1>4. \A i \in 1..Len(s) : i \in 1..Len(t) => (Fold[s[i]] = Fold[t[i]] <=> JavaFold[s[i]] = JavaFold[t[i]])
  BY TextIs, FoldsAgree DEF Plain
<1>5. f = g <=> Len(s) = Len(t) /\ \A i \in 1..Len(s) : JavaFold[s[i]] = JavaFold[t[i]]
  BY <1>2, <1>3, <1>4
<1>6. Len(s) = Len(t) => ((\A i \in 1..Len(s) : JavaFold[s[i]] = JavaFold[t[i]])
                           <=> (\A i \in 1..Len(t) : JavaFold[t[i]] = JavaFold[s[i]]))
  OBVIOUS
<1>7. QED
  BY <1>1, <1>5, <1>6, EqualIs

LEMMA PlainStarts ==
  ASSUME NEW s \in Seq(Chars), NEW t \in Seq(Chars), Plain(t)
  PROVE  JavaStartsWithIgnoreCase(t, s) <=> Lookup!IsPrefix(Lookup!Folded(s), Lookup!Folded(t))
<1>1. PICK f, g : f = Lookup!Folded(s) /\ g = Lookup!Folded(t)
  OBVIOUS
<1>2. /\ f \in Seq(Chars) /\ Len(f) = Len(s) /\ \A i \in 1..Len(s) : f[i] = Fold[s[i]]
      /\ g \in Seq(Chars) /\ Len(g) = Len(t) /\ \A i \in 1..Len(t) : g[i] = Fold[t[i]]
  BY <1>1, FoldedIs
<1>3. Lookup!IsPrefix(f, g) <=> Len(f) <= Len(g) /\ \A i \in 1..Len(f) : f[i] = g[i]
  BY <1>2, PrefixIs DEF Lookup!IsPrefix, IsPrefix
<1>4. ASSUME Len(s) <= Len(t), NEW i \in 1..Len(s)
      PROVE  Fold[s[i]] = Fold[t[i]] <=> JavaFold[t[i]] = JavaFold[s[i]]
  <2>1. i \in 1..Len(t) /\ s[i] \in Chars /\ t[i] \in Chars /\ t[i] \notin FoldedApart
    BY <1>4, TextIs DEF Plain
  <2>2. QED
    BY <2>1, FoldsAgree
<1>5. Len(s) <= Len(t) => \A i \in 1..Len(s) : f[i] = Fold[s[i]] /\ g[i] = Fold[t[i]]
  BY <1>2
<1>6. Len(f) = Len(s) /\ Len(g) = Len(t)
  BY <1>2
<1>7. CASE Len(s) <= Len(t)
  <2>1. (\A i \in 1..Len(s) : f[i] = g[i]) <=> \A i \in 1..Len(s) : JavaFold[t[i]] = JavaFold[s[i]]
    BY <1>4, <1>5, <1>7
  <2>2. Lookup!IsPrefix(f, g) <=> \A i \in 1..Len(s) : f[i] = g[i]
    BY <1>3, <1>6, <1>7
  <2>3. JavaStartsWithIgnoreCase(t, s) <=> \A i \in 1..Len(s) : JavaFold[t[i]] = JavaFold[s[i]]
    BY <1>7, StartsIs
  <2>4. QED
    BY <1>1, <2>1, <2>2, <2>3
<1>8. CASE ~(Len(s) <= Len(t))
  <2>1. ~Lookup!IsPrefix(f, g)
    BY <1>3, <1>6, <1>8
  <2>2. ~JavaStartsWithIgnoreCase(t, s)
    BY <1>8, StartsIs
  <2>3. QED
    BY <1>1, <2>1, <2>2
<1>9. QED
  BY <1>7, <1>8

LEMMA CaselessStarts ==
  ASSUME NEW s \in Seq(Caseless), NEW t \in Seq(Chars)
  PROVE  IsPrefix(s, t) <=> Lookup!IsPrefix(Lookup!Folded(s), Lookup!Folded(t))
<1>1. PICK f, g : f = Lookup!Folded(s) /\ g = Lookup!Folded(t)
  OBVIOUS
<1>2. s \in Seq(Chars) /\ \A i \in 1..Len(s) : s[i] \in Caseless
  BY DEF Caseless
<1>3. /\ f \in Seq(Chars) /\ Len(f) = Len(s) /\ \A i \in 1..Len(s) : f[i] = Fold[s[i]]
      /\ g \in Seq(Chars) /\ Len(g) = Len(t) /\ \A i \in 1..Len(t) : g[i] = Fold[t[i]]
  BY <1>1, <1>2, FoldedIs
<1>4. Lookup!IsPrefix(f, g) <=> Len(f) <= Len(g) /\ \A i \in 1..Len(f) : f[i] = g[i]
  BY <1>3, PrefixIs DEF Lookup!IsPrefix, IsPrefix
<1>5. ASSUME Len(s) <= Len(t), NEW i \in 1..Len(s)
      PROVE  Fold[s[i]] = Fold[t[i]] <=> s[i] = t[i]
  <2>1. i \in 1..Len(t) /\ t[i] \in Chars
    BY <1>2, <1>5, TextIs
  <2>2. QED
    BY <1>2, <2>1 DEF Caseless
<1>6. Len(s) <= Len(t) => \A i \in 1..Len(s) : f[i] = Fold[s[i]] /\ g[i] = Fold[t[i]]
  BY <1>2, <1>3, TextIs
<1>7. QED
  BY <1>1, <1>2, <1>3, <1>4, <1>5, <1>6, PrefixIs

LEMMA ImsiAlike ==
  ASSUME NEW pattern \in Seq(Chars), NEW imsi
  PROVE  Lookup!ImsiPatternMatches(pattern, imsi) <=> ImsiPatternMatches(pattern, imsi)
<1>1. \A i \in DOMAIN pattern : Fold[pattern[i]] = Wildcard <=> pattern[i] \in Wildcards
  BY TextIs, TextAssumption
<1>2. QED
  BY <1>1 DEF Lookup!ImsiPatternMatches, ImsiPatternMatches

(* One value of a match against one SIM.                                    *)
LEMMA ValueAlike ==
  ASSUME NEW sim, IsSim(sim), PlainTexts(sim),
         NEW d \in TextDimensions, NEW value, IsSelector(d, value)
  PROVE  Lookup!ValueMatches(d, value, sim) <=> \E text \in sim[d] : TextHolds(d, value, text)
<1>1. value \in Seq(Chars)
  BY DEF IsSelector
<1>2. \A text \in sim[d] : text \in Seq(Chars) /\ Plain(text)
  <2>1. sim[d] \subseteq Seq(Chars)
    BY DEF IsSim
  <2>2. \A text \in sim[d] : {text[i] : i \in DOMAIN text} \intersect FoldedApart = {}
    BY DEF PlainTexts
  <2>3. QED
    BY <2>1, <2>2 DEF Plain
<1>3. CASE d = "spn"
  <2>1. Lookup!ValueMatches(d, value, sim) <=> \E text \in sim[d] : Lookup!Folded(text) = Lookup!Folded(value)
    BY <1>3 DEF Lookup!ValueMatches, Lookup!PrefixKeys
  <2>2. \A text \in sim[d] : TextHolds(d, value, text) <=> JavaEqualsIgnoreCase(text, value)
    BY <1>3 DEF TextHolds
  <2>3. QED
    BY <1>1, <1>2, <2>1, <2>2, PlainEqual
<1>4. CASE d \in {"gid1_prefixes", "gid2_prefixes"}
  <2>1. Lookup!ValueMatches(d, value, sim)
          <=> \E text \in sim[d] : Lookup!IsPrefix(Lookup!Folded(value), Lookup!Folded(text))
    BY <1>4 DEF Lookup!ValueMatches, Lookup!PrefixKeys
  <2>2. \A text \in sim[d] : TextHolds(d, value, text) <=> JavaStartsWithIgnoreCase(text, value)
    BY <1>4 DEF TextHolds
  <2>3. QED
    BY <1>1, <1>2, <2>1, <2>2, PlainStarts
<1>5. CASE d = "iccid_prefixes"
  <2>1. Lookup!ValueMatches(d, value, sim)
          <=> \E text \in sim[d] : Lookup!IsPrefix(Lookup!Folded(value), Lookup!Folded(text))
    BY <1>5 DEF Lookup!ValueMatches, Lookup!PrefixKeys
  <2>2. \A text \in sim[d] : TextHolds(d, value, text) <=> IsPrefix(value, text)
    BY <1>5 DEF TextHolds
  <2>3. value \in Seq(Caseless)
    BY <1>5 DEF IsSelector
  <2>4. QED
    BY <1>2, <2>1, <2>2, <2>3, CaselessStarts
<1>6. CASE d = "imsi_prefix_patterns"
  <2>1. Lookup!ValueMatches(d, value, sim)
          <=> \E text \in sim[d] : Lookup!ImsiPatternMatches(value, text)
    BY <1>6 DEF Lookup!ValueMatches, Lookup!PrefixKeys
  <2>2. \A text \in sim[d] : TextHolds(d, value, text) <=> ImsiPatternMatches(value, text)
    BY <1>6 DEF TextHolds
  <2>3. QED
    BY <1>1, <2>1, <2>2, ImsiAlike
<1>7. QED
  BY <1>3, <1>4, <1>5, <1>6 DEF TextDimensions, Dimensions

LEMMA HoldsAlike ==
  ASSUME NEW sim, IsSim(sim), PlainTexts(sim), NEW p, IsMatch(p.match)
  PROVE  Lookup!ProfileMatches(p.match, sim) <=> ProfileHolds(p, sim)
<1>1. PICK match : match = p.match
  OBVIOUS
<1>2. \A d \in TextDimensions :
        (\E value \in match[d] : Lookup!ValueMatches(d, value, sim)) <=> DimensionHolds(d, match[d], sim)
  <2>1. SUFFICES ASSUME NEW d \in TextDimensions
                 PROVE  (\E value \in match[d] : Lookup!ValueMatches(d, value, sim))
                          <=> DimensionHolds(d, match[d], sim)
    OBVIOUS
  <2>2. \A value \in match[d] : IsSelector(d, value)
    BY <1>1 DEF IsMatch
  <2>3. \A value \in match[d] :
          Lookup!ValueMatches(d, value, sim) <=> \E text \in sim[d] : TextHolds(d, value, text)
    BY <2>2, ValueAlike
  <2>4. DimensionHolds(d, match[d], sim)
          <=> \E text \in sim[d], value \in match[d] : TextHolds(d, value, text)
    BY DEF DimensionHolds, TextDimensions
  <2>5. QED
    BY <2>3, <2>4
<1>3. \A key \in {"mccmnc", "android_carrier_ids"} :
        (\E value \in match[key] : Lookup!ValueMatches(key, value, sim)) <=> sim[key] \intersect match[key] # {}
  BY DEF Lookup!ValueMatches, Lookup!PrefixKeys
<1>4. (\E value \in match["android_carrier_ids"] : Lookup!ValueMatches("android_carrier_ids", value, sim))
        <=> DimensionHolds("android_carrier_ids", match["android_carrier_ids"], sim)
  BY <1>3 DEF DimensionHolds
<1>5. \A d \in Dimensions :
        (\E value \in match[d] : Lookup!ValueMatches(d, value, sim)) <=> DimensionHolds(d, match[d], sim)
  BY <1>2, <1>4 DEF TextDimensions
<1>6. Lookup!MatchKeys = Dimensions \union {"mccmnc"}
  BY DEF Lookup!MatchKeys, Lookup!SelectorKeys, Lookup!PrefixKeys, Dimensions
<1>7. "mccmnc" \notin Dimensions
  BY DEF Dimensions
<1>8. Lookup!ProfileMatches(match, sim) <=>
        /\ \E value \in match["mccmnc"] : Lookup!ValueMatches("mccmnc", value, sim)
        /\ \A d \in Dimensions : match[d] = {} \/ \E value \in match[d] : Lookup!ValueMatches(d, value, sim)
  BY <1>6, <1>7 DEF Lookup!ProfileMatches
<1>9. Lookup!ProfileMatches(match, sim) <=>
        /\ sim["mccmnc"] \intersect match["mccmnc"] # {}
        /\ \A d \in Dimensions : match[d] = {} \/ DimensionHolds(d, match[d], sim)
  BY <1>3, <1>5, <1>8
<1>10. QED
  BY <1>1, <1>9 DEF ProfileHolds, Used

-----------------------------------------------------------------------------
(* The order, written twice.                                                *)

LEMMA MinAlike == \A S : Lookup!Min(S) = Min(S)
BY Zenon DEF Lookup!Min, Min

LEMMA WeighAlike == \A columns : Lookup!RuleWeight(columns) = Weigh(columns)
BY Zenon DEF Lookup!RuleWeight, Lookup!RuleWeights, Weigh, ColumnWeight

LEMMA RawAlike ==
  ASSUME NEW match
  PROVE  Lookup!RawColumns(match) =
           {"mccmnc"} \union {ColumnOf[d] : d \in Used(match) \intersect DOMAIN ColumnOf}
<1>1. Lookup!SelectorColumns = ColumnOf
  BY Zenon DEF Lookup!SelectorColumns, ColumnOf
<1>2. DOMAIN ColumnOf \subseteq Dimensions
  BY DEF ColumnOf, Dimensions
<1>3. {d \in DOMAIN ColumnOf : match[d] # {}} = Used(match) \intersect DOMAIN ColumnOf
  BY <1>2 DEF Used
<1>4. Lookup!RawColumns(match) =
        {"mccmnc"} \union {ColumnOf[d] : d \in {x \in DOMAIN ColumnOf : match[x] # {}}}
  BY <1>1 DEF Lookup!RawColumns
<1>5. QED
  BY <1>3, <1>4

LEMMA WeightAlike ==
  ASSUME NEW match, NEW net
  PROVE  Lookup!AndroidWeight(match, net) = AndroidWeight(match, net)
<1> DEFINE raw == {"mccmnc"} \union {ColumnOf[d] : d \in Used(match) \intersect DOMAIN ColumnOf}
           Of(id) == IF <<id, net>> \in DOMAIN AospRules THEN AospRules[<<id, net>>] ELSE {{"mccmnc"}}
           rules == UNION {Of(id) : id \in match.android_carrier_ids}
<1>1. AndroidWeight(match, net) =
        IF rules = {} THEN Weigh(raw) ELSE Min({Weigh(raw \union r) : r \in rules})
  BY Zenon DEF AndroidWeight
<1>2. Lookup!RawColumns(match) = raw
  BY RawAlike
<1>3. \A id : Lookup!RulesOf(id, net) = Of(id)
  BY Zenon DEF Lookup!RulesOf
<1>4. \A id : Of(id) # {}
  BY TextAssumption
<1> HIDE DEF raw, Of
<1>5. {Lookup!RulesOf(id, net) : id \in match.android_carrier_ids}
        = {Of(id) : id \in match.android_carrier_ids}
  BY <1>3
<1>6. rules = {} <=> match.android_carrier_ids = {}
  BY <1>4
<1>7. UNION {Lookup!RulesOf(id, net) : id \in match.android_carrier_ids} = rules
  BY <1>5
<1> HIDE DEF rules
<1>8. \A some : {Lookup!RuleWeight(raw \union r) : r \in some} = {Weigh(raw \union r) : r \in some}
  BY WeighAlike
<1>9. PICK rows : rows = UNION {Lookup!RulesOf(id, net) : id \in match.android_carrier_ids}
  OBVIOUS
<1>10. Lookup!AndroidWeight(match, net) =
         IF match.android_carrier_ids = {} THEN Lookup!RuleWeight(raw)
         ELSE Lookup!Min({Lookup!RuleWeight(raw \union r) : r \in
                            UNION {Lookup!RulesOf(id, net) : id \in match.android_carrier_ids}})
  BY <1>2 DEF Lookup!AndroidWeight
<1>11. QED
  BY <1>1, <1>6, <1>7, <1>8, <1>10, MinAlike, WeighAlike

LEMMA LengthAlike ==
  ASSUME NEW d \in TextDimensions, NEW value \in Seq(Chars)
  PROVE  Lookup!FixedLength(d, value) = FixedLength(d, value)
<1>1. {i \in DOMAIN value : Fold[value[i]] # Wildcard} = {i \in DOMAIN value : value[i] \notin Wildcards}
  BY TextIs, TextAssumption
<1>2. \A S : Lookup!Cardinality(S) = Cardinality(S)
  BY Zenon DEF Lookup!Cardinality, Cardinality
<1>3. QED
  BY <1>1, <1>2 DEF Lookup!FixedLength, FixedLength

LEMMA ShortestAlike ==
  ASSUME NEW d \in TextDimensions, NEW values \in SUBSET Seq(Chars)
  PROVE  Lookup!ShortestOf(d, values) = Shortest(d, values)
<1>1. {Lookup!FixedLength(d, v) : v \in values} = {FixedLength(d, v) : v \in values}
  BY LengthAlike
<1>2. QED
  BY <1>1, MinAlike DEF Lookup!ShortestOf, Shortest

LEMMA CountAlike == \A match : Lookup!ListValueCount(match) = ValueCount(match)
BY Zenon DEF Lookup!ListValueCount, ValueCount, Lookup!Cardinality, Cardinality

LEMMA KeysAlike ==
  ASSUME NEW p, IsMatch(p.match), NEW net
  PROVE  Lookup!OrderKey(p, net) = ResolutionKey(p, net)
<1>1. PICK match : match = p.match
  OBVIOUS
<1>2. \A d \in {"imsi_prefix_patterns", "iccid_prefixes", "gid1_prefixes", "gid2_prefixes"} :
        Lookup!ShortestOf(d, match[d]) = Shortest(d, match[d])
  <2>1. {"imsi_prefix_patterns", "iccid_prefixes", "gid1_prefixes", "gid2_prefixes"} \subseteq TextDimensions
    BY DEF TextDimensions, Dimensions
  <2>2. \A d \in TextDimensions : match[d] \in SUBSET Seq(Chars)
    BY <1>1 DEF IsMatch, IsSelector
  <2>3. QED
    BY <2>1, <2>2, ShortestAlike
<1>3. PICK weight, imsi, iccid, gid1, gid2, count :
        /\ weight = AndroidWeight(match, net) /\ imsi = Shortest("imsi_prefix_patterns", match["imsi_prefix_patterns"])
        /\ iccid = Shortest("iccid_prefixes", match["iccid_prefixes"])
        /\ gid1 = Shortest("gid1_prefixes", match["gid1_prefixes"])
        /\ gid2 = Shortest("gid2_prefixes", match["gid2_prefixes"]) /\ count = 0 - ValueCount(match)
  OBVIOUS
<1>4. PICK ids, kind, nets :
        /\ ids = (IF match.android_carrier_ids # {} THEN 1 ELSE 0)
        /\ kind = (IF p.kind = "fill_only" THEN 0 ELSE 1)
        /\ nets = 0 - Cardinality(match.mccmnc)
  OBVIOUS
<1>5. ResolutionKey(p, net) = <<weight, ids, imsi, iccid, gid1, gid2, kind, count, nets, p.id>>
  BY <1>1, <1>3, <1>4 DEF ResolutionKey
<1>6. /\ Lookup!AndroidWeight(match, net) = weight
      /\ Lookup!ShortestOf("imsi_prefix_patterns", match["imsi_prefix_patterns"]) = imsi
      /\ Lookup!ShortestOf("iccid_prefixes", match["iccid_prefixes"]) = iccid
      /\ Lookup!ShortestOf("gid1_prefixes", match["gid1_prefixes"]) = gid1
      /\ Lookup!ShortestOf("gid2_prefixes", match["gid2_prefixes"]) = gid2
      /\ 0 - Lookup!ListValueCount(match) = count
      /\ 0 - Lookup!Cardinality(match.mccmnc) = nets
      /\ (IF match.android_carrier_ids = {} THEN 0 ELSE 1) = ids
  <2>1. \A S : Lookup!Cardinality(S) = Cardinality(S)
    BY Zenon DEF Lookup!Cardinality, Cardinality
  <2>2. QED
    BY <1>2, <1>3, <1>4, <2>1, WeightAlike, CountAlike
<1>7. Lookup!OrderKey(p, net) = <<weight, ids, imsi, iccid, gid1, gid2, kind, count, nets, p.id>>
  BY <1>1, <1>4, <1>6 DEF Lookup!OrderKey
<1>8. QED
  BY <1>5, <1>7

LEMMA SortedByIs ==
  ASSUME NEW S, NEW key
  PROVE  Lookup!SortedBy(key, S) = Sorted(S, key)
BY Zenon DEF Lookup!SortedBy, Sorted, Lookup!KeyLess, KeyBelow, Cardinality, Lookup!Cardinality

LEMMA StacksAlike ==
  ASSUME NEW profiles, Distinct(profiles), NEW sim, IsSim(sim), PlainTexts(sim), NEW net
  PROVE  /\ Lookup!Matching(profiles, sim) = Holding(profiles, sim)
         /\ Lookup!Resolve(profiles, sim, net) = ResolveStack(profiles, sim, net)
<1>1. Lookup!Matching(profiles, sim) = Holding(profiles, sim)
  BY HoldsAlike DEF Lookup!Matching, Holding, Distinct
<1>2. PICK matches : matches = Holding(profiles, sim)
  OBVIOUS
<1>3. Lookup!Resolve(profiles, sim, net) = Sorted(matches, Lookup!OrderKeys(matches, net))
  BY <1>1, <1>2, SortedByIs DEF Lookup!Resolve
<1>4. ASSUME NEW p \in matches
      PROVE  Lookup!OrderKeys(matches, net)[p.id] = ResolutionKeys(profiles, net)[p.id]
  <2>1. p \in profiles /\ matches \subseteq profiles
    BY <1>2 DEF Holding
  <2>2. (CHOOSE q \in matches : q.id = p.id) = p
    BY <2>1 DEF Distinct
  <2>3. Lookup!OrderKeys(matches, net)[p.id] = Lookup!OrderKey(CHOOSE q \in matches : q.id = p.id, net)
    BY DEF Lookup!OrderKeys
  <2>4. Lookup!OrderKey(p, net) = ResolutionKey(p, net)
    BY <2>1, KeysAlike DEF Distinct
  <2>5. QED
    BY <2>1, <2>2, <2>3, <2>4, DistinctKeys
<1>5. Sorted(matches, Lookup!OrderKeys(matches, net)) = Sorted(matches, ResolutionKeys(profiles, net))
  <2>1. PICK mine, theirs : mine = Lookup!OrderKeys(matches, net) /\ theirs = ResolutionKeys(profiles, net)
    OBVIOUS
  <2>2. \A p \in matches : mine[p.id] = theirs[p.id]
    BY <1>4, <2>1
  <2>3. Sorted(matches, mine) = Sorted(matches, theirs)
    BY <2>2, SortedAlike
  <2>4. QED
    BY <2>1, <2>3
<1>6. QED
  BY <1>1, <1>2, <1>3, <1>5 DEF ResolveStack

LEMMA CountsAlike ==
  ASSUME NEW matches, \A p, q \in matches : p.id = q.id => p = q
  PROVE  Lookup!SortedBy(Lookup!CountKeys(matches), matches) = CountStack(matches)
<1>1. \A match : Lookup!Dimensions(match) \intersect Lookup!SelectorKeys = Used(match)
  BY DEF Lookup!Dimensions, Lookup!SelectorKeys, Lookup!MatchKeys, Lookup!PrefixKeys, Used, Dimensions
<1>2. \A match : Lookup!Specificity(match) = Cardinality(Used(match))
  <2>1. \A S : Lookup!Cardinality(S) = Cardinality(S)
    BY Zenon DEF Lookup!Cardinality, Cardinality
  <2>2. QED
    BY <1>1, <2>1, Zenon DEF Lookup!Specificity
<1>3. \A p : Lookup!CountKey(p) = StackOrderKey(p)
  BY <1>2, Zenon DEF Lookup!CountKey, StackOrderKey
<1>4. PICK mine : mine = [id \in {p.id : p \in matches} |-> StackOrderKey(CHOOSE p \in matches : p.id = id)]
  OBVIOUS
<1>5. Lookup!CountKeys(matches) = mine
  BY <1>3, <1>4 DEF Lookup!CountKeys
<1>6. CountStack(matches) = Sorted(matches, mine)
  BY <1>4 DEF CountStack
<1>7. QED
  BY <1>5, <1>6, SortedByIs

LEMMA ReasonAlike ==
  ASSUME NEW some, NEW stack \in Seq(some), \A i \in DOMAIN stack : IsMatch(stack[i].match), NEW net
  PROVE  Lookup!ServingReason(stack, net) = ReasonServing(stack, net)
<1>0. Len(stack) \in Nat /\ DOMAIN stack = 1 .. Len(stack) /\ (stack = <<>> <=> Len(stack) = 0)
  OBVIOUS
<1>1. CASE stack = <<>>
  BY <1>0, <1>1 DEF Lookup!ServingReason, ReasonServing
<1>4a. CASE stack # <<>> /\ Len(stack) = 1
  BY <1>4a DEF Lookup!ServingReason, ReasonServing
<1>2. CASE stack # <<>> /\ Len(stack) # 1
  <2>1. Len(stack) - 1 \in DOMAIN stack /\ Len(stack) \in DOMAIN stack
    <3>1. PICK n \in Nat : n = Len(stack)
      BY <1>0
    <3>2. n # 0 /\ n # 1
      BY <1>0, <1>2, <3>1
    <3>3. n - 1 \in 1 .. n /\ n \in 1 .. n
      BY <3>2
    <3>4. QED
      BY <1>0, <3>1, <3>3
  <2>2. /\ Lookup!OrderKey(stack[Len(stack) - 1], net) = ResolutionKey(stack[Len(stack) - 1], net)
        /\ Lookup!OrderKey(stack[Len(stack)], net) = ResolutionKey(stack[Len(stack)], net)
    BY <2>1, KeysAlike
  <2>3. \A lower, upper : Lookup!DecidingStep(lower, upper) = StepBetween(lower, upper)
    BY Zenon DEF Lookup!DecidingStep, StepBetween, Lookup!OrderSteps, StepNames, Lookup!Min, Min
  <2>4. QED
    BY <1>2, <2>2, <2>3 DEF Lookup!ServingReason, ReasonServing, Lookup!Last, Last
<1>3. QED
  BY <1>1, <1>4a, <1>2

LEMMA OverlayAlike == \A stack : Lookup!Overlay(stack) = Overlaid(stack)
BY Zenon DEF Lookup!Overlay, Overlaid, Max, Lookup!Max

-----------------------------------------------------------------------------
(* The APN rows.                                                            *)

(* A row's selector is one value of one of its profile's selectors.         *)
RowText(selector, match) ==
  \/ selector[1] = "imsi" /\ selector[2] \in match["imsi_prefix_patterns"]
  \/ selector[1] = "spn" /\ selector[2] \in match["spn"]
  \/ selector[1] = "gid" /\ selector[2] \in match["gid1_prefixes"]
  \/ selector[1] = "iccid" /\ selector[2] \in match["iccid_prefixes"]

LEMMA MvnosAre ==
  ASSUME NEW match, NEW mvno \in ApnMvnos(match), NEW selector \in mvno
  PROVE  RowText(selector, match)
<1> DEFINE kinds == [imsi_prefix_patterns |-> "imsi", spn |-> "spn",
                     gid1_prefixes |-> "gid", iccid_prefixes |-> "iccid"]
           used == Used(match) \intersect DOMAIN kinds
<1>1. ~ (match.gid2_prefixes # {} \/ Cardinality(used) > 1) /\ used # {}
  BY DEF ApnMvnos
<1>2. ApnMvnos(match) = {{<<kinds[d], text>>} : d \in used, text \in UNION {match[d] : d \in used}}
  BY <1>1 DEF ApnMvnos
<1>3. DOMAIN kinds = {"imsi_prefix_patterns", "spn", "gid1_prefixes", "iccid_prefixes"}
  OBVIOUS
<1>4. IsFiniteSet(used)
  <2>1. IsFiniteSet({"imsi_prefix_patterns"}) /\ IsFiniteSet({"spn"}) /\ IsFiniteSet({"gid1_prefixes"})
        /\ IsFiniteSet({"iccid_prefixes"})
    BY FS_Singleton
  <2>2. IsFiniteSet({"imsi_prefix_patterns"} \union {"spn"}) /\ IsFiniteSet({"gid1_prefixes"} \union {"iccid_prefixes"})
    BY <2>1, FS_Union
  <2>3. IsFiniteSet(({"imsi_prefix_patterns"} \union {"spn"}) \union ({"gid1_prefixes"} \union {"iccid_prefixes"}))
    BY <2>2, FS_Union
  <2>4. used \in SUBSET (({"imsi_prefix_patterns"} \union {"spn"}) \union ({"gid1_prefixes"} \union {"iccid_prefixes"}))
    BY <1>3
  <2>5. QED
    BY <2>3, <2>4, FS_Subset
<1>5. PICK only : used = {only}
  <2>1. Cardinality(used) \in Nat /\ Cardinality(used) # 0
    BY <1>1, <1>4, FS_CardinalityType, FS_EmptySet
  <2>2. Cardinality(used) = 1
    BY <1>1, <2>1
  <2>3. QED
    BY <1>4, <2>2, FS_Singleton
<1>6. PICK text \in match[only] : selector = <<kinds[only], text>>
  <2> HIDE DEF kinds
  <2>1. PICK d \in used, text \in UNION {match[x] : x \in used} : mvno = {<<kinds[d], text>>}
    BY <1>2
  <2>2. d = only /\ text \in match[only]
    <3> HIDE DEF used
    <3>1. QED
      BY <1>5, <2>1
  <2>3. QED
    BY <2>1, <2>2
<1>7. only \in DOMAIN kinds
  BY <1>5
<1>8. /\ kinds["imsi_prefix_patterns"] = "imsi" /\ kinds["spn"] = "spn"
      /\ kinds["gid1_prefixes"] = "gid" /\ kinds["iccid_prefixes"] = "iccid"
  OBVIOUS
<1>9. selector[1] = kinds[only] /\ selector[2] = text
  BY <1>6
<1>10. only \in {"imsi_prefix_patterns", "spn", "gid1_prefixes", "iccid_prefixes"}
  BY <1>3, <1>7
<1> HIDE DEF kinds, used
<1>11. QED
  BY <1>6, <1>8, <1>9, <1>10 DEF RowText

LEMMA RowsAre ==
  ASSUME NEW profiles, NEW r \in IndexRows(profiles)
  PROVE  \E p \in profiles : r.net \in p.match.mccmnc /\ r.mvno \in ApnMvnos(p.match)
<1> DEFINE Written(p) == {[net |-> n, mvno |-> m, apn |-> a] :
                            n \in p.match.mccmnc, m \in ApnMvnos(p.match), a \in p.apns}
           Row(x) == [net |-> x.net, mvno |-> x.mvno, apn |-> x.apn,
                      owners |-> {p.id : p \in {q \in profiles : x \in Written(q)}}]
<1>1. IndexRows(profiles) = {Row(x) : x \in UNION {Written(p) : p \in profiles}}
  BY DEF IndexRows
<1>2. \A x : Row(x).net = x.net /\ Row(x).mvno = x.mvno
  OBVIOUS
<1>3. \A p \in profiles : \A x \in Written(p) : x.net \in p.match.mccmnc /\ x.mvno \in ApnMvnos(p.match)
  OBVIOUS
<1> HIDE DEF Written, Row
<1>4. PICK x \in UNION {Written(p) : p \in profiles} : r = Row(x)
  BY <1>1
<1>5. PICK p \in profiles : x \in Written(p)
  BY <1>4
<1>6. QED
  BY <1>2, <1>3, <1>4, <1>5

LEMMA SelectorAlike ==
  ASSUME NEW sim, IsSim(sim), PlainTexts(sim), NEW match, IsMatch(match),
         NEW selector, RowText(selector, match)
  PROVE  Lookup!MvnoRowMatches(selector, sim) <=> RowSelectorMatches(selector, sim)
<1>1. \A d \in TextDimensions : \A text \in sim[d] : text \in Seq(Chars) /\ Plain(text)
  <2>1. \A d \in TextDimensions : sim[d] \subseteq Seq(Chars)
    BY DEF IsSim
  <2>2. \A d \in TextDimensions : \A text \in sim[d] : {text[i] : i \in DOMAIN text} \intersect FoldedApart = {}
    BY DEF PlainTexts
  <2>3. QED
    BY <2>1, <2>2 DEF Plain
<1>2. \A d \in TextDimensions : \A text \in match[d] : text \in Seq(Chars)
  BY DEF IsMatch, IsSelector
<1>3. {"spn", "gid1_prefixes", "iccid_prefixes", "imsi_prefix_patterns"} \subseteq TextDimensions
  BY DEF TextDimensions, Dimensions
<1>4. CASE selector[1] = "imsi" /\ selector[2] \in match["imsi_prefix_patterns"]
  <2>1. Lookup!MvnoRowMatches(selector, sim)
          <=> \E f \in sim["imsi_prefix_patterns"] : Lookup!ImsiPatternMatches(selector[2], f)
    BY <1>4 DEF Lookup!MvnoRowMatches
  <2>2. RowSelectorMatches(selector, sim)
          <=> \E f \in sim["imsi_prefix_patterns"] : ImsiPatternMatches(selector[2], f)
    BY <1>4 DEF RowSelectorMatches
  <2>3. QED
    BY <1>2, <1>3, <1>4, <2>1, <2>2, ImsiAlike
<1>5. CASE selector[1] = "spn" /\ selector[2] \in match["spn"]
  <2>1. Lookup!MvnoRowMatches(selector, sim)
          <=> \E f \in sim["spn"] : Lookup!Folded(f) = Lookup!Folded(selector[2])
    BY <1>5 DEF Lookup!MvnoRowMatches
  <2>2. RowSelectorMatches(selector, sim) <=> \E f \in sim["spn"] : JavaEqualsIgnoreCase(f, selector[2])
    BY <1>5 DEF RowSelectorMatches
  <2>3. QED
    BY <1>1, <1>2, <1>3, <1>5, <2>1, <2>2, PlainEqual
<1>6. CASE selector[1] = "gid" /\ selector[2] \in match["gid1_prefixes"]
  <2>1. Lookup!MvnoRowMatches(selector, sim)
          <=> \E f \in sim["gid1_prefixes"] : Lookup!IsPrefix(Lookup!Folded(selector[2]), Lookup!Folded(f))
    BY <1>6 DEF Lookup!MvnoRowMatches
  <2>2. RowSelectorMatches(selector, sim)
          <=> \E f \in sim["gid1_prefixes"] : JavaStartsWithIgnoreCase(f, selector[2])
    BY <1>6 DEF RowSelectorMatches
  <2>3. QED
    BY <1>1, <1>2, <1>3, <1>6, <2>1, <2>2, PlainStarts
<1>7. CASE selector[1] = "iccid" /\ selector[2] \in match["iccid_prefixes"]
  <2>1. Lookup!MvnoRowMatches(selector, sim)
          <=> \E f \in sim["iccid_prefixes"] : IsPrefix(selector[2], f)
    BY <1>7 DEF Lookup!MvnoRowMatches, Lookup!IsPrefix, IsPrefix
  <2>2. RowSelectorMatches(selector, sim) <=> \E f \in sim["iccid_prefixes"] : IsPrefix(selector[2], f)
    BY <1>7 DEF RowSelectorMatches
  <2>3. QED
    BY <2>1, <2>2
<1>8. QED
  BY <1>4, <1>5, <1>6, <1>7 DEF RowText

LEMMA RowsAlike ==
  ASSUME NEW s, TreeOK(s), NEW sim, IsSim(sim), PlainTexts(sim), NEW net,
         NEW rows, rows = IndexRows(s.profiles)
  PROVE  Lookup!ExplainedRows(rows, sim, net) = ApnRows(rows, sim, net)
<1>1. \A r \in rows : \A selector \in r.mvno :
        Lookup!MvnoRowMatches(selector, sim) <=> RowSelectorMatches(selector, sim)
  <2>1. SUFFICES ASSUME NEW r \in rows, NEW selector \in r.mvno
                 PROVE  Lookup!MvnoRowMatches(selector, sim) <=> RowSelectorMatches(selector, sim)
    OBVIOUS
  <2>2. PICK p \in s.profiles : r.mvno \in ApnMvnos(p.match)
    BY RowsAre
  <2>3. IsMatch(p.match) /\ RowText(selector, p.match)
    BY <2>2, MvnosAre DEF TreeOK, IsProfile
  <2>4. QED
    BY <2>3, SelectorAlike
<1> DEFINE here == {r \in rows : r.net = net}
           mine == {r \in here : \E selector \in r.mvno : Lookup!MvnoRowMatches(selector, sim)}
           theirs == {r \in here : \E selector \in r.mvno : RowSelectorMatches(selector, sim)}
<1>2. mine = theirs
  BY <1>1
<1>3. Lookup!ExplainedRows(rows, sim, net) = IF mine # {} THEN mine ELSE {r \in here : r.mvno = {}}
  BY Zenon DEF Lookup!ExplainedRows
<1>4. ApnRows(rows, sim, net) = IF theirs # {} THEN theirs ELSE {r \in here : r.mvno = {}}
  BY Zenon DEF ApnRows
<1>5. QED
  BY <1>2, <1>3, <1>4

LEMMA OutcomeIs ==
  ASSUME NEW stack, NEW sim, NEW net, NEW rows, NEW entries, NEW o, o = Outcome(stack, sim, net, rows, entries)
  PROVE  o.values = Overlaid(stack) /\ o.coupling = Coupling(stack, sim, net, rows)
         /\ o.fill = IF stack = <<>> THEN {} ELSE PickFill(Last(stack).fill, sim, entries)
<1>1. PICK values, coupling, fill :
        /\ values = Overlaid(stack) /\ coupling = Coupling(stack, sim, net, rows)
        /\ fill = IF stack = <<>> THEN {} ELSE PickFill(Last(stack).fill, sim, entries)
  OBVIOUS
<1>2. o = [values |-> values, fill |-> fill, coupling |-> coupling]
  BY <1>1 DEF Outcome
<1>3. o.values = values /\ o.coupling = coupling /\ o.fill = fill
  BY <1>2
<1>4. QED
  BY <1>1, <1>3

LEMMA AgreeHolds == Inv => ResolversAgree
<1> SUFFICES ASSUME Inv, NEW d \in dataset, NEW s \in served, NEW net, net = NetOf(s.sim),
                    NEW profiles, profiles = ProfilesFor(d, net),
                    NEW stack, stack = Lookup!Resolve(profiles, s.sim, net), PlainTexts(s.sim)
             PROVE  /\ stack = s.stack
                    /\ Lookup!ResolveByCount(profiles, s.sim) = CountStack(ToSet(s.stack))
                    /\ Lookup!ServingReason(stack, net) = s.reason
                    /\ Lookup!Overlay(stack) = s.outcome.values
                    /\ Lookup!ExplainedRows(d.rows, s.sim, net) = ApnRows(d.rows, s.sim, net)
  BY Zenon DEF ResolversAgree
<1>1. /\ IsSim(s.sim) /\ s = ServedTo(d, s.sim) /\ TreeHere(d.tree) /\ Distinct(profiles)
      /\ Stacked(s.stack, Holding(profiles, s.sim), net) /\ ToSet(s.stack) = Holding(profiles, s.sim)
  BY ServedIs
<1>2. /\ s.stack = ResolveStack(profiles, s.sim, net) /\ s.reason = ReasonServing(s.stack, net)
      /\ s.outcome = Outcome(s.stack, s.sim, net, d.rows, DOMAIN d.lane)
  BY <1>1, ServedToIs
<1>3. stack = s.stack
  BY <1>1, <1>2, StacksAlike
<1>4. Lookup!ResolveByCount(profiles, s.sim) = CountStack(ToSet(s.stack))
  <2>1. PICK matches : matches = Holding(profiles, s.sim)
    OBVIOUS
  <2>2. Lookup!Matching(profiles, s.sim) = matches
    BY <1>1, <2>1, StacksAlike
  <2>3. \A p, q \in matches : p.id = q.id => p = q
    BY <1>1, <2>1 DEF Holding, Distinct
  <2>4. Lookup!ResolveByCount(profiles, s.sim) = Lookup!SortedBy(Lookup!CountKeys(matches), matches)
    BY <2>2 DEF Lookup!ResolveByCount
  <2>5. QED
    BY <1>1, <2>1, <2>3, <2>4, CountsAlike
<1>5. Lookup!ServingReason(stack, net) = s.reason
  <2>1. \A p \in Holding(profiles, s.sim) : IsMatch(p.match)
    BY <1>1 DEF Holding, Distinct
  <2>2. s.stack \in Seq(Holding(profiles, s.sim)) /\ \A i \in DOMAIN s.stack : IsMatch(s.stack[i].match)
    BY <1>1, <2>1 DEF Stacked
  <2>3. QED
    BY <1>2, <1>3, <2>2, ReasonAlike
<1>6. Lookup!Overlay(stack) = s.outcome.values
  BY <1>2, <1>3, OutcomeIs, OverlayAlike
<1>7. Lookup!ExplainedRows(d.rows, s.sim, net) = ApnRows(d.rows, s.sim, net)
  <2>1. PICK rs \in SUBSET reads : d = Generated(d.tree, rs)
    BY DEF Inv, DatasetInv
  <2>2. d.rows = IndexRows(d.tree.profiles)
    BY <2>1, GeneratedIs
  <2>3. QED
    BY <1>1, <2>2, RowsAlike DEF TreeHere
<1>8. QED
  BY <1>3, <1>4, <1>5, <1>6, <1>7

(* The phone's reader and the lookup tool give every SIM the same profiles  *)
(* in the same order, for the same reason, with the same overlay and rows,  *)
(* where casefold and Java compare the SIM's characters alike.              *)
THEOREM ResolversAgreeAlways == Spec => []ResolversAgree
<1>1. QED
  BY Invariance, AgreeHolds, PTL

-----------------------------------------------------------------------------
(* What the relations between two selector values say about a SIM's text.   *)

LEMMA TextDimensionsAre ==
  TextDimensions = {"spn", "imsi_prefix_patterns", "gid1_prefixes", "gid2_prefixes", "iccid_prefixes"}
BY DEF TextDimensions, Dimensions

LEMMA ImpliedHolds ==
  ASSUME NEW d \in TextDimensions, NEW w \in Seq(Chars), NEW v \in Seq(Chars), NEW f \in Seq(Chars),
         ValueImplies(d, w, v), TextHolds(d, w, f)
  PROVE  TextHolds(d, v, f)
<1>1. CASE d = "spn"
  <2>1. JavaEqualsIgnoreCase(w, v) /\ JavaEqualsIgnoreCase(f, w)
    BY <1>1 DEF ValueImplies, TextHolds
  <2>2. JavaEqualsIgnoreCase(f, v)
    BY <2>1, EqualIs
  <2>3. QED
    BY <1>1, <2>2 DEF TextHolds
<1>2. CASE d \in {"gid1_prefixes", "gid2_prefixes"}
  <2>1. JavaStartsWithIgnoreCase(w, v) /\ JavaStartsWithIgnoreCase(f, w)
    BY <1>2 DEF ValueImplies, TextHolds
  <2>2. JavaStartsWithIgnoreCase(f, v)
    BY <2>1, StartsIs, TextIs
  <2>3. QED
    BY <1>2, <2>2 DEF TextHolds
<1>3. CASE d = "iccid_prefixes"
  <2>1. IsPrefix(v, w) /\ IsPrefix(w, f)
    BY <1>3 DEF ValueImplies, TextHolds
  <2>2. IsPrefix(v, f)
    BY <2>1, PrefixIs, TextIs
  <2>3. QED
    BY <1>3, <2>2 DEF TextHolds
<1>4. CASE d = "imsi_prefix_patterns"
  <2>1. /\ Len(w) >= Len(v)
        /\ \A i \in DOMAIN v : v[i] \in Wildcards \/ (w[i] \notin Wildcards /\ w[i] = v[i])
    BY <1>4 DEF ValueImplies
  <2>2. Len(w) <= Len(f) /\ \A i \in DOMAIN w : w[i] \in Wildcards \/ w[i] = f[i]
    BY <1>4 DEF TextHolds, ImsiPatternMatches
  <2>3. Len(v) <= Len(f) /\ \A i \in DOMAIN v : v[i] \in Wildcards \/ v[i] = f[i]
    BY <2>1, <2>2, TextIs
  <2>4. QED
    BY <1>4, <2>3 DEF TextHolds, ImsiPatternMatches
<1>5. QED
  BY <1>1, <1>2, <1>3, <1>4, TextDimensionsAre

LEMMA BothOverlap ==
  ASSUME NEW d \in TextDimensions, NEW w \in Seq(Chars), NEW v \in Seq(Chars), NEW f \in Seq(Chars),
         TextHolds(d, w, f), TextHolds(d, v, f)
  PROVE  ValuesOverlap(d, w, v)
<1>1. CASE d = "spn"
  <2>1. JavaEqualsIgnoreCase(f, v) /\ JavaEqualsIgnoreCase(f, w)
    BY <1>1 DEF TextHolds
  <2>2. JavaEqualsIgnoreCase(w, v)
    BY <2>1, EqualIs
  <2>3. QED
    BY <1>1, <2>2 DEF ValuesOverlap
<1>2. CASE d \in {"gid1_prefixes", "gid2_prefixes"}
  <2>1. JavaStartsWithIgnoreCase(f, v) /\ JavaStartsWithIgnoreCase(f, w)
    BY <1>2 DEF TextHolds
  <2>2. JavaStartsWithIgnoreCase(w, v) \/ JavaStartsWithIgnoreCase(v, w)
    BY <2>1, StartsIs, TextIs
  <2>3. QED
    BY <1>2, <2>2 DEF ValuesOverlap
<1>3. CASE d = "iccid_prefixes"
  <2>1. IsPrefix(v, f) /\ IsPrefix(w, f)
    BY <1>3 DEF TextHolds
  <2>2. IsPrefix(v, w) \/ IsPrefix(w, v)
    BY <2>1, PrefixIs, TextIs
  <2>3. QED
    BY <1>3, <2>2 DEF ValuesOverlap
<1>4. CASE d = "imsi_prefix_patterns"
  <2>1. \A i \in DOMAIN w : w[i] \in Wildcards \/ w[i] = f[i]
    BY <1>4 DEF TextHolds, ImsiPatternMatches
  <2>2. \A i \in DOMAIN v : v[i] \in Wildcards \/ v[i] = f[i]
    BY <1>4 DEF TextHolds, ImsiPatternMatches
  <2>3. \A i \in DOMAIN w \intersect DOMAIN v :
          {w[i], v[i]} \intersect Wildcards # {} \/ w[i] = v[i]
    BY <2>1, <2>2
  <2>4. QED
    BY <1>4, <2>3 DEF ValuesOverlap
<1>5. QED
  BY <1>1, <1>2, <1>3, <1>4, TextDimensionsAre

(* The selectors Google's rules use.                                        *)
RuleDimensions == {"spn", "imsi_prefix_patterns", "gid1_prefixes", "iccid_prefixes"}

LEMMA SameHolds ==
  ASSUME NEW d \in RuleDimensions, NEW a \in Seq(Chars), NEW b \in Seq(Chars), NEW f \in Seq(Chars),
         SameDatum(d, a, b)
  PROVE  TextHolds(d, a, f) <=> TextHolds(d, b, f)
<1>1. CASE d = "spn"
  <2>1. JavaEqualsIgnoreCase(a, b)
    BY <1>1 DEF SameDatum
  <2>2. JavaEqualsIgnoreCase(f, a) <=> JavaEqualsIgnoreCase(f, b)
    BY <2>1, EqualIs
  <2>3. QED
    BY <1>1, <2>2 DEF TextHolds
<1>2. CASE d = "gid1_prefixes"
  <2>1. JavaEqualsIgnoreCase(a, b)
    BY <1>2 DEF SameDatum
  <2>2. JavaStartsWithIgnoreCase(f, a) <=> JavaStartsWithIgnoreCase(f, b)
    BY <2>1, StartsIs, EqualIs, TextIs
  <2>3. QED
    BY <1>2, <2>2 DEF TextHolds
<1>3. CASE d = "iccid_prefixes"
  BY <1>3 DEF SameDatum
<1>4. CASE d = "imsi_prefix_patterns"
  <2>1. Len(a) = Len(b) /\ \A i \in DOMAIN a : {a[i], b[i]} \subseteq Wildcards \/ a[i] = b[i]
    BY <1>4 DEF SameDatum
  <2>2. DOMAIN a = DOMAIN b
    BY <2>1, TextIs
  <2>3. ImsiPatternMatches(a, f) <=> ImsiPatternMatches(b, f)
    BY <2>1, <2>2 DEF ImsiPatternMatches
  <2>4. QED
    BY <1>4, <2>3 DEF TextHolds
<1>5. QED
  BY <1>1, <1>2, <1>3, <1>4 DEF RuleDimensions

LEMMA SameReflexive ==
  ASSUME NEW d, NEW a \in Seq(Chars)
  PROVE  SameDatum(d, a, a)
BY EqualIs DEF SameDatum

LEMMA SameTransitive ==
  ASSUME NEW d \in RuleDimensions, NEW a \in Seq(Chars), NEW b \in Seq(Chars), NEW c \in Seq(Chars),
         SameDatum(d, a, b), SameDatum(d, b, c)
  PROVE  SameDatum(d, a, c)
<1>1. CASE d \in {"spn", "gid1_prefixes"}
  <2>1. JavaEqualsIgnoreCase(a, b) /\ JavaEqualsIgnoreCase(b, c)
    BY <1>1 DEF SameDatum
  <2>2. JavaEqualsIgnoreCase(a, c)
    BY <2>1, EqualIs
  <2>3. QED
    BY <1>1, <2>2 DEF SameDatum
<1>2. CASE d = "iccid_prefixes"
  BY <1>2 DEF SameDatum
<1>3. CASE d = "imsi_prefix_patterns"
  <2>1. Len(a) = Len(b) /\ \A i \in DOMAIN a : {a[i], b[i]} \subseteq Wildcards \/ a[i] = b[i]
    BY <1>3 DEF SameDatum
  <2>2. Len(b) = Len(c) /\ \A i \in DOMAIN b : {b[i], c[i]} \subseteq Wildcards \/ b[i] = c[i]
    BY <1>3 DEF SameDatum
  <2>3. DOMAIN a = DOMAIN b
    BY <2>1, TextIs
  <2>4. Len(a) = Len(c) /\ \A i \in DOMAIN a : {a[i], c[i]} \subseteq Wildcards \/ a[i] = c[i]
    BY <2>1, <2>2, <2>3
  <2>5. QED
    BY <1>3, <2>4 DEF SameDatum
<1>4. QED
  BY <1>1, <1>2, <1>3 DEF RuleDimensions

-----------------------------------------------------------------------------
(* The certain stack.                                                       *)

LEMMA NetIs ==
  ASSUME NEW sim, IsSim(sim)
  PROVE  sim.mccmnc = {NetOf(sim)}
<1>1. PICK n : n \in sim.mccmnc
  BY DEF IsSim
<1>2. NetOf(sim) \in sim.mccmnc
  BY <1>1 DEF NetOf
<1>3. QED
  BY <1>2 DEF IsSim

LEMMA ImpliedMatchHolds ==
  ASSUME NEW sim, IsSim(sim), NEW p, IsMatch(p.match), NEW q, IsMatch(q.match),
         ProfileHolds(p, sim), ImpliedMatch(p.match, q.match), NetOf(sim) \in q.match.mccmnc
  PROVE  ProfileHolds(q, sim)
<1>1. SUFFICES ASSUME NEW d \in Used(q.match)
               PROVE  DimensionHolds(d, q.match[d], sim)
  <2>1. sim.mccmnc \intersect q.match.mccmnc # {}
    BY NetIs
  <2>2. QED
    BY <2>1 DEF ProfileHolds
<1>2. d \in Used(p.match) /\ DimensionHolds(d, p.match[d], sim)
  BY DEF ImpliedMatch, ProfileHolds
<1>3. CASE d = "android_carrier_ids"
  <2>1. p.match[d] \subseteq q.match[d]
    BY <1>3 DEF ImpliedMatch
  <2>2. sim[d] \intersect p.match[d] # {}
    BY <1>2, <1>3 DEF DimensionHolds
  <2>3. QED
    BY <1>3, <2>1, <2>2 DEF DimensionHolds
<1>4. CASE d # "android_carrier_ids"
  <2>1. d \in TextDimensions
    BY <1>4 DEF Used, TextDimensions
  <2>2. PICK f \in sim[d] : \E w \in p.match[d] : TextHolds(d, w, f)
    BY <1>2, <1>4 DEF DimensionHolds
  <2>3. PICK w \in p.match[d] : TextHolds(d, w, f)
    BY <2>2
  <2>4. PICK v \in q.match[d] : ValueImplies(d, w, v)
    BY <1>4 DEF ImpliedMatch
  <2>5. f \in Seq(Chars) /\ w \in Seq(Chars) /\ v \in Seq(Chars)
    <3>1. f \in Seq(Chars)
      BY <2>1 DEF IsSim
    <3>2. IsSelector(d, w) /\ IsSelector(d, v)
      BY <2>1 DEF IsMatch
    <3>3. QED
      BY <3>1, <3>2 DEF IsSelector
  <2>6. TextHolds(d, v, f)
    BY <2>1, <2>3, <2>4, <2>5, ImpliedHolds
  <2>7. QED
    BY <1>4, <2>6 DEF DimensionHolds
<1>5. QED
  BY <1>3, <1>4

LEMMA CertainHolds ==
  ASSUME NEW sim, IsSim(sim), NEW net, net = NetOf(sim), NEW profiles, Distinct(profiles),
         \A q \in profiles : net \in q.match.mccmnc, NEW p \in Holding(profiles, sim)
  PROVE  Certain(profiles, p, net) \subseteq Holding(profiles, sim)
<1>1. SUFFICES ASSUME NEW q \in Certain(profiles, p, net)
               PROVE  q \in Holding(profiles, sim)
  OBVIOUS
<1>2. p \in profiles /\ q \in profiles /\ ProfileHolds(p, sim)
  BY DEF Certain, Holding
<1>3. CASE q.id = p.id
  BY <1>2, <1>3 DEF Distinct
<1>4. CASE q.id # p.id
  <2>1. ImpliedMatch(p.match, q.match)
    BY <1>4 DEF Certain
  <2>2. IsMatch(p.match) /\ IsMatch(q.match)
    BY <1>2 DEF Distinct
  <2>3. ProfileHolds(q, sim)
    BY <1>2, <2>1, <2>2, ImpliedMatchHolds
  <2>4. QED
    BY <1>2, <2>3 DEF Holding
<1>5. QED
  BY <1>3, <1>4

-----------------------------------------------------------------------------
(* The entry a SIM picks.                                                   *)

(* A rule without a selector, or with one.                                  *)
LEMMA RuleSelector ==
  ASSUME NEW rule, IsRule(rule), NEW datum, datum = CHOOSE x \in rule.mvno : TRUE
  PROVE  \/ rule.mvno = {}
         \/ /\ rule.mvno = {datum} /\ datum[1] \in RuleDimensions /\ datum[1] \in TextDimensions
            /\ datum[2] \in Seq(Chars)
<1>1. CASE rule.mvno = {}
  BY <1>1
<1>2. CASE rule.mvno # {}
  <2>1. datum \in rule.mvno
    BY <1>2
  <2>2. rule.mvno = {datum}
    BY <2>1 DEF IsRule
  <2>3. datum[1] \in RuleDimensions /\ IsSelector(datum[1], datum[2])
    BY <2>1 DEF IsRule, RuleDimensions
  <2>4. QED
    BY <2>2, <2>3, TextDimensionsAre DEF IsSelector, RuleDimensions
<1>3. QED
  BY <1>1, <1>2

(* What a rule does to a profile's list is right for the profile's SIMs.    *)
LEMMA EffectIs ==
  ASSUME NEW sim, IsSim(sim), NEW p, IsMatch(p.match), ProfileHolds(p, sim), NEW rule, IsRule(rule)
  PROVE  /\ RuleEffect(p, rule) = "ends" => Concerns(rule, p) /\ RuleHolds(rule, sim)
         /\ RuleEffect(p, rule) = "when" => Concerns(rule, p)
         /\ RuleEffect(p, rule) = "skips" => ~ (Concerns(rule, p) /\ RuleHolds(rule, sim))
         /\ RuleEffect(p, rule) \in {"ends", "when", "skips"}
<1>1. CASE rule.mvno = {}
  BY <1>1 DEF RuleEffect, Concerns, RuleHolds
<1>2. CASE rule.mvno # {}
  <2>1. PICK datum : datum = CHOOSE x \in rule.mvno : TRUE
    OBVIOUS
  <2>2. /\ rule.mvno = {datum} /\ datum[1] \in RuleDimensions /\ datum[1] \in TextDimensions
        /\ datum[2] \in Seq(Chars)
    BY <1>2, <2>1, RuleSelector
  <2>3. PICK d, v, own : d = datum[1] /\ v = datum[2] /\ own = p.match[d]
    OBVIOUS
  <2> DEFINE named == /\ own = {} /\ d = "spn" /\ p.match.iccid_prefixes # {}
                      /\ JavaEqualsIgnoreCase(p.name, v)
  <2>5. RuleEffect(p, rule) = IF named THEN "when"
                              ELSE IF ~ \E w \in own : ValuesOverlap(d, w, v) THEN "skips"
                              ELSE IF \A w \in own : ValueImplies(d, w, v) THEN "ends" ELSE "when"
    BY <1>2, <2>1, <2>3 DEF RuleEffect
  <2>6. Concerns(rule, p) <=> (own # {} \/ (d = "spn" /\ p.match.iccid_prefixes # {} /\ JavaEqualsIgnoreCase(p.name, v)))
    BY <2>2, <2>3 DEF Concerns
  <2>7. RuleHolds(rule, sim) <=> \E f \in sim[d] : TextHolds(d, v, f)
    <3>1. d # "android_carrier_ids"
      BY <2>2, <2>3 DEF TextDimensions
    <3>2. RuleHolds(rule, sim) <=> DimensionHolds(d, {v}, sim)
      BY <2>2, <2>3 DEF RuleHolds
    <3>3. QED
      BY <3>1, <3>2 DEF DimensionHolds
  <2>8. ASSUME own # {}
        PROVE  \E f \in sim[d], w \in own : TextHolds(d, w, f) /\ f \in Seq(Chars) /\ w \in Seq(Chars)
    <3>1. d \in Used(p.match) /\ d # "android_carrier_ids"
      BY <2>2, <2>3, <2>8 DEF TextDimensions, Used
    <3>2. PICK f \in sim[d], w \in own : TextHolds(d, w, f)
      BY <2>3, <3>1 DEF ProfileHolds, DimensionHolds
    <3>3. f \in Seq(Chars)
      BY <2>2, <2>3 DEF IsSim
    <3>4. w \in Seq(Chars)
      BY <2>2, <2>3 DEF IsMatch, IsSelector
    <3>5. QED
      BY <3>2, <3>3, <3>4
  <2>9. ASSUME own # {}, \A w \in own : ValueImplies(d, w, v)
        PROVE  RuleHolds(rule, sim)
    <3>1. PICK f \in sim[d], w \in own : TextHolds(d, w, f) /\ f \in Seq(Chars) /\ w \in Seq(Chars)
      BY <2>8, <2>9
    <3>2. TextHolds(d, v, f)
      BY <2>2, <2>3, <2>9, <3>1, ImpliedHolds
    <3>3. QED
      BY <2>7, <3>2
  <2>10. ASSUME own # {}, RuleHolds(rule, sim)
         PROVE  \E w \in own : ValuesOverlap(d, w, v)
    <3>1. PICK f \in sim[d], w \in own : TextHolds(d, w, f) /\ f \in Seq(Chars) /\ w \in Seq(Chars)
      BY <2>8, <2>10
    <3>2. PICK g \in sim[d] : TextHolds(d, v, g)
      BY <2>7, <2>10
    <3>3. f = g
      BY <2>2, <2>3, <3>1, <3>2 DEF IsSim
    <3>4. QED
      BY <2>2, <2>3, <3>1, <3>2, <3>3, BothOverlap
  <2>11. CASE own = {}
    <3>1. named <=> Concerns(rule, p)
      BY <2>6, <2>11
    <3>2. RuleEffect(p, rule) = IF named THEN "when" ELSE "skips"
      BY <2>5, <2>11
    <3>3. QED
      BY <3>1, <3>2
  <2>12. CASE own # {}
    <3>1. ~ named /\ Concerns(rule, p)
      BY <2>6, <2>12
    <3>2. RuleEffect(p, rule) = IF ~ \E w \in own : ValuesOverlap(d, w, v) THEN "skips"
                                ELSE IF \A w \in own : ValueImplies(d, w, v) THEN "ends" ELSE "when"
      BY <2>5, <3>1
    <3>3. QED
      BY <2>9, <2>10, <2>12, <3>1, <3>2
  <2>13. QED
    BY <2>11, <2>12
<1>3. QED
  BY <1>1, <1>2

LEMMA PickIsFirst ==
  ASSUME NEW sim, IsSim(sim), NEW p, IsMatch(p.match), ProfileHolds(p, sim),
         NEW rules, DOMAIN rules \subseteq Nat, \A i \in DOMAIN rules : IsRule(rules[i]),
         NEW fill, fill = ComputeFill(p, rules),
         NEW entries, \A i \in DOMAIN fill : fill[i].entry \in entries
  PROVE  PickFill(fill, sim, entries) = FirstRule(rules, p, sim)
<1> DEFINE Effect(i) == RuleEffect(p, rules[i])
           taken == {i \in DOMAIN rules :
                       Effect(i) # "skips" /\ ~ \E j \in DOMAIN rules : j < i /\ Effect(j) = "ends"}
           met == {i \in DOMAIN rules : Concerns(rules[i], p) /\ RuleHolds(rules[i], sim)}
           holding == {i \in DOMAIN fill : fill[i].entry \in entries /\ WhenHolds(fill[i].when, sim)}
<1>1. /\ DOMAIN fill = taken
      /\ \A i \in taken : /\ fill[i].entry = rules[i].entry
                          /\ fill[i].when = IF Effect(i) = "ends" THEN {} ELSE rules[i].mvno
  BY DEF ComputeFill
<1>2. \A i \in DOMAIN rules :
        /\ Effect(i) = "ends" => i \in met
        /\ Effect(i) = "when" => Concerns(rules[i], p)
        /\ Effect(i) = "skips" => i \notin met
        /\ Effect(i) \in {"ends", "when", "skips"}
  BY EffectIs
<1>3. \A i \in taken : i \in holding <=> (Effect(i) = "ends" \/ RuleHolds(rules[i], sim))
  BY <1>1 DEF WhenHolds, RuleHolds
<1>4. holding \subseteq taken
  BY <1>1
<1>5. holding \subseteq met
  <2> HIDE DEF holding, Effect
  <2>1. QED
    BY <1>2, <1>3, <1>4
<1>6. \A i \in met : (~ \E j \in DOMAIN rules : j < i /\ Effect(j) = "ends") => i \in holding
  <2> HIDE DEF holding, Effect
  <2>1. QED
    BY <1>2, <1>3
<1>7. PickFill(fill, sim, entries) = IF holding = {} THEN {} ELSE {fill[Min(holding)].entry}
  BY DEF PickFill
<1>8. FirstRule(rules, p, sim) = IF met = {} THEN {} ELSE {rules[Min(met)].entry}
  BY DEF FirstRule
<1>9. met \subseteq Nat /\ met \subseteq DOMAIN rules
  OBVIOUS
<1>10. \A j \in DOMAIN rules : Effect(j) = "ends" => j \in met
  BY <1>2
<1>11. \A i \in holding : fill[i].entry = rules[i].entry
  BY <1>1, <1>4
<1> HIDE DEF met, holding, Effect
<1>12. CASE met = {}
  BY <1>5, <1>7, <1>8, <1>12
<1>13. CASE met # {}
  <2>1. PICK m : m = Min(met)
    OBVIOUS
  <2>2. m \in met /\ \A x \in met : m <= x
    BY <1>9, <1>13, <2>1, LeastIs
  <2>3. ~ \E j \in DOMAIN rules : j < m /\ Effect(j) = "ends"
    <3>1. SUFFICES ASSUME NEW j \in DOMAIN rules, j < m, Effect(j) = "ends" PROVE FALSE
      OBVIOUS
    <3>2. j \in met /\ j \in Nat /\ m \in Nat
      BY <1>9, <1>10, <2>2, <3>1
    <3>3. m <= j
      BY <2>2, <3>2
    <3>4. QED
      BY <3>1, <3>2, <3>3
  <2>4. m \in holding
    BY <1>6, <2>2, <2>3
  <2>5. \A x \in holding : m <= x
    BY <1>5, <2>2
  <2>6. Min(holding) = m
    BY <1>5, <1>9, <2>4, <2>5, LeastIsOne
  <2>7. QED
    BY <1>7, <1>8, <1>11, <1>13, <2>1, <2>4, <2>6
<1>14. QED
  BY <1>12, <1>13

-----------------------------------------------------------------------------
(* A profile for every rule.                                                *)

LEMMA RuleMatchValues ==
  ASSUME NEW rule, IsRule(rule)
  PROVE  /\ RuleMatch(rule).mccmnc = {rule.net}
         /\ Used(RuleMatch(rule)) = {datum[1] : datum \in rule.mvno}
         /\ \A datum \in rule.mvno : RuleMatch(rule)[datum[1]] = {datum[2]}
<1>1. \A d \in Dimensions : d # "mccmnc"
  BY DEF Dimensions
<1>2. PICK match : match = RuleMatch(rule)
  OBVIOUS
<1>3. match.mccmnc = {rule.net}
  BY <1>2 DEF RuleMatch
<1>4. \A d \in Dimensions : match[d] = {datum[2] : datum \in {x \in rule.mvno : x[1] = d}}
  BY <1>1, <1>2 DEF RuleMatch
<1>5. \A datum \in rule.mvno : datum[1] \in Dimensions /\ datum[1] \in RuleDimensions
  BY DEF IsRule, Dimensions, RuleDimensions
<1>6. \A datum \in rule.mvno : match[datum[1]] = {datum[2]}
  <2>1. SUFFICES ASSUME NEW datum \in rule.mvno PROVE match[datum[1]] = {datum[2]}
    OBVIOUS
  <2>2. {x \in rule.mvno : x[1] = datum[1]} = {datum}
    BY DEF IsRule
  <2>3. {y[2] : y \in {x \in rule.mvno : x[1] = datum[1]}} = {datum[2]}
    BY <2>2
  <2>4. QED
    BY <1>4, <1>5, <2>3
<1>7. Used(match) = {datum[1] : datum \in rule.mvno}
  <2>1. ASSUME NEW d \in Used(match) PROVE \E datum \in rule.mvno : datum[1] = d
    BY <1>4 DEF Used
  <2>2. ASSUME NEW datum \in rule.mvno PROVE datum[1] \in Used(match)
    BY <1>5, <1>6 DEF Used
  <2>3. QED
    BY <2>1, <2>2
<1>8. QED
  BY <1>2, <1>3, <1>6, <1>7

(* P has exactly the SIMs of the rule.                                      *)
ExactFor(rule, p) ==
  /\ p.match.mccmnc = {rule.net}
  /\ Used(p.match) = {datum[1] : datum \in rule.mvno}
  /\ \A datum \in rule.mvno : \E text \in p.match[datum[1]] :
       p.match[datum[1]] = {text} /\ SameDatum(datum[1], text, datum[2])

LEMMA ExactIs ==
  ASSUME NEW rule, IsRule(rule), NEW profiles
  PROVE  ExactProfileExists(rule, profiles) <=> \E p \in profiles : ExactFor(rule, p)
BY RuleMatchValues DEF ExactProfileExists, ExactFor

LEMMA ExactHolds ==
  ASSUME NEW rule, IsRule(rule), NEW p, IsMatch(p.match), ExactFor(rule, p),
         NEW sim, IsSim(sim), NetOf(sim) = rule.net
  PROVE  ProfileHolds(p, sim) <=> RuleHolds(rule, sim)
<1>1. sim.mccmnc \intersect p.match.mccmnc # {}
  BY NetIs DEF ExactFor
<1>2. ProfileHolds(p, sim)
        <=> \A datum \in rule.mvno : DimensionHolds(datum[1], p.match[datum[1]], sim)
  BY <1>1 DEF ProfileHolds, ExactFor
<1>3. ASSUME NEW datum \in rule.mvno
      PROVE  DimensionHolds(datum[1], p.match[datum[1]], sim) <=> DimensionHolds(datum[1], {datum[2]}, sim)
  <2>1. PICK text : p.match[datum[1]] = {text} /\ SameDatum(datum[1], text, datum[2])
    BY DEF ExactFor
  <2>2. datum[1] \in RuleDimensions /\ datum[1] \in TextDimensions /\ datum[1] # "android_carrier_ids"
    BY TextDimensionsAre DEF IsRule, RuleDimensions
  <2>3. datum[2] \in Seq(Chars)
    BY DEF IsRule, IsSelector
  <2>4. text \in Seq(Chars)
    BY <2>1, <2>2 DEF IsMatch, IsSelector
  <2>5. \A f \in sim[datum[1]] : f \in Seq(Chars)
    BY <2>2 DEF IsSim
  <2>6. \A f \in sim[datum[1]] : TextHolds(datum[1], text, f) <=> TextHolds(datum[1], datum[2], f)
    BY <2>1, <2>2, <2>3, <2>4, <2>5, SameHolds
  <2>7. QED
    BY <2>1, <2>2, <2>6 DEF DimensionHolds
<1>4. QED
  BY <1>2, <1>3 DEF RuleHolds

LEMMA ExactOfOwn ==
  ASSUME NEW rule, IsRule(rule), NEW p, p.match = RuleMatch(rule)
  PROVE  ExactFor(rule, p)
<1>1. \A datum \in rule.mvno : datum[2] \in Seq(Chars)
  BY DEF IsRule, IsSelector
<1>2. \A datum \in rule.mvno : SameDatum(datum[1], datum[2], datum[2])
  BY <1>1, SameReflexive
<1>3. \A datum \in rule.mvno : p.match[datum[1]] = {datum[2]}
  BY RuleMatchValues
<1>4. p.match.mccmnc = {rule.net} /\ Used(p.match) = {datum[1] : datum \in rule.mvno}
  BY RuleMatchValues
<1>5. QED
  BY <1>2, <1>3, <1>4 DEF ExactFor

LEMMA ExactTransitive ==
  ASSUME NEW rule, IsRule(rule), NEW other, IsRule(other), NEW third, IsRule(third),
         NEW p, p.match = RuleMatch(other), ExactFor(rule, p),
         NEW q, q.match = RuleMatch(third), ExactFor(other, q)
  PROVE  ExactFor(rule, q)
<1>1. /\ p.match.mccmnc = {other.net} /\ p.match.mccmnc = {rule.net}
      /\ q.match.mccmnc = {other.net}
  BY RuleMatchValues DEF ExactFor
<1>2. Used(q.match) = {datum[1] : datum \in rule.mvno}
  BY RuleMatchValues DEF ExactFor
<1>3. ASSUME NEW datum \in rule.mvno
      PROVE  \E text \in q.match[datum[1]] :
               q.match[datum[1]] = {text} /\ SameDatum(datum[1], text, datum[2])
  <2>1. PICK b : p.match[datum[1]] = {b} /\ SameDatum(datum[1], b, datum[2])
    BY DEF ExactFor
  <2>2. PICK middle \in other.mvno : middle[1] = datum[1]
    BY RuleMatchValues DEF ExactFor
  <2>3. middle[2] = b
    BY <2>1, <2>2, RuleMatchValues
  <2>4. PICK a : q.match[datum[1]] = {a} /\ SameDatum(datum[1], a, b)
    BY <2>2, <2>3 DEF ExactFor
  <2>5. datum[1] \in RuleDimensions /\ datum[1] \in TextDimensions
    BY TextDimensionsAre DEF IsRule, RuleDimensions
  <2>6. datum[2] \in Seq(Chars) /\ b \in Seq(Chars)
    BY <2>3 DEF IsRule, IsSelector
  <2>7. a \in Seq(Chars)
    BY <2>4, <2>5, RuleMatchIs DEF IsMatch, IsSelector
  <2>8. SameDatum(datum[1], a, datum[2])
    BY <2>1, <2>4, <2>5, <2>6, <2>7, SameTransitive
  <2>9. QED
    BY <2>4, <2>8
<1>4. QED
  BY <1>1, <1>2, <1>3 DEF ExactFor

LEMMA RuleHasProfile ==
  ASSUME NEW s, TreeOK(s), NEW i \in DOMAIN s.rules
  PROVE  \E p \in Everyone(s) : ExactFor(s.rules[i], p)
<1> DEFINE Made(j) == FillOnlyProfile(s.rules, j)
           none == {j \in DOMAIN s.rules : ~ ExactProfileExists(s.rules[j], s.profiles)}
           first == {j \in none : ~ \E k \in none : k < j /\ ExactProfileExists(s.rules[j], {Made(k)})}
           same == {j \in none : ExactFor(s.rules[i], Made(j))}
<1>1. \A j \in DOMAIN s.rules : IsRule(s.rules[j]) /\ Made(j).match = RuleMatch(s.rules[j]) /\ j \in Nat
  BY FillOnlyIs DEF TreeOK
<1>2. CASE ExactProfileExists(s.rules[i], s.profiles)
  BY <1>1, <1>2, ExactIs DEF Everyone
<1>3. CASE ~ ExactProfileExists(s.rules[i], s.profiles)
  <2>1. i \in same
    BY <1>1, <1>3, ExactOfOwn
  <2>2. PICK m : m = Min(same)
    OBVIOUS
  <2>3. m \in same /\ \A j \in same : m <= j
    <3>1. same \subseteq Nat /\ same # {}
      BY <1>1, <2>1
    <3> HIDE DEF same
    <3>2. QED
      BY <3>1, <2>2, LeastIs
  <2>4. m \in first
    <3>1. SUFFICES ASSUME NEW k \in none, k < m, ExactProfileExists(s.rules[m], {Made(k)})
                   PROVE  FALSE
      BY <2>3
    <3>2. m \in DOMAIN s.rules /\ k \in DOMAIN s.rules /\ ExactFor(s.rules[i], Made(m))
      BY <2>3
    <3>3. ExactFor(s.rules[m], Made(k))
      <4> HIDE DEF Made
      <4>1. QED
        BY <1>1, <3>1, <3>2, ExactIs
    <3>4. ExactFor(s.rules[i], Made(k))
      <4> HIDE DEF Made
      <4>1. QED
        BY <1>1, <3>2, <3>3, ExactTransitive
    <3>5. m <= k /\ k \in Nat /\ m \in Nat
      BY <1>1, <2>3, <3>2, <3>4
    <3>6. QED
      BY <3>1, <3>5
  <2>5. FillOnly(s.rules, s.profiles) = {Made(j) : j \in first}
    BY DEF FillOnly
  <2>6. Made(m) \in Everyone(s) /\ ExactFor(s.rules[i], Made(m))
    BY <2>3, <2>4, <2>5 DEF Everyone
  <2>7. QED
    BY <2>6
<1>4. QED
  BY <1>2, <1>3

LEMMA RuleHasSims ==
  ASSUME Inv, NEW d \in dataset, NEW i \in DOMAIN source.rules
  PROVE  HasProfileOf(source.rules[i], d.networks[source.rules[i].net])
<1>1. /\ source.rules = input.source.rules /\ d.tree.rules = input.source.rules /\ TreeOK(d.tree)
      /\ input \in Inputs
  BY DEF Inv, SourceInv, DatasetInv, TreeHere
<1>2. d.networks = NetworksIn(d.tree)
  BY GeneratedIs DEF Inv, DatasetInv
<1>3. PICK rule, net : rule = source.rules[i] /\ net = rule.net
  OBVIOUS
<1>4. IsRule(rule)
  BY <1>1, <1>3 DEF TreeOK
<1>5. PICK p \in Everyone(d.tree) : ExactFor(rule, p)
  BY <1>1, <1>3, RuleHasProfile
<1>6. net \in p.match.mccmnc
  BY <1>3, <1>5 DEF ExactFor
<1>7. net \in DOMAIN d.networks
  BY <1>2, <1>5, <1>6 DEF NetworksIn, NetworksOf
<1>8. PICK q \in d.networks[net] : OnNetwork(q, p, d.tree.rules, net)
  BY <1>1, <1>2, <1>5, <1>6, <1>7, NetworksAre
<1>9. IsMatch(q.match)
  BY <1>1, <1>2, <1>7, <1>8, NetworksAre DEF Distinct
<1>10. ExactFor(rule, q)
  BY <1>5, <1>8 DEF ExactFor, OnNetwork
<1>11. \A sim \in input.sims : IsSim(sim)
  BY <1>1, InputsAssumption
<1>12. \A sim \in input.sims : NetOf(sim) = rule.net => (ProfileHolds(q, sim) <=> RuleHolds(rule, sim))
  BY <1>4, <1>9, <1>10, <1>11, ExactHolds
<1>13. QED
  BY <1>3, <1>8, <1>12 DEF HasProfileOf

LEMMA ProfilesKnow == Inv => ProfilesKnowTheirSims
<1> SUFFICES ASSUME Inv PROVE ProfilesKnowTheirSims
  OBVIOUS
<1>1. ASSUME NEW d \in dataset, NEW s \in served, NEW p \in ToSet(s.stack),
             NEW net, net = NetOf(s.sim), NEW rules, rules = RulesOn(source.rules, net)
      PROVE  /\ ToSet(ProfileStack(d.networks[net], p, net)) \subseteq ToSet(s.stack)
             /\ PickFill(p.fill, s.sim, DOMAIN d.lane) = FirstRule(rules, p, s.sim)
  <2>1. PICK profiles : profiles = ProfilesFor(d, net)
    OBVIOUS
  <2>2. /\ IsSim(s.sim) /\ TreeOK(d.tree) /\ d.networks = NetworksIn(d.tree)
        /\ Distinct(profiles) /\ ToSet(s.stack) = Holding(profiles, s.sim)
        /\ (s.stack # <<>> => net \in DOMAIN d.networks /\ profiles = d.networks[net])
        /\ d.tree.rules = source.rules
    BY <1>1, <2>1, ServedIs DEF Inv, SourceInv, TreeHere
  <2>3. s.stack # <<>>
    BY DEF ToSet
  <2>4. net \in DOMAIN d.networks /\ profiles = d.networks[net]
    BY <2>2, <2>3
  <2>5. p \in profiles /\ p \in Holding(profiles, s.sim) /\ ProfileHolds(p, s.sim) /\ IsMatch(p.match)
    BY <2>2 DEF Holding, Distinct
  <2>6. \A q \in profiles : \E o \in Everyone(d.tree) : OnNetwork(q, o, d.tree.rules, net)
    BY <2>2, <2>4, NetworksAre
  <2>7. \A q \in profiles : net \in q.match.mccmnc
    BY <2>6 DEF OnNetwork
  <2>8. ToSet(ProfileStack(d.networks[net], p, net)) \subseteq ToSet(s.stack)
    <3>1. ToSet(ProfileStack(profiles, p, net)) = Certain(profiles, p, net)
      BY <2>2, ProfileStackIs
    <3>2. Certain(profiles, p, net) \subseteq Holding(profiles, s.sim)
      BY <1>1, <2>2, <2>5, <2>7, CertainHolds
    <3>3. QED
      BY <2>2, <2>4, <3>1, <3>2
  <2>9. PickFill(p.fill, s.sim, DOMAIN d.lane) = FirstRule(rules, p, s.sim)
    <3>1. PICK o \in Everyone(d.tree) : OnNetwork(p, o, d.tree.rules, net)
      BY <2>5, <2>6
    <3>2. p.fill = ComputeFill(o, rules) /\ p.match = o.match /\ p.name = o.name
      BY <1>1, <2>2, <3>1 DEF OnNetwork
    <3>3. IsMatch(o.match) /\ ProfileHolds(o, s.sim)
      BY <2>5, <3>2 DEF ProfileHolds
    <3>4. FirstRule(rules, o, s.sim) = FirstRule(rules, p, s.sim)
      <4>1. \A rule : Concerns(rule, o) <=> Concerns(rule, p)
        BY <3>2 DEF Concerns
      <4>2. {i \in DOMAIN rules : Concerns(rules[i], o) /\ RuleHolds(rules[i], s.sim)}
              = {i \in DOMAIN rules : Concerns(rules[i], p) /\ RuleHolds(rules[i], s.sim)}
        BY <4>1
      <4>3. QED
        BY <4>2 DEF FirstRule
    <3>5. /\ DOMAIN rules \subseteq DOMAIN source.rules
          /\ \A i \in DOMAIN rules : rules[i] = source.rules[i]
      BY <1>1 DEF RulesOn, Restrict
    <3>6. DOMAIN rules \subseteq Nat /\ \A i \in DOMAIN rules : IsRule(rules[i])
      BY <2>2, <3>5 DEF TreeOK
    <3>7. \A i \in DOMAIN p.fill : p.fill[i].entry \in DOMAIN d.lane
      <4>1. FillsInLane(d)
        BY DEF Inv, DatasetInv
      <4>2. QED
        BY <2>4, <2>5, <4>1 DEF FillsInLane
    <3>8. QED
      BY <2>2, <3>2, <3>3, <3>4, <3>6, <3>7, PickIsFirst
  <2>10. QED
    BY <2>8, <2>9
<1>2. QED
  BY <1>1, RuleHasSims DEF ProfilesKnowTheirSims

(* What is worked out from a profile holds for its SIMs: a SIM of a profile *)
(* has the profile's whole certain stack, picks the entry Google's own      *)
(* first rule gives it, and no rule is without a profile for its SIMs.      *)
THEOREM ProfilesAlwaysKnow == Spec => []ProfilesKnowTheirSims
BY Invariance, ProfilesKnow, PTL

-----------------------------------------------------------------------------
(* The SIM the vectors build.                                               *)

LEMMA OverlapSymmetric ==
  ASSUME NEW d \in TextDimensions, NEW w \in Seq(Chars), NEW v \in Seq(Chars), ValuesOverlap(d, w, v)
  PROVE  ValuesOverlap(d, v, w)
<1>1. CASE d = "spn"
  <2>1. JavaEqualsIgnoreCase(w, v)
    BY <1>1 DEF ValuesOverlap
  <2>2. JavaEqualsIgnoreCase(v, w)
    BY <2>1, EqualIs
  <2>3. QED
    BY <1>1, <2>2 DEF ValuesOverlap
<1>2. CASE d \in {"gid1_prefixes", "gid2_prefixes"}
  BY <1>2 DEF ValuesOverlap
<1>3. CASE d = "iccid_prefixes"
  BY <1>3 DEF ValuesOverlap
<1>4. CASE d = "imsi_prefix_patterns"
  <2>1. \A i \in DOMAIN w \intersect DOMAIN v : {w[i], v[i]} \intersect Wildcards # {} \/ w[i] = v[i]
    BY <1>4 DEF ValuesOverlap
  <2>2. \A i \in DOMAIN v \intersect DOMAIN w : {v[i], w[i]} \intersect Wildcards # {} \/ v[i] = w[i]
    BY <2>1
  <2>3. QED
    BY <1>4, <2>2 DEF ValuesOverlap
<1>5. QED
  BY <1>1, <1>2, <1>3, <1>4, TextDimensionsAre

LEMMA OverlapReflexive ==
  ASSUME NEW d \in TextDimensions, NEW w \in Seq(Chars)
  PROVE  ValuesOverlap(d, w, w)
<1>1. JavaEqualsIgnoreCase(w, w)
  BY EqualIs
<1>2. JavaStartsWithIgnoreCase(w, w)
  BY StartsIs, TextIs
<1>3. IsPrefix(w, w)
  BY PrefixIs, TextIs
<1>4. QED
  BY <1>1, <1>2, <1>3, TextDimensionsAre DEF ValuesOverlap

(* One or two values that overlap.                                          *)
Meeting(d, texts) ==
  /\ texts \subseteq Seq(Chars)
  /\ \A x, y \in texts : ValuesOverlap(d, x, y)
  /\ \E x, y \in texts : texts = {x, y}

LEMMA ChosenMeets ==
  ASSUME NEW d \in TextDimensions, NEW a, IsMatch(a), NEW b, IsMatch(b), NEW texts \in Chosen(d, a, b)
  PROVE  /\ texts \subseteq a[d] \union b[d]
         /\ a[d] # {} => texts \intersect a[d] # {}
         /\ b[d] # {} => texts \intersect b[d] # {}
         /\ a[d] \union b[d] # {} => Meeting(d, texts)
<1>1. a[d] \subseteq Seq(Chars) /\ b[d] \subseteq Seq(Chars)
  BY DEF IsMatch, IsSelector
<1>2. CASE a[d] = {} /\ b[d] = {}
  BY <1>2 DEF Chosen
<1>3. CASE a[d] \union b[d] # {} /\ (a[d] = {} \/ b[d] = {})
  <2>1. PICK x \in a[d] \union b[d] : texts = {x}
    BY <1>3 DEF Chosen
  <2>2. x \in Seq(Chars)
    BY <1>1
  <2>3. Meeting(d, texts)
    BY <2>1, <2>2, OverlapReflexive DEF Meeting
  <2>4. QED
    BY <1>3, <2>1, <2>3
<1>4. CASE a[d] # {} /\ b[d] # {}
  <2>1. PICK c \in a[d] \X b[d] : texts = {c[1], c[2]} /\ ValuesOverlap(d, c[1], c[2])
    BY <1>4 DEF Chosen
  <2>2. PICK x \in a[d], y \in b[d] : texts = {x, y} /\ ValuesOverlap(d, x, y)
    BY <2>1
  <2>3. x \in Seq(Chars) /\ y \in Seq(Chars)
    BY <1>1
  <2>4. Meeting(d, texts)
    BY <2>2, <2>3, OverlapReflexive, OverlapSymmetric DEF Meeting
  <2>5. QED
    BY <2>2, <2>4
<1>5. QED
  BY <1>2, <1>3, <1>4

LEMMA LongestIs ==
  ASSUME NEW d, NEW texts, Meeting(d, texts)
  PROVE  Longest(texts) \in texts /\ \A u \in texts : Len(Longest(texts)) >= Len(u)
<1>1. PICK x \in texts, y \in texts : texts = {x, y}
  BY DEF Meeting
<1>2. Len(x) \in Nat /\ Len(y) \in Nat
  BY DEF Meeting
<1>3. \E t \in texts : \A u \in texts : Len(t) >= Len(u)
  <2>1. CASE Len(x) >= Len(y)
    BY <1>1, <1>2, <2>1
  <2>2. CASE ~ Len(x) >= Len(y)
    BY <1>1, <1>2, <2>2
  <2>3. QED
    BY <2>1, <2>2
<1>4. QED
  BY <1>3 DEF Longest

LEMMA ImsiOfHolds ==
  ASSUME NEW texts, Meeting("imsi_prefix_patterns", texts),
         \A t \in texts : IsSelector("imsi_prefix_patterns", t), NEW x \in texts
  PROVE  ImsiPatternMatches(x, ImsiOf(texts))
<1> DEFINE fixed(i) == {p[i] : p \in {q \in texts : i <= Len(q)}} \ Wildcards
           length == IF texts = {} THEN 0 ELSE Max({Len(p) : p \in texts})
<1>1. PICK imsi : imsi = ImsiOf(texts)
  OBVIOUS
<1>2. imsi = [i \in 1..ImsiLength |->
                IF fixed(i) # {} THEN CHOOSE c \in fixed(i) : TRUE
                ELSE IF i = ImsiLength /\ length < ImsiLength THEN One ELSE Zero]
  BY <1>1 DEF ImsiOf
<1>3. x \in Seq(Chars) /\ Len(x) <= ImsiLength /\ Len(x) \in Nat /\ DOMAIN x = 1..Len(x) /\ ImsiLength \in Nat
  BY TextAssumption DEF IsSelector
<1>4. Len(imsi) = ImsiLength
  BY <1>2, <1>3
<1>5. ASSUME NEW i \in DOMAIN x, x[i] \notin Wildcards
      PROVE  x[i] = imsi[i]
  <2>1. i \in 1..ImsiLength /\ i <= Len(x) /\ i \in Nat
    BY <1>3
  <2>2. x[i] \in fixed(i)
    BY <1>5, <2>1
  <2>3. ASSUME NEW c \in fixed(i) PROVE c = x[i]
    <3>1. PICK q \in texts : i <= Len(q) /\ c = q[i]
      OBVIOUS
    <3>2. i \in DOMAIN q
      <4>1. q \in Seq(Chars)
        BY DEF Meeting
      <4>2. QED
        BY <2>1, <3>1, <4>1, <1>3, TextIs
    <3>3. ValuesOverlap("imsi_prefix_patterns", x, q)
      BY DEF Meeting
    <3>4. {x[i], q[i]} \intersect Wildcards # {} \/ x[i] = q[i]
      BY <3>2, <3>3 DEF ValuesOverlap
    <3>5. c \notin Wildcards
      BY <2>3
    <3>6. QED
      BY <1>5, <3>1, <3>4, <3>5
  <2> HIDE DEF fixed, length
  <2>4. imsi[i] = CHOOSE c \in fixed(i) : TRUE
    BY <1>2, <2>1, <2>2
  <2>5. QED
    BY <2>2, <2>3, <2>4
<1>6. QED
  BY <1>1, <1>3, <1>4, <1>5 DEF ImsiPatternMatches

LEMMA IccidOfHolds ==
  ASSUME NEW texts, Meeting("iccid_prefixes", texts),
         \A t \in texts : IsSelector("iccid_prefixes", t), NEW x \in texts
  PROVE  IsPrefix(x, IccidOf(Longest(texts)))
<1>1. PICK t : t = Longest(texts)
  OBVIOUS
<1>2. t \in texts /\ Len(t) >= Len(x)
  BY <1>1, LongestIs
<1>3. x \in Seq(Chars) /\ t \in Seq(Chars)
  BY <1>2 DEF Meeting
<1>4. IsPrefix(x, t)
  <2>1. IsPrefix(x, t) \/ IsPrefix(t, x)
    BY <1>2 DEF Meeting, ValuesOverlap
  <2>2. QED
    BY <1>2, <1>3, <2>1, PrefixIs, TextIs
<1>5. Len(t) < IccidLength /\ IccidLength \in Nat /\ Len(t) \in Nat /\ Len(x) \in Nat
  BY <1>2, <1>3, TextAssumption DEF IsSelector
<1>6. PICK iccid : iccid = IccidOf(t)
  OBVIOUS
<1>7. iccid = [i \in 1..IccidLength |->
                IF i = IccidLength THEN One ELSE IF i <= Len(t) THEN t[i] ELSE Zero]
  BY <1>6 DEF IccidOf
<1>8. iccid \in Seq(Chars)
  <2>1. \A i \in 1..Len(t) : t[i] \in Chars
    BY <1>3
  <2>2. \A i \in 1..IccidLength : iccid[i] \in Chars
    BY <1>5, <1>7, <2>1, TextAssumption
  <2>3. iccid \in [1..IccidLength -> Chars]
    BY <1>7, <2>2
  <2>4. QED
    BY <1>5, <2>3, SeqDef
<1>9. Len(iccid) = IccidLength
  BY <1>5, <1>7
<1>10. \A i \in 1..Len(x) : x[i] = t[i] /\ iccid[i] = t[i]
  BY <1>2, <1>3, <1>4, <1>5, <1>7, PrefixIs
<1>11. IsPrefix(x, iccid)
  BY <1>2, <1>3, <1>5, <1>8, <1>9, <1>10, PrefixIs
<1>12. QED
  BY <1>1, <1>6, <1>11

LEMMA TextOfHolds ==
  ASSUME NEW d \in TextDimensions, NEW texts, Meeting(d, texts),
         \A t \in texts : IsSelector(d, t), NEW x \in texts
  PROVE  \E f \in TextOf(d, texts) : TextHolds(d, x, f)
<1>1. CASE d = "imsi_prefix_patterns"
  BY <1>1, ImsiOfHolds DEF TextOf, TextHolds
<1>2. CASE d = "iccid_prefixes"
  BY <1>2, IccidOfHolds DEF TextOf, TextHolds
<1>3. CASE d \in {"spn", "gid1_prefixes", "gid2_prefixes"}
  <2>1. PICK t : t = Longest(texts)
    OBVIOUS
  <2>2. t \in texts /\ Len(t) >= Len(x)
    BY <2>1, LongestIs
  <2>3. x \in Seq(Chars) /\ t \in Seq(Chars) /\ ValuesOverlap(d, x, t)
    BY <2>2 DEF Meeting
  <2>4. TextOf(d, texts) = {t}
    BY <1>3, <2>1 DEF TextOf
  <2>5. TextHolds(d, x, t)
    <3>1. CASE d = "spn"
      <4>1. JavaEqualsIgnoreCase(x, t)
        BY <2>3, <3>1 DEF ValuesOverlap
      <4>2. JavaEqualsIgnoreCase(t, x)
        BY <2>3, <4>1, EqualIs
      <4>3. QED
        BY <3>1, <4>2 DEF TextHolds
    <3>2. CASE d \in {"gid1_prefixes", "gid2_prefixes"}
      <4>1. JavaStartsWithIgnoreCase(x, t) \/ JavaStartsWithIgnoreCase(t, x)
        BY <2>3, <3>2 DEF ValuesOverlap
      <4>2. JavaStartsWithIgnoreCase(t, x)
        BY <2>2, <2>3, <4>1, StartsIs, TextIs
      <4>3. QED
        BY <3>2, <4>2 DEF TextHolds
    <3>3. QED
      BY <1>3, <3>1, <3>2
  <2>6. QED
    BY <2>4, <2>5
<1>4. QED
  BY <1>1, <1>2, <1>3, TextDimensionsAre

(* A SIM built from the values of two matches meets each of them.           *)
BuiltFrom(sim, net, a, b) ==
  /\ sim.mccmnc = {net}
  /\ sim["android_carrier_ids"] \in CarrierIdsOf(a.android_carrier_ids, b.android_carrier_ids)
  /\ \A d \in TextDimensions : \E texts \in Chosen(d, a, b) : sim[d] = TextOf(d, texts)

LEMMA SyntheticIs ==
  ASSUME NEW net, NEW a, NEW b, NEW sim \in SyntheticSims(net, a, b)
  PROVE  BuiltFrom(sim, net, a, b)
<1>1. PICK ids \in CarrierIdsOf(a.android_carrier_ids, b.android_carrier_ids),
           spn \in Chosen("spn", a, b), gid1 \in Chosen("gid1_prefixes", a, b),
           gid2 \in Chosen("gid2_prefixes", a, b), iccid \in Chosen("iccid_prefixes", a, b),
           imsi \in Chosen("imsi_prefix_patterns", a, b) :
        sim = [mccmnc |-> {net}, android_carrier_ids |-> ids,
               spn |-> TextOf("spn", spn), gid1_prefixes |-> TextOf("gid1_prefixes", gid1),
               gid2_prefixes |-> TextOf("gid2_prefixes", gid2),
               iccid_prefixes |-> TextOf("iccid_prefixes", iccid),
               imsi_prefix_patterns |-> TextOf("imsi_prefix_patterns", imsi)]
  BY DEF SyntheticSims
<1>2. /\ sim.mccmnc = {net} /\ sim["android_carrier_ids"] = ids
      /\ sim["spn"] = TextOf("spn", spn) /\ sim["gid1_prefixes"] = TextOf("gid1_prefixes", gid1)
      /\ sim["gid2_prefixes"] = TextOf("gid2_prefixes", gid2)
      /\ sim["iccid_prefixes"] = TextOf("iccid_prefixes", iccid)
      /\ sim["imsi_prefix_patterns"] = TextOf("imsi_prefix_patterns", imsi)
  BY <1>1
<1>3. QED
  BY <1>2, TextDimensionsAre DEF BuiltFrom

LEMMA BuiltHolds ==
  ASSUME NEW net, NEW a, IsMatch(a), NEW b, IsMatch(b), NEW sim, BuiltFrom(sim, net, a, b),
         NEW p, NEW own, own = p.match, own \in {a, b}, net \in own.mccmnc
  PROVE  ProfileHolds(p, sim)
<1>1. sim.mccmnc \intersect own.mccmnc # {}
  BY DEF BuiltFrom
<1>2. ASSUME NEW d \in Used(own), d # "android_carrier_ids"
      PROVE  DimensionHolds(d, own[d], sim)
  <2>1. d \in TextDimensions /\ own[d] # {}
    BY <1>2 DEF Used, TextDimensions
  <2>2. PICK texts \in Chosen(d, a, b) : sim[d] = TextOf(d, texts)
    BY <2>1 DEF BuiltFrom
  <2>3. a[d] \union b[d] # {}
    BY <2>1
  <2>4. /\ Meeting(d, texts) /\ texts \subseteq a[d] \union b[d] /\ texts \intersect own[d] # {}
    BY <2>1, <2>3, ChosenMeets
  <2>5. \A t \in texts : IsSelector(d, t)
    BY <2>1, <2>4 DEF IsMatch
  <2>6. PICK x \in texts : x \in own[d]
    BY <2>4
  <2>7. \E f \in TextOf(d, texts) : TextHolds(d, x, f)
    BY <2>1, <2>4, <2>5, TextOfHolds
  <2>8. QED
    BY <1>2, <2>2, <2>6, <2>7 DEF DimensionHolds
<1>3. ASSUME "android_carrier_ids" \in Used(own)
      PROVE  DimensionHolds("android_carrier_ids", own["android_carrier_ids"], sim)
  <2>1. PICK mine, theirs : mine = a.android_carrier_ids /\ theirs = b.android_carrier_ids
    OBVIOUS
  <2>2. own["android_carrier_ids"] \in {mine, theirs} /\ own["android_carrier_ids"] # {}
    BY <1>3, <2>1 DEF Used
  <2>3. sim["android_carrier_ids"] \in CarrierIdsOf(mine, theirs)
    BY <2>1 DEF BuiltFrom
  <2>4. PICK common : common = IF mine = {} THEN theirs ELSE IF theirs = {} THEN mine ELSE mine \intersect theirs
    OBVIOUS
  <2>5. mine \union theirs # {}
    BY <2>2
  <2>6. CASE common # {}
    <3>1. PICK c \in common : sim["android_carrier_ids"] = {c}
      BY <2>3, <2>4, <2>5, <2>6 DEF CarrierIdsOf
    <3>2. c \in own["android_carrier_ids"]
      BY <2>2, <2>4, <3>1
    <3>3. QED
      BY <3>1, <3>2 DEF DimensionHolds
  <2>7. CASE common = {}
    <3>1. PICK x \in mine, y \in theirs : sim["android_carrier_ids"] = {x, y}
      BY <2>3, <2>4, <2>5, <2>7 DEF CarrierIdsOf
    <3>2. QED
      BY <2>2, <3>1 DEF DimensionHolds
  <2>8. QED
    BY <2>6, <2>7
<1>4. QED
  BY <1>1, <1>2, <1>3 DEF ProfileHolds

-----------------------------------------------------------------------------
(* The dry run.                                                             *)

LEMMA HoldingOverlap ==
  ASSUME NEW sim, IsSim(sim), NEW p, IsMatch(p.match), ProfileHolds(p, sim),
         NEW q, IsMatch(q.match), ProfileHolds(q, sim)
  PROVE  SelectorsCanOverlap(p.match, q.match)
<1>1. SUFFICES ASSUME NEW d \in (Used(p.match) \intersect Used(q.match)) \ {"android_carrier_ids"}
               PROVE  \E x \in p.match[d], y \in q.match[d] : ValuesOverlap(d, x, y)
  BY DEF SelectorsCanOverlap
<1>2. d \in TextDimensions
  BY DEF Used, TextDimensions
<1>3. PICK f \in sim[d], x \in p.match[d] : TextHolds(d, x, f)
  BY DEF ProfileHolds, DimensionHolds
<1>4. PICK g \in sim[d], y \in q.match[d] : TextHolds(d, y, g)
  BY DEF ProfileHolds, DimensionHolds
<1>5. f = g /\ f \in Seq(Chars)
  BY <1>2 DEF IsSim
<1>6. x \in Seq(Chars) /\ y \in Seq(Chars)
  BY <1>2 DEF IsMatch, IsSelector
<1>7. ValuesOverlap(d, x, y)
  BY <1>2, <1>3, <1>4, <1>5, <1>6, BothOverlap
<1>8. QED
  BY <1>7

(* Profiles of which no pair flipped have the same order either way.        *)
LEMMA UnflippedAlike ==
  ASSUME NEW profiles, Distinct(profiles), NEW net, NEW some \in SUBSET profiles,
         \A a, b \in some : ~ (/\ KeyBelow(StackOrderKey(a), StackOrderKey(b))
                               /\ KeyBelow(ResolutionKey(b, net), ResolutionKey(a, net)))
  PROVE  CountStack(some) = Sorted(some, ResolutionKeys(profiles, net))
<1>1. PICK counts : counts = [id \in {p.id : p \in some} |-> StackOrderKey(CHOOSE p \in some : p.id = id)]
  OBVIOUS
<1>2. \A p \in some : counts[p.id] = StackOrderKey(p)
  <2>1. SUFFICES ASSUME NEW p \in some PROVE counts[p.id] = StackOrderKey(p)
    OBVIOUS
  <2>2. (CHOOSE q \in some : q.id = p.id) = p
    BY DEF Distinct
  <2>3. QED
    BY <1>1, <2>2
<1>3. PICK keys : keys = ResolutionKeys(profiles, net)
  OBVIOUS
<1>4. \A p \in some : /\ keys[p.id] = ResolutionKey(p, net) /\ IsKey(ResolutionKey(p, net), 10)
                      /\ ResolutionKey(p, net)[10] = p.id
  BY <1>3, DistinctKeys
<1>5. \A p \in some : IsKey(StackOrderKey(p), 2) /\ StackOrderKey(p)[2] = p.id
  BY CountKeyIs DEF Distinct
<1>6. ASSUME NEW p \in some, NEW q \in some
      PROVE  KeyBelow(counts[p.id], counts[q.id]) <=> KeyBelow(keys[p.id], keys[q.id])
  <2>1. CASE p = q
    BY <1>2, <1>4, <1>5, <2>1, BelowIrreflexive
  <2>2. CASE p # q
    <3>1. p.id # q.id
      BY <2>2 DEF Distinct
    <3>2. PICK mine, yours : mine = StackOrderKey(p) /\ yours = StackOrderKey(q)
      OBVIOUS
    <3>3. PICK lower, upper : lower = ResolutionKey(p, net) /\ upper = ResolutionKey(q, net)
      OBVIOUS
    <3>4. IsKey(mine, 2) /\ IsKey(yours, 2) /\ mine[2] # yours[2]
      BY <1>5, <3>1, <3>2
    <3>5. IsKey(lower, 10) /\ IsKey(upper, 10) /\ lower[10] # upper[10]
      BY <1>4, <3>1, <3>3
    <3>6. KeyBelow(mine, yours) \/ KeyBelow(yours, mine)
      BY <3>4, BelowTotal
    <3>7. KeyBelow(lower, upper) \/ KeyBelow(upper, lower)
      BY <3>5, BelowTotal
    <3>8. ~ (KeyBelow(mine, yours) /\ KeyBelow(yours, mine))
      BY <3>4, BelowTransitive, BelowIrreflexive
    <3>9. ~ (KeyBelow(lower, upper) /\ KeyBelow(upper, lower))
      BY <3>5, BelowTransitive, BelowIrreflexive
    <3>10. /\ ~ (KeyBelow(mine, yours) /\ KeyBelow(upper, lower))
           /\ ~ (KeyBelow(yours, mine) /\ KeyBelow(lower, upper))
      BY <3>2, <3>3
    <3>11. KeyBelow(mine, yours) <=> KeyBelow(lower, upper)
      BY <3>6, <3>7, <3>8, <3>9, <3>10
    <3>12. QED
      BY <1>2, <1>4, <3>2, <3>3, <3>11
  <2>3. QED
    BY <2>1, <2>2
<1>7. Sorted(some, counts) = Sorted(some, keys)
  BY <1>6, SortedAlike
<1>8. QED
  BY <1>1, <1>3, <1>7 DEF CountStack

LEMMA DryRun == Inv => DryRunReaches
<1> SUFFICES ASSUME Inv PROVE DryRunReaches
  OBVIOUS
<1>1. ASSUME NEW d \in dataset, NEW net \in DOMAIN d.networks, NEW a \in d.networks[net], NEW b \in d.networks[net],
             NEW sim \in SyntheticSims(net, a.match, b.match)
      PROVE  ProfileHolds(a, sim) /\ ProfileHolds(b, sim)
  <2>1. TreeOK(d.tree) /\ d.networks = NetworksIn(d.tree)
    BY GeneratedIs DEF Inv, DatasetInv, TreeHere
  <2>2. PICK profiles : profiles = d.networks[net]
    OBVIOUS
  <2>3. /\ Distinct(profiles)
        /\ \A q \in profiles : \E p \in Everyone(d.tree) : OnNetwork(q, p, d.tree.rules, net)
    BY <2>1, <2>2, NetworksAre
  <2>4. /\ IsMatch(a.match) /\ IsMatch(b.match)
        /\ net \in a.match.mccmnc /\ net \in b.match.mccmnc
    BY <2>2, <2>3 DEF Distinct, OnNetwork
  <2>5. BuiltFrom(sim, net, a.match, b.match)
    BY SyntheticIs
  <2>6. QED
    BY <2>4, <2>5, BuiltHolds
<1>2. ASSUME NEW d \in dataset, NEW s \in served
      PROVE  /\ \A a, b \in ToSet(s.stack) : SelectorsCanOverlap(a.match, b.match)
             /\ CountStack(ToSet(s.stack)) # s.stack =>
                  \E pair \in Flipped(d.networks[NetOf(s.sim)], NetOf(s.sim)) : pair \subseteq ToSet(s.stack)
  <2>1. PICK net, profiles : net = NetOf(s.sim) /\ profiles = ProfilesFor(d, net)
    OBVIOUS
  <2>2. /\ IsSim(s.sim) /\ s = ServedTo(d, s.sim) /\ Distinct(profiles)
        /\ ToSet(s.stack) = Holding(profiles, s.sim)
        /\ (s.stack # <<>> => net \in DOMAIN d.networks /\ profiles = d.networks[net])
    BY <2>1, ServedIs
  <2>3. s.stack = Sorted(Holding(profiles, s.sim), ResolutionKeys(profiles, net))
    BY <2>1, <2>2, ServedToIs DEF ResolveStack
  <2>4. PICK some : some = Holding(profiles, s.sim)
    OBVIOUS
  <2>5. some \subseteq profiles /\ ToSet(s.stack) = some
    BY <2>2, <2>4 DEF Holding
  <2>6. \A a, b \in some : SelectorsCanOverlap(a.match, b.match)
    BY <2>2, <2>4, HoldingOverlap DEF Holding, Distinct
  <2>7. ASSUME CountStack(some) # s.stack
        PROVE  \E pair \in Flipped(d.networks[net], net) : pair \subseteq some
    <3>1. PICK a \in some, b \in some : /\ KeyBelow(StackOrderKey(a), StackOrderKey(b))
                                        /\ KeyBelow(ResolutionKey(b, net), ResolutionKey(a, net))
      BY <2>2, <2>3, <2>4, <2>5, <2>7, UnflippedAlike
    <3>2. s.stack # <<>>
      BY <2>5 DEF ToSet
    <3>3. profiles = d.networks[net] /\ a \in profiles /\ b \in profiles
      BY <2>2, <2>5, <3>2
    <3>4. {a, b} \in {{x, y} : x, y \in profiles}
      BY <3>3
    <3>5. \A x, y \in {a, b} : SelectorsCanOverlap(x.match, y.match)
      BY <2>6
    <3>6. {a, b} \in Flipped(profiles, net)
      BY <3>1, <3>4, <3>5 DEF Flipped
    <3>7. QED
      BY <3>3, <3>6
  <2>8. QED
    BY <2>1, <2>5, <2>6, <2>7
<1>3. QED
  BY <1>1, <1>2 DEF DryRunReaches

(* The overlap test and the SIMs of the vectors agree, and every SIM whose  *)
(* stack the new order changed belongs to a pair the dry run counts.        *)
THEOREM DryRunAlwaysReaches == Spec => []DryRunReaches
BY Invariance, DryRun, PTL

-----------------------------------------------------------------------------
(* Two profiles of a stack, one on the other, exchange their places.        *)

SameKey(x, y) == IsKey(x, 10) /\ IsKey(y, 10) /\ \A i \in 1..10 : x[i] = y[i]

LEMMA SameBelow ==
  ASSUME NEW w, NEW x, NEW y, NEW z, SameKey(w, x), SameKey(y, z), KeyBelow(x, z)
  PROVE  KeyBelow(w, y)
<1>1. PICK i \in 1..10 : x[i] < z[i] /\ \A j \in 1..(i - 1) : x[j] = z[j]
  BY DEF KeyBelow, SameKey, IsKey
<1>2. \A j \in 1..(i - 1) : j \in 1..10
  OBVIOUS
<1>3. w[i] < y[i] /\ \A j \in 1..(i - 1) : w[j] = y[j]
  BY <1>1, <1>2 DEF SameKey
<1>4. DOMAIN w = 1..10
  BY DEF SameKey, IsKey
<1>5. QED
  BY <1>3, <1>4 DEF KeyBelow

LEMMA TiedIs ==
  ASSUME NEW a, NEW b, NEW net, Tied(a, b, net)
  PROVE  \A i \in 1..9 : ResolutionKey(a, net)[i] = ResolutionKey(b, net)[i]
<1>1. PICK mine, yours : mine = ResolutionKey(a, net) /\ yours = ResolutionKey(b, net)
  OBVIOUS
<1>2. SubSeq(mine, 1, 9) = SubSeq(yours, 1, 9)
  BY <1>1 DEF Tied
<1>3. \A i \in 1..9 : SubSeq(mine, 1, 9)[i] = mine[i] /\ SubSeq(yours, 1, 9)[i] = yours[i]
  OBVIOUS
<1>4. QED
  BY <1>1, <1>2, <1>3

Exchanged(list, k) ==
  [i \in DOMAIN list |-> list[IF i = k THEN k + 1 ELSE IF i = k + 1 THEN k ELSE i]]

(* One of two adjacent profiles that tie has the other's key but for its ID. *)
Neighbours(stack, k, a, b, net) ==
  /\ k \in 1..(Len(stack) - 1) /\ {a, b} = {stack[k], stack[k + 1]} /\ a # b /\ Tied(a, b, net)

LEMMA ExchangedIs ==
  ASSUME NEW some, NEW net, NEW stack, Stacked(stack, some, net),
         NEW k, NEW a, NEW b, Neighbours(stack, k, a, b, net),
         NEW other, other = Exchanged(stack, k)
  PROVE  /\ k \in 1..Len(stack) /\ k + 1 \in 1..Len(stack) /\ DOMAIN other = 1..Len(stack)
         /\ other = [i \in 1..Len(stack) |-> other[i]]
         /\ other[k] = stack[k + 1] /\ other[k + 1] = stack[k]
         /\ \A i \in 1..Len(stack) : i \notin {k, k + 1} => other[i] = stack[i] /\ stack[i] \notin {a, b}
<1>1. Len(stack) \in Nat /\ DOMAIN stack = 1..Len(stack)
  BY DEF Stacked
<1>2. k \in 1..Len(stack) /\ k + 1 \in 1..Len(stack) /\ k # k + 1
  BY <1>1 DEF Neighbours
<1>3. /\ DOMAIN other = 1..Len(stack) /\ other = [i \in 1..Len(stack) |-> other[i]]
      /\ other[k] = stack[k + 1] /\ other[k + 1] = stack[k]
      /\ \A i \in 1..Len(stack) : i \notin {k, k + 1} => other[i] = stack[i]
  BY <1>1, <1>2 DEF Exchanged
<1>4. \A i \in 1..Len(stack) : i \notin {k, k + 1} => stack[i] \notin {a, b}
  <2>1. SUFFICES ASSUME NEW i \in 1..Len(stack), i # k, i # k + 1
                 PROVE  stack[i] # stack[k] /\ stack[i] # stack[k + 1]
    BY DEF Neighbours
  <2>2. QED
    BY <1>1, <1>2, <2>1 DEF Stacked
<1>5. QED
  BY <1>2, <1>3, <1>4

SwappedKeys(profiles, net, a, b) ==
  [ResolutionKeys(profiles, net) EXCEPT ![a.id][10] = b.id, ![b.id][10] = a.id]

LEMMA ExchangedSorts ==
  ASSUME NEW profiles, Distinct(profiles), NEW net, NEW some \in SUBSET profiles,
         NEW stack, Stacked(stack, some, net), Cardinality(some) = Len(stack),
         NEW k, NEW a, NEW b, Neighbours(stack, k, a, b, net),
         NEW key, key = SwappedKeys(profiles, net, a, b)
  PROVE  Sorted(some, key) = Exchanged(stack, k)
<1>1. PICK keys : keys = ResolutionKeys(profiles, net)
  OBVIOUS
<1>2. PICK n \in Nat : n = Len(stack) /\ DOMAIN stack = 1..n
  BY DEF Stacked
<1>3. PICK other : other = Exchanged(stack, k)
  OBVIOUS
<1>4. /\ k \in 1..n /\ k + 1 \in 1..n /\ DOMAIN other = 1..n /\ other = [i \in 1..n |-> other[i]]
      /\ other[k] = stack[k + 1] /\ other[k + 1] = stack[k]
      /\ \A i \in 1..n : i \notin {k, k + 1} => other[i] = stack[i] /\ stack[i] \notin {a, b}
  BY <1>2, <1>3, ExchangedIs
<1>5. {a, b} = {stack[k], stack[k + 1]} /\ a # b
  BY DEF Neighbours
<1>5a. (a = stack[k] /\ b = stack[k + 1]) \/ (a = stack[k + 1] /\ b = stack[k])
  BY <1>5
<1>5b. \A i \in 1..n : stack[i] \in some
  BY <1>2 DEF Stacked
<1>6. a \in some /\ b \in some /\ a \in profiles /\ b \in profiles
  BY <1>4, <1>5a, <1>5b
<1>7. \A p \in profiles : keys[p.id] = ResolutionKey(p, net) /\ IsKey(keys[p.id], 10) /\ keys[p.id][10] = p.id
  BY <1>1, DistinctKeys
<1>8. \A p, q \in profiles : p # q => p.id # q.id
  BY DEF Distinct
<1>9. \A p \in profiles : p.id \in DOMAIN keys
  BY <1>1 DEF ResolutionKeys
<1>10. a.id # b.id /\ a.id \in DOMAIN keys /\ b.id \in DOMAIN keys /\ a.id \in Int /\ b.id \in Int
  <2>1. \A p \in profiles : p.id \in Int
    BY DEF Distinct
  <2>2. QED
    BY <1>5, <1>6, <1>8, <1>9, <2>1
<1>11. /\ key[a.id] = [keys[a.id] EXCEPT ![10] = b.id]
       /\ key[b.id] = [keys[b.id] EXCEPT ![10] = a.id]
       /\ \A p \in profiles : p.id # a.id /\ p.id # b.id => key[p.id] = keys[p.id]
  <2>1. key = [keys EXCEPT ![a.id][10] = b.id, ![b.id][10] = a.id]
    BY <1>1 DEF SwappedKeys
  <2>2. QED
    BY <1>9, <1>10, <2>1
<1>12. \A i \in 1..9 : keys[a.id][i] = keys[b.id][i]
  <2>1. \A i \in 1..9 : ResolutionKey(a, net)[i] = ResolutionKey(b, net)[i]
    BY TiedIs DEF Neighbours
  <2>2. QED
    BY <1>6, <1>7, <2>1
<1>13. SameKey(key[a.id], keys[b.id])
  <2>1. PICK x, y : x = keys[a.id] /\ y = keys[b.id]
    OBVIOUS
  <2>2. IsKey(x, 10) /\ IsKey(y, 10) /\ y[10] = b.id /\ \A i \in 1..9 : x[i] = y[i]
    BY <1>6, <1>7, <1>12, <2>1
  <2>3. PICK z : z = [x EXCEPT ![10] = b.id]
    OBVIOUS
  <2>4. DOMAIN z = 1..10 /\ z[10] = y[10] /\ \A i \in 1..9 : z[i] = x[i]
    BY <2>2, <2>3 DEF IsKey
  <2>5. \A i \in 1..10 : i = 10 \/ i \in 1..9
    OBVIOUS
  <2>6. SameKey(z, y)
    BY <2>2, <2>4, <2>5 DEF SameKey, IsKey
  <2>7. QED
    BY <1>11, <2>1, <2>3, <2>6
<1>14. SameKey(key[b.id], keys[a.id])
  <2>1. PICK x, y : x = keys[b.id] /\ y = keys[a.id]
    OBVIOUS
  <2>2. IsKey(x, 10) /\ IsKey(y, 10) /\ y[10] = a.id /\ \A i \in 1..9 : x[i] = y[i]
    BY <1>6, <1>7, <1>12, <2>1
  <2>3. PICK z : z = [x EXCEPT ![10] = a.id]
    OBVIOUS
  <2>4. DOMAIN z = 1..10 /\ z[10] = y[10] /\ \A i \in 1..9 : z[i] = x[i]
    BY <2>2, <2>3 DEF IsKey
  <2>5. \A i \in 1..10 : i = 10 \/ i \in 1..9
    OBVIOUS
  <2>6. SameKey(z, y)
    BY <2>2, <2>4, <2>5 DEF SameKey, IsKey
  <2>7. QED
    BY <1>11, <2>1, <2>3, <2>6
<1>15. ASSUME NEW p \in some, p # a, p # b PROVE SameKey(key[p.id], keys[p.id])
  <2>1. p \in profiles /\ p.id # a.id /\ p.id # b.id
    BY <1>6, <1>8, <1>15
  <2>2. key[p.id] = keys[p.id] /\ IsKey(keys[p.id], 10)
    BY <1>7, <1>11, <2>1
  <2>3. QED
    BY <2>2 DEF SameKey
<1>16. \A i \in 1..n : stack[i] \in some /\ other[i] \in some
  BY <1>2, <1>4 DEF Stacked
<1>17. \A i \in 1..n : SameKey(key[other[i].id], keys[stack[i].id])
  <2>1. SUFFICES ASSUME NEW i \in 1..n PROVE SameKey(key[other[i].id], keys[stack[i].id])
    OBVIOUS
  <2>2. CASE i \notin {k, k + 1}
    BY <1>4, <1>15, <1>16, <2>2
  <2>3. CASE i \in {k, k + 1}
    <3>1. (other[i] = a /\ stack[i] = b) \/ (other[i] = b /\ stack[i] = a)
      BY <1>4, <1>5a, <2>3
    <3>2. QED
      BY <1>13, <1>14, <3>1
  <2>4. QED
    BY <2>2, <2>3
<1>18. \A i, j \in 1..n : i < j => KeyBelow(keys[stack[i].id], keys[stack[j].id])
  <2>1. \A i \in 1..n : keys[stack[i].id] = ResolutionKey(stack[i], net)
    BY <1>7, <1>16
  <2>2. \A i, j \in 1..n :
          i < j => KeyBelow(ResolutionKey(stack[i], net), ResolutionKey(stack[j], net))
    BY <1>2 DEF Stacked
  <2>3. QED
    BY <2>1, <2>2
<1>19. \A i, j \in 1..n : i < j => KeyBelow(key[other[i].id], key[other[j].id])
  <2>1. SUFFICES ASSUME NEW i \in 1..n, NEW j \in 1..n, i < j
                 PROVE  KeyBelow(key[other[i].id], key[other[j].id])
    OBVIOUS
  <2>2. SameKey(key[other[i].id], keys[stack[i].id])
    BY <1>17
  <2>3. SameKey(key[other[j].id], keys[stack[j].id])
    BY <1>17
  <2>4. KeyBelow(keys[stack[i].id], keys[stack[j].id])
    BY <1>18, <2>1
  <2>5. QED
    BY <2>2, <2>3, <2>4, SameBelow
<1>20. \A p \in some : \E i \in 1..n : other[i] = p
  <2>1. SUFFICES ASSUME NEW p \in some PROVE \E i \in 1..n : other[i] = p
    OBVIOUS
  <2>2. PICK i \in 1..n : stack[i] = p
    BY <1>2 DEF Stacked
  <2>3. QED
    BY <1>4, <2>2
<1>21. Keyed(some, key, 10)
  <2>1. ASSUME NEW p \in some
        PROVE  \E i \in 1..n : p = other[i] /\ SameKey(key[p.id], keys[stack[i].id]) /\ keys[stack[i].id][10] = stack[i].id
    BY <1>7, <1>16, <1>17, <1>20
  <2>2. \A p \in some : IsKey(key[p.id], 10)
    BY <2>1 DEF SameKey
  <2>3. ASSUME NEW p \in some, NEW q \in some, p # q
        PROVE  key[p.id][10] # key[q.id][10]
    <3>1. PICK i \in 1..n : p = other[i] /\ SameKey(key[p.id], keys[stack[i].id]) /\ keys[stack[i].id][10] = stack[i].id
      BY <2>1
    <3>2. PICK j \in 1..n : q = other[j] /\ SameKey(key[q.id], keys[stack[j].id]) /\ keys[stack[j].id][10] = stack[j].id
      BY <2>1
    <3>3. i # j
      BY <2>3, <3>1, <3>2
    <3>4. stack[i] # stack[j] /\ stack[i] \in profiles /\ stack[j] \in profiles
      BY <1>2, <1>16, <3>3 DEF Stacked
    <3>5. stack[i].id # stack[j].id
      BY <1>8, <3>4
    <3>6. QED
      <4>1. 10 \in 1..10
        OBVIOUS
      <4>2. key[p.id][10] = stack[i].id /\ key[q.id][10] = stack[j].id
        BY <3>1, <3>2, <4>1 DEF SameKey
      <4>3. QED
        BY <3>5, <4>2
  <2>4. 10 \in 1..10
    OBVIOUS
  <2>5. \A p, q \in some : p # q => \E i \in 1..10 : key[p.id][i] # key[q.id][i]
    BY <2>3, <2>4
  <2>6. QED
    BY <2>2, <2>5 DEF Keyed
<1>22. IsFiniteSet(some)
  BY FS_Subset DEF Distinct
<1>23. Sorted(some, key) = other
  <2>1. PICK c : c = Cardinality(some)
    OBVIOUS
  <2>2. c = n
    BY <1>2, <2>1
  <2>3. DOMAIN other = 1..c /\ other = [i \in 1..c |-> other[i]]
    BY <1>4, <2>2
  <2>4. \A i \in DOMAIN other : other[i] \in some
    BY <1>4, <1>16
  <2>5. \A p \in some : \E i \in DOMAIN other : other[i] = p
    BY <1>4, <1>20
  <2>6. \A i, j \in DOMAIN other : i < j => KeyBelow(key[other[i].id], key[other[j].id])
    BY <1>4, <1>19
  <2>7. 10 \in Nat
    OBVIOUS
  <2>8. Ascending(other, some, key)
    BY <2>1, <2>3, <2>4, <2>5, <2>6 DEF Ascending
  <2>9. QED
    BY <1>21, <1>22, <2>7, <2>8, SortedUnique
<1>24. QED
  BY <1>3, <1>23

(* Of two profiles that tie, at most their own places change which one of a *)
(* set of profiles comes last.                                             *)
OneOfEach(x, y, a, b) == (x = a /\ y = b) \/ (x = b /\ y = a)

PlacesOf(H, list) == {i \in DOMAIN list : list[i] \in H}

TopsAlike(stack, other, a, b, H) ==
  /\ PlacesOf(H, stack) = {} <=> PlacesOf(H, other) = {}
  /\ PlacesOf(H, stack) # {} =>
       \/ other[Max(PlacesOf(H, other))] = stack[Max(PlacesOf(H, stack))]
       \/ /\ a \in H /\ b \in H
          /\ OneOfEach(stack[Max(PlacesOf(H, stack))], other[Max(PlacesOf(H, other))], a, b)

LEMMA TopExchanged ==
  ASSUME NEW some, NEW net, NEW stack, Stacked(stack, some, net),
         NEW k, NEW a, NEW b, Neighbours(stack, k, a, b, net),
         NEW other, other = Exchanged(stack, k), NEW H
  PROVE  TopsAlike(stack, other, a, b, H)
<1> DEFINE here == PlacesOf(H, stack)
           there == PlacesOf(H, other)
           alike == \/ other[Max(there)] = stack[Max(here)]
                    \/ a \in H /\ b \in H /\ OneOfEach(stack[Max(here)], other[Max(there)], a, b)
<1>0. TopsAlike(stack, other, a, b, H) <=> (here = {} <=> there = {}) /\ (here # {} => alike)
  BY DEF TopsAlike
<1>1. PICK n \in Nat : n = Len(stack) /\ DOMAIN stack = 1..n
  BY DEF Stacked
<1>2. /\ k \in 1..n /\ k + 1 \in 1..n /\ DOMAIN other = 1..n
      /\ other[k] = stack[k + 1] /\ other[k + 1] = stack[k]
      /\ \A i \in 1..n : i \notin {k, k + 1} => other[i] = stack[i]
  BY <1>1, ExchangedIs
<1>3. OneOfEach(stack[k], stack[k + 1], a, b)
  BY DEF Neighbours, OneOfEach
<1>4. /\ here \subseteq 1..n /\ there \subseteq 1..n
      /\ \A i \in 1..n : i \in here <=> stack[i] \in H
      /\ \A i \in 1..n : i \in there <=> other[i] \in H
  BY <1>1, <1>2 DEF PlacesOf
<1> HIDE DEF here, there
<1>5. /\ k \in there <=> k + 1 \in here
      /\ k + 1 \in there <=> k \in here
      /\ \A i \in 1..n : i # k /\ i # k + 1 => (i \in there <=> i \in here)
  BY <1>2, <1>4
<1>6. here = {} <=> there = {}
  BY <1>2, <1>4, <1>5
<1>7. SUFFICES ASSUME here # {} PROVE alike
  BY <1>0, <1>6
<1>8. PICK m : m = Max(here)
  OBVIOUS
<1>9. m \in here /\ \A i \in here : i <= m
  BY <1>4, <1>7, <1>8, GreatestIs
<1>10. m \in 1..n
  BY <1>4, <1>9
<1>11. \A t \in there : (\A i \in there : i <= t) => Max(there) = t /\ t \in 1..n
  <2>1. there \subseteq Nat
    BY <1>4
  <2>2. ASSUME NEW t \in there, \A i \in there : i <= t
        PROVE  Max(there) = t
    BY <2>1, <2>2, GreatestIsOne
  <2>3. QED
    BY <1>4, <2>2
<1>12. CASE m # k /\ m # k + 1
  <2>1. m \in there
    BY <1>5, <1>9, <1>10, <1>12
  <2>2. \A i \in there : i <= m
    <3>1. SUFFICES ASSUME NEW i \in there PROVE i <= m
      OBVIOUS
    <3>2. i \in 1..n /\ k \in Nat /\ m \in Nat
      BY <1>2, <1>4, <1>10
    <3>3. CASE i # k /\ i # k + 1
      BY <1>5, <1>9, <3>2, <3>3
    <3>4. CASE i = k
      BY <1>5, <1>9, <3>2, <3>4
    <3>5. CASE i = k + 1
      <4>1. k <= m
        BY <1>5, <1>9, <3>5
      <4>2. QED
        BY <1>12, <3>2, <3>5, <4>1
    <3>6. QED
      BY <3>3, <3>4, <3>5
  <2>3. Max(there) = m
    BY <1>11, <2>1, <2>2
  <2>4. other[m] = stack[m]
    BY <1>2, <1>10, <1>12
  <2>5. QED
    BY <1>8, <1>10, <2>3, <2>4
<1>13. CASE m = k + 1 /\ k \in here
  <2>1. k + 1 \in there
    BY <1>5, <1>13
  <2>2. \A i \in there : i <= k + 1
    <3>1. SUFFICES ASSUME NEW i \in there, i # k, i # k + 1 PROVE i <= k + 1
      BY <1>2
    <3>2. i \in here
      BY <1>4, <1>5, <3>1
    <3>3. QED
      BY <1>9, <1>13, <3>2
  <2>3. Max(there) = k + 1
    BY <1>11, <2>1, <2>2
  <2>4. stack[k] \in H /\ stack[k + 1] \in H
    BY <1>2, <1>4, <1>9, <1>13
  <2>5. a \in H /\ b \in H
    BY <1>3, <2>4 DEF OneOfEach
  <2>6. OneOfEach(stack[k + 1], other[k + 1], a, b)
    BY <1>2, <1>3 DEF OneOfEach
  <2>7. QED
    BY <1>2, <1>8, <1>13, <2>3, <2>5, <2>6
<1>14. CASE m = k + 1 /\ k \notin here
  <2>1. k \in there /\ k + 1 \notin there
    BY <1>5, <1>9, <1>14
  <2>2. \A i \in there : i <= k
    <3>1. SUFFICES ASSUME NEW i \in there, i # k PROVE i <= k
      BY <1>2
    <3>2. i \in here /\ i # k + 1 /\ i \in 1..n
      BY <1>4, <1>5, <2>1, <3>1
    <3>3. i <= k + 1
      BY <1>9, <1>14, <3>2
    <3>4. QED
      BY <1>2, <3>2, <3>3
  <2>3. Max(there) = k
    BY <1>11, <2>1, <2>2
  <2>4. QED
    BY <1>2, <1>8, <1>14, <2>3
<1>15. CASE m = k
  <2>1. k + 1 \in there
    BY <1>5, <1>9, <1>15
  <2>2. k + 1 \notin here
    BY <1>2, <1>9, <1>15
  <2>3. \A i \in there : i <= k + 1
    <3>1. SUFFICES ASSUME NEW i \in there, i # k, i # k + 1 PROVE i <= k + 1
      BY <1>2
    <3>2. i \in here /\ i \in 1..n
      BY <1>4, <1>5, <3>1
    <3>3. i <= k
      BY <1>9, <1>15, <3>2
    <3>4. QED
      BY <1>2, <3>2, <3>3
  <2>4. Max(there) = k + 1
    BY <1>11, <2>1, <2>3
  <2>5. QED
    BY <1>2, <1>8, <1>15, <2>4
<1>16. QED
  BY <1>12, <1>13, <1>14, <1>15

LEMMA OverlaidExchanged ==
  ASSUME NEW some, NEW net, NEW stack, Stacked(stack, some, net),
         NEW k, NEW a, NEW b, Neighbours(stack, k, a, b, net),
         NEW other, other = Exchanged(stack, k),
         \A key \in DOMAIN a.values \intersect DOMAIN b.values : a.values[key] = b.values[key]
  PROVE  Overlaid(other) = Overlaid(stack)
<1> DEFINE Here(key) == {i \in DOMAIN stack : key \in DOMAIN stack[i].values}
           There(key) == {i \in DOMAIN other : key \in DOMAIN other[i].values}
           stated == UNION {DOMAIN stack[i].values : i \in DOMAIN stack}
           restated == UNION {DOMAIN other[i].values : i \in DOMAIN other}
<1>1. ASSUME NEW key
      PROVE  /\ Here(key) = {} <=> There(key) = {}
             /\ Here(key) # {} =>
                  stack[Max(Here(key))].values[key] = other[Max(There(key))].values[key]
  <2>0. Len(stack) \in Nat /\ DOMAIN stack = 1..Len(stack)
    BY DEF Stacked
  <2>1. PICK n \in Nat : DOMAIN stack = 1..n /\ DOMAIN other = 1..n
    BY <2>0, ExchangedIs
  <2>2. PICK H : H = {p \in {stack[i] : i \in DOMAIN stack} \union {other[i] : i \in DOMAIN other} :
                        key \in DOMAIN p.values}
    OBVIOUS
  <2>3. PICK here, there : here = Here(key) /\ there = There(key)
    OBVIOUS
  <2>4. here = PlacesOf(H, stack) /\ there = PlacesOf(H, other)
    BY <2>2, <2>3 DEF PlacesOf
  <2>5. /\ here = {} <=> there = {}
        /\ here # {} =>
             \/ other[Max(there)] = stack[Max(here)]
             \/ a \in H /\ b \in H /\ OneOfEach(stack[Max(here)], other[Max(there)], a, b)
    <3>1. TopsAlike(stack, other, a, b, H)
      BY TopExchanged
    <3>2. QED
      BY <2>4, <3>1 DEF TopsAlike
  <2>6. a \in H /\ b \in H => a.values[key] = b.values[key]
    BY <2>2
  <2>7. here # {} => stack[Max(here)].values[key] = other[Max(there)].values[key]
    BY <2>5, <2>6 DEF OneOfEach
  <2>8. QED
    BY <2>3, <2>5, <2>7
<1>2. \A key : (key \in stated <=> Here(key) # {}) /\ (key \in restated <=> There(key) # {})
  OBVIOUS
<1>3. stated = restated
  <2> HIDE DEF stated, restated, Here, There
  <2>1. \A key : key \in stated <=> key \in restated
    BY <1>1, <1>2
  <2>2. QED
    BY <2>1
<1>4. Overlaid(stack) = [key \in stated |-> stack[Max(Here(key))].values[key]]
  BY DEF Overlaid
<1>5. Overlaid(other) = [key \in restated |-> other[Max(There(key))].values[key]]
  BY DEF Overlaid
<1> HIDE DEF stated, restated, Here, There
<1>6. \A key \in stated : stack[Max(Here(key))].values[key] = other[Max(There(key))].values[key]
  BY <1>1, <1>2
<1>7. QED
  BY <1>3, <1>4, <1>5, <1>6, Zenon

LEMMA LastExchanged ==
  ASSUME NEW some, NEW net, NEW stack, Stacked(stack, some, net),
         NEW k, NEW a, NEW b, Neighbours(stack, k, a, b, net),
         NEW other, other = Exchanged(stack, k)
  PROVE  /\ stack # <<>> /\ other # <<>>
         /\ Last(other) = Last(stack) \/ OneOfEach(Last(stack), Last(other), a, b)
<1>1. PICK n \in Nat : n = Len(stack) /\ DOMAIN stack = 1..n
  BY DEF Stacked
<1>2. /\ k \in 1..n /\ k + 1 \in 1..n /\ DOMAIN other = 1..n /\ other = [i \in 1..n |-> other[i]]
      /\ other[k] = stack[k + 1] /\ other[k + 1] = stack[k]
      /\ \A i \in 1..n : i \notin {k, k + 1} => other[i] = stack[i]
  BY <1>1, ExchangedIs
<1>3. n \in 1..n
  BY <1>2
<1>4. stack # <<>> /\ other # <<>> /\ Last(stack) = stack[n]
  BY <1>1, <1>2, <1>3 DEF Last
<1>5. Last(other) = other[n]
  <2>1. \A i \in 1..n : other[i] \in some
    <3>1. \A i \in 1..n : stack[i] \in some
      BY <1>1 DEF Stacked
    <3>2. QED
      BY <1>2, <3>1
  <2>2. other \in Seq(some)
    BY <1>2, <2>1, SeqDef
  <2>3. Len(other) = n
    BY <1>2, <2>2
  <2>4. QED
    BY <2>3 DEF Last
<1>6. CASE n = k + 1
  <2>1. OneOfEach(stack[k + 1], stack[k], a, b)
    BY DEF Neighbours, OneOfEach
  <2>2. QED
    BY <1>2, <1>4, <1>5, <1>6, <2>1
<1>7. CASE n # k + 1
  <2>1. n # k
    BY <1>2
  <2>2. other[n] = stack[n]
    BY <1>2, <1>3, <1>7, <2>1
  <2>3. QED
    BY <1>4, <1>5, <2>2
<1>8. QED
  BY <1>6, <1>7

HasRows(p, rows) == \E r \in rows : p.id \in r.owners

LEMMA ApnExchanged ==
  ASSUME NEW some, NEW net, NEW stack, Stacked(stack, some, net),
         NEW k, NEW a, NEW b, Neighbours(stack, k, a, b, net),
         NEW other, other = Exchanged(stack, k), NEW rows
  PROVE  \/ ApnProfile(other, rows) = ApnProfile(stack, rows)
         \/ /\ HasRows(a, rows) /\ HasRows(b, rows)
            /\ OneOfEach(ApnProfile(stack, rows), ApnProfile(other, rows), {a.id}, {b.id})
<1>1. PICK n \in Nat : DOMAIN stack = 1..n /\ DOMAIN other = 1..n
  <2>1. Len(stack) \in Nat /\ DOMAIN stack = 1..Len(stack)
    BY DEF Stacked
  <2>2. QED
    BY <2>1, ExchangedIs
<1>2. PICK H : H = {p \in {stack[i] : i \in DOMAIN stack} \union {other[i] : i \in DOMAIN other} :
                      HasRows(p, rows)}
  OBVIOUS
<1>3. PICK here, there : /\ here = {i \in DOMAIN stack : \E r \in rows : stack[i].id \in r.owners}
                         /\ there = {i \in DOMAIN other : \E r \in rows : other[i].id \in r.owners}
  OBVIOUS
<1>4. here = PlacesOf(H, stack) /\ there = PlacesOf(H, other)
  BY <1>2, <1>3 DEF PlacesOf, HasRows
<1>5. /\ here = {} <=> there = {}
      /\ here # {} =>
           \/ other[Max(there)] = stack[Max(here)]
           \/ a \in H /\ b \in H /\ OneOfEach(stack[Max(here)], other[Max(there)], a, b)
  <2>1. TopsAlike(stack, other, a, b, H)
    BY TopExchanged
  <2>2. QED
    BY <1>4, <2>1 DEF TopsAlike
<1>6. /\ ApnProfile(stack, rows) = IF here = {} THEN {} ELSE {stack[Max(here)].id}
      /\ ApnProfile(other, rows) = IF there = {} THEN {} ELSE {other[Max(there)].id}
  BY <1>3 DEF ApnProfile
<1>7. a \in H /\ b \in H => HasRows(a, rows) /\ HasRows(b, rows)
  BY <1>2
<1>8. CASE here = {}
  BY <1>5, <1>6, <1>8
<1>9. CASE here # {} /\ other[Max(there)] = stack[Max(here)]
  BY <1>5, <1>6, <1>9
<1>10. CASE here # {} /\ other[Max(there)] # stack[Max(here)]
  <2>1. a \in H /\ b \in H /\ OneOfEach(stack[Max(here)], other[Max(there)], a, b)
    BY <1>5, <1>10
  <2>2. OneOfEach({stack[Max(here)].id}, {other[Max(there)].id}, {a.id}, {b.id})
    BY <2>1 DEF OneOfEach
  <2>3. QED
    BY <1>5, <1>6, <1>7, <1>10, <2>1, <2>2
<1>11. QED
  BY <1>8, <1>9, <1>10

-----------------------------------------------------------------------------
(* What a fill item comes to for the SIMs of two matches.                   *)

IsWhen(when) ==
  \E datum : /\ when \in {{}, {datum}}
             /\ datum[1] \in RuleDimensions /\ datum[1] \in TextDimensions
             /\ datum[2] \in Seq(Chars)

Shared(sim, a, b) ==
  /\ IsMatch(a.match) /\ ProfileHolds(a, sim)
  /\ IsMatch(b.match) /\ ProfileHolds(b, sim)

LEMMA TextOfMatch ==
  ASSUME NEW sim, IsSim(sim), NEW p, IsMatch(p.match), ProfileHolds(p, sim),
         NEW d \in TextDimensions, d \in Dimensions, p.match[d] # {}
  PROVE  \E f \in sim[d], w \in p.match[d] : TextHolds(d, w, f) /\ f \in Seq(Chars) /\ w \in Seq(Chars)
<1>1. d \in Used(p.match) /\ d # "android_carrier_ids"
  BY DEF TextDimensions, Used
<1>2. PICK f \in sim[d], w \in p.match[d] : TextHolds(d, w, f)
  BY <1>1 DEF ProfileHolds, DimensionHolds
<1>3. f \in Seq(Chars)
  BY DEF IsSim
<1>4. w \in Seq(Chars)
  BY DEF IsMatch, IsSelector
<1>5. QED
  BY <1>2, <1>3, <1>4

LEMMA SharedIs ==
  ASSUME NEW sim, IsSim(sim), NEW a, NEW b, Shared(sim, a, b), NEW when, IsWhen(when)
  PROVE  /\ SharedEffect(when, a.match, b.match) = "ends" => WhenHolds(when, sim)
         /\ SharedEffect(when, a.match, b.match) = "skips" => ~ WhenHolds(when, sim)
<1>1. CASE when = {}
  BY <1>1 DEF SharedEffect, WhenHolds
<1>2. CASE when # {}
  <2> DEFINE datum == CHOOSE x \in when : TRUE
             d == datum[1]
             v == datum[2]
             mine == a.match[d]
             yours == b.match[d]
             lists == {m[d] : m \in {a.match, b.match}} \ {{}}
             combos == {{x, y} : x \in a.match[d], y \in b.match[d]}
             texts == IF a.match[d] # {} /\ b.match[d] # {}
                      THEN {c \in combos : \A x, y \in c : ValuesOverlap(d, x, y)}
                      ELSE {{x} : x \in UNION lists}
             rest == IF lists = {} THEN "when"
                     ELSE IF ~ \E c \in texts : \A w \in c : ValuesOverlap(d, w, v) THEN "skips"
                     ELSE IF \A c \in texts : \E w \in c : ValueImplies(d, w, v) THEN "ends"
                     ELSE "when"
  <2>1. SharedEffect(when, a.match, b.match) = IF when = {} THEN "ends" ELSE rest
    BY DEF SharedEffect
  <2>2. /\ when = {datum} /\ datum[1] \in RuleDimensions /\ datum[1] \in TextDimensions
        /\ datum[2] \in Seq(Chars)
    <3>1. PICK x : when \in {{}, {x}} /\ x[1] \in RuleDimensions /\ x[1] \in TextDimensions
                   /\ x[2] \in Seq(Chars)
      BY DEF IsWhen
    <3>2. datum = x
      BY <1>2, <3>1
    <3>3. QED
      BY <1>2, <3>1, <3>2
  <2> HIDE DEF datum
  <2>3. d = datum[1] /\ v = datum[2]
    OBVIOUS
  <2> HIDE DEF d, v
  <2>4. d \in TextDimensions /\ d \in Dimensions /\ d # "android_carrier_ids" /\ v \in Seq(Chars)
    BY <2>2, <2>3 DEF TextDimensions
  <2>5. WhenHolds(when, sim) <=> \E f \in sim[d] : TextHolds(d, v, f)
    <3>1. WhenHolds(when, sim) <=> DimensionHolds(d, {v}, sim)
      BY <2>2, <2>3 DEF WhenHolds
    <3>2. QED
      BY <2>4, <3>1 DEF DimensionHolds
  <2>6. lists = {} <=> mine = {} /\ yours = {}
    OBVIOUS
  <2>7. UNION lists = mine \union yours
    OBVIOUS
  <2> HIDE DEF lists
  <2>8. /\ mine # {} /\ yours # {} => \A x \in mine, y \in yours :
             (\A w, u \in {x, y} : ValuesOverlap(d, w, u)) => {x, y} \in texts
        /\ ~ (mine # {} /\ yours # {}) => \A w \in mine \union yours : {w} \in texts
    BY <2>7
  <2> HIDE DEF texts
  <2>9. ASSUME lists # {}
        PROVE  \E c \in texts, f \in sim[d] :
                 f \in Seq(Chars) /\ \A w \in c : w \in Seq(Chars) /\ TextHolds(d, w, f)
    <3>1. ASSUME mine # {}
          PROVE  \E f \in sim[d], w \in mine : TextHolds(d, w, f) /\ f \in Seq(Chars) /\ w \in Seq(Chars)
      BY <2>4, <3>1, TextOfMatch DEF Shared
    <3>2. ASSUME yours # {}
          PROVE  \E f \in sim[d], w \in yours : TextHolds(d, w, f) /\ f \in Seq(Chars) /\ w \in Seq(Chars)
      BY <2>4, <3>2, TextOfMatch DEF Shared
    <3>3. CASE mine # {} /\ yours # {}
      <4>1. PICK f \in sim[d], x \in mine : TextHolds(d, x, f) /\ f \in Seq(Chars) /\ x \in Seq(Chars)
        BY <3>1, <3>3
      <4>2. PICK g \in sim[d], y \in yours : TextHolds(d, y, g) /\ g \in Seq(Chars) /\ y \in Seq(Chars)
        BY <3>2, <3>3
      <4>3. f = g
        BY <2>4, <4>1, <4>2 DEF IsSim
      <4>4. \A w \in {x, y} : w \in Seq(Chars) /\ TextHolds(d, w, f)
        BY <4>1, <4>2, <4>3
      <4>5. \A w, u \in {x, y} : ValuesOverlap(d, w, u)
        BY <2>4, <4>1, <4>4, BothOverlap
      <4>6. {x, y} \in texts
        BY <2>8, <3>3, <4>5
      <4>7. QED
        BY <4>1, <4>4, <4>6
    <3>4. CASE ~ (mine # {} /\ yours # {})
      <4>1. PICK f \in sim[d], w \in mine \union yours :
              TextHolds(d, w, f) /\ f \in Seq(Chars) /\ w \in Seq(Chars)
        BY <2>6, <2>9, <3>1, <3>2
      <4>2. {w} \in texts
        BY <2>8, <3>4
      <4>3. QED
        BY <4>1, <4>2
    <3>5. QED
      BY <3>3, <3>4
  <2> HIDE DEF mine, yours
  <2>10. ASSUME lists # {}, \A c \in texts : \E w \in c : ValueImplies(d, w, v)
         PROVE  WhenHolds(when, sim)
    <3>1. PICK c \in texts, f \in sim[d] :
            f \in Seq(Chars) /\ \A w \in c : w \in Seq(Chars) /\ TextHolds(d, w, f)
      BY <2>9, <2>10
    <3>2. PICK w \in c : ValueImplies(d, w, v)
      BY <2>10
    <3>3. TextHolds(d, v, f)
      BY <2>4, <3>1, <3>2, ImpliedHolds
    <3>4. QED
      BY <2>5, <3>3
  <2>11. ASSUME lists # {}, WhenHolds(when, sim)
         PROVE  \E c \in texts : \A w \in c : ValuesOverlap(d, w, v)
    <3>1. PICK c \in texts, f \in sim[d] :
            f \in Seq(Chars) /\ \A w \in c : w \in Seq(Chars) /\ TextHolds(d, w, f)
      BY <2>9, <2>11
    <3>2. PICK g \in sim[d] : TextHolds(d, v, g)
      BY <2>5, <2>11
    <3>3. f = g
      BY <2>4 DEF IsSim
    <3>4. \A w \in c : ValuesOverlap(d, w, v)
      BY <2>4, <3>1, <3>2, <3>3, BothOverlap
    <3>5. QED
      BY <3>4
  <2>12. QED
    BY <1>2, <2>1, <2>10, <2>11
<1>3. QED
  BY <1>1, <1>2

(* What the list under another match leaves out is never picked.            *)
LEMMA UnderPicks ==
  ASSUME NEW sim, IsSim(sim), NEW a, NEW b, Shared(sim, a, b),
         NEW fill, DOMAIN fill \subseteq Nat, \A i \in DOMAIN fill : IsWhen(fill[i].when),
         NEW entries, \A i \in DOMAIN fill : fill[i].entry \in entries,
         NEW under, under = FillUnder(fill, a.match, b.match)
  PROVE  PickFill(under, sim, entries) = PickFill(fill, sim, entries)
<1> DEFINE Effect(i) == SharedEffect(fill[i].when, a.match, b.match)
           left == {i \in DOMAIN fill :
                      Effect(i) # "skips" /\ ~ \E j \in DOMAIN fill : j < i /\ Effect(j) = "ends"}
           met == {i \in DOMAIN fill : fill[i].entry \in entries /\ WhenHolds(fill[i].when, sim)}
           holding == {i \in DOMAIN under : under[i].entry \in entries /\ WhenHolds(under[i].when, sim)}
<1>1. /\ DOMAIN under = left
      /\ \A i \in left : /\ under[i].entry = fill[i].entry
                         /\ under[i].when = IF Effect(i) = "ends" THEN {} ELSE fill[i].when
  BY DEF FillUnder
<1>2. \A i \in DOMAIN fill : /\ Effect(i) = "ends" => WhenHolds(fill[i].when, sim)
                             /\ Effect(i) = "skips" => ~ WhenHolds(fill[i].when, sim)
  BY SharedIs
<1>3. \A i \in DOMAIN fill : i \in met <=> WhenHolds(fill[i].when, sim)
  OBVIOUS
<1>4. \A i \in left : i \in holding <=> (Effect(i) = "ends" \/ WhenHolds(fill[i].when, sim))
  BY <1>1 DEF WhenHolds
<1>5. PickFill(under, sim, entries) = IF holding = {} THEN {} ELSE {under[Min(holding)].entry}
  BY DEF PickFill
<1>6. PickFill(fill, sim, entries) = IF met = {} THEN {} ELSE {fill[Min(met)].entry}
  BY DEF PickFill
<1>7. met \subseteq Nat /\ met \subseteq DOMAIN fill /\ holding \subseteq left /\ left \subseteq DOMAIN fill
  BY <1>1
<1>8. \A i \in left : Effect(i) # "skips"
  OBVIOUS
<1>9. \A i \in DOMAIN fill : Effect(i) # "skips" /\ (~ \E j \in DOMAIN fill : j < i /\ Effect(j) = "ends") => i \in left
  OBVIOUS
<1> HIDE DEF met, holding, left, Effect
<1>10. holding \subseteq met
  BY <1>2, <1>3, <1>4, <1>7
<1>11. \A i \in holding : under[i].entry = fill[i].entry
  BY <1>1, <1>7
<1>12. CASE met = {}
  BY <1>5, <1>6, <1>10, <1>12
<1>13. CASE met # {}
  <2>1. PICK m : m = Min(met)
    OBVIOUS
  <2>2. m \in met /\ \A x \in met : m <= x
    BY <1>7, <1>13, <2>1, LeastIs
  <2>3. m \in DOMAIN fill /\ WhenHolds(fill[m].when, sim) /\ Effect(m) # "skips"
    BY <1>2, <1>3, <1>7, <2>2
  <2>4. ~ \E j \in DOMAIN fill : j < m /\ Effect(j) = "ends"
    <3>1. SUFFICES ASSUME NEW j \in DOMAIN fill, j < m, Effect(j) = "ends" PROVE FALSE
      OBVIOUS
    <3>2. j \in met /\ j \in Nat /\ m \in Nat
      BY <1>2, <1>3, <1>7, <2>2, <3>1
    <3>3. m <= j
      BY <2>2, <3>2
    <3>4. QED
      BY <3>1, <3>2, <3>3
  <2>5. m \in holding
    BY <1>4, <1>9, <2>3, <2>4
  <2>6. \A x \in holding : m <= x
    BY <1>10, <2>2
  <2>7. Min(holding) = m
    BY <1>7, <1>10, <2>5, <2>6, LeastIsOne
  <2>8. QED
    BY <1>5, <1>6, <1>11, <1>13, <2>1, <2>5, <2>7
<1>14. QED
  BY <1>12, <1>13

Meets(item, sim, entries) == item.entry \in entries /\ WhenHolds(item.when, sim)

(* Listing the items anew keeps the first that holds.                       *)
LEMMA ListedPicks ==
  ASSUME NEW fill, IsFiniteSet(DOMAIN fill), DOMAIN fill \subseteq Nat,
         NEW sim, NEW entries, NEW list, list = Listed(fill)
  PROVE  PickFill(list, sim, entries) = PickFill(fill, sim, entries)
<1> DEFINE S == DOMAIN fill
           n == Cardinality(S)
           R == {x \in S \X S : x[1] < x[2]}
           Below(i) == Cardinality({j \in S : j < i})
           At(k) == CHOOSE i \in S : Below(i) = k - 1
<1>0. list = [k \in 1..n |-> fill[At(k)]]
  BY Zenon DEF Listed
<1>1. S = DOMAIN fill
  OBVIOUS
<1>2. n = Cardinality(S)
  OBVIOUS
<1> HIDE DEF S, n
<1>3. PICK rank : rank = RankIn(S, R)
  OBVIOUS
<1>4. StrictOrder(S, R)
  <2>1. \A i, j \in S : <<i, j>> \in R <=> i < j
    OBVIOUS
  <2>2. S \subseteq Nat
    BY <1>1
  <2> HIDE DEF R
  <2>3. \A i, j \in S : i # j => i < j \/ j < i
    BY <2>2
  <2>4. \A i, j, k \in S : i < j /\ j < k => i < k
    BY <2>2
  <2>5. \A i \in S : ~ i < i
    BY <2>2
  <2>6. QED
    BY <2>1, <2>3, <2>4, <2>5 DEF StrictOrder
<1>5. Ranked(S, R, rank)
  BY <1>1, <1>3, <1>4, RanksAreAll
<1>6. \A i \in S : rank[i] = Below(i)
  <2>1. \A i \in S : {q \in S : <<q, i>> \in R} = {j \in S : j < i}
    OBVIOUS
  <2> HIDE DEF R
  <2>2. \A i \in S : rank[i] = Cardinality({q \in S : <<q, i>> \in R})
    BY <1>3 DEF RankIn
  <2>3. QED
    BY <2>1, <2>2
<1>7. /\ n \in Nat /\ \A i \in S : rank[i] \in 0..(n - 1)
      /\ \A i, j \in S : i < j => rank[i] < rank[j]
      /\ \A i, j \in S : rank[i] = rank[j] => i = j
      /\ \A k \in 0..(n - 1) : \E i \in S : rank[i] = k
  BY <1>2, <1>5 DEF Ranked
<1> HIDE DEF Below, R
<1>9. \A k \in 1..n : At(k) \in S /\ rank[At(k)] = k - 1
  <2>1. SUFFICES ASSUME NEW k \in 1..n PROVE At(k) \in S /\ rank[At(k)] = k - 1
    OBVIOUS
  <2>2. k - 1 \in 0..(n - 1)
    BY <1>7
  <2>3. \E i \in S : Below(i) = k - 1
    BY <1>6, <1>7, <2>2
  <2>4. At(k) \in S /\ Below(At(k)) = k - 1
    BY <2>3
  <2>5. QED
    BY <1>6, <2>4
<1> HIDE DEF At
<1>10. DOMAIN list = 1..n /\ \A k \in 1..n : list[k] = fill[At(k)]
  BY <1>0
<1> DEFINE here == {i \in DOMAIN fill : Meets(fill[i], sim, entries)}
           there == {k \in DOMAIN list : Meets(list[k], sim, entries)}
<1>11. PickFill(fill, sim, entries) = IF here = {} THEN {} ELSE {fill[Min(here)].entry}
  BY Zenon DEF PickFill, Meets
<1>12. PickFill(list, sim, entries) = IF there = {} THEN {} ELSE {list[Min(there)].entry}
  BY Zenon DEF PickFill, Meets
<1>13. /\ \A i \in S : i \in here <=> Meets(fill[i], sim, entries)
       /\ \A k \in 1..n : k \in there <=> Meets(list[k], sim, entries)
       /\ here \subseteq S /\ there \subseteq 1..n
  BY <1>1, <1>10
<1> HIDE DEF here, there
<1>14. \A k \in there : k \in 1..n /\ At(k) \in here
  BY <1>9, <1>10, <1>13
<1>15. CASE here = {}
  BY <1>11, <1>12, <1>14, <1>15
<1>16. CASE here # {}
  <2>1. PICK m : m = Min(here)
    OBVIOUS
  <2>2. m \in here /\ \A i \in here : m <= i
    BY <1>1, <1>13, <1>16, <2>1, LeastIs
  <2>3. m \in S /\ m \in Nat /\ rank[m] \in 0..(n - 1)
    BY <1>1, <1>7, <1>13, <2>2
  <2>4. PICK k : k = rank[m] + 1
    OBVIOUS
  <2>5. k \in 1..n
    BY <1>7, <2>3, <2>4
  <2>6. At(k) = m
    <3>1. At(k) \in S /\ rank[At(k)] = rank[m]
      BY <1>9, <2>3, <2>4, <2>5
    <3>2. QED
      BY <1>7, <2>3, <3>1
  <2>7. k \in there
    BY <1>10, <1>13, <2>2, <2>3, <2>5, <2>6
  <2>8. \A j \in there : k <= j
    <3>1. SUFFICES ASSUME NEW j \in there, j < k PROVE FALSE
      BY <1>14, <2>5
    <3>2. j \in 1..n /\ At(j) \in here /\ At(j) \in S /\ rank[At(j)] = j - 1
      BY <1>9, <1>14
    <3>3. m <= At(j) /\ At(j) \in Nat
      BY <1>1, <2>2, <3>2
    <3>4. m # At(j)
      BY <2>3, <2>4, <2>5, <3>1, <3>2
    <3>5. rank[m] < rank[At(j)]
      BY <1>7, <2>3, <3>2, <3>3, <3>4
    <3>6. QED
      BY <2>3, <2>4, <3>1, <3>2, <3>5
  <2>9. Min(there) = k
    <3>1. there \subseteq Nat
      BY <1>13
    <3>2. QED
      BY <2>7, <2>8, <3>1, LeastIsOne
  <2>10. list[k] = fill[m]
    BY <1>10, <2>5, <2>6
  <2>11. QED
    BY <1>11, <1>12, <1>16, <2>1, <2>7, <2>9, <2>10
<1>17. QED
  BY <1>15, <1>16

-----------------------------------------------------------------------------
(* The APN rows of a profile with one network and one selector.             *)

LEMMA OneOnly ==
  ASSUME NEW S, IsFiniteSet(S), Cardinality(S) <= 1
  PROVE  \A x, y \in S : x = y
<1>1. Cardinality(S) \in Nat
  BY FS_CardinalityType
<1>2. CASE Cardinality(S) = 0
  <2>1. S = {}
    BY <1>2, FS_EmptySet
  <2>2. QED
    BY <2>1
<1>3. CASE Cardinality(S) = 1
  <2>1. PICK x : S = {x}
    BY <1>3, FS_Singleton
  <2>2. QED
    BY <2>1
<1>4. QED
  BY <1>1, <1>2, <1>3

LEMMA TwoOfThem ==
  ASSUME NEW a, NEW b, a # b
  PROVE  Cardinality({a, b}) = 2
<1>1. IsFiniteSet({a}) /\ Cardinality({a}) = 1
  BY FS_Singleton
<1>2. Cardinality({a} \union {b}) = 2
  BY <1>1, FS_AddElement
<1>3. {a} \union {b} = {a, b}
  OBVIOUS
<1>4. QED
  BY <1>2, <1>3

LEMMA OwnersAre ==
  ASSUME NEW profiles, NEW r \in IndexRows(profiles), NEW id \in r.owners
  PROVE  \E p \in profiles : p.id = id /\ r.net \in p.match.mccmnc /\ r.mvno \in ApnMvnos(p.match)
<1> DEFINE Written(p) == {[net |-> n, mvno |-> m, apn |-> a] :
                            n \in p.match.mccmnc, m \in ApnMvnos(p.match), a \in p.apns}
           Row(x) == [net |-> x.net, mvno |-> x.mvno, apn |-> x.apn,
                      owners |-> {p.id : p \in {q \in profiles : x \in Written(q)}}]
<1>1. IndexRows(profiles) = {Row(x) : x \in UNION {Written(p) : p \in profiles}}
  BY DEF IndexRows
<1>2. \A x : /\ Row(x).net = x.net /\ Row(x).mvno = x.mvno
             /\ Row(x).owners = {p.id : p \in {q \in profiles : x \in Written(q)}}
  OBVIOUS
<1>3. \A p \in profiles : \A x \in Written(p) : x.net \in p.match.mccmnc /\ x.mvno \in ApnMvnos(p.match)
  OBVIOUS
<1> HIDE DEF Written, Row
<1>4. PICK x \in UNION {Written(p) : p \in profiles} : r = Row(x)
  BY <1>1
<1>5. r.net = x.net /\ r.mvno = x.mvno /\ r.owners = {p.id : p \in {q \in profiles : x \in Written(q)}}
  BY <1>2, <1>4
<1>6. PICK p \in profiles : id = p.id /\ x \in Written(p)
  BY <1>5
<1>7. QED
  BY <1>3, <1>5, <1>6

(* The rows of a profile with one selector have it.                         *)
LEMMA SingleMvnoRows ==
  ASSUME NEW match, SingleMvno(match), NEW mvno \in ApnMvnos(match)
  PROVE  mvno # {}
<1> DEFINE kinds == [imsi_prefix_patterns |-> "imsi", spn |-> "spn",
                     gid1_prefixes |-> "gid", iccid_prefixes |-> "iccid"]
           used == Used(match) \intersect DOMAIN kinds
<1>1. PICK d \in {"spn", "imsi_prefix_patterns", "gid1_prefixes", "iccid_prefixes"} : Used(match) = {d}
  BY DEF SingleMvno
<1>2. d \in used
  BY <1>1
<1>3. used # {}
  BY <1>2
<1> DEFINE rows == {{<<kinds[e], text>>} : e \in used, text \in UNION {match[e] : e \in used}}
<1>4. ApnMvnos(match) = IF match.gid2_prefixes # {} \/ Cardinality(used) > 1 THEN {}
                        ELSE IF used = {} THEN {{}} ELSE rows
  BY DEF ApnMvnos
<1>5. \A m \in rows : m # {}
  <2> DEFINE texts == UNION {match[e] : e \in used}
             Selector(e, text) == <<kinds[e], text>>
  <2>1. rows = {{Selector(e, text)} : e \in used, text \in texts}
    OBVIOUS
  <2> HIDE DEF used, kinds, rows, texts, Selector
  <2>2. SUFFICES ASSUME NEW m \in rows PROVE m # {}
    OBVIOUS
  <2>3. PICK e \in used, text \in texts : m = {Selector(e, text)}
    BY <2>1, <2>2
  <2>4. QED
    BY <2>3
<1> HIDE DEF used, kinds, rows
<1>6. mvno \in rows
  BY <1>3, <1>4
<1>7. QED
  BY <1>5, <1>6

LEMMA TextMatchesRow ==
  ASSUME NEW match, NEW selector, RowText(selector, match), OneValued([match |-> match]), IsMatch(match),
         NEW sim, \A d \in Used(match) : DimensionHolds(d, match[d], sim)
  PROVE  RowSelectorMatches(selector, sim)
<1>1. \A d \in Dimensions : \A x, y \in match[d] : x = y
  <2>1. SUFFICES ASSUME NEW d \in Dimensions PROVE \A x, y \in match[d] : x = y
    OBVIOUS
  <2>2. Cardinality(match[d]) <= 1
    BY DEF OneValued
  <2>3. IsFiniteSet(match[d])
    BY DEF IsMatch
  <2>4. QED
    BY <2>2, <2>3, OneOnly
<1>2. \A d \in Dimensions : d # "android_carrier_ids" =>
        \A v \in match[d] : \E f \in sim[d] : TextHolds(d, v, f)
  <2>1. SUFFICES ASSUME NEW d \in Dimensions, d # "android_carrier_ids", NEW v \in match[d]
                 PROVE  \E f \in sim[d] : TextHolds(d, v, f)
    OBVIOUS
  <2>2. DimensionHolds(d, match[d], sim)
    BY <2>1 DEF Used
  <2>3. PICK f \in sim[d], w \in match[d] : TextHolds(d, w, f)
    BY <2>1, <2>2 DEF DimensionHolds
  <2>4. w = v
    BY <1>1
  <2>5. QED
    BY <2>3, <2>4
<1>3. {"spn", "gid1_prefixes", "iccid_prefixes", "imsi_prefix_patterns"} \subseteq Dimensions
  BY DEF Dimensions
<1>4. CASE selector[1] = "imsi" /\ selector[2] \in match["imsi_prefix_patterns"]
  <2>1. PICK f \in sim["imsi_prefix_patterns"] : TextHolds("imsi_prefix_patterns", selector[2], f)
    BY <1>2, <1>3, <1>4
  <2>2. ImsiPatternMatches(selector[2], f)
    BY <2>1 DEF TextHolds
  <2>3. QED
    BY <1>4, <2>2 DEF RowSelectorMatches
<1>5. CASE selector[1] = "spn" /\ selector[2] \in match["spn"]
  <2>1. PICK f \in sim["spn"] : TextHolds("spn", selector[2], f)
    BY <1>2, <1>3, <1>5
  <2>2. JavaEqualsIgnoreCase(f, selector[2])
    BY <2>1 DEF TextHolds
  <2>3. QED
    BY <1>5, <2>2 DEF RowSelectorMatches
<1>6. CASE selector[1] = "gid" /\ selector[2] \in match["gid1_prefixes"]
  <2>1. PICK f \in sim["gid1_prefixes"] : TextHolds("gid1_prefixes", selector[2], f)
    BY <1>2, <1>3, <1>6
  <2>2. JavaStartsWithIgnoreCase(f, selector[2])
    BY <2>1 DEF TextHolds
  <2>3. QED
    BY <1>6, <2>2 DEF RowSelectorMatches
<1>7. CASE selector[1] = "iccid" /\ selector[2] \in match["iccid_prefixes"]
  <2>1. PICK f \in sim["iccid_prefixes"] : TextHolds("iccid_prefixes", selector[2], f)
    BY <1>2, <1>3, <1>7
  <2>2. IsPrefix(selector[2], f)
    BY <2>1 DEF TextHolds
  <2>3. QED
    BY <1>7, <2>2 DEF RowSelectorMatches
<1>8. QED
  BY <1>4, <1>5, <1>6, <1>7 DEF RowText

(* Every SIM of such a profile selects its rows.                            *)
LEMMA OwnRowsSelected ==
  ASSUME NEW profiles, \A p, q \in profiles : p.id = q.id => p = q,
         NEW p \in profiles, IsMatch(p.match), OneValued(p), SingleMvno(p.match),
         NEW sim, IsSim(sim), ProfileHolds(p, sim), NEW net, net = NetOf(sim),
         NEW rows, rows = IndexRows(profiles), NEW r \in rows, p.id \in r.owners
  PROVE  r \in ApnRows(rows, sim, net)
<1>1. r.net \in p.match.mccmnc /\ r.mvno \in ApnMvnos(p.match)
  BY OwnersAre
<1>2. r.net = net
  <2>1. Cardinality(p.match.mccmnc) <= 1 /\ IsFiniteSet(p.match.mccmnc)
    BY DEF OneValued, IsMatch
  <2>2. \A x, y \in p.match.mccmnc : x = y
    BY <2>1, OneOnly
  <2>3. net \in sim.mccmnc /\ \A x \in sim.mccmnc : x = net
    BY DEF NetOf, IsSim
  <2>4. net \in p.match.mccmnc
    BY <2>3 DEF ProfileHolds
  <2>5. QED
    BY <1>1, <2>2, <2>4
<1>3. PICK selector : selector \in r.mvno
  BY <1>1, SingleMvnoRows
<1>4. RowText(selector, p.match)
  BY <1>1, <1>3, MvnosAre
<1>5. RowSelectorMatches(selector, sim)
  <2>1. OneValued([match |-> p.match])
    BY DEF OneValued
  <2>2. \A d \in Used(p.match) : DimensionHolds(d, p.match[d], sim)
    BY DEF ProfileHolds
  <2>3. QED
    BY <1>4, <2>1, <2>2, TextMatchesRow
<1>6. r \in {x \in {y \in rows : y.net = net} : \E y \in x.mvno : RowSelectorMatches(y, sim)}
  BY <1>2, <1>3, <1>5
<1>7. QED
  BY <1>6 DEF ApnRows

-----------------------------------------------------------------------------
(* Two profiles of one SIM that tie.                                        *)

LEMMA NoDifference ==
  ASSUME NEW a, NEW b, NEW rows, ServedDifference(a, b, rows) = {}
  PROVE  /\ \A key \in DOMAIN a.values \intersect DOMAIN b.values : a.values[key] = b.values[key]
         /\ Listed(FillUnder(a.fill, a.match, b.match)) = Listed(FillUnder(b.fill, b.match, a.match))
         /\ HasRows(a, rows) /\ HasRows(b, rows) =>
              /\ SingleMvno(a.match) /\ SingleMvno(b.match)
              /\ OwnsAlone(rows, a, b) /\ OwnsAlone(rows, b, a)
<1> DEFINE values == \E key \in DOMAIN a.values \intersect DOMAIN b.values : a.values[key] # b.values[key]
           fill == Listed(FillUnder(a.fill, a.match, b.match)) # Listed(FillUnder(b.fill, b.match, a.match))
           coupling == /\ \A p \in {a, b} : \E r \in rows : p.id \in r.owners
                       /\ ~ /\ SingleMvno(a.match) /\ SingleMvno(b.match)
                            /\ OwnsAlone(rows, a, b) /\ OwnsAlone(rows, b, a)
<1>1. ServedDifference(a, b, rows) =
        {what \in {"carrier_config", "google_fill", "apn_coupling"} :
           CASE what = "carrier_config" -> values
             [] what = "google_fill" -> fill
             [] what = "apn_coupling" -> coupling}
  BY DEF ServedDifference
<1>2. ~ values /\ ~ fill /\ ~ coupling
  <2> HIDE DEF values, fill, coupling
  <2>1. \A what \in {"carrier_config", "google_fill", "apn_coupling"} :
          ~ (CASE what = "carrier_config" -> values
               [] what = "google_fill" -> fill
               [] what = "apn_coupling" -> coupling)
    BY <1>1
  <2>2. QED
    BY <2>1
<1>3. QED
  BY <1>2 DEF HasRows

FillOK(fill, entries) ==
  /\ IsFiniteSet(DOMAIN fill) /\ DOMAIN fill \subseteq Nat
  /\ \A i \in DOMAIN fill : IsWhen(fill[i].when)
  /\ \A i \in DOMAIN fill : fill[i].entry \in entries

LEMMA FillsOf ==
  ASSUME NEW s, TreeOK(s), NEW net \in DOMAIN NetworksIn(s), NEW q \in NetworksIn(s)[net],
         NEW entries, \A i \in DOMAIN q.fill : q.fill[i].entry \in entries
  PROVE  FillOK(q.fill, entries)
<1>1. PICK p \in Everyone(s) : OnNetwork(q, p, s.rules, net)
  BY NetworksAre
<1>2. PICK rules : rules = RulesOn(s.rules, net)
  OBVIOUS
<1>3. /\ DOMAIN rules \subseteq DOMAIN s.rules
      /\ \A i \in DOMAIN rules : rules[i] = s.rules[i]
  BY <1>2 DEF RulesOn, Restrict
<1>4. IsFiniteSet(DOMAIN s.rules)
  <2>1. DOMAIN s.rules = 1..Len(s.rules) /\ Len(s.rules) \in Nat
    BY DEF TreeOK
  <2>2. QED
    BY <2>1, FS_Interval
<1>5. q.fill = ComputeFill(p, rules)
  BY <1>1, <1>2 DEF OnNetwork
<1>6. DOMAIN q.fill \subseteq DOMAIN rules
  BY <1>5 DEF ComputeFill
<1>7. IsFiniteSet(DOMAIN q.fill)
  BY <1>3, <1>4, <1>6, FS_Subset
<1>8. \A i \in DOMAIN q.fill : q.fill[i].when \in {{}, rules[i].mvno}
  BY <1>5 DEF ComputeFill
<1>9. ASSUME NEW i \in DOMAIN q.fill
      PROVE  IsWhen(q.fill[i].when)
  <2>1. PICK rule : rule = rules[i]
    OBVIOUS
  <2>2. IsRule(rule)
    BY <1>3, <1>6, <2>1 DEF TreeOK
  <2>3. PICK datum : datum = CHOOSE x \in rule.mvno : TRUE
    OBVIOUS
  <2>4. rule.mvno = {} \/ /\ rule.mvno = {datum} /\ datum[1] \in RuleDimensions
                          /\ datum[1] \in TextDimensions /\ datum[2] \in Seq(Chars)
    BY <2>2, <2>3, RuleSelector
  <2>5. q.fill[i].when \in {{}, rule.mvno}
    BY <1>8, <2>1
  <2>6. CASE q.fill[i].when = {}
    <3>1. "spn" \in RuleDimensions /\ "spn" \in TextDimensions /\ <<>> \in Seq(Chars)
      BY DEF RuleDimensions, TextDimensions, Dimensions
    <3>2. PICK x : x[1] = "spn" /\ x[2] = <<>>
      <4>1. <<"spn", <<>>>>[1] = "spn" /\ <<"spn", <<>>>>[2] = <<>>
        OBVIOUS
      <4>2. QED
        BY <4>1
    <3>3. {} \in {{}, {x}} /\ x[1] \in RuleDimensions /\ x[1] \in TextDimensions /\ x[2] \in Seq(Chars)
      BY <3>1, <3>2
    <3>4. QED
      BY <2>6, <3>3 DEF IsWhen
  <2>7. CASE q.fill[i].when = {datum} /\ rule.mvno = {datum}
    BY <2>4, <2>7 DEF IsWhen
  <2>8. QED
    BY <2>4, <2>5, <2>6, <2>7
<1>10. DOMAIN q.fill \subseteq Nat
  BY FillPositions
<1>11. QED
  BY <1>7, <1>9, <1>10 DEF FillOK

LEMMA FillsAlike ==
  ASSUME NEW sim, IsSim(sim), NEW a, NEW b, Shared(sim, a, b),
         NEW entries, FillOK(a.fill, entries), FillOK(b.fill, entries),
         Listed(FillUnder(a.fill, a.match, b.match)) = Listed(FillUnder(b.fill, b.match, a.match))
  PROVE  PickFill(a.fill, sim, entries) = PickFill(b.fill, sim, entries)
<1>1. ASSUME NEW x, NEW y, Shared(sim, x, y), FillOK(x.fill, entries)
      PROVE  PickFill(Listed(FillUnder(x.fill, x.match, y.match)), sim, entries) = PickFill(x.fill, sim, entries)
  <2>1. PICK under : under = FillUnder(x.fill, x.match, y.match)
    OBVIOUS
  <2>2. PickFill(under, sim, entries) = PickFill(x.fill, sim, entries)
    BY <1>1, <2>1, UnderPicks DEF FillOK
  <2>3. DOMAIN under \subseteq DOMAIN x.fill
    BY <2>1 DEF FillUnder
  <2>4. IsFiniteSet(DOMAIN under) /\ DOMAIN under \subseteq Nat
    BY <1>1, <2>3, FS_Subset DEF FillOK
  <2>5. PICK list : list = Listed(under)
    OBVIOUS
  <2>6. PickFill(list, sim, entries) = PickFill(under, sim, entries)
    BY <2>4, <2>5, ListedPicks
  <2>7. QED
    BY <2>1, <2>2, <2>5, <2>6
<1>2. Shared(sim, b, a)
  BY DEF Shared
<1>3. PickFill(Listed(FillUnder(a.fill, a.match, b.match)), sim, entries) = PickFill(a.fill, sim, entries)
  BY <1>1
<1>4. PickFill(Listed(FillUnder(b.fill, b.match, a.match)), sim, entries) = PickFill(b.fill, sim, entries)
  BY <1>1, <1>2
<1>5. QED
  BY <1>3, <1>4

(* What the tie check says of two profiles of a published stack.            *)
Settled(d, sim, net, profiles, a, b) ==
  /\ net \in DOMAIN d.networks /\ profiles = d.networks[net]
  /\ a \in profiles /\ b \in profiles /\ Shared(sim, a, b)
  /\ ServedDifference(a, b, d.rows) = {}

LEMMA TiesAreSettled ==
  ASSUME Inv, NEW d \in dataset, NEW s \in served, NEW net, net = NetOf(s.sim),
         NEW profiles, profiles = ProfilesFor(d, net),
         NEW a, NEW b, a # b, {a, b} \subseteq ToSet(s.stack), Tied(a, b, net), Tied(b, a, net)
  PROVE  Settled(d, s.sim, net, profiles, a, b)
<1>1. /\ IsSim(s.sim) /\ Distinct(profiles) /\ ToSet(s.stack) = Holding(profiles, s.sim)
      /\ s.stack # <<>> => net \in DOMAIN d.networks /\ profiles = d.networks[net]
  BY ServedIs
<1>2. s.stack # <<>>
  BY DEF ToSet
<1>3. /\ a \in profiles /\ b \in profiles /\ ProfileHolds(a, s.sim) /\ ProfileHolds(b, s.sim)
      /\ IsMatch(a.match) /\ IsMatch(b.match)
  BY <1>1 DEF Holding, Distinct
<1>4. SelectorsCanOverlap(a.match, b.match) /\ SelectorsCanOverlap(b.match, a.match)
  BY <1>1, <1>3, HoldingOverlap
<1>5. Cardinality({a, b}) = 2
  BY TwoOfThem
<1>6. {a, b} \in {{x, y} : x, y \in profiles}
  BY <1>3
<1>7. \A x, y \in {a, b} : Cardinality({a, b}) = 2
                           /\ (x # y => Tied(x, y, net) /\ SelectorsCanOverlap(x.match, y.match))
  BY <1>4, <1>5
<1>8. {a, b} \in TieReport(profiles, net)
  <2>1. PICK pair : pair = {a, b}
    OBVIOUS
  <2>2. pair \in {{x, y} : x, y \in profiles}
    BY <1>6, <2>1
  <2>3. \A x, y \in pair : /\ Cardinality(pair) = 2
                           /\ x # y => Tied(x, y, net) /\ SelectorsCanOverlap(x.match, y.match)
    BY <1>7, <2>1
  <2>4. pair \in TieReport(profiles, net)
    BY <2>2, <2>3 DEF TieReport
  <2>5. QED
    BY <2>1, <2>4
<1>9. TieProblems(profiles, net, d.rows) = {}
  <2>1. TiesSettled(d)
    BY DEF Inv, DatasetInv
  <2>2. QED
    BY <1>1, <1>2, <2>1 DEF TiesSettled
<1>10. ServedDifference(a, b, d.rows) = {}
  BY <1>8, <1>9 DEF TieProblems
<1>11. QED
  BY <1>1, <1>2, <1>3, <1>10 DEF Shared, Settled

(* A row a SIM selects that is not the owner's own.                         *)
LEMMA ForeignRow ==
  ASSUME NEW stack, NEW sim, NEW net, NEW rows, NEW id, ApnProfile(stack, rows) = {id},
         NEW r \in ApnRows(rows, sim, net), id \notin r.owners
  PROVE  Coupling(stack, sim, net, rows) = "mismatch"
<1>1. PICK selected, owner : selected = ApnRows(rows, sim, net) /\ owner = ApnProfile(stack, rows)
  OBVIOUS
<1>2. Coupling(stack, sim, net, rows) =
        IF \/ owner = {} /\ selected = {}
           \/ owner # {} /\ selected # {} /\ \A x \in selected : owner \subseteq x.owners
        THEN "same" ELSE "mismatch"
  BY <1>1 DEF Coupling
<1>3. owner # {} /\ r \in selected /\ ~ owner \subseteq r.owners
  BY <1>1
<1>4. QED
  BY <1>2, <1>3

(* A profile of a network is the published one of its ID.                   *)
LEMMA OwnerIsPublished ==
  ASSUME NEW t, TreeOK(t), NEW net \in DOMAIN NetworksIn(t), NEW q \in NetworksIn(t)[net],
         HasRows(q, IndexRows(t.profiles))
  PROVE  \E p \in t.profiles : p.id = q.id /\ p.match = q.match
<1>1. PICK r \in IndexRows(t.profiles) : q.id \in r.owners
  BY DEF HasRows
<1>2. PICK p \in t.profiles : p.id = q.id
  BY <1>1, OwnersAre
<1>3. PICK e \in Everyone(t) : OnNetwork(q, e, t.rules, net)
  BY NetworksAre
<1>4. e.id = q.id /\ e.match = q.match
  BY <1>3 DEF OnNetwork
<1>5. p \in Everyone(t)
  BY <1>2 DEF Everyone
<1>6. \A x, y \in Everyone(t) : x.id = y.id => x = y
  BY EveryoneIs DEF Distinct
<1>7. e = p
  BY <1>2, <1>3, <1>4, <1>5, <1>6
<1>8. QED
  BY <1>2, <1>4, <1>7

LEMMA OwnRowIsThere ==
  ASSUME NEW t, TreeOK(t), NEW net \in DOMAIN NetworksIn(t), NEW q \in NetworksIn(t)[net],
         NEW rows, rows = IndexRows(t.profiles), HasRows(q, rows),
         OneValued(q), SingleMvno(q.match), NEW sim, IsSim(sim), ProfileHolds(q, sim), net = NetOf(sim),
         NEW r \in rows, q.id \in r.owners
  PROVE  r \in ApnRows(rows, sim, net)
<1>1. PICK p \in t.profiles : p.id = q.id /\ p.match = q.match
  BY OwnerIsPublished
<1>2. OneValued(p) /\ SingleMvno(p.match) /\ ProfileHolds(p, sim)
  BY <1>1 DEF OneValued, ProfileHolds
<1>3. IsMatch(p.match)
  BY DEF TreeOK, IsProfile
<1>4. \A x, y \in t.profiles : x.id = y.id => x = y
  BY DEF TreeOK
<1>5. p.id \in r.owners
  BY <1>1
<1>6. QED
  BY <1>2, <1>3, <1>4, <1>5, OwnRowsSelected

LEMMA CoupledAlike ==
  ASSUME NEW t, TreeOK(t), NEW net \in DOMAIN NetworksIn(t),
         NEW a \in NetworksIn(t)[net], NEW b \in NetworksIn(t)[net], OneValued(a), OneValued(b),
         NEW sim, IsSim(sim), net = NetOf(sim), Shared(sim, a, b),
         NEW rows, rows = IndexRows(t.profiles), ServedDifference(a, b, rows) = {},
         NEW some, NEW stack, Stacked(stack, some, net), NEW k, Neighbours(stack, k, a, b, net),
         NEW other, other = Exchanged(stack, k)
  PROVE  Coupling(other, sim, net, rows) = Coupling(stack, sim, net, rows)
<1>1. CASE ApnProfile(other, rows) = ApnProfile(stack, rows)
  BY <1>1 DEF Coupling
<1>2. CASE /\ HasRows(a, rows) /\ HasRows(b, rows)
           /\ OneOfEach(ApnProfile(stack, rows), ApnProfile(other, rows), {a.id}, {b.id})
  <2>1. /\ SingleMvno(a.match) /\ SingleMvno(b.match)
        /\ OwnsAlone(rows, a, b) /\ OwnsAlone(rows, b, a)
    BY <1>2, NoDifference
  <2>2. PICK r \in rows : a.id \in r.owners /\ b.id \notin r.owners
    BY <2>1 DEF OwnsAlone
  <2>3. PICK x \in rows : b.id \in x.owners /\ a.id \notin x.owners
    BY <2>1 DEF OwnsAlone
  <2>4. ProfileHolds(a, sim) /\ ProfileHolds(b, sim)
    BY DEF Shared
  <2>5. r \in ApnRows(rows, sim, net)
    BY <1>2, <2>1, <2>2, <2>4, OwnRowIsThere
  <2>6. x \in ApnRows(rows, sim, net)
    BY <1>2, <2>1, <2>3, <2>4, OwnRowIsThere
  <2>7. \A list : ApnProfile(list, rows) = {a.id} => Coupling(list, sim, net, rows) = "mismatch"
    BY <2>3, <2>6, ForeignRow
  <2>8. \A list : ApnProfile(list, rows) = {b.id} => Coupling(list, sim, net, rows) = "mismatch"
    BY <2>2, <2>5, ForeignRow
  <2>9. QED
    BY <1>2, <2>7, <2>8 DEF OneOfEach
<1>3. QED
  BY <1>1, <1>2, ApnExchanged

LEMMA Ties == Inv => TiesServeAlike
<1> SUFFICES ASSUME Inv, NEW d \in dataset, NEW s \in served, NEW pair \in TiedPairs(s),
                    NEW a \in pair, NEW b \in pair, a # b
             PROVE  LET swapped == OutcomeSwapped(d, s, a, b)
                    IN  /\ swapped.values = s.outcome.values /\ swapped.fill = s.outcome.fill
                        /\ OneValued(a) /\ OneValued(b) => swapped.coupling = s.outcome.coupling
  BY DEF TiesServeAlike
<1>1. PICK net, profiles, stack, some : /\ net = NetOf(s.sim) /\ profiles = ProfilesFor(d, net)
                                        /\ stack = s.stack /\ some = Holding(profiles, s.sim)
  OBVIOUS
<1>2. /\ IsSim(s.sim) /\ s = ServedTo(d, s.sim) /\ TreeHere(d.tree) /\ d.networks = NetworksIn(d.tree)
      /\ d.lane = d.tree.lane /\ Distinct(profiles) /\ Stacked(stack, some, net) /\ ToSet(stack) = some
  BY <1>1, ServedIs
<1>3. PICK k \in 1..(Len(stack) - 1) : pair = {stack[k], stack[k + 1]}
  BY <1>1 DEF TiedPairs
<1>4. Tied(a, b, net) /\ Tied(b, a, net)
  BY <1>1 DEF TiedPairs
<1>5. {a, b} = {stack[k], stack[k + 1]}
  BY <1>3
<1>6. Neighbours(stack, k, a, b, net)
  BY <1>4, <1>5 DEF Neighbours
<1>7. {a, b} \subseteq ToSet(stack)
  <2>1. Len(stack) \in Nat /\ DOMAIN stack = 1..Len(stack)
    BY <1>2 DEF Stacked
  <2>2. k \in DOMAIN stack /\ k + 1 \in DOMAIN stack
    BY <2>1
  <2>3. QED
    BY <1>5, <2>2 DEF ToSet
<1>8. /\ net \in DOMAIN d.networks /\ profiles = d.networks[net]
      /\ a \in profiles /\ b \in profiles /\ Shared(s.sim, a, b)
      /\ ServedDifference(a, b, d.rows) = {}
  <2>1. net = NetOf(s.sim)
    BY <1>1
  <2>2. profiles = ProfilesFor(d, net)
    BY <1>1
  <2>3. {a, b} \subseteq ToSet(s.stack)
    BY <1>1, <1>7
  <2>4. Tied(a, b, net)
    BY <1>4
  <2>5. Tied(b, a, net)
    BY <1>4
  <2>6. Settled(d, s.sim, net, profiles, a, b)
    BY <2>1, <2>2, <2>3, <2>4, <2>5, TiesAreSettled
  <2>7. QED
    BY <2>6 DEF Settled
<1>9. PICK key : key = SwappedKeys(profiles, net, a, b)
  OBVIOUS
<1>10. PICK other : other = Exchanged(stack, k)
  OBVIOUS
<1>11. Sorted(some, key) = other
  <2>1. some \in SUBSET profiles
    BY <1>1 DEF Holding
  <2>2. Cardinality(some) = Len(stack)
    <3>1. stack = Sorted(some, ResolutionKeys(profiles, net))
      BY <1>1, <1>2, ServedToIs DEF ResolveStack
    <3>2. IsFiniteSet(some) /\ Keyed(some, ResolutionKeys(profiles, net), 10)
      BY <1>2, <2>1, DistinctKeys, FS_Subset DEF Distinct
    <3>3. Cardinality(some) \in Nat /\ DOMAIN stack = 1..Cardinality(some)
      BY <3>1, <3>2, SortedLists
    <3>4. Len(stack) \in Nat /\ DOMAIN stack = 1..Len(stack)
      BY <1>2 DEF Stacked
    <3>5. QED
      BY <3>3, <3>4
  <2>3. QED
    BY <1>2, <1>6, <1>9, <1>10, <2>1, <2>2, ExchangedSorts
<1>12. PICK rows, entries : rows = d.rows /\ entries = DOMAIN d.lane
  OBVIOUS
<1>13. PICK swapped : swapped = Outcome(other, s.sim, net, rows, entries)
  OBVIOUS
<1>14. OutcomeSwapped(d, s, a, b) = swapped
  <2>1. OutcomeSwapped(d, s, a, b) = Outcome(Sorted(ToSet(s.stack), key), s.sim, net, d.rows, DOMAIN d.lane)
    BY <1>1, <1>8, <1>9 DEF OutcomeSwapped, SwappedKeys
  <2>2. QED
    BY <1>1, <1>2, <1>11, <1>12, <1>13, <2>1
<1>15. s.outcome = Outcome(stack, s.sim, net, rows, entries)
  BY <1>1, <1>2, <1>12, ServedToIs
<1>16. Overlaid(other) = Overlaid(stack)
  BY <1>2, <1>6, <1>8, <1>10, NoDifference, OverlaidExchanged
<1>17. TreeOK(d.tree) /\ net \in DOMAIN NetworksIn(d.tree) /\ profiles = NetworksIn(d.tree)[net]
  BY <1>2, <1>8 DEF TreeHere
<1>18. rows = IndexRows(d.tree.profiles)
  <2>1. PICK rs \in SUBSET reads : d = Generated(d.tree, rs)
    BY DEF Inv, DatasetInv
  <2>2. QED
    BY <1>12, <2>1, GeneratedIs
<1>19. PickFill(Last(other).fill, s.sim, entries) = PickFill(Last(stack).fill, s.sim, entries)
  <2>1. FillsInLane(d)
    BY DEF Inv, DatasetInv
  <2>2. \A p \in profiles : \A i \in DOMAIN p.fill : p.fill[i].entry \in entries
    BY <1>8, <1>12, <2>1 DEF FillsInLane
  <2>3. FillOK(a.fill, entries) /\ FillOK(b.fill, entries)
    BY <1>8, <1>17, <2>2, FillsOf
  <2>4. PickFill(a.fill, s.sim, entries) = PickFill(b.fill, s.sim, entries)
    BY <1>2, <1>8, <2>3, NoDifference, FillsAlike
  <2>5. Last(other) = Last(stack) \/ OneOfEach(Last(stack), Last(other), a, b)
    BY <1>2, <1>6, <1>10, LastExchanged
  <2>6. QED
    BY <2>4, <2>5 DEF OneOfEach
<1>20. stack # <<>> /\ other # <<>>
  BY <1>2, <1>6, <1>10, LastExchanged
<1>21. OneValued(a) /\ OneValued(b) =>
         Coupling(other, s.sim, net, rows) = Coupling(stack, s.sim, net, rows)
  BY <1>1, <1>2, <1>6, <1>8, <1>10, <1>12, <1>17, <1>18, CoupledAlike
<1>22. /\ swapped.values = Overlaid(other) /\ swapped.coupling = Coupling(other, s.sim, net, rows)
       /\ swapped.fill = PickFill(Last(other).fill, s.sim, entries)
  BY <1>13, <1>20, OutcomeIs
<1>23. /\ s.outcome.values = Overlaid(stack) /\ s.outcome.coupling = Coupling(stack, s.sim, net, rows)
       /\ s.outcome.fill = PickFill(Last(stack).fill, s.sim, entries)
  BY <1>15, <1>20, OutcomeIs
<1>24. QED
  BY <1>14, <1>16, <1>19, <1>21, <1>22, <1>23

(* Whichever of two profiles that tie up to the profile ID has the higher   *)
(* one, a published dataset serves a SIM the same values and Google fill,   *)
(* and the same APN coupling if both have one network and one value for     *)
(* each selector.                                                          *)
THEOREM TiesAlwaysServeAlike == Spec => []TiesServeAlike
BY Invariance, Ties, PTL

=============================================================================
