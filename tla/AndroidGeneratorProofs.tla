------------------------ MODULE AndroidGeneratorProofs ------------------------
(* Proofs about AndroidGenerator: what the steps of a scope leave of its APNs *)
(* and of its emergency rows, for any rows, evidence and network.             *)
EXTENDS AndroidGenerator, FiniteSetTheorems, SequenceTheorems, WellFoundedInduction,
        TLAPS

--------------------------------------------------------------------------------
(* Recursion over a list: a function that a step extends by one place.        *)

LEMMA LeastIs ==
  ASSUME NEW S, S \subseteq Nat, S # {}
  PROVE  \E least \in S : \A x \in S : least <= x
<1>1. PICK least \in S : \A x \in S : ~ (<<x, least>> \in OpToRel(<, Nat))
  BY WFMin, NatLessThanWellFounded, Zenon
<1>2. ASSUME NEW x \in S, x < least
      PROVE  FALSE
  BY <1>1, <1>2, Zenon DEF OpToRel
<1>3. QED
  BY <1>2

LEMMA Lists ==
  ASSUME NEW R, NEW list \in Seq(R)
  PROVE  /\ Len(list) \in Nat /\ DOMAIN list = 1..Len(list)
         /\ list \in Seq(ToSet(list)) /\ ToSet(list) \subseteq R
<1>1. Len(list) \in Nat /\ DOMAIN list = 1..Len(list) /\ \A i \in 1..Len(list) : list[i] \in R
  OBVIOUS
<1>2. list \in [1..Len(list) -> ToSet(list)]
  BY <1>1 DEF ToSet
<1>3. list \in Seq(ToSet(list))
  BY <1>1, <1>2
<1>4. QED
  BY <1>1, <1>3 DEF ToSet

(* What holds of 0 and passes on from each number to the next holds of all.   *)
LEMMA NoFirstBad ==
  ASSUME NEW n \in Nat, NEW bad, bad \subseteq 0..n, 0 \notin bad,
         \A m \in 1..n : m \in bad => m - 1 \in bad
  PROVE  bad = {}
<1> SUFFICES ASSUME bad # {}
             PROVE  FALSE
  OBVIOUS
<1>1. PICK least \in bad : \A x \in bad : least <= x
  <2>1. bad \subseteq Nat
    OBVIOUS
  <2>2. QED
    BY <2>1, LeastIs
<1>2. least \in 1..n /\ least - 1 \notin bad
  BY <1>1
<1>3. QED
  BY <1>2

LEMMA OnlyIs ==
  ASSUME NEW R, NEW rs \in Seq(R), NEW S
  PROVE  \E f : /\ f = [i \in 0..Len(rs) |->
                          IF i = 0 THEN <<>>
                          ELSE IF rs[i] \in S THEN Append(f[i - 1], rs[i]) ELSE f[i - 1]]
                /\ Only(rs, S) = f[Len(rs)]
<1> DEFINE Body(f, i) == IF i = 0 THEN <<>>
                         ELSE IF rs[i] \in S THEN Append(f[i - 1], rs[i]) ELSE f[i - 1]
           Upto(m) == \E f : f = [i \in 0..m |-> Body(f, i)]
           bad == {m \in 0..Len(rs) : ~ Upto(m)}
<1>1. Len(rs) \in Nat
  OBVIOUS
<1>2. Upto(0)
  <2> DEFINE f == [i \in 0..0 |-> <<>>]
  <2>1. f = [i \in 0..0 |-> Body(f, i)]
    OBVIOUS
  <2>2. QED
    BY <2>1, Zenon
<1>3. ASSUME NEW m \in Nat, m # 0, Upto(m - 1)
      PROVE  Upto(m)
  <2>1. PICK g : g = [i \in 0..(m - 1) |-> Body(g, i)]
    BY <1>3, Zenon
  <2> DEFINE f == [i \in 0..m |-> IF i = m THEN Body(g, m) ELSE g[i]]
  <2>2. ASSUME NEW i \in 0..m
        PROVE  f[i] = Body(f, i)
    <3>1. CASE i = m
      <4>1. m - 1 \in 0..m /\ m - 1 # m /\ f[m - 1] = g[m - 1]
        BY <1>3
      <4>2. QED
        BY <3>1, <4>1, <1>3
    <3>2. CASE i # m
      <4>1. i \in 0..(m - 1) /\ f[i] = g[i]
        BY <3>2
      <4>2. g[i] = Body(g, i)
        BY <2>1, <4>1
      <4>3. i # 0 => i - 1 \in 0..m /\ i - 1 # m /\ f[i - 1] = g[i - 1]
        BY <4>1
      <4>4. QED
        BY <4>1, <4>2, <4>3
    <3>3. QED
      BY <3>1, <3>2
  <2>3. f = [i \in 0..m |-> Body(f, i)]
    <3>1. f = [i \in 0..m |-> f[i]]
      OBVIOUS
    <3> HIDE DEF Body, f
    <3>2. QED
      BY <2>2, <3>1
  <2>4. QED
    BY <2>3, Zenon
<1> HIDE DEF Upto
<1>4. bad = {}
  <2>1. \A m \in 1..Len(rs) : m \in bad => m - 1 \in bad
    BY <1>1, <1>3
  <2>2. 0 \notin bad /\ bad \subseteq 0..Len(rs)
    BY <1>2
  <2>3. QED
    BY <1>1, <2>1, <2>2, NoFirstBad
<1>5. Upto(Len(rs))
  BY <1>1, <1>4
<1>6. QED
  BY <1>5, Zenon DEF Only, Upto

LEMMA AppendSet ==
  ASSUME NEW R, NEW list \in Seq(R), NEW x \in R
  PROVE  Append(list, x) \in Seq(R) /\ ToSet(Append(list, x)) = ToSet(list) \cup {x}
<1>1. /\ Len(list) \in Nat /\ DOMAIN list = 1..Len(list)
      /\ DOMAIN Append(list, x) = 1..(Len(list) + 1)
      /\ \A i \in 1..Len(list) : Append(list, x)[i] = list[i]
      /\ Append(list, x)[Len(list) + 1] = x
  OBVIOUS
<1>2. ToSet(Append(list, x)) \subseteq ToSet(list) \cup {x}
  <2> SUFFICES ASSUME NEW i \in 1..(Len(list) + 1)
               PROVE  Append(list, x)[i] \in ToSet(list) \cup {x}
    BY <1>1 DEF ToSet
  <2>1. i \in 1..Len(list) \/ i = Len(list) + 1
    BY <1>1
  <2>2. QED
    BY <1>1, <2>1 DEF ToSet
<1>3. ToSet(list) \cup {x} \subseteq ToSet(Append(list, x))
  <2>1. \A i \in 1..Len(list) : i \in DOMAIN Append(list, x) /\ list[i] = Append(list, x)[i]
    BY <1>1
  <2>2. Len(list) + 1 \in DOMAIN Append(list, x)
    BY <1>1
  <2>3. ToSet(list) \subseteq ToSet(Append(list, x))
    BY <1>1, <2>1 DEF ToSet
  <2>4. x \in ToSet(Append(list, x))
    BY <1>1, <2>2 DEF ToSet
  <2>5. QED
    BY <2>3, <2>4
<1>4. QED
  BY <1>2, <1>3

LEMMA ConcatSet ==
  ASSUME NEW R, NEW a \in Seq(R), NEW b \in Seq(R)
  PROVE  a \o b \in Seq(R) /\ ToSet(a \o b) = ToSet(a) \cup ToSet(b)
<1>1. /\ Len(a) \in Nat /\ Len(b) \in Nat /\ DOMAIN a = 1..Len(a) /\ DOMAIN b = 1..Len(b)
      /\ a \o b \in Seq(R) /\ DOMAIN (a \o b) = 1..(Len(a) + Len(b))
  BY ConcatProperties
<1>2. \A i \in 1..Len(a) : (a \o b)[i] = a[i]
  BY <1>1, ConcatProperties
<1>3. \A i \in 1..Len(b) : (a \o b)[Len(a) + i] = b[i]
  <2> SUFFICES ASSUME NEW i \in 1..Len(b)
               PROVE  (a \o b)[Len(a) + i] = b[i]
    OBVIOUS
  <2>1. Len(a) + i \in 1..(Len(a) + Len(b)) /\ ~ (Len(a) + i <= Len(a)) /\ Len(a) + i - Len(a) = i
    BY <1>1
  <2>2. QED
    BY <2>1, ConcatProperties
<1>4. ToSet(a \o b) \subseteq ToSet(a) \cup ToSet(b)
  <2> SUFFICES ASSUME NEW i \in 1..(Len(a) + Len(b))
               PROVE  (a \o b)[i] \in ToSet(a) \cup ToSet(b)
    BY <1>1 DEF ToSet
  <2>1. CASE i \in 1..Len(a)
    BY <1>1, <1>2, <2>1 DEF ToSet
  <2>2. CASE i \notin 1..Len(a)
    <3>1. i - Len(a) \in 1..Len(b) /\ Len(a) + (i - Len(a)) = i
      BY <1>1, <2>2
    <3>2. (a \o b)[i] = b[i - Len(a)]
      BY <1>3, <3>1
    <3>3. QED
      BY <1>1, <3>1, <3>2 DEF ToSet
  <2>3. QED
    BY <2>1, <2>2
<1>5. ToSet(a) \subseteq ToSet(a \o b)
  <2>1. \A i \in DOMAIN a : i \in DOMAIN (a \o b) /\ a[i] = (a \o b)[i]
    BY <1>1, <1>2
  <2>2. QED
    BY <2>1 DEF ToSet
<1>6. ToSet(b) \subseteq ToSet(a \o b)
  <2>1. \A i \in DOMAIN b : Len(a) + i \in DOMAIN (a \o b) /\ b[i] = (a \o b)[Len(a) + i]
    BY <1>1, <1>3
  <2>2. QED
    BY <2>1 DEF ToSet
<1>7. QED
  BY <1>1, <1>4, <1>5, <1>6

LEMMA InsertSet ==
  ASSUME NEW R, NEW list \in Seq(R), NEW x \in R, NEW at \in 1..(Len(list) + 1)
  PROVE  InsertAt(list, at, x) \in Seq(R) /\ ToSet(InsertAt(list, at, x)) = ToSet(list) \cup {x}
<1> DEFINE left == SubSeq(list, 1, at - 1)
           right == SubSeq(list, at, Len(list))
<1>1. Len(list) \in Nat /\ DOMAIN list = 1..Len(list) /\ at \in Nat
  OBVIOUS
<1>2. /\ left \in Seq(R) /\ DOMAIN left = 1..(at - 1)
      /\ \A i \in 1..(at - 1) : left[i] = list[i]
  BY <1>1
<1>3. /\ right \in Seq(R) /\ DOMAIN right = 1..(Len(list) - at + 1)
      /\ \A i \in 1..(Len(list) - at + 1) : right[i] = list[at + i - 1]
  BY <1>1
<1> HIDE DEF left, right
<1> DEFINE one == <<x>>
           front == left \o one
<1>4. one \in Seq(R) /\ ToSet(one) = {x}
  BY DEF ToSet
<1> HIDE DEF one
<1>5. /\ front \o right \in Seq(R)
      /\ ToSet(front \o right) = ToSet(left) \cup {x} \cup ToSet(right)
  <2>1. front \in Seq(R) /\ ToSet(front) = ToSet(left) \cup {x}
    BY <1>2, <1>4, ConcatSet
  <2> HIDE DEF front
  <2>2. front \o right \in Seq(R) /\ ToSet(front \o right) = ToSet(front) \cup ToSet(right)
    BY <1>3, <2>1, ConcatSet
  <2>3. QED
    BY <2>1, <2>2
<1>6. ToSet(left) \subseteq ToSet(list)
  <2>1. \A i \in DOMAIN left : i \in DOMAIN list /\ left[i] = list[i]
    BY <1>1, <1>2
  <2>2. QED
    BY <2>1 DEF ToSet
<1>7. ToSet(right) \subseteq ToSet(list)
  <2>1. \A i \in 1..(Len(list) - at + 1) : at + i - 1 \in 1..Len(list)
    BY <1>1
  <2>2. \A i \in DOMAIN right : at + i - 1 \in DOMAIN list /\ right[i] = list[at + i - 1]
    BY <1>1, <1>3, <2>1, Zenon
  <2>3. QED
    BY <2>2 DEF ToSet
<1>8. ASSUME NEW i \in DOMAIN list
      PROVE  list[i] \in ToSet(left) \cup ToSet(right)
  <2>1. CASE i < at
    <3>1. i \in DOMAIN left /\ list[i] = left[i]
      BY <1>1, <1>2, <2>1
    <3>2. QED
      BY <3>1 DEF ToSet
  <2>2. CASE i >= at
    <3>1. i - at + 1 \in 1..(Len(list) - at + 1) /\ at + (i - at + 1) - 1 = i
      BY <1>1, <2>2
    <3>2. i - at + 1 \in DOMAIN right /\ list[i] = right[i - at + 1]
      BY <1>3, <3>1
    <3>3. QED
      BY <3>2 DEF ToSet
  <2>3. QED
    BY <1>1, <2>1, <2>2
<1>9. ToSet(list) \subseteq ToSet(left) \cup ToSet(right)
  BY <1>8 DEF ToSet
<1>10. InsertAt(list, at, x) = front \o right
  BY DEF InsertAt, left, right, front, one
<1>11. QED
  BY <1>5, <1>6, <1>7, <1>9, <1>10

(* The rows of a set: nothing else, and each of them.                         *)
LEMMA OnlySet ==
  ASSUME NEW R, NEW rs \in Seq(R), NEW S
  PROVE  Only(rs, S) \in Seq(R) /\ ToSet(Only(rs, S)) = ToSet(rs) \cap S
<1>1. PICK f : /\ f = [i \in 0..Len(rs) |->
                         IF i = 0 THEN <<>>
                         ELSE IF rs[i] \in S THEN Append(f[i - 1], rs[i]) ELSE f[i - 1]]
               /\ Only(rs, S) = f[Len(rs)]
  BY OnlyIs
<1> DEFINE Upto(m) == {rs[i] : i \in 1..m}
           Good(m) == f[m] \in Seq(R) /\ ToSet(f[m]) = Upto(m) \cap S
           bad == {m \in 0..Len(rs) : ~ Good(m)}
<1>2. Len(rs) \in Nat /\ DOMAIN rs = 1..Len(rs) /\ \A i \in 1..Len(rs) : rs[i] \in R
  OBVIOUS
<1>3. Good(0)
  <2>1. f[0] = <<>>
    BY <1>1, <1>2
  <2>2. ToSet(<<>>) = {} /\ <<>> \in Seq(R) /\ Upto(0) = {}
    BY DEF ToSet
  <2>3. QED
    BY <2>1, <2>2
<1>4. ASSUME NEW m \in 1..Len(rs), Good(m - 1)
      PROVE  Good(m)
  <2>1. f[m] = IF rs[m] \in S THEN Append(f[m - 1], rs[m]) ELSE f[m - 1]
    <3>1. m \in 0..Len(rs) /\ m # 0
      BY <1>2
    <3>2. QED
      BY <1>1, <3>1, Zenon
  <2>2. Upto(m) = Upto(m - 1) \cup {rs[m]}
    <3>1. 1..m = (1..(m - 1)) \cup {m}
      BY <1>2
    <3>2. QED
      BY <3>1
  <2> HIDE DEF Upto
  <2>3. CASE rs[m] \in S
    <3>1. Append(f[m - 1], rs[m]) \in Seq(R)
          /\ ToSet(Append(f[m - 1], rs[m])) = ToSet(f[m - 1]) \cup {rs[m]}
      BY <1>2, <1>4, AppendSet
    <3>2. QED
      BY <1>4, <2>1, <2>2, <2>3, <3>1
  <2>4. CASE rs[m] \notin S
    BY <1>4, <2>1, <2>2, <2>4
  <2>5. QED
    BY <2>3, <2>4
<1> HIDE DEF Good
<1>5. bad = {}
  <2>1. \A m \in 1..Len(rs) : m \in bad => m - 1 \in bad
    BY <1>2, <1>4
  <2>2. 0 \notin bad /\ bad \subseteq 0..Len(rs)
    BY <1>3
  <2>3. QED
    BY <1>2, <2>1, <2>2, NoFirstBad
<1>6. Good(Len(rs))
  BY <1>2, <1>5
<1>7. Upto(Len(rs)) = ToSet(rs)
  BY <1>2 DEF ToSet
<1> HIDE DEF Upto
<1>8. QED
  BY <1>1, <1>6, <1>7 DEF Good

LEMMA AscendingIs ==
  ASSUME NEW R, NEW rs \in Seq(R), NEW key
  PROVE  \E f : /\ f = [i \in 0..Len(rs) |->
                          IF i = 0 THEN <<>> ELSE PutInOrder(f[i - 1], rs[i], key)]
                /\ Ascending(rs, key) = f[Len(rs)]
<1> DEFINE Body(f, i) == IF i = 0 THEN <<>> ELSE PutInOrder(f[i - 1], rs[i], key)
           Upto(m) == \E f : f = [i \in 0..m |-> Body(f, i)]
           bad == {m \in 0..Len(rs) : ~ Upto(m)}
<1>1. Len(rs) \in Nat
  OBVIOUS
<1>2. Upto(0)
  <2> DEFINE f == [i \in 0..0 |-> <<>>]
  <2>1. f = [i \in 0..0 |-> Body(f, i)]
    OBVIOUS
  <2>2. QED
    BY <2>1, Zenon
<1>3. ASSUME NEW m \in Nat, m # 0, Upto(m - 1)
      PROVE  Upto(m)
  <2>1. PICK g : g = [i \in 0..(m - 1) |-> Body(g, i)]
    BY <1>3, Zenon
  <2> DEFINE f == [i \in 0..m |-> IF i = m THEN Body(g, m) ELSE g[i]]
  <2>2. ASSUME NEW i \in 0..m
        PROVE  f[i] = Body(f, i)
    <3>1. CASE i = m
      <4>1. m - 1 \in 0..m /\ m - 1 # m /\ f[m - 1] = g[m - 1]
        BY <1>3
      <4>2. QED
        BY <3>1, <4>1, <1>3
    <3>2. CASE i # m
      <4>1. i \in 0..(m - 1) /\ f[i] = g[i]
        BY <3>2
      <4>2. g[i] = Body(g, i)
        BY <2>1, <4>1
      <4>3. i # 0 => i - 1 \in 0..m /\ i - 1 # m /\ f[i - 1] = g[i - 1]
        BY <4>1
      <4>4. QED
        BY <4>1, <4>2, <4>3
    <3>3. QED
      BY <3>1, <3>2
  <2>3. f = [i \in 0..m |-> Body(f, i)]
    <3>1. f = [i \in 0..m |-> f[i]]
      OBVIOUS
    <3> HIDE DEF Body, f
    <3>2. QED
      BY <2>2, <3>1
  <2>4. QED
    BY <2>3, Zenon
<1> HIDE DEF Upto
<1>4. bad = {}
  <2>1. \A m \in 1..Len(rs) : m \in bad => m - 1 \in bad
    BY <1>1, <1>3
  <2>2. 0 \notin bad /\ bad \subseteq 0..Len(rs)
    BY <1>2
  <2>3. QED
    BY <1>1, <2>1, <2>2, NoFirstBad
<1>5. Upto(Len(rs))
  BY <1>1, <1>4
<1>6. QED
  BY <1>5, Zenon DEF Ascending, Upto

(* Sorting neither takes nor adds a row, whatever the key.                    *)
LEMMA AscendingSet ==
  ASSUME NEW R, NEW rs \in Seq(R), NEW key
  PROVE  Ascending(rs, key) \in Seq(R) /\ ToSet(Ascending(rs, key)) = ToSet(rs)
<1>1. PICK f : /\ f = [i \in 0..Len(rs) |->
                         IF i = 0 THEN <<>> ELSE PutInOrder(f[i - 1], rs[i], key)]
               /\ Ascending(rs, key) = f[Len(rs)]
  BY AscendingIs
<1> DEFINE Upto(m) == {rs[i] : i \in 1..m}
           Good(m) == f[m] \in Seq(R) /\ ToSet(f[m]) = Upto(m)
           bad == {m \in 0..Len(rs) : ~ Good(m)}
<1>2. Len(rs) \in Nat /\ DOMAIN rs = 1..Len(rs) /\ \A i \in 1..Len(rs) : rs[i] \in R
  OBVIOUS
<1>3. Good(0)
  <2>1. f[0] = <<>>
    BY <1>1, <1>2
  <2>2. ToSet(<<>>) = {} /\ <<>> \in Seq(R) /\ Upto(0) = {}
    BY DEF ToSet
  <2>3. QED
    BY <2>1, <2>2
<1>4. ASSUME NEW m \in 1..Len(rs), Good(m - 1)
      PROVE  Good(m)
  <2> DEFINE list == f[m - 1]
             less == {j \in DOMAIN list : LexLess(key[list[j]], key[rs[m]])}
  <2>1. f[m] = InsertAt(list, Cardinality(less) + 1, rs[m])
    <3>1. f[m] = PutInOrder(list, rs[m], key)
      BY <1>1, <1>2
    <3>2. QED
      BY <3>1 DEF PutInOrder
  <2>2. Upto(m) = Upto(m - 1) \cup {rs[m]}
    <3>1. 1..m = (1..(m - 1)) \cup {m}
      BY <1>2
    <3>2. QED
      BY <3>1
  <2> HIDE DEF Upto
  <2>3. list \in Seq(R) /\ ToSet(list) = Upto(m - 1)
    BY <1>4
  <2>4. Cardinality(less) + 1 \in 1..(Len(list) + 1)
    <3>1. Len(list) \in Nat /\ DOMAIN list = 1..Len(list)
      BY <2>3
    <3> HIDE DEF list
    <3>2. less \subseteq 1..Len(list)
      BY <3>1
    <3> HIDE DEF less
    <3>3. IsFiniteSet(1..Len(list)) /\ Cardinality(1..Len(list)) = Len(list)
      <4>1. \A n \in Nat : IsFiniteSet(1..n) /\ Cardinality(1..n) = n
        BY FS_Interval
      <4>2. QED
        BY <3>1, <4>1
    <3>4. Cardinality(less) \in Nat /\ Cardinality(less) <= Len(list)
      BY <3>2, <3>3, FS_Subset, FS_CardinalityType
    <3>5. QED
      BY <3>1, <3>4
  <2> HIDE DEF less, list
  <2>5. InsertAt(list, Cardinality(less) + 1, rs[m]) \in Seq(R)
        /\ ToSet(InsertAt(list, Cardinality(less) + 1, rs[m])) = ToSet(list) \cup {rs[m]}
    BY <1>2, <2>3, <2>4, InsertSet
  <2>6. QED
    BY <2>1, <2>2, <2>3, <2>5
<1> HIDE DEF Good
<1>5. bad = {}
  <2>1. \A m \in 1..Len(rs) : m \in bad => m - 1 \in bad
    BY <1>2, <1>4
  <2>2. 0 \notin bad /\ bad \subseteq 0..Len(rs)
    BY <1>3
  <2>3. QED
    BY <1>2, <2>1, <2>2, NoFirstBad
<1>6. Good(Len(rs))
  BY <1>2, <1>5
<1>7. Upto(Len(rs)) = ToSet(rs)
  BY <1>2 DEF ToSet
<1> HIDE DEF Upto
<1>8. QED
  BY <1>1, <1>6, <1>7 DEF Good

(* The concatenation that MapRows puts in front changes nothing.              *)
LEMMA MappedIs ==
  ASSUME NEW n \in Nat, NEW f, f = [i \in 1..n |-> f[i]]
  PROVE  <<>> \o f = f /\ f \in Seq(ToSet(f)) /\ Len(f) = n /\ DOMAIN f = 1..n
<1>1. DOMAIN f = 1..n /\ f \in [1..n -> ToSet(f)]
  BY DEF ToSet
<1>2. f \in Seq(ToSet(f)) /\ Len(f) = n
  BY <1>1
<1>3. QED
  BY <1>1, <1>2, ConcatEmptySeq

--------------------------------------------------------------------------------
(* Rows, and what a step leaves of each.                                      *)

RowFields == {"id", "apn", "types", "attr", "key", "sup", "cur", "marks"}

IsRow(r) == DOMAIN r = RowFields /\ r.key = UniqueKey(r.apn, r.attr)

IdsApart(rs) == \A a, b \in ToSet(rs) : a.id = b.id => a = b

RowsOK(rs) == rs \in Seq(ToSet(rs)) /\ (\A r \in ToSet(rs) : IsRow(r)) /\ IdsApart(rs)

SameButTypes(n, o) ==
    /\ n.id = o.id /\ n.apn = o.apn /\ n.attr = o.attr /\ n.key = o.key
    /\ n.sup = o.sup /\ n.cur = o.cur

(* A key is of one APN and of one APN set.                                    *)
LEMMA KeyTells ==
  ASSUME NEW r, NEW o, IsRow(r), IsRow(o), r.key = o.key
  PROVE  r.apn = o.apn /\ ApnSet(r) = ApnSet(o)
<1>1. r.key["apn"] = r.apn /\ o.key["apn"] = o.apn
  BY DEF IsRow, UniqueKey
<1>2. r.key["apn_set_id"] = ApnSet(r) /\ o.key["apn_set_id"] = ApnSet(o)
  BY DEF IsRow, UniqueKey, UniqueDefaults, ApnSet
<1>3. QED
  BY <1>1, <1>2

(* The types served include no "*".                                           *)
LEMMA Unstarred ==
  ASSUME NEW T, NEW X
  PROVE  ApnRowTypes(ApnRowTypes(T) \ X) = ApnRowTypes(T) \ X
<1>1. \A t \in ApnRowTypes(T) : t # "*"
  BY DEF ApnRowTypes, ServedTypes, WildcardTypes
<1>2. \A t \in ApnRowTypes(T) \ X : ServedTypes(t) = {t}
  BY <1>1 DEF ServedTypes
<1> DEFINE left == ApnRowTypes(T) \ X
<1> HIDE DEF left
<1>3. \A t \in left : ServedTypes(t) = {t}
  BY <1>2 DEF left
<1>4. ApnRowTypes(left) = left
  BY <1>3 DEF ApnRowTypes
<1>5. QED
  BY <1>4 DEF left

LEMMA TypesStay ==
  ASSUME NEW T, T # {}
  PROVE  ApnRowTypes(T) # {}
<1>1. \A t : ServedTypes(t) # {}
  BY DEF ServedTypes, WildcardTypes
<1>2. QED
  BY <1>1 DEF ApnRowTypes

LEMMA Retyped ==
  ASSUME NEW r, IsRow(r), NEW X, NEW n, n = [r EXCEPT !.types = X]
  PROVE  IsRow(n) /\ SameButTypes(n, r) /\ n.types = X /\ n.marks = r.marks
BY DEF IsRow, RowFields, SameButTypes

LEMMA TypesOffIs ==
  ASSUME NEW r, IsRow(r), NEW X
  PROVE  /\ IsRow(TypesOff(r, X)) /\ SameButTypes(TypesOff(r, X), r)
         /\ ApnRowTypes(TypesOff(r, X).types) = ApnRowTypes(r.types) \ X
         /\ TypesOff(r, X).marks = r.marks
BY Retyped, Unstarred DEF TypesOff

LEMMA MarkIs ==
  ASSUME NEW r, IsRow(r), NEW m
  PROVE  /\ IsRow(Mark(r, m)) /\ SameButTypes(Mark(r, m), r) /\ Mark(r, m).types = r.types
         /\ Mark(r, m).marks = r.marks \cup {m}
BY DEF IsRow, RowFields, SameButTypes, Mark

LEMMA OnlyOK ==
  ASSUME NEW rs, RowsOK(rs), NEW S
  PROVE  RowsOK(Only(rs, S)) /\ ToSet(Only(rs, S)) = ToSet(rs) \cap S
<1>1. rs \in Seq(ToSet(rs))
  BY DEF RowsOK
<1>2. Only(rs, S) \in Seq(ToSet(rs)) /\ ToSet(Only(rs, S)) = ToSet(rs) \cap S
  BY <1>1, OnlySet
<1>3. Only(rs, S) \in Seq(ToSet(Only(rs, S)))
  BY <1>2, Lists
<1>4. QED
  BY <1>2, <1>3 DEF RowsOK, IdsApart

LEMMA AscendingOK ==
  ASSUME NEW rs, RowsOK(rs), NEW key
  PROVE  RowsOK(Ascending(rs, key)) /\ ToSet(Ascending(rs, key)) = ToSet(rs)
<1>1. rs \in Seq(ToSet(rs))
  BY DEF RowsOK
<1>2. Ascending(rs, key) \in Seq(ToSet(rs)) /\ ToSet(Ascending(rs, key)) = ToSet(rs)
  BY <1>1, AscendingSet
<1>3. Ascending(rs, key) \in Seq(ToSet(Ascending(rs, key)))
  BY <1>2
<1>4. QED
  BY <1>2, <1>3 DEF RowsOK, IdsApart

(* A step on each row by itself keeps the rows apart.                         *)
LEMMA EachOK ==
  ASSUME NEW rs, RowsOK(rs), NEW new, new = [i \in DOMAIN rs |-> new[i]],
         \A i \in DOMAIN rs : IsRow(new[i]) /\ new[i].id = rs[i].id,
         \A i, j \in DOMAIN rs : rs[i] = rs[j] => new[i] = new[j]
  PROVE  /\ RowsOK(new) /\ DOMAIN new = DOMAIN rs /\ <<>> \o new = new
         /\ ToSet(new) = {new[i] : i \in DOMAIN rs}
<1>1. Len(rs) \in Nat /\ DOMAIN rs = 1..Len(rs)
  BY DEF RowsOK
<1>2. <<>> \o new = new /\ new \in Seq(ToSet(new)) /\ DOMAIN new = DOMAIN rs
  BY <1>1, MappedIs
<1>3. ToSet(new) = {new[i] : i \in DOMAIN rs}
  BY <1>2 DEF ToSet
<1>4. \A i \in DOMAIN rs : rs[i] \in ToSet(rs)
  BY DEF ToSet
<1>5. IdsApart(new)
  BY <1>3, <1>4 DEF IdsApart, RowsOK
<1>6. QED
  BY <1>2, <1>3, <1>5 DEF RowsOK

--------------------------------------------------------------------------------
(* From ranking to the file, steps move rows, take MMS, IMS and XCAP off some *)
(* and mark some to be left out: rows that serve neither the internet nor     *)
(* emergency calls, stored under the key of a row that stays.                 *)

Kin(n, o) ==
    /\ SameButTypes(n, o)
    /\ Serves(n, "emergency") <=> Serves(o, "emergency")
    /\ Serves(n, "default") <=> Serves(o, "default")
    /\ o.types # {} => n.types # {}

Idle(r) == ~ Serves(r, "emergency") /\ ~ Serves(r, "default")

Loosened(new, old) ==
    /\ RowsOK(new)
    /\ \A n \in ToSet(new) :
          \E o \in ToSet(old) :
             Kin(n, o) /\ (LeftWithInternet(n) => LeftWithInternet(o) \/ Idle(o))
    /\ \A o \in ToSet(old) : \E n \in ToSet(new) : Kin(n, o)
    /\ \A o \in ToSet(old) :
          ~ LeftWithInternet(o)
             => \E n \in ToSet(new) : ~ LeftWithInternet(n) /\ n.key = o.key

MarkedIdle(rs) == \A r \in ToSet(rs) : LeftWithInternet(r) => Idle(r)

LEMMA KinSelf ==
  ASSUME NEW r
  PROVE  Kin(r, r)
BY DEF Kin, SameButTypes

LEMMA LooseMoved ==
  ASSUME NEW new, NEW old, RowsOK(new), ToSet(new) = ToSet(old)
  PROVE  Loosened(new, old)
BY KinSelf DEF Loosened

LEMMA LooseAgain ==
  ASSUME NEW new, NEW mid, NEW old, Loosened(new, mid), Loosened(mid, old)
  PROVE  Loosened(new, old)
<1>1. RowsOK(new)
  BY DEF Loosened
<1>2. ASSUME NEW n \in ToSet(new)
      PROVE  \E o \in ToSet(old) :
                Kin(n, o) /\ (LeftWithInternet(n) => LeftWithInternet(o) \/ Idle(o))
  <2>1. PICK m \in ToSet(mid) :
            Kin(n, m) /\ (LeftWithInternet(n) => LeftWithInternet(m) \/ Idle(m))
    BY <1>2 DEF Loosened
  <2>2. PICK o \in ToSet(old) :
            Kin(m, o) /\ (LeftWithInternet(m) => LeftWithInternet(o) \/ Idle(o))
    BY DEF Loosened
  <2>3. QED
    BY <2>1, <2>2 DEF Kin, SameButTypes, Idle
<1>3. ASSUME NEW o \in ToSet(old)
      PROVE  \E n \in ToSet(new) : Kin(n, o)
  <2>1. PICK m \in ToSet(mid) : Kin(m, o)
    BY <1>3 DEF Loosened
  <2>2. PICK n \in ToSet(new) : Kin(n, m)
    BY DEF Loosened
  <2>3. QED
    BY <2>1, <2>2 DEF Kin, SameButTypes
<1>4. ASSUME NEW o \in ToSet(old), ~ LeftWithInternet(o)
      PROVE  \E n \in ToSet(new) : ~ LeftWithInternet(n) /\ n.key = o.key
  <2>1. PICK m \in ToSet(mid) : ~ LeftWithInternet(m) /\ m.key = o.key
    BY <1>4 DEF Loosened
  <2>2. PICK n \in ToSet(new) : ~ LeftWithInternet(n) /\ n.key = m.key
    BY <2>1 DEF Loosened
  <2>3. QED
    BY <2>1, <2>2
<1>5. QED
  BY <1>1, <1>2, <1>3, <1>4 DEF Loosened

LEMMA LooseMarks ==
  ASSUME NEW new, NEW old, Loosened(new, old), MarkedIdle(old)
  PROVE  MarkedIdle(new)
BY DEF Loosened, MarkedIdle, Kin, Idle

LEMMA LooseEach ==
  ASSUME NEW rs, RowsOK(rs), NEW new, new = [i \in DOMAIN rs |-> new[i]],
         \A i \in DOMAIN rs : /\ IsRow(new[i]) /\ Kin(new[i], rs[i])
                              /\ LeftWithInternet(new[i]) => LeftWithInternet(rs[i]) \/ Idle(rs[i]),
         \A i, j \in DOMAIN rs : rs[i] = rs[j] => new[i] = new[j],
         \A i \in DOMAIN rs :
            ~ LeftWithInternet(rs[i])
               => \E j \in DOMAIN rs : ~ LeftWithInternet(new[j]) /\ new[j].key = rs[i].key
  PROVE  Loosened(<<>> \o new, rs)
<1>1. \A i \in DOMAIN rs : IsRow(new[i]) /\ new[i].id = rs[i].id
  BY DEF Kin, SameButTypes
<1>2. /\ RowsOK(new) /\ DOMAIN new = DOMAIN rs /\ <<>> \o new = new
      /\ ToSet(new) = {new[i] : i \in DOMAIN rs}
  BY <1>1, EachOK
<1>3. ToSet(rs) = {rs[i] : i \in DOMAIN rs}
  BY DEF ToSet
<1>4. ASSUME NEW n \in ToSet(new)
      PROVE  \E o \in ToSet(rs) :
                Kin(n, o) /\ (LeftWithInternet(n) => LeftWithInternet(o) \/ Idle(o))
  BY <1>2, <1>3, <1>4
<1>5. ASSUME NEW o \in ToSet(rs)
      PROVE  \E n \in ToSet(new) : Kin(n, o)
  BY <1>2, <1>3, <1>5
<1>6. ASSUME NEW o \in ToSet(rs), ~ LeftWithInternet(o)
      PROVE  \E n \in ToSet(new) : ~ LeftWithInternet(n) /\ n.key = o.key
  BY <1>2, <1>3, <1>6
<1>7. QED
  BY <1>2, <1>4, <1>5, <1>6 DEF Loosened

TakenTypes == {"mms", "ims", "xcap"}

LEMMA OffKin ==
  ASSUME NEW r, IsRow(r), NEW t \in TakenTypes, ApnRowTypes(r.types) # {t}
  PROVE  /\ IsRow(TypesOff(r, {t})) /\ Kin(TypesOff(r, {t}), r)
         /\ LeftWithInternet(TypesOff(r, {t})) <=> LeftWithInternet(r)
<1> DEFINE off == TypesOff(r, {t})
<1>1. /\ IsRow(off) /\ SameButTypes(off, r)
      /\ ApnRowTypes(off.types) = ApnRowTypes(r.types) \ {t} /\ off.marks = r.marks
  BY TypesOffIs
<1>2. t # "emergency" /\ t # "default"
  BY DEF TakenTypes
<1>3. r.types # {} => off.types # {}
  <2>1. off.types = ApnRowTypes(r.types) \ {t}
    BY DEF TypesOff, IsRow, RowFields
  <2>2. r.types # {} => ApnRowTypes(r.types) # {}
    BY TypesStay
  <2>3. QED
    BY <2>1, <2>2
<1> HIDE DEF off
<1>4. Kin(off, r)
  BY <1>1, <1>2, <1>3 DEF Kin, Serves
<1>5. LeftWithInternet(off) <=> LeftWithInternet(r)
  BY <1>1 DEF LeftWithInternet
<1>6. QED
  BY <1>1, <1>4, <1>5 DEF off

AllOff(rs, stale, t) == MapRows(rs, LAMBDA r : IF r \in stale THEN TypesOff(r, {t}) ELSE r)

(* A type taken off some of the rows.                                         *)
LEMMA LooseOff ==
  ASSUME NEW rs, RowsOK(rs), NEW stale, NEW t \in TakenTypes,
         \A r \in stale : r \in ToSet(rs) => ApnRowTypes(r.types) # {t}
  PROVE  Loosened(AllOff(rs, stale, t), rs)
<1> DEFINE new == [i \in DOMAIN rs |-> IF rs[i] \in stale THEN TypesOff(rs[i], {t}) ELSE rs[i]]
<1>1. \A i \in DOMAIN rs : new[i] = IF rs[i] \in stale THEN TypesOff(rs[i], {t}) ELSE rs[i]
  OBVIOUS
<1>2. AllOff(rs, stale, t) = <<>> \o new
  BY DEF AllOff, MapRows
<1>3. new = [i \in DOMAIN rs |-> new[i]]
  OBVIOUS
<1> HIDE DEF new
<1>4. \A i \in DOMAIN rs :
         IsRow(rs[i]) /\ (rs[i] \in stale => ApnRowTypes(rs[i].types) # {t})
  BY DEF RowsOK, ToSet
<1>5. ASSUME NEW i \in DOMAIN rs
      PROVE  /\ IsRow(new[i]) /\ Kin(new[i], rs[i])
             /\ LeftWithInternet(new[i]) <=> LeftWithInternet(rs[i])
  BY <1>1, <1>4, OffKin, KinSelf
<1>6. \A i, j \in DOMAIN rs : rs[i] = rs[j] => new[i] = new[j]
  BY <1>1
<1>7. \A i \in DOMAIN rs :
         ~ LeftWithInternet(rs[i])
            => \E j \in DOMAIN rs : ~ LeftWithInternet(new[j]) /\ new[j].key = rs[i].key
  BY <1>5 DEF Kin, SameButTypes
<1>8. Loosened(<<>> \o new, rs)
  BY <1>3, <1>5, <1>6, <1>7, LooseEach
<1>9. QED
  BY <1>2, <1>8

(* A type taken off rows stored with an internet row, and rows with no other  *)
(* type marked.                                                               *)
LEMMA LooseTakeOff ==
  ASSUME NEW rs, RowsOK(rs), MarkedIdle(rs),
         NEW internet \in ToSet(rs), Serves(internet, "default"),
         NEW stale, NEW t \in TakenTypes, NEW m,
         \A r \in stale : r.key = internet.key /\ r.id # internet.id
  PROVE  Loosened(TakeOff(rs, stale, t, m), rs)
<1> DEFINE new == [i \in DOMAIN rs |->
                     IF rs[i] \notin stale THEN rs[i]
                     ELSE IF ApnRowTypes(rs[i].types) = {t} THEN Mark(rs[i], m)
                          ELSE TypesOff(rs[i], {t})]
<1>1. \A i \in DOMAIN rs :
         new[i] = IF rs[i] \notin stale THEN rs[i]
                  ELSE IF ApnRowTypes(rs[i].types) = {t} THEN Mark(rs[i], m)
                       ELSE TypesOff(rs[i], {t})
  OBVIOUS
<1>2. TakeOff(rs, stale, t, m) = <<>> \o new
  BY DEF TakeOff, MapRows
<1>3. new = [i \in DOMAIN rs |-> new[i]]
  OBVIOUS
<1> HIDE DEF new
<1>4. \A i \in DOMAIN rs : IsRow(rs[i])
  BY DEF RowsOK, ToSet
<1>5. ASSUME NEW i \in DOMAIN rs
      PROVE  /\ IsRow(new[i]) /\ Kin(new[i], rs[i])
             /\ LeftWithInternet(new[i]) => LeftWithInternet(rs[i]) \/ Idle(rs[i])
             /\ LeftWithInternet(new[i]) => LeftWithInternet(rs[i]) \/ rs[i] \in stale
  <2>1. CASE rs[i] \in stale /\ ApnRowTypes(rs[i].types) = {t}
    <3>1. Idle(rs[i])
      BY <2>1 DEF Idle, Serves, TakenTypes
    <3>2. IsRow(new[i]) /\ Kin(new[i], rs[i])
      BY <1>1, <1>4, <2>1, MarkIs DEF Kin, Serves
    <3>3. QED
      BY <2>1, <3>1, <3>2
  <2>2. CASE rs[i] \in stale /\ ApnRowTypes(rs[i].types) # {t}
    BY <1>1, <1>4, <2>2, OffKin
  <2>3. CASE rs[i] \notin stale
    BY <1>1, <1>4, <2>3, KinSelf
  <2>4. QED
    BY <2>1, <2>2, <2>3
<1>6. \A i, j \in DOMAIN rs : rs[i] = rs[j] => new[i] = new[j]
  BY <1>1
<1>7. PICK k \in DOMAIN rs : rs[k] = internet
  BY DEF ToSet
<1>8. ~ LeftWithInternet(new[k]) /\ new[k].key = internet.key
  <2>1. ~ LeftWithInternet(internet) /\ internet \notin stale
    BY DEF MarkedIdle, Idle
  <2>2. new[k] = internet
    BY <1>1, <1>7, <2>1
  <2>3. QED
    BY <2>1, <2>2
<1>9. \A i \in DOMAIN rs :
         ~ LeftWithInternet(rs[i])
            => \E j \in DOMAIN rs : ~ LeftWithInternet(new[j]) /\ new[j].key = rs[i].key
  BY <1>5, <1>7, <1>8 DEF Kin, SameButTypes
<1>10. Loosened(<<>> \o new, rs)
  BY <1>3, <1>5, <1>6, <1>9, LooseEach
<1>11. QED
  BY <1>2, <1>10

--------------------------------------------------------------------------------
(* The steps from ranking on loosen the rows and do no more.                  *)

LEMMA LeastOf ==
  ASSUME NEW S, S \subseteq Nat, S # {}
  PROVE  Min(S) \in S /\ \A x \in S : Min(S) <= x
<1>1. \E least \in S : \A x \in S : least <= x
  BY LeastIs
<1>2. QED
  BY <1>1, Zenon DEF Min

LEMMA InternetRowIs ==
  ASSUME NEW rs, RowsOK(rs)
  PROVE  \/ InternetRow(rs) = NoRow
         \/ InternetRow(rs) \in ToSet(rs) /\ Serves(InternetRow(rs), "default")
<1> DEFINE places == {i \in 1..Len(rs) : Serves(rs[i], "default")}
           first == IF places # {} THEN Min(places) ELSE 0
<1>1. InternetRow(rs) = IF first = 0 THEN NoRow ELSE rs[first]
  BY DEF InternetRow, FirstRow, SelectInSeq
<1>2. Len(rs) \in Nat /\ DOMAIN rs = 1..Len(rs)
  BY DEF RowsOK
<1>3. CASE places = {}
  BY <1>1, <1>3
<1>4. CASE places # {}
  <2>1. places \subseteq Nat
    BY <1>2
  <2> HIDE DEF places
  <2>2. Min(places) \in places
    BY <1>4, <2>1, LeastOf
  <2>3. Min(places) \in DOMAIN rs /\ Serves(rs[Min(places)], "default") /\ Min(places) # 0
    BY <1>2, <2>2 DEF places
  <2>4. InternetRow(rs) = rs[Min(places)]
    BY <1>1, <1>4, <2>3
  <2>5. QED
    BY <2>3, <2>4 DEF ToSet
<1>5. QED
  BY <1>3, <1>4

LEMMA LooseSelf ==
  ASSUME NEW rs, RowsOK(rs)
  PROVE  Loosened(rs, rs)
BY LooseMoved

LEMMA LooseAscending ==
  ASSUME NEW rs, RowsOK(rs), NEW key
  PROVE  Loosened(Ascending(rs, key), rs)
BY AscendingOK, LooseMoved

LEMMA RankLoosens ==
  ASSUME NEW rs, RowsOK(rs)
  PROVE  Loosened(RankScope(rs), rs)
BY LooseAscending DEF RankScope

LEMMA MoveLoosens ==
  ASSUME NEW rs, RowsOK(rs), NEW moved, NEW place
  PROVE  Loosened(MoveBefore(rs, moved, place), rs)
BY LooseAscending DEF MoveBefore

LEMMA LiveIs ==
  ASSUME NEW rs, RowsOK(rs)
  PROVE  RowsOK(Live(rs)) /\ ToSet(Live(rs)) = {r \in ToSet(rs) : ~ LeftWithInternet(r)}
BY OnlyOK DEF Live

LEMMA GroupIs ==
  ASSUME NEW rs, RowsOK(rs), NEW k
  PROVE  RowsOK(Group(rs, k)) /\ ToSet(Group(rs, k)) = {r \in ToSet(rs) : r.key = k}
BY OnlyOK DEF Group

LEMMA OffInternetRowLoosens ==
  ASSUME NEW rs, RowsOK(rs), NEW internet \in ToSet(rs), Serves(internet, "default"),
         NEW vendor
  PROVE  Loosened(TakeMmsOffInternetRow(rs, internet, vendor), rs)
<1> DEFINE stale == {r \in ToSet(rs) : r.id = internet.id}
<1>1. MapRows(rs, LAMBDA r : IF r.id = internet.id THEN TypesOff(r, {"mms"}) ELSE r)
        = AllOff(rs, stale, "mms")
  <2>1. \A i \in DOMAIN rs : rs[i].id = internet.id <=> rs[i] \in stale
    BY DEF ToSet
  <2> HIDE DEF stale
  <2>2. [i \in DOMAIN rs |-> IF rs[i].id = internet.id THEN TypesOff(rs[i], {"mms"}) ELSE rs[i]]
          = [i \in DOMAIN rs |-> IF rs[i] \in stale THEN TypesOff(rs[i], {"mms"}) ELSE rs[i]]
    BY <2>1
  <2>3. QED
    BY <2>2 DEF MapRows, AllOff
<1>2. \A r \in stale : "default" \in ApnRowTypes(r.types)
  BY DEF RowsOK, IdsApart, Serves
<1> HIDE DEF stale
<1>3. Loosened(AllOff(rs, stale, "mms"), rs)
  BY <1>2, LooseOff DEF TakenTypes
<1>4. QED
  BY <1>1, <1>3, LooseSelf DEF TakeMmsOffInternetRow

LEMMA OffInternetGroupLoosens ==
  ASSUME NEW rs, RowsOK(rs), MarkedIdle(rs), NEW internet \in ToSet(rs),
         Serves(internet, "default"), NEW vendor, NEW n
  PROVE  Loosened(TakeMmsOffInternetGroup(rs, internet, Group(rs, internet.key), vendor, n), rs)
<1> DEFINE stale == {r \in ToSet(Group(rs, internet.key)) : r.id # internet.id /\ Serves(r, "mms")}
<1>1. \A r \in stale : r.key = internet.key /\ r.id # internet.id
  BY GroupIs
<1>2. \/ TakeMmsOffInternetGroup(rs, internet, Group(rs, internet.key), vendor, n)
           = TakeOff(rs, stale, "mms", "mms_with_internet")
      \/ TakeMmsOffInternetGroup(rs, internet, Group(rs, internet.key), vendor, n) = rs
  BY DEF TakeMmsOffInternetGroup
<1> HIDE DEF stale
<1>3. Loosened(TakeOff(rs, stale, "mms", "mms_with_internet"), rs)
  BY <1>1, LooseTakeOff DEF TakenTypes
<1>4. QED
  BY <1>2, <1>3, LooseSelf

LEMMA MoveMmsLoosens ==
  ASSUME NEW rs, RowsOK(rs), NEW live, NEW internet
  PROVE  Loosened(MoveMms(rs, live, internet), rs)
BY MoveLoosens, LooseSelf DEF MoveMms, MoveVendorMms

LEMMA PutMmsLoosens ==
  ASSUME NEW rs, RowsOK(rs), MarkedIdle(rs), NEW n
  PROVE  Loosened(PutVendorMmsFirst(rs, n), rs)
<1> DEFINE bare == TakeMmsOffInternetRow(rs, InternetRow(rs), VendorMmsRows(rs))
           left == MmsOffInternetGroup(bare, InternetRow(bare), n)
           moved == MoveMms(left, Live(left), InternetRow(left))
<1>1. PutVendorMmsFirst(rs, n) = rs \/ PutVendorMmsFirst(rs, n) = moved
  BY DEF PutVendorMmsFirst, MmsOffThenMove
<1>2. Loosened(bare, rs)
  <2>1. CASE InternetRow(rs) = NoRow
    BY <2>1, LooseSelf DEF TakeMmsOffInternetRow, NoRow
  <2>2. CASE InternetRow(rs) # NoRow
    BY <2>2, InternetRowIs, OffInternetRowLoosens
  <2>3. QED
    BY <2>1, <2>2
<1>3. RowsOK(bare) /\ MarkedIdle(bare)
  BY <1>2, LooseMarks DEF Loosened
<1> HIDE DEF bare
<1>4. Loosened(left, bare)
  <2>1. CASE InternetRow(bare).id = 0
    BY <1>3, <2>1, LooseSelf DEF MmsOffInternetGroup
  <2>2. CASE InternetRow(bare).id # 0
    <3>1. InternetRow(bare) \in ToSet(bare) /\ Serves(InternetRow(bare), "default")
      BY <1>3, <2>2, InternetRowIs DEF NoRow
    <3>2. QED
      BY <1>3, <2>2, <3>1, OffInternetGroupLoosens DEF MmsOffInternetGroup
  <2>3. QED
    BY <2>1, <2>2
<1> HIDE DEF left
<1>5. Loosened(moved, left)
  BY <1>4, MoveMmsLoosens DEF Loosened
<1> HIDE DEF moved
<1>6. Loosened(moved, rs)
  <2>1. Loosened(left, rs)
    BY <1>2, <1>4, LooseAgain
  <2>2. QED
    BY <1>5, <2>1, LooseAgain
<1>7. QED
  BY <1>1, <1>6, LooseSelf

LEMMA TakeTypeLoosens ==
  ASSUME NEW rs, RowsOK(rs), MarkedIdle(rs), NEW t \in TakenTypes, NEW n
  PROVE  Loosened(TakeTypeOffInternetGroup(rs, t, n), rs)
<1> DEFINE internet == InternetRow(rs)
           group == Group(Live(rs), internet.key)
           stale == {r \in ToSet(group) : r.id # internet.id /\ Serves(r, t)}
<1>1. \/ TakeTypeOffInternetGroup(rs, t, n) = rs
      \/ /\ internet.id # 0
         /\ TakeTypeOffInternetGroup(rs, t, n) = TakeOff(rs, stale, t, "type_with_internet")
  BY DEF TakeTypeOffInternetGroup, TakeTypeOffLive, TakeTypeOffGroup
<1>2. ASSUME internet.id # 0
      PROVE  Loosened(TakeOff(rs, stale, t, "type_with_internet"), rs)
  <2>1. internet \in ToSet(rs) /\ Serves(internet, "default")
    BY <1>2, InternetRowIs DEF NoRow
  <2> HIDE DEF internet
  <2>2. \A r \in stale : r.key = internet.key /\ r.id # internet.id
    BY LiveIs, GroupIs
  <2> HIDE DEF stale
  <2>3. QED
    BY <2>1, <2>2, LooseTakeOff
<1>3. QED
  BY <1>1, <1>2, LooseSelf

AllMarked(rs, id) ==
    MapRows(rs, LAMBDA r : IF r.id = id THEN Mark(r, "attach_ahead") ELSE r)

(* Step 4b marks the row it moves; no later step leaves it out for that.      *)
LEMMA MarkAheadLoosens ==
  ASSUME NEW rs, RowsOK(rs), NEW id
  PROVE  Loosened(AllMarked(rs, id), rs)
<1> DEFINE new == [i \in DOMAIN rs |-> IF rs[i].id = id THEN Mark(rs[i], "attach_ahead") ELSE rs[i]]
<1>1. \A i \in DOMAIN rs : new[i] = IF rs[i].id = id THEN Mark(rs[i], "attach_ahead") ELSE rs[i]
  OBVIOUS
<1>2. AllMarked(rs, id) = <<>> \o new
  BY DEF AllMarked, MapRows
<1>3. new = [i \in DOMAIN rs |-> new[i]]
  OBVIOUS
<1> HIDE DEF new
<1>4. \A i \in DOMAIN rs : IsRow(rs[i])
  BY DEF RowsOK, ToSet
<1>5. ASSUME NEW i \in DOMAIN rs
      PROVE  /\ IsRow(new[i]) /\ Kin(new[i], rs[i])
             /\ LeftWithInternet(new[i]) <=> LeftWithInternet(rs[i])
  <2>1. CASE rs[i].id = id
    <3>1. /\ IsRow(new[i]) /\ SameButTypes(new[i], rs[i]) /\ new[i].types = rs[i].types
          /\ new[i].marks = rs[i].marks \cup {"attach_ahead"}
      BY <1>1, <1>4, <2>1, MarkIs
    <3>2. Kin(new[i], rs[i])
      BY <3>1 DEF Kin, Serves
    <3>3. LeftWithInternet(new[i]) <=> LeftWithInternet(rs[i])
      BY <3>1 DEF LeftWithInternet
    <3>4. QED
      BY <3>1, <3>2, <3>3
  <2>2. CASE rs[i].id # id
    BY <1>1, <1>4, <2>2, KinSelf
  <2>3. QED
    BY <2>1, <2>2
<1>6. \A i, j \in DOMAIN rs : rs[i] = rs[j] => new[i] = new[j]
  BY <1>1
<1>7. \A i \in DOMAIN rs :
         ~ LeftWithInternet(rs[i])
            => \E j \in DOMAIN rs : ~ LeftWithInternet(new[j]) /\ new[j].key = rs[i].key
  BY <1>5 DEF Kin, SameButTypes
<1>8. Loosened(<<>> \o new, rs)
  BY <1>3, <1>5, <1>6, <1>7, LooseEach
<1>9. QED
  BY <1>2, <1>8

LEMMA MoveAttachGroupLoosens ==
  ASSUME NEW rs, RowsOK(rs), NEW live, NEW internet, NEW own, NEW group, NEW best
  PROVE  Loosened(MoveAttachGroup(rs, live, internet, own, group, best), rs)
<1> DEFINE First == FirstRow(rs, LAMBDA r : r \in own)
           moved == MoveBefore(rs, {r \in ToSet(rs) : r.key = best.key}, First)
           marked == AllMarked(moved, best.id)
<1>1. \/ MoveAttachGroup(rs, live, internet, own, group, best) = rs
      \/ MoveAttachGroup(rs, live, internet, own, group, best) = marked
  BY DEF MoveAttachGroup, AllMarked
<1> HIDE DEF First
<1>2. Loosened(moved, rs)
  BY MoveLoosens
<1> HIDE DEF moved
<1>3. Loosened(marked, moved)
  <2>1. RowsOK(moved)
    BY <1>2 DEF Loosened
  <2>2. QED
    BY <2>1, MarkAheadLoosens
<1> HIDE DEF marked
<1>4. QED
  BY <1>1, <1>2, <1>3, LooseAgain, LooseSelf

LEMMA PutAttachLoosens ==
  ASSUME NEW rs, RowsOK(rs)
  PROVE  Loosened(PutVendorAttachFirst(rs), rs)
BY MoveAttachGroupLoosens, LooseSelf DEF PutVendorAttachFirst, AttachFirst, MoveAttach

--------------------------------------------------------------------------------
(* What is stored of written rows: one stored row per key, with the types of  *)
(* every row of the key.                                                      *)

StoredFields == {"key", "apn", "types", "attr", "ids"}

RowsOfKey(S, k) == {r \in S : r.key = k}

Stored(list, S) ==
    /\ list \in Seq(ToSet(list))
    /\ \A i \in DOMAIN list : DOMAIN list[i] = StoredFields
    /\ \A i \in DOMAIN list : \E r \in S : list[i].key = r.key /\ list[i].apn = r.apn
    /\ \A i, j \in DOMAIN list : list[i].key = list[j].key => i = j
    /\ \A i \in DOMAIN list : list[i].types = UNION {r.types : r \in RowsOfKey(S, list[i].key)}
    /\ \A r \in S : \E i \in DOMAIN list : list[i].key = r.key

LEMMA StoredWithIs ==
  ASSUME NEW row, DOMAIN row = StoredFields, NEW r
  PROVE  LET new == StoredWith(row, r)
         IN  /\ DOMAIN new = StoredFields /\ new.key = row.key /\ new.apn = row.apn
             /\ new.types = row.types \cup r.types
<1>1. ASSUME NEW ids, NEW attr, NEW types
      PROVE  LET new == [row EXCEPT !.types = types, !.ids = ids, !.attr = attr]
             IN  /\ DOMAIN new = StoredFields /\ new.key = row.key /\ new.apn = row.apn
                 /\ new.types = types
  BY DEF StoredFields
<1>2. QED
  BY <1>1 DEF StoredWith

LEMMA UnstoredIs ==
  ASSUME NEW r
  PROVE  /\ DOMAIN Unstored(r) = StoredFields /\ Unstored(r).key = r.key
         /\ Unstored(r).apn = r.apn /\ Unstored(r).types = r.types
BY DEF Unstored, StoredFields

LEMMA StoreNextKeeps ==
  ASSUME NEW list, NEW S, Stored(list, S), NEW r
  PROVE  Stored(StoreNext(list, r), S \cup {r})
<1> DEFINE places == {i \in 1..Len(list) : list[i].key = r.key}
           i == IF places # {} THEN Min(places) ELSE 0
           new == StoreNext(list, r)
<1>1. new = IF i = 0 THEN Append(list, Unstored(r)) ELSE [list EXCEPT ![i] = StoredWith(list[i], r)]
  BY DEF StoreNext, SelectInSeq
<1>2. list \in Seq(ToSet(list)) /\ Len(list) \in Nat /\ DOMAIN list = 1..Len(list)
  BY DEF Stored
<1> HIDE DEF new
<1>3. CASE places = {}
  <2> DEFINE n == Len(list) + 1
             row == Unstored(r)
  <2>1. new = Append(list, row)
    BY <1>1, <1>3
  <2>2. /\ DOMAIN new = 1..n /\ new[n] = row /\ \A j \in 1..Len(list) : new[j] = list[j]
        /\ new \in Seq(ToSet(list) \cup {row})
    BY <1>2, <2>1
  <2>3. /\ DOMAIN row = StoredFields /\ row.key = r.key /\ row.apn = r.apn
        /\ row.types = r.types
    BY UnstoredIs
  <2>4. \A j \in DOMAIN list : list[j].key # r.key
    BY <1>2, <1>3
  <2>5. \A s \in S : s.key # r.key
    BY <2>4 DEF Stored
  <2> HIDE DEF row, places, i
  <2>6. \A j \in DOMAIN new : j \in DOMAIN list \/ j = n
    BY <1>2, <2>2
  <2>7. n \notin DOMAIN list /\ DOMAIN list \subseteq DOMAIN new /\ n \in DOMAIN new
    BY <1>2, <2>2
  <2> HIDE DEF n
  <2>8. new \in Seq(ToSet(new))
    BY <2>2, Lists
  <2>9. \A j \in DOMAIN new : DOMAIN new[j] = StoredFields
    BY <1>2, <2>2, <2>3, <2>6 DEF Stored
  <2>10. \A j \in DOMAIN new : \E s \in S \cup {r} : new[j].key = s.key /\ new[j].apn = s.apn
    BY <1>2, <2>2, <2>3, <2>6 DEF Stored
  <2>11. \A j, k \in DOMAIN new : new[j].key = new[k].key => j = k
    BY <1>2, <2>2, <2>3, <2>4, <2>6 DEF Stored
  <2>12. ASSUME NEW j \in DOMAIN new
         PROVE  new[j].types = UNION {s.types : s \in RowsOfKey(S \cup {r}, new[j].key)}
    <3>1. CASE j \in DOMAIN list
      <4>1. new[j] = list[j] /\ new[j].key # r.key
        BY <1>2, <2>2, <2>4, <3>1
      <4>2. RowsOfKey(S \cup {r}, new[j].key) = RowsOfKey(S, new[j].key)
        BY <4>1 DEF RowsOfKey
      <4>3. QED
        BY <3>1, <4>1, <4>2 DEF Stored
    <3>2. CASE j = n
      <4>1. RowsOfKey(S \cup {r}, new[j].key) = {r}
        BY <2>2, <2>3, <2>5, <3>2 DEF RowsOfKey
      <4>2. QED
        BY <2>2, <2>3, <3>2, <4>1
    <3>3. QED
      BY <2>6, <3>1, <3>2
  <2>13. \A s \in S \cup {r} : \E j \in DOMAIN new : new[j].key = s.key
    BY <1>2, <2>2, <2>3, <2>7 DEF Stored
  <2>14. QED
    BY <2>8, <2>9, <2>10, <2>11, <2>12, <2>13 DEF Stored, new
<1>4. CASE places # {}
  <2>1. i \in DOMAIN list /\ list[i].key = r.key /\ i # 0
    <3>1. places \subseteq Nat
      BY <1>2
    <3>2. Min(places) \in places
      BY <1>4, <3>1, LeastOf
    <3>3. QED
      BY <1>2, <1>4, <3>2
  <2> HIDE DEF places, i
  <2> DEFINE row == StoredWith(list[i], r)
  <2>2. new = [list EXCEPT ![i] = row]
    BY <1>1, <2>1
  <2>3. /\ DOMAIN row = StoredFields /\ row.key = list[i].key /\ row.apn = list[i].apn
        /\ row.types = list[i].types \cup r.types
    BY <2>1, StoredWithIs DEF Stored
  <2> HIDE DEF row
  <2>4. /\ DOMAIN new = DOMAIN list /\ new[i] = row
        /\ \A j \in DOMAIN list : j # i => new[j] = list[j]
        /\ new \in Seq(ToSet(list) \cup {row})
    BY <1>2, <2>1, <2>2
  <2>5. new \in Seq(ToSet(new))
    BY <2>4, Lists
  <2>6. \A j \in DOMAIN new : new[j].key = list[j].key /\ new[j].apn = list[j].apn
    BY <2>3, <2>4
  <2>7. \A j \in DOMAIN new : DOMAIN new[j] = StoredFields
    BY <2>3, <2>4 DEF Stored
  <2>8. \A j \in DOMAIN new : \E s \in S \cup {r} : new[j].key = s.key /\ new[j].apn = s.apn
    BY <2>4, <2>6 DEF Stored
  <2>9. \A j, k \in DOMAIN new : new[j].key = new[k].key => j = k
    BY <2>4, <2>6 DEF Stored
  <2>10. ASSUME NEW j \in DOMAIN new
         PROVE  new[j].types = UNION {s.types : s \in RowsOfKey(S \cup {r}, new[j].key)}
    <3>1. CASE j = i
      <4>1. RowsOfKey(S \cup {r}, new[j].key) = RowsOfKey(S, list[i].key) \cup {r}
        BY <2>1, <2>4, <2>6, <3>1 DEF RowsOfKey
      <4>2. new[j].types = list[i].types \cup r.types
        BY <2>3, <2>4, <3>1
      <4>3. list[i].types = UNION {s.types : s \in RowsOfKey(S, list[i].key)}
        BY <2>1 DEF Stored
      <4>4. QED
        BY <4>1, <4>2, <4>3
    <3>2. CASE j # i
      <4>1. new[j] = list[j] /\ list[j].key # r.key /\ j \in DOMAIN list
        BY <2>1, <2>4, <3>2 DEF Stored
      <4>2. RowsOfKey(S \cup {r}, new[j].key) = RowsOfKey(S, list[j].key)
        BY <4>1 DEF RowsOfKey
      <4>3. QED
        BY <4>1, <4>2 DEF Stored
    <3>3. QED
      BY <3>1, <3>2
  <2>11. \A s \in S \cup {r} : \E j \in DOMAIN new : new[j].key = s.key
    BY <2>1, <2>4, <2>6 DEF Stored
  <2>12. QED
    BY <2>5, <2>7, <2>8, <2>9, <2>10, <2>11 DEF Stored, new
<1>5. QED
  BY <1>3, <1>4

LEMMA StoredIs ==
  ASSUME NEW R, NEW rs \in Seq(R)
  PROVE  \E f : /\ f = [i \in 0..Len(rs) |->
                          IF i = 0 THEN <<>> ELSE StoreNext(f[i - 1], rs[i])]
                /\ AndroidStoredRows(rs) = f[Len(rs)]
<1> DEFINE Body(f, i) == IF i = 0 THEN <<>> ELSE StoreNext(f[i - 1], rs[i])
           Upto(m) == \E f : f = [i \in 0..m |-> Body(f, i)]
           bad == {m \in 0..Len(rs) : ~ Upto(m)}
<1>1. Len(rs) \in Nat
  OBVIOUS
<1>2. Upto(0)
  <2> DEFINE f == [i \in 0..0 |-> <<>>]
  <2>1. f = [i \in 0..0 |-> Body(f, i)]
    OBVIOUS
  <2>2. QED
    BY <2>1, Zenon
<1>3. ASSUME NEW m \in Nat, m # 0, Upto(m - 1)
      PROVE  Upto(m)
  <2>1. PICK g : g = [i \in 0..(m - 1) |-> Body(g, i)]
    BY <1>3, Zenon
  <2> DEFINE f == [i \in 0..m |-> IF i = m THEN Body(g, m) ELSE g[i]]
  <2>2. ASSUME NEW i \in 0..m
        PROVE  f[i] = Body(f, i)
    <3>1. CASE i = m
      <4>1. m - 1 \in 0..m /\ m - 1 # m /\ f[m - 1] = g[m - 1]
        BY <1>3
      <4>2. QED
        BY <3>1, <4>1, <1>3
    <3>2. CASE i # m
      <4>1. i \in 0..(m - 1) /\ f[i] = g[i]
        BY <3>2
      <4>2. g[i] = Body(g, i)
        BY <2>1, <4>1
      <4>3. i # 0 => i - 1 \in 0..m /\ i - 1 # m /\ f[i - 1] = g[i - 1]
        BY <4>1
      <4>4. QED
        BY <4>1, <4>2, <4>3
    <3>3. QED
      BY <3>1, <3>2
  <2>3. f = [i \in 0..m |-> Body(f, i)]
    <3>1. f = [i \in 0..m |-> f[i]]
      OBVIOUS
    <3> HIDE DEF Body, f
    <3>2. QED
      BY <2>2, <3>1
  <2>4. QED
    BY <2>3, Zenon
<1> HIDE DEF Upto
<1>4. bad = {}
  <2>1. \A m \in 1..Len(rs) : m \in bad => m - 1 \in bad
    BY <1>1, <1>3
  <2>2. 0 \notin bad /\ bad \subseteq 0..Len(rs)
    BY <1>2
  <2>3. QED
    BY <1>1, <2>1, <2>2, NoFirstBad
<1>5. Upto(Len(rs))
  BY <1>1, <1>4
<1>6. QED
  BY <1>5, Zenon DEF AndroidStoredRows, Upto

LEMMA StoredRows ==
  ASSUME NEW R, NEW rs \in Seq(R)
  PROVE  Stored(AndroidStoredRows(rs), ToSet(rs))
<1>1. PICK f : /\ f = [i \in 0..Len(rs) |->
                         IF i = 0 THEN <<>> ELSE StoreNext(f[i - 1], rs[i])]
               /\ AndroidStoredRows(rs) = f[Len(rs)]
  BY StoredIs
<1> DEFINE Upto(m) == {rs[i] : i \in 1..m}
           Good(m) == Stored(f[m], Upto(m))
           bad == {m \in 0..Len(rs) : ~ Good(m)}
<1>2. Len(rs) \in Nat /\ DOMAIN rs = 1..Len(rs)
  OBVIOUS
<1>3. Good(0)
  <2>1. f[0] = <<>>
    BY <1>1, <1>2
  <2>2. Upto(0) = {}
    OBVIOUS
  <2>3. Stored(<<>>, {})
    <3>1. <<>> \in Seq(ToSet(<<>>)) /\ DOMAIN <<>> = {}
      OBVIOUS
    <3>2. QED
      BY <3>1 DEF Stored
  <2>4. QED
    BY <2>1, <2>2, <2>3
<1>4. ASSUME NEW m \in 1..Len(rs), Good(m - 1)
      PROVE  Good(m)
  <2>1. f[m] = StoreNext(f[m - 1], rs[m])
    BY <1>1, <1>2
  <2>2. Upto(m) = Upto(m - 1) \cup {rs[m]}
    <3>1. 1..m = (1..(m - 1)) \cup {m}
      BY <1>2
    <3>2. QED
      BY <3>1
  <2> HIDE DEF Upto
  <2>3. Stored(StoreNext(f[m - 1], rs[m]), Upto(m - 1) \cup {rs[m]})
    BY <1>4, StoreNextKeeps
  <2>4. QED
    BY <2>1, <2>2, <2>3
<1> HIDE DEF Good
<1>5. bad = {}
  <2>1. \A m \in 1..Len(rs) : m \in bad => m - 1 \in bad
    BY <1>2, <1>4
  <2>2. 0 \notin bad /\ bad \subseteq 0..Len(rs)
    BY <1>3
  <2>3. QED
    BY <1>2, <2>1, <2>2, NoFirstBad
<1>6. Good(Len(rs))
  BY <1>2, <1>5
<1>7. Upto(Len(rs)) = ToSet(rs)
  BY <1>2 DEF ToSet
<1> HIDE DEF Upto
<1>8. QED
  BY <1>1, <1>6, <1>7 DEF Good

LEMMA ReversedIs ==
  ASSUME NEW R, NEW list \in Seq(R)
  PROVE  Reverse(list) \in Seq(R) /\ ToSet(Reverse(list)) = ToSet(list)
<1> DEFINE n == Len(list)
           back == Reverse(list)
<1>1. n \in Nat /\ DOMAIN list = 1..n /\ list \in [1..n -> R]
  OBVIOUS
<1>2. back = [i \in 1..n |-> list[(n - i) + 1]]
  BY DEF Reverse
<1> HIDE DEF n, back
<1>3. \A i \in 1..n : (n - i) + 1 \in 1..n /\ (n - ((n - i) + 1)) + 1 = i
  BY <1>1
<1>4. back \in [1..n -> R]
  BY <1>1, <1>2, <1>3
<1>5. back \in Seq(R) /\ DOMAIN back = 1..n
  BY <1>1, <1>4
<1>6. \A i \in 1..n : back[i] = list[(n - i) + 1] /\ list[i] = back[(n - i) + 1]
  BY <1>2, <1>3
<1>7. \A i \in 1..n :
         (\E j \in 1..n : back[i] = list[j]) /\ (\E j \in 1..n : list[i] = back[j])
  BY <1>3, <1>6
<1>8. ToSet(back) = ToSet(list)
  <2>1. ToSet(back) = {back[i] : i \in 1..n} /\ ToSet(list) = {list[i] : i \in 1..n}
    BY <1>1, <1>5 DEF ToSet
  <2>2. ASSUME NEW x \in ToSet(back)
        PROVE  x \in ToSet(list)
    <3>1. PICK i \in 1..n : x = back[i]
      BY <2>1
    <3>2. PICK j \in 1..n : back[i] = list[j]
      BY <1>7
    <3>3. QED
      BY <2>1, <3>1, <3>2
  <2>3. ASSUME NEW x \in ToSet(list)
        PROVE  x \in ToSet(back)
    <3>1. PICK i \in 1..n : x = list[i]
      BY <2>1
    <3>2. PICK j \in 1..n : list[i] = back[j]
      BY <1>7
    <3>3. QED
      BY <2>1, <3>1, <3>2
  <2>4. QED
    BY <2>2, <2>3
<1>9. QED
  BY <1>5, <1>8 DEF back

(* A row that leads the internet on a network type keeps a type when it loses *)
(* MMS.                                                                       *)
LEMMA TakeMmsOffLeadsLoosens ==
  ASSUME NEW rs, RowsOK(rs), NEW n
  PROVE  Loosened(TakeMmsOffTypeInternetLeads(rs, n), rs)
<1> DEFINE live == Live(rs)
           stored == AndroidStoredRows(Reverse(live))
<1>1. RowsOK(live) /\ ToSet(live) \subseteq ToSet(rs)
  BY LiveIs
<1>2. Stored(stored, ToSet(live))
  BY <1>1, ReversedIs, StoredRows DEF RowsOK
<1> HIDE DEF live, stored
<1>3. \A r \in ToSet(live) : \E s \in ToSet(stored) : s.key = r.key
  BY <1>2 DEF Stored, ToSet
<1>4. ASSUME NEW leads, NEW candidates
      PROVE  Loosened(TakeMmsOffCandidates(rs, live, stored, leads, candidates, n), rs)
  <2> DEFINE stale == {r \in ToSet(live) : r.key \in candidates /\ Serves(r, "mms")}
             off == AllOff(rs, stale, "mms")
             may == \A s \in {s \in ToSet(stored) : s.key \in candidates} :
                       MayLoseMms({r \in ToSet(live) : r.key = s.key}, s, VendorMmsRows(live), n)
  <2>1. \/ TakeMmsOffCandidates(rs, live, stored, leads, candidates, n) = rs
        \/ /\ may
           /\ TakeMmsOffCandidates(rs, live, stored, leads, candidates, n) = off
    BY DEF TakeMmsOffCandidates, AllOff
  <2>2. ASSUME may
        PROVE  \A r \in stale : ApnRowTypes(r.types) # {"mms"}
    <3> SUFFICES ASSUME NEW r \in stale
                 PROVE  ApnRowTypes(r.types) # {"mms"}
      OBVIOUS
    <3>1. PICK s \in ToSet(stored) : s.key = r.key
      BY <1>3
    <3>2. MayLoseMms({o \in ToSet(live) : o.key = s.key}, s, VendorMmsRows(live), n)
      BY <2>2, <3>1
    <3>3. QED
      BY <3>1, <3>2 DEF MayLoseMms
  <2> HIDE DEF stale, may
  <2>3. ASSUME may
        PROVE  Loosened(off, rs)
    BY <2>2, <2>3, LooseOff DEF TakenTypes
  <2> HIDE DEF off
  <2>4. QED
    BY <2>1, <2>3, LooseSelf
<1>5. TakeMmsOffTypeInternetLeads(rs, n) = TakeMmsOffStored(rs, live, stored, n)
  BY DEF TakeMmsOffTypeInternetLeads, live, stored
<1>6. QED
  BY <1>4, <1>5 DEF TakeMmsOffStored, TakeMmsOffLeadsOf

(* The stored row of rows with one key.                                       *)
LEMMA StoredRowTypes ==
  ASSUME NEW R, NEW group \in Seq(R), NEW k, ToSet(group) # {},
         \A r \in ToSet(group) : r.key = k
  PROVE  StoredRow(group).types = UNION {r.types : r \in ToSet(group)}
<1> DEFINE list == AndroidStoredRows(group)
<1>1. Stored(list, ToSet(group))
  BY StoredRows
<1> HIDE DEF list
<1>2. PICK i \in DOMAIN list : TRUE
  BY <1>1 DEF Stored
<1>3. 1 \in DOMAIN list
  BY <1>1, <1>2 DEF Stored
<1>4. list[1].key = k
  BY <1>1, <1>3 DEF Stored
<1>5. RowsOfKey(ToSet(group), k) = ToSet(group)
  BY DEF RowsOfKey
<1>6. list[1].types = UNION {r.types : r \in RowsOfKey(ToSet(group), k)}
  BY <1>1, <1>3, <1>4 DEF Stored
<1>7. QED
  BY <1>5, <1>6 DEF StoredRow, list

LEMMA TypesOfAll ==
  ASSUME NEW S
  PROVE  ApnRowTypes(UNION {r.types : r \in S}) = UNION {ApnRowTypes(r.types) : r \in S}
BY DEF ApnRowTypes

LEMMA PlaceIs ==
  ASSUME NEW rs, RowsOK(rs), NEW r \in ToSet(rs)
  PROVE  rs[Place(rs, r)] = r
<1> DEFINE places == {i \in 1..Len(rs) : rs[i].id = r.id}
<1>1. Place(rs, r) = IF places # {} THEN Min(places) ELSE 0
  BY DEF Place, SelectInSeq
<1>2. Len(rs) \in Nat /\ DOMAIN rs = 1..Len(rs)
  BY DEF RowsOK
<1>3. PICK i \in DOMAIN rs : rs[i] = r
  BY DEF ToSet
<1>4. i \in places /\ places \subseteq Nat
  BY <1>2, <1>3
<1> HIDE DEF places
<1>5. Min(places) \in places
  BY <1>4, LeastOf
<1>6. Place(rs, r) \in DOMAIN rs /\ rs[Place(rs, r)].id = r.id
  BY <1>1, <1>2, <1>4, <1>5 DEF places
<1>7. rs[Place(rs, r)] \in ToSet(rs)
  BY <1>6 DEF ToSet
<1>8. QED
  BY <1>6, <1>7 DEF RowsOK, IdsApart

--------------------------------------------------------------------------------
(* What the last two steps leave out.                                         *)

FrozenBy(r, sources) ==
    Serves(r, "emergency") /\ Attr(r.sup, "emergency", {}) \subseteq sources

LEMMA CredentialsIs ==
  ASSUME NEW rs, RowsOK(rs), NEW all, NEW sources
  PROVE  LET new == LeaveOutSupersededCredentials(rs, all, sources)
         IN  /\ RowsOK(new) /\ ToSet(new) \subseteq ToSet(rs)
             /\ \A r \in ToSet(rs) \ ToSet(new) :
                   /\ r # Last(Group(rs, r.key))
                   /\ RecordSources(r) \subseteq sources
                   /\ OnlyFillsIn(Group(rs, r.key), r)
<1> DEFINE new == LeaveOutSupersededCredentials(rs, all, sources)
           leads == {AndroidStoredRows(rs)[i].key : i \in AndroidLeadPositions(AndroidStoredRows(rs))}
           Goes(r) == /\ r.key \in leads
                      /\ r # Last(Group(rs, r.key))
                      /\ SupersededCredentials(Group(rs, r.key), Place(Group(rs, r.key), r),
                                               all, sources)
           kept == {r \in ToSet(rs) : ~ Goes(r)}
<1>1. new = Only(rs, kept)
  BY DEF LeaveOutSupersededCredentials
<1> HIDE DEF leads, new
<1>2. RowsOK(new) /\ ToSet(new) = ToSet(rs) \cap kept
  BY <1>1, OnlyOK
<1>3. ASSUME NEW r \in ToSet(rs) \ ToSet(new)
      PROVE  /\ r # Last(Group(rs, r.key))
             /\ RecordSources(r) \subseteq sources
             /\ OnlyFillsIn(Group(rs, r.key), r)
  <2> DEFINE group == Group(rs, r.key)
             i == Place(group, r)
  <2>1. Goes(r)
    BY <1>2, <1>3
  <2>2. group[i] = r
    <3>1. RowsOK(group) /\ r \in ToSet(group)
      BY <1>3, GroupIs
    <3>2. QED
      BY <3>1, PlaceIs
  <2>3. SupersededCredentials(group, i, all, sources) /\ r # Last(group)
    BY <2>1
  <2> HIDE DEF group, i, Goes
  <2>4. RecordSources(group[i]) \subseteq sources /\ OnlyFillsIn(group, group[i])
    BY <2>3 DEF SupersededCredentials
  <2>5. QED
    BY <2>2, <2>3, <2>4 DEF group
<1>4. QED
  BY <1>2, <1>3 DEF new

(* The last row of each stored row stays.                                     *)
LEMMA CredentialsKeepKeys ==
  ASSUME NEW rs, RowsOK(rs), NEW all, NEW sources, NEW r \in ToSet(rs)
  PROVE  \E n \in ToSet(LeaveOutSupersededCredentials(rs, all, sources)) : n.key = r.key
<1> DEFINE group == Group(rs, r.key)
           last == Last(group)
<1>1. RowsOK(group) /\ ToSet(group) = {o \in ToSet(rs) : o.key = r.key}
  BY GroupIs
<1>2. last \in ToSet(group)
  <2>1. Len(group) \in Nat /\ DOMAIN group = 1..Len(group)
    BY <1>1 DEF RowsOK
  <2>2. PICK i \in DOMAIN group : group[i] = r
    BY <1>1 DEF ToSet
  <2>3. Len(group) \in DOMAIN group
    BY <2>1, <2>2
  <2>4. QED
    BY <2>3 DEF Last, ToSet
<1>3. last \in ToSet(rs) /\ last.key = r.key
  BY <1>1, <1>2
<1>4. last = Last(Group(rs, last.key))
  BY <1>3
<1> HIDE DEF last, group
<1>5. QED
  BY <1>3, <1>4, CredentialsIs

(* Of two rows that serve emergency calls under one key one stays, unless     *)
(* both have the type from superseded copies alone.                           *)
LEMMA CredentialsKeepEmergency ==
  ASSUME NEW rs, RowsOK(rs), NEW all, NEW sources,
         \A a, b \in ToSet(rs) :
            a.key = b.key /\ FrozenBy(a, sources) /\ FrozenBy(b, sources) => a = b,
         NEW r \in ToSet(rs), Serves(r, "emergency")
  PROVE  \E n \in ToSet(LeaveOutSupersededCredentials(rs, all, sources)) :
            Serves(n, "emergency") /\ n.key = r.key
<1> DEFINE new == LeaveOutSupersededCredentials(rs, all, sources)
           group == Group(rs, r.key)
           others == ToSet(group) \ {r}
<1>1. /\ RowsOK(new) /\ ToSet(new) \subseteq ToSet(rs)
      /\ \A o \in ToSet(rs) \ ToSet(new) :
            /\ o # Last(Group(rs, o.key))
            /\ RecordSources(o) \subseteq sources
            /\ OnlyFillsIn(Group(rs, o.key), o)
  BY CredentialsIs
<1> HIDE DEF new
<1>2. ASSUME NEW o \in ToSet(rs) \ ToSet(new), Serves(o, "emergency")
      PROVE  FrozenBy(o, sources)
  <2>1. RecordSources(o) \subseteq sources
    BY <1>1, <1>2
  <2>2. QED
    BY <1>2, <2>1 DEF FrozenBy, RecordSources, Attr
<1>3. CASE r \in ToSet(new)
  BY <1>3 DEF new
<1>4. CASE r \notin ToSet(new)
  <2>1. RowsOK(group) /\ ToSet(group) = {o \in ToSet(rs) : o.key = r.key}
    BY GroupIs
  <2>2. OnlyFillsIn(group, r) /\ r # Last(group)
    BY <1>1, <1>4
  <2>3. ApnRowTypes(StoredRow(group).types) = ApnRowTypes(StoredRow(Only(group, others)).types)
    BY <2>2 DEF OnlyFillsIn
  <2>4. RowsOK(Only(group, others)) /\ ToSet(Only(group, others)) = others
    BY <2>1, OnlyOK
  <2>5. others # {}
    <3>1. Len(group) \in Nat /\ DOMAIN group = 1..Len(group)
      BY <2>1 DEF RowsOK
    <3>2. PICK i \in DOMAIN group : group[i] = r
      BY <2>1 DEF ToSet
    <3>3. Len(group) \in DOMAIN group
      BY <3>1, <3>2
    <3>4. Last(group) \in ToSet(group)
      BY <3>3 DEF Last, ToSet
    <3>5. QED
      BY <2>2, <3>4
  <2> HIDE DEF group, others
  <2>6. StoredRow(group).types = UNION {o.types : o \in ToSet(group)}
    <3>1. group \in Seq(ToSet(group)) /\ ToSet(group) # {}
      BY <2>1 DEF RowsOK
    <3>2. \A o \in ToSet(group) : o.key = r.key
      BY <2>1
    <3>3. QED
      BY <3>1, <3>2, StoredRowTypes
  <2>7. StoredRow(Only(group, others)).types = UNION {o.types : o \in others}
    <3>1. Only(group, others) \in Seq(ToSet(Only(group, others)))
      BY <2>4 DEF RowsOK
    <3>2. \A o \in others : o.key = r.key
      BY <2>1 DEF others
    <3>3. QED
      BY <2>4, <2>5, <3>1, <3>2, StoredRowTypes
  <2>8. "emergency" \in UNION {ApnRowTypes(o.types) : o \in ToSet(group)}
    BY <2>1 DEF Serves
  <2>9. "emergency" \in UNION {ApnRowTypes(o.types) : o \in others}
    BY <2>3, <2>6, <2>7, <2>8, TypesOfAll
  <2>10. PICK o \in others : Serves(o, "emergency")
    BY <2>9 DEF Serves
  <2>11. o \in ToSet(rs) /\ o.key = r.key /\ o # r
    BY <2>1, <2>10 DEF others
  <2>12. o \in ToSet(new)
    BY <1>2, <1>4, <2>10, <2>11
  <2>13. QED
    BY <2>10, <2>11, <2>12 DEF new
<1>5. QED
  BY <1>3, <1>4

LEMMA SimilarApns ==
  ASSUME NEW a, NEW b, AndroidSimilar(a, b)
  PROVE  a.apn = b.apn
BY DEF AndroidSimilar

LEMMA AbsorbedIs ==
  ASSUME NEW rs, RowsOK(rs)
  PROVE  LET list == AndroidStoredRows(rs)
         IN  \A k \in AbsorbedMms(rs) :
                \E i \in DOMAIN list :
                   /\ list[i].key = k /\ ApnRowTypes(list[i].types) = {"mms"}
                   /\ \E j \in 1..(i - 1) : AndroidSimilar(list[j], list[i])
BY DEF AbsorbedMms

(* Every APN has a row that is not absorbed: the first stored row of it.      *)
LEMMA AbsorbedKeepsApns ==
  ASSUME NEW rs, RowsOK(rs)
  PROVE  LET new == LeaveOutAbsorbedMms(rs)
         IN  /\ RowsOK(new) /\ ToSet(new) \subseteq ToSet(rs)
             /\ \A r \in ToSet(rs) : \E n \in ToSet(new) : n.apn = r.apn
             /\ \A r \in ToSet(rs) : Serves(r, "emergency") => r \in ToSet(new)
<1> DEFINE new == LeaveOutAbsorbedMms(rs)
           list == AndroidStoredRows(rs)
           absorbed == AbsorbedMms(rs)
<1>1. new = Only(rs, {r \in ToSet(rs) : r.key \notin absorbed})
  BY DEF LeaveOutAbsorbedMms
<1>2. Stored(list, ToSet(rs))
  BY StoredRows DEF RowsOK
<1>3. \A k \in absorbed :
         \E i \in DOMAIN list :
            /\ list[i].key = k /\ ApnRowTypes(list[i].types) = {"mms"}
            /\ \E j \in 1..(i - 1) : AndroidSimilar(list[j], list[i])
  BY AbsorbedIs
<1> HIDE DEF new, list, absorbed
<1>4. RowsOK(new) /\ ToSet(new) = {r \in ToSet(rs) : r.key \notin absorbed}
  BY <1>1, OnlyOK
<1>5. \A r \in ToSet(rs) : IsRow(r)
  BY DEF RowsOK
<1>6. ASSUME NEW r \in ToSet(rs)
      PROVE  \E n \in ToSet(new) : n.apn = r.apn
  <2> DEFINE places == {i \in DOMAIN list : list[i].apn = r.apn}
  <2>1. places # {}
    <3>1. PICK i \in DOMAIN list : list[i].key = r.key
      BY <1>2 DEF Stored
    <3>2. PICK o \in ToSet(rs) : list[i].key = o.key /\ list[i].apn = o.apn
      BY <1>2 DEF Stored
    <3>3. o.apn = r.apn
      BY <1>5, <3>1, <3>2, KeyTells
    <3>4. QED
      BY <3>2, <3>3
  <2>2. DOMAIN list = 1..Len(list) /\ Len(list) \in Nat
    BY <1>2 DEF Stored
  <2>3. places \subseteq Nat
    BY <2>2
  <2>4. PICK i \in places : \A j \in places : i <= j
    BY <2>1, <2>3, LeastIs
  <2>5. PICK n \in ToSet(rs) : list[i].key = n.key /\ list[i].apn = n.apn
    BY <1>2, <2>4 DEF Stored
  <2>6. n.key \notin absorbed
    <3> SUFFICES ASSUME n.key \in absorbed
                 PROVE  FALSE
      OBVIOUS
    <3>1. PICK g \in DOMAIN list : /\ list[g].key = n.key
                                   /\ \E j \in 1..(g - 1) : AndroidSimilar(list[j], list[g])
      BY <1>3
    <3>2. g = i
      BY <1>2, <2>4, <2>5, <3>1 DEF Stored
    <3>3. PICK j \in 1..(i - 1) : AndroidSimilar(list[j], list[i])
      BY <3>1, <3>2
    <3>4. j \in DOMAIN list /\ ~ (i <= j)
      BY <2>2, <2>4, <3>3
    <3>5. list[j].apn = r.apn
      BY <2>4, <3>3, SimilarApns
    <3>6. QED
      BY <2>4, <3>4, <3>5
  <2>7. QED
    BY <1>4, <2>4, <2>5, <2>6
<1>7. ASSUME NEW r \in ToSet(rs), Serves(r, "emergency")
      PROVE  r \in ToSet(new)
  <2> SUFFICES ASSUME r.key \in absorbed
               PROVE  FALSE
    BY <1>4
  <2>1. PICK i \in DOMAIN list : list[i].key = r.key /\ ApnRowTypes(list[i].types) = {"mms"}
    BY <1>3
  <2>2. list[i].types = UNION {o.types : o \in RowsOfKey(ToSet(rs), r.key)}
    BY <1>2, <2>1 DEF Stored
  <2>3. r \in RowsOfKey(ToSet(rs), r.key)
    BY DEF RowsOfKey
  <2>4. "emergency" \in ApnRowTypes(list[i].types)
    BY <1>7, <2>2, <2>3, TypesOfAll DEF Serves
  <2>5. QED
    BY <2>1, <2>4
<1>8. QED
  BY <1>4, <1>6, <1>7 DEF new

--------------------------------------------------------------------------------
(* Before ranking steps take types off, and rows left with none.              *)

FromRow(n, o) ==
    /\ n.id = o.id /\ n.key = o.key /\ n.attr = o.attr
    /\ Serves(n, "emergency")
          => Serves(o, "emergency") /\ Attr(n.sup, "emergency", {}) = Attr(o.sup, "emergency", {})

Typed(rs) == \A r \in ToSet(rs) : r.types # {}

Kept(new, old) ==
    /\ RowsOK(new)
    /\ \A n \in ToSet(new) : \E o \in ToSet(old) : FromRow(n, o) /\ n.marks = o.marks

Thinned(new, old) == Kept(new, old) /\ (Typed(old) => Typed(new))

(* A row that has a type to keep when it loses "ia" and "emergency", and one  *)
(* that has when it loses "emergency".                                        *)
Firm(r) ==
    /\ r.types # {}
    /\ Serves(r, "emergency") => \E t \in ApnRowTypes(r.types) : t \notin {"ia", "emergency"}

Bears(r) == \E t \in ApnRowTypes(r.types) : t # "emergency"

LEMMA ThinSelf ==
  ASSUME NEW rs, RowsOK(rs)
  PROVE  Thinned(rs, rs)
BY DEF Thinned, Kept, FromRow

LEMMA ThinEach ==
  ASSUME NEW rs, RowsOK(rs), NEW new, new = [i \in DOMAIN rs |-> new[i]],
         \A i \in DOMAIN rs : /\ IsRow(new[i]) /\ FromRow(new[i], rs[i])
                              /\ new[i].marks = rs[i].marks,
         \A i, j \in DOMAIN rs : rs[i] = rs[j] => new[i] = new[j]
  PROVE  /\ Kept(new, rs) /\ <<>> \o new = new
         /\ ToSet(new) = {new[i] : i \in DOMAIN rs}
<1>1. \A i \in DOMAIN rs : IsRow(new[i]) /\ new[i].id = rs[i].id
  BY DEF FromRow
<1>2. /\ RowsOK(new) /\ DOMAIN new = DOMAIN rs /\ <<>> \o new = new
      /\ ToSet(new) = {new[i] : i \in DOMAIN rs}
  BY <1>1, EachOK
<1>3. \A i \in DOMAIN rs : rs[i] \in ToSet(rs)
  BY DEF ToSet
<1>4. QED
  BY <1>2, <1>3 DEF Kept

LEMMA WithTypesIs ==
  ASSUME NEW rs, RowsOK(rs)
  PROVE  RowsOK(WithTypes(rs)) /\ ToSet(WithTypes(rs)) = {r \in ToSet(rs) : r.types # {}}
BY OnlyOK DEF WithTypes

(* What the legacy copy loses.                                                *)
LEMMA DropIs ==
  ASSUME NEW r, IsRow(r), NEW types
  PROVE  LET n == DropTypes(r, types)
         IN  /\ IsRow(n) /\ FromRow(n, r) /\ n.marks = r.marks /\ n.apn = r.apn
             /\ ApnRowTypes(n.types) = ApnRowTypes(r.types) \ types
             /\ n.types = ApnRowTypes(r.types) \ types
<1> DEFINE off == TypesOff(r, types)
           n == DropTypes(r, types)
           sup == [t \in DOMAIN r.sup \ types |-> r.sup[t]]
<1>1. /\ IsRow(off) /\ SameButTypes(off, r) /\ off.marks = r.marks
      /\ ApnRowTypes(off.types) = ApnRowTypes(r.types) \ types
  BY TypesOffIs
<1>2. off.types = ApnRowTypes(r.types) \ types
  BY DEF TypesOff, IsRow, RowFields
<1>3. n = [off EXCEPT !.sup = [t \in DOMAIN off.sup \ types |-> off.sup[t]],
                      !.cur = [t \in DOMAIN off.cur \ types |-> off.cur[t]]]
  BY DEF DropTypes
<1> HIDE DEF off, n
<1>4. /\ IsRow(n) /\ n.id = r.id /\ n.key = r.key /\ n.marks = r.marks /\ n.apn = r.apn
      /\ n.types = ApnRowTypes(r.types) \ types /\ n.sup = sup /\ n.attr = r.attr
  BY <1>1, <1>2, <1>3 DEF IsRow, RowFields, SameButTypes
<1>5. ApnRowTypes(n.types) = ApnRowTypes(r.types) \ types
  BY <1>4, Unstarred
<1>6. ASSUME Serves(n, "emergency")
      PROVE  Serves(r, "emergency") /\ Attr(n.sup, "emergency", {}) = Attr(r.sup, "emergency", {})
  <2>1. "emergency" \in ApnRowTypes(r.types) /\ "emergency" \notin types
    BY <1>5, <1>6 DEF Serves
  <2>2. QED
    BY <1>4, <2>1 DEF Attr, Serves
<1>7. QED
  BY <1>4, <1>5, <1>6 DEF FromRow, n

LEMMA OwedFirm ==
  ASSUME NEW r, Owed(r), NEW n, NEW types, types \subseteq CopyTypes(r),
         ApnRowTypes(n.types) = ApnRowTypes(r.types) \ types, n.types # {}
  PROVE  Firm(n)
BY DEF Owed, Firm, Serves

LEMMA OwedHasTypes ==
  ASSUME NEW r, Owed(r), NEW types, types \subseteq CopyTypes(r)
  PROVE  ApnRowTypes(r.types) \ types # {} /\ r.types # {}
BY DEF Owed, ApnRowTypes

LEMMA LessIs ==
  ASSUME NEW rs, RowsOK(rs), NEW leave,
         \A i \in DOMAIN rs : leave[i] \subseteq CopyTypes(rs[i]),
         \A i, j \in DOMAIN rs : rs[i] = rs[j] => leave[i] = leave[j]
  PROVE  /\ Thinned(LessTypes(rs, leave), rs)
         /\ \A r \in ToSet(rs) :
               Owed(r) => \E n \in ToSet(LessTypes(rs, leave)) : n.apn = r.apn /\ Firm(n)
<1> DEFINE new == [i \in DOMAIN rs |-> IF leave[i] = {} THEN rs[i] ELSE DropTypes(rs[i], leave[i])]
           less == LessTypes(rs, leave)
<1>1. \A i \in DOMAIN rs : new[i] = IF leave[i] = {} THEN rs[i] ELSE DropTypes(rs[i], leave[i])
  OBVIOUS
<1>2. less = WithTypes(new)
  BY DEF LessTypes
<1>3. new = [i \in DOMAIN rs |-> new[i]]
  OBVIOUS
<1> HIDE DEF new, less
<1>4. \A i \in DOMAIN rs : IsRow(rs[i])
  BY DEF RowsOK, ToSet
<1>5. ASSUME NEW i \in DOMAIN rs
      PROVE  /\ IsRow(new[i]) /\ FromRow(new[i], rs[i]) /\ new[i].marks = rs[i].marks
             /\ new[i].apn = rs[i].apn
             /\ ApnRowTypes(new[i].types) = ApnRowTypes(rs[i].types) \ leave[i]
             /\ new[i].types = rs[i].types \/ new[i].types = ApnRowTypes(rs[i].types) \ leave[i]
  <2>1. CASE leave[i] = {}
    BY <1>1, <1>4, <2>1 DEF FromRow
  <2>2. CASE leave[i] # {}
    BY <1>1, <1>4, <2>2, DropIs
  <2>3. QED
    BY <2>1, <2>2
<1>6. \A i, j \in DOMAIN rs : rs[i] = rs[j] => new[i] = new[j]
  BY <1>1
<1>7. Kept(new, rs) /\ ToSet(new) = {new[i] : i \in DOMAIN rs}
  BY <1>3, <1>5, <1>6, ThinEach
<1>8. RowsOK(less) /\ ToSet(less) = {n \in ToSet(new) : n.types # {}}
  BY <1>2, <1>7, WithTypesIs DEF Kept
<1>9. Thinned(less, rs)
  BY <1>7, <1>8 DEF Thinned, Kept, Typed
<1>10. ASSUME NEW i \in DOMAIN rs, Owed(rs[i])
       PROVE  new[i] \in ToSet(less) /\ new[i].apn = rs[i].apn /\ Firm(new[i])
  <2>1. ApnRowTypes(rs[i].types) \ leave[i] # {} /\ rs[i].types # {}
    BY <1>10, OwedHasTypes
  <2>2. new[i].types # {}
    BY <1>5, <2>1
  <2>3. Firm(new[i])
    BY <1>5, <1>10, <2>2, OwedFirm
  <2>4. QED
    BY <1>5, <1>7, <1>8, <2>2, <2>3
<1>11. QED
  BY <1>9, <1>10 DEF ToSet, less

LEMMA GapsThin ==
  ASSUME NEW rs, RowsOK(rs), NEW n
  PROVE  LET new == KeepRoleGapRows(rs, n)
         IN  /\ Thinned(new, rs)
             /\ \A r \in ToSet(rs) : Owed(r) => \E w \in ToSet(new) : w.apn = r.apn /\ Firm(w)
<1> DEFINE new == KeepRoleGapRows(rs, n)
           OfTrial(leave, back) == LessTypes(rs, Trial(rs, leave, back))
<1>1. \/ new = rs
      \/ \E without, m, back : new = OfTrial(LeavingTypes(rs, without, m), back)
  BY Zenon DEF KeepRoleGapRows, KeepInNetwork, KeepGapsOf, KeepWritten, KeepGapTypes, KeepLoadBearing
<1> HIDE DEF new
<1>2. CASE new = rs
  <2>1. \A r \in ToSet(rs) : Owed(r) => Firm(r)
    BY DEF Owed, Firm, Serves, ApnRowTypes
  <2>2. QED
    BY <1>2, <2>1, ThinSelf DEF new
<1>3. ASSUME NEW without, NEW m, NEW back, new = OfTrial(LeavingTypes(rs, without, m), back)
      PROVE  /\ Thinned(new, rs)
             /\ \A r \in ToSet(rs) : Owed(r) => \E w \in ToSet(new) : w.apn = r.apn /\ Firm(w)
  <2> DEFINE leave == LeavingTypes(rs, without, m)
             trial == Trial(rs, leave, back)
  <2>1. \A i \in DOMAIN rs : leave[i] \subseteq CopyTypes(rs[i])
    BY DEF LeavingTypes
  <2>2. \A i, j \in DOMAIN rs : rs[i] = rs[j] => leave[i] = leave[j]
    BY DEF LeavingTypes
  <2> HIDE DEF leave
  <2>3. \A i \in DOMAIN rs : trial[i] = IF rs[i].id \in back THEN {} ELSE leave[i]
    BY DEF Trial
  <2> HIDE DEF trial
  <2>4. \A i \in DOMAIN rs : trial[i] \subseteq CopyTypes(rs[i])
    BY <2>1, <2>3
  <2>5. \A i, j \in DOMAIN rs : rs[i] = rs[j] => trial[i] = trial[j]
    BY <2>2, <2>3
  <2>6. new = LessTypes(rs, trial)
    BY <1>3 DEF trial, leave
  <2>7. QED
    BY <2>4, <2>5, <2>6, LessIs
<1>4. QED
  BY <1>1, <1>2, <1>3 DEF new

(* A row that loses some types of its list.                                   *)
Less(r, X) == [r EXCEPT !.types = r.types \ X]

LEMMA LosesIs ==
  ASSUME NEW r, IsRow(r), NEW X
  PROVE  /\ IsRow(Less(r, X)) /\ SameButTypes(Less(r, X), r) /\ Less(r, X).marks = r.marks
         /\ Less(r, X).types = r.types \ X /\ FromRow(Less(r, X), r)
<1>1. /\ IsRow(Less(r, X)) /\ SameButTypes(Less(r, X), r) /\ Less(r, X).marks = r.marks
      /\ Less(r, X).types = r.types \ X
  BY Retyped DEF Less
<1>2. ApnRowTypes(Less(r, X).types) \subseteq ApnRowTypes(r.types)
  BY <1>1 DEF ApnRowTypes
<1>3. QED
  BY <1>1, <1>2 DEF FromRow, SameButTypes, Serves

LEMMA ServedOf ==
  ASSUME NEW T, NEW t, t \in ApnRowTypes(T), NEW X, t \notin X, \A x \in X : x # "*"
  PROVE  t \in ApnRowTypes(T \ X)
<1>1. PICK u \in T : t \in ServedTypes(u)
  BY DEF ApnRowTypes
<1>2. u \notin X
  BY <1>1 DEF ServedTypes
<1>3. QED
  BY <1>1, <1>2 DEF ApnRowTypes

LEMMA FirmBears ==
  ASSUME NEW r, Firm(r), NEW n, n.types = r.types \/ (r.types # {"ia"} /\ n.types = r.types \ {"ia"})
  PROVE  Bears(n)
<1>1. CASE \E t \in ApnRowTypes(r.types) : t \notin {"ia", "emergency"}
  <2>1. PICK t \in ApnRowTypes(r.types) : t \notin {"ia", "emergency"}
    BY <1>1
  <2>2. t \in ApnRowTypes(r.types \ {"ia"})
    BY <2>1, ServedOf
  <2>3. QED
    BY <2>1, <2>2 DEF Bears
<1>2. CASE ~ Serves(r, "emergency")
  <2>1. PICK u \in n.types : u \in r.types
    BY DEF Firm
  <2>2. PICK t : t \in ServedTypes(u)
    BY DEF ServedTypes, WildcardTypes
  <2>3. t \in ApnRowTypes(n.types) /\ t \in ApnRowTypes(r.types)
    BY <2>1, <2>2 DEF ApnRowTypes
  <2>4. QED
    BY <1>2, <2>3 DEF Bears, Serves
<1>3. QED
  BY <1>1, <1>2 DEF Firm

LEMMA AttachThins ==
  ASSUME NEW rs, RowsOK(rs)
  PROVE  LET out == LeaveOutStaleAttach(rs)
         IN  /\ Thinned(out, rs)
             /\ \A r \in ToSet(rs) : Firm(r) => \E n \in ToSet(out) : n.apn = r.apn /\ Bears(n)
<1> DEFINE Gives(r) == Backed(r, "default") \/ Backed(r, "ia")
           vendor == {Folded[r.apn] : r \in {r \in ToSet(rs) : Gives(r)}}
           covered == \E r \in ToSet(rs) : Gives(r) /\ r.apn \notin Placeholders
           Stale(r) == covered /\ "ia" \in r.types /\ r.types # {"ia"} /\ Folded[r.apn] \notin vendor
           stale == {r \in ToSet(rs) : Stale(r)}
           new == [i \in DOMAIN rs |->
                     IF rs[i] \in stale THEN [rs[i] EXCEPT !.types = rs[i].types \ {"ia"}] ELSE rs[i]]
           out == LeaveOutStaleAttach(rs)
<1>1. out = <<>> \o new
  <2>1. out = <<>> \o [i \in DOMAIN rs |->
                  IF covered /\ ("ia" \in rs[i].types /\ rs[i].types # {"ia"}
                                   /\ Folded[rs[i].apn] \notin vendor)
                  THEN [rs[i] EXCEPT !.types = rs[i].types \ {"ia"}] ELSE rs[i]]
    BY DEF LeaveOutStaleAttach, MapRows
  <2>2. \A i \in DOMAIN rs : rs[i] \in ToSet(rs)
    BY DEF ToSet
  <2> HIDE DEF covered, vendor
  <2>3. [i \in DOMAIN rs |->
                  IF covered /\ ("ia" \in rs[i].types /\ rs[i].types # {"ia"}
                                   /\ Folded[rs[i].apn] \notin vendor)
                  THEN [rs[i] EXCEPT !.types = rs[i].types \ {"ia"}] ELSE rs[i]] = new
    BY <2>2
  <2>4. QED
    BY <2>1, <2>3
<1>2. \A r \in stale : r.types # {"ia"}
  OBVIOUS
<1>3. \A i \in DOMAIN rs :
         new[i] = IF rs[i] \in stale THEN [rs[i] EXCEPT !.types = rs[i].types \ {"ia"}] ELSE rs[i]
  OBVIOUS
<1>4. new = [i \in DOMAIN rs |-> new[i]]
  OBVIOUS
<1> HIDE DEF new, stale, out
<1>5. \A i \in DOMAIN rs : IsRow(rs[i])
  BY DEF RowsOK, ToSet
<1>6. ASSUME NEW i \in DOMAIN rs
      PROVE  /\ IsRow(new[i]) /\ FromRow(new[i], rs[i]) /\ new[i].marks = rs[i].marks
             /\ new[i].apn = rs[i].apn
             /\ \/ new[i].types = rs[i].types
                \/ rs[i].types # {"ia"} /\ new[i].types = rs[i].types \ {"ia"}
  <2>1. CASE rs[i] \in stale
    <3>1. new[i] = Less(rs[i], {"ia"})
      BY <1>3, <2>1 DEF Less
    <3>2. IsRow(rs[i])
      BY <1>5
    <3>3. /\ IsRow(new[i]) /\ SameButTypes(new[i], rs[i]) /\ new[i].marks = rs[i].marks
          /\ new[i].types = rs[i].types \ {"ia"} /\ FromRow(new[i], rs[i])
      BY <3>1, <3>2, LosesIs
    <3>4. QED
      BY <1>2, <2>1, <3>3 DEF SameButTypes
  <2>2. CASE rs[i] \notin stale
    BY <1>3, <1>5, <2>2 DEF FromRow
  <2>3. QED
    BY <2>1, <2>2
<1>7. \A i, j \in DOMAIN rs : rs[i] = rs[j] => new[i] = new[j]
  BY <1>3
<1>8. Kept(new, rs) /\ <<>> \o new = new /\ ToSet(new) = {new[i] : i \in DOMAIN rs}
  BY <1>4, <1>6, <1>7, ThinEach
<1>9. \A i \in DOMAIN rs : Firm(rs[i]) => Bears(new[i])
  BY <1>6, FirmBears
<1>10. \A r \in ToSet(rs) : Firm(r) => \E n \in ToSet(new) : n.apn = r.apn /\ Bears(n)
  BY <1>6, <1>8, <1>9 DEF ToSet
<1>11. \A i \in DOMAIN rs : rs[i].types # {} => new[i].types # {}
  BY <1>6
<1>12. Thinned(new, rs)
  BY <1>8, <1>11 DEF Thinned, Typed, ToSet
<1>13. QED
  BY <1>1, <1>8, <1>10, <1>12 DEF out

LEMMA StarThins ==
  ASSUME NEW rs, RowsOK(rs), NEW m
  PROVE  LET out == LeaveOutUnbackedStarIms(rs, m)
         IN  /\ Thinned(out, rs)
             /\ \A r \in ToSet(rs) : Bears(r) => \E n \in ToSet(out) : n.apn = r.apn /\ Bears(n)
<1> DEFINE subjects == Subjects(rs)
           new == [i \in DOMAIN rs |->
                     IF rs[i].key \in subjects /\ ApnRowTypes(rs[i].types) # {"ims"}
                          /\ Serves(rs[i], "ims")
                     THEN TypesOff(rs[i], {"ims"}) ELSE rs[i]]
           out == LeaveOutUnbackedStarIms(rs, m)
<1>1. out = rs \/ out = <<>> \o new
  BY DEF LeaveOutUnbackedStarIms, ImsOff, MapRows
<1>2. \A i \in DOMAIN rs :
         new[i] = IF rs[i].key \in subjects /\ ApnRowTypes(rs[i].types) # {"ims"}
                       /\ Serves(rs[i], "ims")
                  THEN TypesOff(rs[i], {"ims"}) ELSE rs[i]
  OBVIOUS
<1>3. new = [i \in DOMAIN rs |-> new[i]]
  OBVIOUS
<1>4. \A k \in subjects : WildcardTypes \subseteq UNION {ApnRowTypes(r.types) : r \in ToSet(Group(rs, k))}
  BY DEF Subjects
<1> HIDE DEF new, subjects, out
<1>5. \A i \in DOMAIN rs : IsRow(rs[i])
  BY DEF RowsOK, ToSet
<1>6. ASSUME NEW i \in DOMAIN rs
      PROVE  /\ IsRow(new[i]) /\ FromRow(new[i], rs[i]) /\ new[i].marks = rs[i].marks
             /\ new[i].apn = rs[i].apn /\ new[i].key = rs[i].key
             /\ Serves(rs[i], "default") => Serves(new[i], "default")
             /\ new[i] = rs[i] \/ rs[i].key \in subjects
             /\ rs[i].types # {} => new[i].types # {}
  <2>1. CASE new[i] = rs[i]
    BY <1>5, <2>1 DEF FromRow
  <2>2. CASE new[i] # rs[i]
    <3>1. /\ new[i] = TypesOff(rs[i], {"ims"}) /\ rs[i].key \in subjects
          /\ ApnRowTypes(rs[i].types) # {"ims"}
      BY <1>2, <2>2
    <3>2. /\ IsRow(new[i]) /\ SameButTypes(new[i], rs[i])
          /\ ApnRowTypes(new[i].types) = ApnRowTypes(rs[i].types) \ {"ims"}
          /\ new[i].marks = rs[i].marks
      BY <1>5, <3>1, TypesOffIs
    <3>3. rs[i].types # {} => ApnRowTypes(new[i].types) # {}
      BY <3>1, <3>2, TypesStay
    <3>4. rs[i].types # {} => new[i].types # {}
      BY <3>3 DEF ApnRowTypes
    <3>5. QED
      BY <3>1, <3>2, <3>4 DEF FromRow, SameButTypes, Serves
  <2>3. QED
    BY <2>1, <2>2
<1>7. \A i, j \in DOMAIN rs : rs[i] = rs[j] => new[i] = new[j]
  BY <1>2
<1>8. Kept(new, rs) /\ <<>> \o new = new /\ ToSet(new) = {new[i] : i \in DOMAIN rs}
  BY <1>3, <1>6, <1>7, ThinEach
<1>9. ASSUME NEW i \in DOMAIN rs, Bears(rs[i])
      PROVE  \E n \in ToSet(new) : n.apn = rs[i].apn /\ Bears(n)
  <2>1. CASE new[i] = rs[i]
    BY <1>8, <1>9, <2>1
  <2>2. CASE rs[i].key \in subjects
    <3>1. PICK r \in ToSet(Group(rs, rs[i].key)) : "default" \in ApnRowTypes(r.types)
      BY <1>4, <2>2 DEF WildcardTypes
    <3>2. r \in ToSet(rs) /\ r.key = rs[i].key
      BY <3>1, GroupIs
    <3>3. PICK j \in DOMAIN rs : rs[j] = r
      BY <3>2 DEF ToSet
    <3>4. Serves(new[j], "default") /\ new[j].apn = r.apn
      BY <1>6, <3>1, <3>3 DEF Serves
    <3>5. r.apn = rs[i].apn
      BY <1>5, <3>2, <3>3, KeyTells
    <3>6. Bears(new[j])
      BY <3>4 DEF Bears, Serves
    <3>7. QED
      BY <1>8, <3>4, <3>5, <3>6
  <2>3. QED
    BY <1>6, <2>1, <2>2
<1>10. \A r \in ToSet(rs) : Bears(r) => \E n \in ToSet(new) : n.apn = r.apn /\ Bears(n)
  BY <1>9 DEF ToSet
<1>11. Thinned(new, rs)
  BY <1>6, <1>8 DEF Thinned, Typed, ToSet
<1>12. QED
  BY <1>1, <1>8, <1>10, <1>11, ThinSelf DEF out

(* Every APN set a phone may prefer has emergency service, or there is none.  *)
SetsCovered(rs) ==
    \/ \A r \in ToSet(rs) : ~ Serves(r, "emergency")
    \/ \A s \in PreferredSets(rs) : SetCovered({r \in ToSet(rs) : Serves(r, "emergency")}, s)

LEMMA EmergencyThins ==
  ASSUME NEW rs, RowsOK(rs)
  PROVE  LET out == LeaveOutEmergency(rs)
         IN  /\ Thinned(out, rs) /\ SetsCovered(out)
             /\ \A r \in ToSet(rs) : Bears(r) => \E n \in ToSet(out) : n.apn = r.apn
<1> DEFINE kept == {r \in ToSet(rs) : Serves(r, "emergency") /\ MayKeepEmergency(r)}
           all == \A s \in PreferredSets(rs) : SetCovered(kept, s)
           Loses(r) == Serves(r, "emergency") /\ ~ (r \in kept /\ all)
           new == [i \in DOMAIN rs |->
                     IF Loses(rs[i]) THEN [rs[i] EXCEPT !.types = rs[i].types \ {"emergency"}]
                     ELSE rs[i]]
           out == LeaveOutEmergency(rs)
<1>1. out = WithTypes(<<>> \o new)
  BY DEF LeaveOutEmergency, MapRows
<1>2. \A i \in DOMAIN rs :
         new[i] = IF Loses(rs[i]) THEN [rs[i] EXCEPT !.types = rs[i].types \ {"emergency"}]
                  ELSE rs[i]
  OBVIOUS
<1>3. new = [i \in DOMAIN rs |-> new[i]]
  OBVIOUS
<1> HIDE DEF new, out
<1>4. \A i \in DOMAIN rs : IsRow(rs[i]) /\ rs[i] \in ToSet(rs)
  BY DEF RowsOK, ToSet
<1>5. ASSUME NEW i \in DOMAIN rs
      PROVE  /\ IsRow(new[i]) /\ FromRow(new[i], rs[i]) /\ new[i].marks = rs[i].marks
             /\ SameButTypes(new[i], rs[i])
             /\ new[i].types = rs[i].types \/ new[i].types = rs[i].types \ {"emergency"}
             /\ Loses(rs[i]) => new[i].types = rs[i].types \ {"emergency"}
             /\ ~ Loses(rs[i]) => new[i] = rs[i]
  <2>1. CASE Loses(rs[i])
    <3>1. new[i] = Less(rs[i], {"emergency"})
      BY <1>2, <2>1 DEF Less
    <3>2. /\ IsRow(new[i]) /\ SameButTypes(new[i], rs[i]) /\ new[i].marks = rs[i].marks
          /\ new[i].types = rs[i].types \ {"emergency"} /\ FromRow(new[i], rs[i])
      <4>1. IsRow(rs[i])
        BY <1>4
      <4>2. QED
        BY <3>1, <4>1, LosesIs
    <3>3. QED
      BY <2>1, <3>2
  <2>2. CASE ~ Loses(rs[i])
    BY <1>2, <1>4, <2>2 DEF FromRow, SameButTypes
  <2>3. QED
    BY <2>1, <2>2
<1>6. \A i, j \in DOMAIN rs : rs[i] = rs[j] => new[i] = new[j]
  BY <1>2
<1>7. Kept(new, rs) /\ <<>> \o new = new /\ ToSet(new) = {new[i] : i \in DOMAIN rs}
  BY <1>3, <1>5, <1>6, ThinEach
<1>8. RowsOK(out) /\ ToSet(out) = {n \in ToSet(new) : n.types # {}}
  BY <1>1, <1>7, WithTypesIs DEF Kept
<1>9. Thinned(out, rs)
  BY <1>7, <1>8 DEF Thinned, Kept, Typed
<1>10. ASSUME NEW i \in DOMAIN rs, Bears(rs[i])
       PROVE  new[i] \in ToSet(out) /\ new[i].apn = rs[i].apn
  <2>1. PICK t \in ApnRowTypes(rs[i].types) : t # "emergency"
    BY <1>10 DEF Bears
  <2>2. t \in ApnRowTypes(rs[i].types \ {"emergency"})
    BY <2>1, ServedOf
  <2>3. new[i].types # {}
    BY <1>5, <2>1, <2>2 DEF ApnRowTypes
  <2>4. QED
    BY <1>5, <1>7, <1>8, <2>3 DEF SameButTypes
<1>11. \A r \in ToSet(rs) : Bears(r) => \E n \in ToSet(out) : n.apn = r.apn
  BY <1>10 DEF ToSet
<1>12. CASE ~ all
  <2>1. ASSUME NEW i \in DOMAIN rs
        PROVE  ~ Serves(new[i], "emergency")
    <3>1. CASE Loses(rs[i])
      <4>1. new[i].types = rs[i].types \ {"emergency"}
        BY <1>5, <3>1
      <4>2. QED
        BY <4>1 DEF Serves, ApnRowTypes, ServedTypes, WildcardTypes
    <3>2. CASE ~ Loses(rs[i])
      <4>1. ~ Serves(rs[i], "emergency")
        BY <1>12, <3>2
      <4>2. QED
        BY <1>5, <3>2, <4>1
    <3>3. QED
      BY <3>1, <3>2
  <2>2. SetsCovered(out)
    BY <1>7, <1>8, <2>1 DEF SetsCovered
  <2>3. QED
    BY <1>9, <1>11, <2>2 DEF out
<1>13. CASE all
  <2>1. ASSUME NEW r \in kept
        PROVE  r \in ToSet(out) /\ Serves(r, "emergency")
    <3>1. PICK i \in DOMAIN rs : rs[i] = r
      BY DEF ToSet
    <3>2. new[i] = r /\ Serves(r, "emergency")
      BY <1>5, <1>13, <3>1
    <3>3. r.types # {}
      BY <3>2 DEF Serves, ApnRowTypes
    <3>4. QED
      BY <1>7, <1>8, <3>2, <3>3
  <2>2. ASSUME NEW n \in ToSet(out), Serves(n, "default")
        PROVE  \E r \in ToSet(rs) : Serves(r, "default") /\ ApnSet(r) = ApnSet(n)
    <3>1. PICK i \in DOMAIN rs : new[i] = n
      BY <1>7, <1>8
    <3>2. n.types \subseteq rs[i].types /\ n.attr = rs[i].attr
      BY <1>5, <3>1 DEF SameButTypes
    <3>3. Serves(rs[i], "default")
      BY <2>2, <3>2 DEF Serves, ApnRowTypes
    <3>4. QED
      BY <1>4, <3>2, <3>3 DEF ApnSet
  <2>3. PreferredSets(out) \subseteq PreferredSets(rs)
    BY <2>2 DEF PreferredSets
  <2>4. ASSUME NEW s \in PreferredSets(out)
        PROVE  SetCovered({r \in ToSet(out) : Serves(r, "emergency")}, s)
    <3>1. PICK r \in kept : ApnSet(r) \in {-1, s}
      BY <1>13, <2>3 DEF SetCovered
    <3>2. QED
      BY <2>1, <3>1 DEF SetCovered
  <2>5. SetsCovered(out)
    BY <2>4 DEF SetsCovered
  <2>6. QED
    BY <1>9, <1>11, <2>5 DEF out
<1>14. QED
  BY <1>12, <1>13

--------------------------------------------------------------------------------
(* The rows a scope starts from.                                              *)

Records(s) == MapRows(s.apns, LAMBDA apn : ApnRecord(apn, s.ev))

Unmarked(rs) == \A r \in ToSet(rs) : r.marks = {}

LEMMA RecordIs ==
  ASSUME NEW apn, NEW ev
  PROVE  LET r == ApnRecord(apn, ev)
         IN  /\ IsRow(r) /\ r.id = apn.id /\ r.marks = {}
             /\ r.types = apn.types /\ r.attr = apn.attr
BY DEF ApnRecord, IsRow, RowFields

LEMMA RecordsOK ==
  ASSUME NEW s \in Scopes
  PROVE  /\ RowsOK(Records(s)) /\ Unmarked(Records(s)) /\ Typed(Records(s))
         /\ \A r \in ToSet(Records(s)) : \E i \in DOMAIN s.apns : r.attr = s.apns[i].attr
<1> DEFINE list == s.apns
           new == [i \in DOMAIN list |-> ApnRecord(list[i], s.ev)]
<1>1. /\ list \in Seq(ToSet(list))
      /\ \A i, j \in DOMAIN list : list[i].id = list[j].id => i = j
      /\ \A i \in DOMAIN list : list[i].types # {}
  BY ScopesAssumption
<1>2. Len(list) \in Nat /\ DOMAIN list = 1..Len(list)
  BY <1>1, Lists
<1>3. Records(s) = <<>> \o new
  BY DEF Records, MapRows
<1>4. \A i \in DOMAIN list :
         /\ IsRow(new[i]) /\ new[i].id = list[i].id /\ new[i].marks = {}
         /\ new[i].types # {} /\ new[i].attr = list[i].attr
  BY <1>1, RecordIs
<1>5. new = [i \in 1..Len(list) |-> new[i]]
  BY <1>2
<1> HIDE DEF new
<1>6. <<>> \o new = new /\ new \in Seq(ToSet(new)) /\ DOMAIN new = 1..Len(list)
  BY <1>2, <1>5, MappedIs
<1>7. \A r \in ToSet(new) : \E i \in DOMAIN list : r = new[i]
  BY <1>2, <1>6 DEF ToSet
<1>8. IdsApart(new)
  BY <1>1, <1>4, <1>7 DEF IdsApart
<1>9. QED
  BY <1>3, <1>4, <1>6, <1>7, <1>8 DEF RowsOK, Unmarked, Typed

Refilled(r, types, sup, cur) == [r EXCEPT !.types = types, !.sup = sup, !.cur = cur]

LEMMA RefilledIs ==
  ASSUME NEW r, IsRow(r), NEW types, NEW sup, NEW cur
  PROVE  LET n == Refilled(r, types, sup, cur)
         IN  /\ IsRow(n) /\ n.id = r.id /\ n.marks = r.marks
             /\ n.types = types /\ n.attr = r.attr
BY DEF Refilled, IsRow, RowFields

LEMMA CollapseOK ==
  ASSUME NEW rs, RowsOK(rs), Unmarked(rs), Typed(rs)
  PROVE  LET out == CollapseDuplicates(rs)
         IN  /\ RowsOK(out) /\ Unmarked(out) /\ Typed(out)
             /\ \A n \in ToSet(out) : \E r \in ToSet(rs) : n.attr = r.attr
<1> DEFINE Equal(r) == {o \in ToSet(rs) : SettingsKey(o) = SettingsKey(r)}
           firsts == {r \in ToSet(rs) : \A o \in Equal(r) : r.id <= o.id}
           list == Ascending(Only(rs, firsts), [r \in firsts |-> <<r.id>>])
           new == [i \in DOMAIN list |->
                     Refilled(list[i], UNION {o.types : o \in Equal(list[i])},
                              UniteSources(Equal(list[i]), "sup"),
                              UniteSources(Equal(list[i]), "cur"))]
<1>1. CollapseDuplicates(rs) = <<>> \o new
  BY DEF CollapseDuplicates, MapRows, Refilled
<1>2. RowsOK(list) /\ ToSet(list) \subseteq ToSet(rs)
  <2>1. RowsOK(Only(rs, firsts)) /\ ToSet(Only(rs, firsts)) \subseteq ToSet(rs)
    BY OnlyOK
  <2>2. QED
    BY <2>1, AscendingOK
<1> HIDE DEF list
<1>3. \A i \in DOMAIN list : IsRow(list[i]) /\ list[i] \in ToSet(rs)
  BY <1>2 DEF RowsOK, ToSet
<1>4. \A r \in ToSet(rs) : UNION {o.types : o \in Equal(r)} # {}
  BY DEF Typed
<1> HIDE DEF Equal
<1>5. \A i \in DOMAIN list :
         /\ IsRow(new[i]) /\ new[i].id = list[i].id /\ new[i].marks = {}
         /\ new[i].types # {} /\ new[i].attr = list[i].attr
  BY <1>3, <1>4, RefilledIs DEF Unmarked
<1>6. \A i, j \in DOMAIN list : list[i] = list[j] => new[i] = new[j]
  OBVIOUS
<1>7. new = [i \in DOMAIN list |-> new[i]]
  OBVIOUS
<1> HIDE DEF new
<1>8. RowsOK(new) /\ <<>> \o new = new /\ ToSet(new) = {new[i] : i \in DOMAIN list}
  BY <1>2, <1>5, <1>6, <1>7, EachOK
<1>9. QED
  BY <1>1, <1>3, <1>5, <1>8 DEF Unmarked, Typed

(* The rows a scope starts from are apart, and none of them is marked.        *)
LEMMA ScopeRecordsOK ==
  ASSUME NEW s \in Scopes
  PROVE  LET out == ScopeRecords(s)
         IN  /\ RowsOK(out) /\ Unmarked(out) /\ Typed(out)
             /\ \A r \in ToSet(out) : \E i \in DOMAIN s.apns : r.attr = s.apns[i].attr
<1>1. ScopeRecords(s) = CollapseDuplicates(Records(s))
  BY DEF ScopeRecords, Records
<1>2. QED
  BY <1>1, RecordsOK, CollapseOK

LEMMA GroupsIs ==
  ASSUME NEW rs, RowsOK(rs)
  PROVE  LET new == Live(WriteGroupsBestLast(rs))
         IN  RowsOK(new) /\ ToSet(new) = {r \in ToSet(rs) : ~ LeftWithInternet(r)}
<1>1. RowsOK(WriteGroupsBestLast(rs)) /\ ToSet(WriteGroupsBestLast(rs)) = ToSet(rs)
  BY AscendingOK DEF WriteGroupsBestLast
<1>2. QED
  BY <1>1, LiveIs

--------------------------------------------------------------------------------
(* The step after each.                                                       *)

LEMMA StepsApart ==
  /\ DOMAIN Steps = 1..14 /\ Len(Steps) = 14
  /\ \A i, j \in 1..14 : Steps[i] = Steps[j] => i = j
BY DEF Steps

LEMMA StepNoIs ==
  ASSUME NEW k \in 1..14
  PROVE  StepNo(Steps[k]) = k
<1> DEFINE I == {i \in 1..Len(Steps) : Steps[i] = Steps[k]}
<1>1. I = {k}
  BY StepsApart
<1>2. Min(I) = k
  BY <1>1, LeastOf
<1>3. QED
  BY <1>1, <1>2 DEF StepNo, SelectInSeq

LEMMA NextStep ==
  /\ Steps[StepNo("gaps") + 1] = "attach"
  /\ Steps[StepNo("attach") + 1] = "star"
  /\ Steps[StepNo("star") + 1] = "emergency"
  /\ Steps[StepNo("emergency") + 1] = "rank"
  /\ Steps[StepNo("rank") + 1] = "mms"
  /\ Steps[StepNo("mms") + 1] = "ims"
  /\ Steps[StepNo("ims") + 1] = "xcap"
  /\ Steps[StepNo("xcap") + 1] = "vendor_attach"
  /\ Steps[StepNo("vendor_attach") + 1] = "type_leads"
  /\ Steps[StepNo("type_leads") + 1] = "group"
  /\ Steps[StepNo("group") + 1] = "credentials"
  /\ Steps[StepNo("credentials") + 1] = "absorbed"
  /\ Steps[StepNo("absorbed") + 1] = "load"
<1>1. \A k \in 1..13 : Steps[StepNo(Steps[k]) + 1] = Steps[k + 1]
  BY StepNoIs
<1>2. /\ Steps[1] = "gaps" /\ Steps[2] = "attach" /\ Steps[3] = "star"
      /\ Steps[4] = "emergency" /\ Steps[5] = "rank" /\ Steps[6] = "mms"
      /\ Steps[7] = "ims" /\ Steps[8] = "xcap" /\ Steps[9] = "vendor_attach"
      /\ Steps[10] = "type_leads" /\ Steps[11] = "group" /\ Steps[12] = "credentials"
      /\ Steps[13] = "absorbed" /\ Steps[14] = "load"
  BY DEF Steps
<1>3. QED
  BY <1>1, <1>2

--------------------------------------------------------------------------------
(* What holds of the rows between the steps.                                  *)

FromGiven(rs, given) ==
    Typed(rs) /\ \A r \in ToSet(rs) : \E o \in ToSet(given) : FromRow(r, o)

OwedFirmly(rs, given) ==
    \A r \in ToSet(given) : Owed(r) => \E w \in ToSet(rs) : w.apn = r.apn /\ Firm(w)
OwedBearing(rs, given) ==
    \A r \in ToSet(given) : Owed(r) => \E w \in ToSet(rs) : w.apn = r.apn /\ Bears(w)
OwedLive(rs, given) ==
    \A r \in ToSet(given) : Owed(r) => \E w \in ToSet(rs) : w.apn = r.apn /\ ~ LeftWithInternet(w)
OwedThere(rs, given) ==
    \A r \in ToSet(given) : Owed(r) => \E w \in ToSet(rs) : w.apn = r.apn

(* Between ranking and grouping: the rows to be left out serve neither the    *)
(* internet nor emergency calls, and every APN owed has one that stays.       *)
RankedWell(rs, given) ==
    /\ RowsOK(rs) /\ FromGiven(rs, given)
    /\ MarkedIdle(rs) /\ OwedLive(rs, given) /\ SetsCovered(rs)

LEMMA ThinFrom ==
  ASSUME NEW new, NEW old, NEW given, Thinned(new, old), FromGiven(old, given)
  PROVE  FromGiven(new, given)
BY DEF Thinned, Kept, FromGiven, FromRow

LEMMA ThinMarks ==
  ASSUME NEW new, NEW old, Thinned(new, old), Unmarked(old)
  PROVE  Unmarked(new)
BY DEF Thinned, Kept, Unmarked

LEMMA LooseCovers ==
  ASSUME NEW new, NEW old, Loosened(new, old), SetsCovered(old)
  PROVE  SetsCovered(new)
<1>1. \A n, o : Kin(n, o) => ApnSet(n) = ApnSet(o)
  BY DEF Kin, SameButTypes, ApnSet
<1>2. CASE \A r \in ToSet(old) : ~ Serves(r, "emergency")
  BY <1>2 DEF SetsCovered, Loosened, Kin
<1>3. CASE \A s \in PreferredSets(old) :
              SetCovered({r \in ToSet(old) : Serves(r, "emergency")}, s)
  <2>1. PreferredSets(new) \subseteq PreferredSets(old)
    <3>1. ASSUME NEW n \in ToSet(new), Serves(n, "default")
          PROVE  \E o \in ToSet(old) : Serves(o, "default") /\ ApnSet(n) = ApnSet(o)
      BY <1>1, <3>1 DEF Loosened, Kin
    <3>2. QED
      BY <3>1 DEF PreferredSets
  <2>2. ASSUME NEW s \in PreferredSets(new)
        PROVE  SetCovered({r \in ToSet(new) : Serves(r, "emergency")}, s)
    <3>1. PICK r \in ToSet(old) : Serves(r, "emergency") /\ ApnSet(r) \in {-1, s}
      BY <1>3, <2>1 DEF SetCovered
    <3>2. PICK n \in ToSet(new) : Kin(n, r)
      BY DEF Loosened
    <3>3. ApnSet(n) = ApnSet(r) /\ Serves(n, "emergency")
      BY <1>1, <3>1, <3>2 DEF Kin
    <3>4. QED
      BY <3>1, <3>3 DEF SetCovered
  <2>3. QED
    BY <2>2 DEF SetsCovered
<1>4. QED
  BY <1>2, <1>3 DEF SetsCovered

LEMMA LooseRanked ==
  ASSUME NEW new, NEW old, NEW given, Loosened(new, old), RankedWell(old, given)
  PROVE  RankedWell(new, given)
<1>1. RowsOK(new) /\ RowsOK(old)
  BY DEF Loosened, RankedWell
<1>2. MarkedIdle(new) /\ SetsCovered(new)
  BY LooseMarks, LooseCovers DEF RankedWell
<1>3. FromGiven(new, given)
  <2> SUFFICES ASSUME NEW n \in ToSet(new)
               PROVE  n.types # {} /\ \E g \in ToSet(given) : FromRow(n, g)
    BY DEF FromGiven, Typed
  <2>1. PICK o \in ToSet(old) : Kin(n, o)
    BY DEF Loosened
  <2>2. o.types # {} /\ \E g \in ToSet(given) : FromRow(o, g)
    BY DEF RankedWell, FromGiven, Typed
  <2>3. QED
    BY <2>1, <2>2 DEF Kin, SameButTypes, FromRow
<1>4. ASSUME NEW w \in ToSet(old), ~ LeftWithInternet(w)
      PROVE  \E n \in ToSet(new) : n.apn = w.apn /\ ~ LeftWithInternet(n)
  <2>1. PICK n \in ToSet(new) : ~ LeftWithInternet(n) /\ n.key = w.key
    BY <1>4 DEF Loosened
  <2>2. n.apn = w.apn
    BY <1>1, <2>1, KeyTells DEF RowsOK
  <2>3. QED
    BY <2>1, <2>2
<1>5. OwedLive(new, given)
  BY <1>4 DEF OwedLive, RankedWell
<1>6. QED
  BY <1>1, <1>2, <1>3, <1>5 DEF RankedWell

(* Emergency types leave before ranking, where nothing is marked yet.         *)
LEMMA EmergencyRanked ==
  ASSUME NEW rs, RowsOK(rs), Unmarked(rs), NEW given, FromGiven(rs, given),
         OwedBearing(rs, given)
  PROVE  RankedWell(LeaveOutEmergency(rs), given)
<1> DEFINE new == LeaveOutEmergency(rs)
<1>1. /\ Thinned(new, rs) /\ SetsCovered(new)
      /\ \A r \in ToSet(rs) : Bears(r) => \E n \in ToSet(new) : n.apn = r.apn
  BY EmergencyThins
<1> HIDE DEF new
<1>2. FromGiven(new, given) /\ Unmarked(new)
  BY <1>1, ThinFrom, ThinMarks
<1>3. \A n \in ToSet(new) : ~ LeftWithInternet(n)
  BY <1>2 DEF Unmarked, LeftWithInternet
<1>4. OwedLive(new, given)
  BY <1>1, <1>3 DEF OwedLive, OwedBearing
<1>5. QED
  BY <1>1, <1>2, <1>3, <1>4 DEF RankedWell, MarkedIdle, Thinned, Kept, new

(* Fewer rows: what they cover.                                               *)
LEMMA SubsetCovers ==
  ASSUME NEW new, NEW old, ToSet(new) \subseteq ToSet(old), SetsCovered(old),
         \A r \in ToSet(old) : Serves(r, "emergency")
            => \E n \in ToSet(new) : Serves(n, "emergency") /\ ApnSet(n) = ApnSet(r)
  PROVE  SetsCovered(new)
<1>1. CASE \A r \in ToSet(old) : ~ Serves(r, "emergency")
  BY <1>1 DEF SetsCovered
<1>2. CASE \A s \in PreferredSets(old) :
              SetCovered({r \in ToSet(old) : Serves(r, "emergency")}, s)
  <2>1. PreferredSets(new) \subseteq PreferredSets(old)
    BY DEF PreferredSets
  <2>2. ASSUME NEW s \in PreferredSets(new)
        PROVE  SetCovered({r \in ToSet(new) : Serves(r, "emergency")}, s)
    <3>1. PICK r \in ToSet(old) : Serves(r, "emergency") /\ ApnSet(r) \in {-1, s}
      BY <1>2, <2>1 DEF SetCovered
    <3>2. QED
      BY <3>1 DEF SetCovered
  <2>3. QED
    BY <2>2 DEF SetsCovered
<1>3. QED
  BY <1>1, <1>2 DEF SetsCovered

(* The marked rows leave once the rows stored together are grouped.           *)
LEMMA GroupsLeave ==
  ASSUME NEW rs, NEW given, RankedWell(rs, given)
  PROVE  LET new == Live(WriteGroupsBestLast(rs))
         IN  RowsOK(new) /\ FromGiven(new, given) /\ OwedThere(new, given) /\ SetsCovered(new)
<1> DEFINE new == Live(WriteGroupsBestLast(rs))
<1>1. RowsOK(new) /\ ToSet(new) = {r \in ToSet(rs) : ~ LeftWithInternet(r)}
  BY GroupsIs DEF RankedWell
<1> HIDE DEF new
<1>2. FromGiven(new, given) /\ OwedThere(new, given)
  BY <1>1 DEF RankedWell, FromGiven, Typed, OwedThere, OwedLive
<1>3. \A r \in ToSet(rs) : Serves(r, "emergency") => r \in ToSet(new)
  BY <1>1 DEF RankedWell, MarkedIdle, Idle
<1>4. SetsCovered(new)
  BY <1>1, <1>3, SubsetCovers DEF RankedWell
<1>5. QED
  BY <1>1, <1>2, <1>4 DEF new

(* Rule D8: each stored row keeps a row of it, and its emergency type where   *)
(* at most one of its rows has the type from superseded copies alone.         *)
LEMMA CredentialsLeave ==
  ASSUME NEW rs, RowsOK(rs), NEW given, FromGiven(rs, given), OwedThere(rs, given),
         NEW all, NEW sources
  PROVE  LET new == LeaveOutSupersededCredentials(rs, all, sources)
         IN  /\ RowsOK(new) /\ FromGiven(new, given) /\ OwedThere(new, given)
             /\ (/\ SetsCovered(rs)
                 /\ \A a, b \in ToSet(given) :
                      a.key = b.key /\ FrozenBy(a, sources) /\ FrozenBy(b, sources) => a = b)
                   => SetsCovered(new)
<1> DEFINE new == LeaveOutSupersededCredentials(rs, all, sources)
<1>1. RowsOK(new) /\ ToSet(new) \subseteq ToSet(rs)
  BY CredentialsIs
<1>2. \A r \in ToSet(rs) : \E n \in ToSet(new) : n.key = r.key
  BY CredentialsKeepKeys
<1>3. ASSUME \A a, b \in ToSet(rs) :
                a.key = b.key /\ FrozenBy(a, sources) /\ FrozenBy(b, sources) => a = b
      PROVE  \A r \in ToSet(rs) : Serves(r, "emergency")
                => \E n \in ToSet(new) : Serves(n, "emergency") /\ n.key = r.key
  BY <1>3, CredentialsKeepEmergency
<1> HIDE DEF new
<1>4. \A r, n \in ToSet(rs) : n.key = r.key => n.apn = r.apn /\ ApnSet(n) = ApnSet(r)
  BY KeyTells DEF RowsOK
<1>5. FromGiven(new, given) /\ OwedThere(new, given)
  <2>1. \A r \in ToSet(rs) : \E n \in ToSet(new) : n.apn = r.apn
    BY <1>1, <1>2, <1>4
  <2>2. QED
    BY <1>1, <2>1 DEF FromGiven, Typed, OwedThere
<1>6. ASSUME SetsCovered(rs),
             \A a, b \in ToSet(given) :
                a.key = b.key /\ FrozenBy(a, sources) /\ FrozenBy(b, sources) => a = b
      PROVE  SetsCovered(new)
  <2>1. ASSUME NEW a \in ToSet(rs), NEW b \in ToSet(rs), a.key = b.key,
               FrozenBy(a, sources), FrozenBy(b, sources)
        PROVE  a = b
    <3>1. PICK x \in ToSet(given) : FromRow(a, x)
      BY DEF FromGiven
    <3>2. PICK y \in ToSet(given) : FromRow(b, y)
      BY DEF FromGiven
    <3>3. x.key = y.key /\ FrozenBy(x, sources) /\ FrozenBy(y, sources)
      BY <2>1, <3>1, <3>2 DEF FromRow, FrozenBy
    <3>4. a.id = b.id
      BY <1>6, <3>1, <3>2, <3>3 DEF FromRow
    <3>5. QED
      BY <3>4 DEF RowsOK, IdsApart
  <2>2. \A r \in ToSet(rs) : Serves(r, "emergency")
           => \E n \in ToSet(new) : Serves(n, "emergency") /\ ApnSet(n) = ApnSet(r)
    BY <1>1, <1>3, <1>4, <2>1
  <2>3. QED
    BY <1>1, <1>6, <2>2, SubsetCovers
<1>7. QED
  BY <1>1, <1>5, <1>6 DEF new

LEMMA AbsorbedLeave ==
  ASSUME NEW rs, RowsOK(rs), NEW given, FromGiven(rs, given), OwedThere(rs, given)
  PROVE  LET new == LeaveOutAbsorbedMms(rs)
         IN  /\ RowsOK(new) /\ FromGiven(new, given) /\ OwedThere(new, given)
             /\ SetsCovered(rs) => SetsCovered(new)
<1> DEFINE new == LeaveOutAbsorbedMms(rs)
<1>1. /\ RowsOK(new) /\ ToSet(new) \subseteq ToSet(rs)
      /\ \A r \in ToSet(rs) : \E n \in ToSet(new) : n.apn = r.apn
      /\ \A r \in ToSet(rs) : Serves(r, "emergency") => r \in ToSet(new)
  BY AbsorbedKeepsApns
<1> HIDE DEF new
<1>2. FromGiven(new, given) /\ OwedThere(new, given)
  BY <1>1 DEF FromGiven, Typed, OwedThere
<1>3. SetsCovered(rs) => SetsCovered(new)
  BY <1>1, SubsetCovers
<1>4. QED
  BY <1>1, <1>2, <1>3 DEF new

--------------------------------------------------------------------------------
(* The inductive invariant: what each step finds.                             *)

Given == ScopeRecords(scope)

Unranked == {"attach", "star", "emergency"}
Ranking  == {"rank", "mms", "ims", "xcap", "vendor_attach", "type_leads", "group"}
Written  == {"absorbed", "load"}

RowsInv ==
    /\ scope \in Scopes
    /\ step \in {"gaps"} \cup Unranked \cup Ranking \cup {"credentials"} \cup Written
    /\ RowsOK(rows) /\ FromGiven(rows, Given)
    /\ step \in {"gaps"} \cup Unranked => Unmarked(rows)
    /\ step = "gaps" => rows = Given
    /\ step = "attach" => OwedFirmly(rows, Given)
    /\ step \in {"star", "emergency"} => OwedBearing(rows, Given)
    /\ step \in Ranking => RankedWell(rows, Given)
    /\ step \in {"credentials"} \cup Written => OwedThere(rows, Given)
    /\ step = "credentials" => SetsCovered(rows)
    /\ step \in Written /\ OneFrozenEach => SetsCovered(rows)

LEMMA RowsInvInit == Init => RowsInv
<1> SUFFICES ASSUME Init
             PROVE  RowsInv
  OBVIOUS
<1>1. RowsOK(Given) /\ Unmarked(Given) /\ Typed(Given)
  BY ScopeRecordsOK DEF Init, Given
<1>2. FromGiven(Given, Given)
  BY <1>1 DEF FromGiven, FromRow
<1>3. QED
  BY <1>1, <1>2 DEF Init, RowsInv, Given, Unranked, Ranking, Written

LEMMA GapsKeepInv == RowsInv /\ KeepGaps => RowsInv'
<1> SUFFICES ASSUME RowsInv, KeepGaps
             PROVE  RowsInv'
  OBVIOUS
<1>1. /\ step = "gaps" /\ scope' = scope
      /\ rows' = KeepRoleGapRows(rows, net)
      /\ step' = Steps[StepNo("gaps") + 1]
  BY DEF KeepGaps, Run, StepNo
<1>2. step' = "attach" /\ Given' = Given
  BY <1>1, NextStep DEF Given
<1>3. /\ RowsOK(rows) /\ FromGiven(rows, Given) /\ Unmarked(rows) /\ rows = Given
      /\ scope \in Scopes
  BY <1>1 DEF RowsInv
<1>4. /\ Thinned(rows', rows)
      /\ \A r \in ToSet(rows) : Owed(r) => \E w \in ToSet(rows') : w.apn = r.apn /\ Firm(w)
  BY <1>1, <1>3, GapsThin
<1>5. RowsOK(rows') /\ FromGiven(rows', Given) /\ Unmarked(rows')
  BY <1>3, <1>4, ThinFrom, ThinMarks DEF Thinned, Kept
<1>6. OwedFirmly(rows', Given)
  BY <1>3, <1>4 DEF OwedFirmly
<1>7. QED
  BY <1>1, <1>2, <1>3, <1>5, <1>6 DEF RowsInv, Unranked, Ranking, Written

LEMMA AttachKeepsInv == RowsInv /\ LeaveOutAttach => RowsInv'
<1> SUFFICES ASSUME RowsInv, LeaveOutAttach
             PROVE  RowsInv'
  OBVIOUS
<1>1. /\ step = "attach" /\ scope' = scope
      /\ rows' = LeaveOutStaleAttach(rows)
      /\ step' = Steps[StepNo("attach") + 1]
  BY DEF LeaveOutAttach, Run, StepNo
<1>2. step' = "star" /\ Given' = Given
  BY <1>1, NextStep DEF Given
<1>3. /\ RowsOK(rows) /\ FromGiven(rows, Given) /\ Unmarked(rows) /\ OwedFirmly(rows, Given)
      /\ scope \in Scopes
  BY <1>1 DEF RowsInv, Unranked
<1>4. /\ Thinned(rows', rows)
      /\ \A r \in ToSet(rows) : Firm(r) => \E n \in ToSet(rows') : n.apn = r.apn /\ Bears(n)
  BY <1>1, <1>3, AttachThins
<1>5. RowsOK(rows') /\ FromGiven(rows', Given) /\ Unmarked(rows')
  BY <1>3, <1>4, ThinFrom, ThinMarks DEF Thinned, Kept
<1>6. OwedBearing(rows', Given)
  BY <1>3, <1>4 DEF OwedFirmly, OwedBearing
<1>7. QED
  BY <1>1, <1>2, <1>3, <1>5, <1>6 DEF RowsInv, Unranked, Ranking, Written

LEMMA StarKeepsInv == RowsInv /\ LeaveOutStarIms => RowsInv'
<1> SUFFICES ASSUME RowsInv, LeaveOutStarIms
             PROVE  RowsInv'
  OBVIOUS
<1>1. /\ step = "star" /\ scope' = scope
      /\ rows' = LeaveOutUnbackedStarIms(rows, net)
      /\ step' = Steps[StepNo("star") + 1]
  BY DEF LeaveOutStarIms, Run, StepNo
<1>2. step' = "emergency" /\ Given' = Given
  BY <1>1, NextStep DEF Given
<1>3. /\ RowsOK(rows) /\ FromGiven(rows, Given) /\ Unmarked(rows) /\ OwedBearing(rows, Given)
      /\ scope \in Scopes
  BY <1>1 DEF RowsInv, Unranked
<1>4. /\ Thinned(rows', rows)
      /\ \A r \in ToSet(rows) : Bears(r) => \E n \in ToSet(rows') : n.apn = r.apn /\ Bears(n)
  BY <1>1, <1>3, StarThins
<1>5. RowsOK(rows') /\ FromGiven(rows', Given) /\ Unmarked(rows')
  BY <1>3, <1>4, ThinFrom, ThinMarks DEF Thinned, Kept
<1>6. OwedBearing(rows', Given)
  BY <1>3, <1>4 DEF OwedBearing
<1>7. QED
  BY <1>1, <1>2, <1>3, <1>5, <1>6 DEF RowsInv, Unranked, Ranking, Written

LEMMA EmergencyKeepsInv == RowsInv /\ LeaveOutEmergencyTypes => RowsInv'
<1> SUFFICES ASSUME RowsInv, LeaveOutEmergencyTypes
             PROVE  RowsInv'
  OBVIOUS
<1>1. /\ step = "emergency" /\ scope' = scope
      /\ rows' = LeaveOutEmergency(rows)
      /\ step' = Steps[StepNo("emergency") + 1]
  BY DEF LeaveOutEmergencyTypes, Run, StepNo
<1>2. step' = "rank" /\ Given' = Given
  BY <1>1, NextStep DEF Given
<1>3. /\ RowsOK(rows) /\ FromGiven(rows, Given) /\ Unmarked(rows) /\ OwedBearing(rows, Given)
      /\ scope \in Scopes
  BY <1>1 DEF RowsInv, Unranked
<1>4. RankedWell(rows', Given)
  BY <1>1, <1>3, EmergencyRanked
<1>5. QED
  BY <1>1, <1>2, <1>3, <1>4 DEF RowsInv, RankedWell, Unranked, Ranking, Written

(* The six steps that rank, move and retype.                                  *)
Ranks ==
    \/ Rank \/ PutMms \/ TakeOffGroup("ims") \/ TakeOffGroup("xcap")
    \/ PutAttach \/ TakeMmsOffLeads

LEMMA RanksLoosen ==
  RowsInv /\ Ranks =>
     /\ Loosened(rows', rows) /\ scope' = scope
     /\ step \in Ranking \ {"group"} /\ step' \in Ranking
<1> SUFFICES ASSUME RowsInv, Ranks
             PROVE  /\ Loosened(rows', rows) /\ scope' = scope
                    /\ step \in Ranking \ {"group"} /\ step' \in Ranking
  OBVIOUS
<1>1. RowsOK(rows) /\ (step \in Ranking => MarkedIdle(rows))
  BY DEF RowsInv, RankedWell
<1>2. CASE Rank
  <2>1. /\ step = "rank" /\ scope' = scope /\ rows' = RankScope(rows)
        /\ step' = Steps[StepNo("rank") + 1]
    BY <1>2 DEF Rank, Run, StepNo
  <2>2. QED
    BY <1>1, <2>1, NextStep, RankLoosens DEF Ranking
<1>3. CASE PutMms
  <2>1. /\ step = "mms" /\ scope' = scope /\ rows' = PutVendorMmsFirst(rows, net)
        /\ step' = Steps[StepNo("mms") + 1]
    BY <1>3 DEF PutMms, Run, StepNo
  <2>2. QED
    BY <1>1, <2>1, NextStep, PutMmsLoosens DEF Ranking
<1>4. ASSUME NEW t \in {"ims", "xcap"}, TakeOffGroup(t)
      PROVE  /\ Loosened(rows', rows) /\ scope' = scope
             /\ step \in Ranking \ {"group"} /\ step' \in Ranking
  <2>1. /\ step = t /\ scope' = scope /\ rows' = TakeTypeOffInternetGroup(rows, t, net)
        /\ step' = Steps[StepNo(t) + 1]
    BY <1>4 DEF TakeOffGroup, Run, StepNo
  <2>2. step \in Ranking \ {"group"} /\ step' \in Ranking /\ t \in TakenTypes
    BY <1>4, <2>1, NextStep DEF Ranking, TakenTypes
  <2>3. QED
    BY <1>1, <2>1, <2>2, TakeTypeLoosens
<1>5. CASE PutAttach
  <2>1. /\ step = "vendor_attach" /\ scope' = scope /\ rows' = PutVendorAttachFirst(rows)
        /\ step' = Steps[StepNo("vendor_attach") + 1]
    BY <1>5 DEF PutAttach, Run, StepNo
  <2>2. QED
    BY <1>1, <2>1, NextStep, PutAttachLoosens DEF Ranking
<1>6. CASE TakeMmsOffLeads
  <2>1. /\ step = "type_leads" /\ scope' = scope
        /\ rows' = TakeMmsOffTypeInternetLeads(rows, net)
        /\ step' = Steps[StepNo("type_leads") + 1]
    BY <1>6 DEF TakeMmsOffLeads, Run, StepNo
  <2>2. QED
    BY <1>1, <2>1, NextStep, TakeMmsOffLeadsLoosens DEF Ranking
<1>7. QED
  BY <1>2, <1>3, <1>4, <1>5, <1>6 DEF Ranks

LEMMA RanksKeepInv == RowsInv /\ Ranks => RowsInv'
<1> SUFFICES ASSUME RowsInv, Ranks
             PROVE  RowsInv'
  OBVIOUS
<1>1. /\ Loosened(rows', rows) /\ scope' = scope /\ step \in Ranking /\ step' \in Ranking
  BY RanksLoosen
<1>2. Given' = Given /\ scope \in Scopes /\ RankedWell(rows, Given)
  BY <1>1 DEF Given, RowsInv
<1>3. RankedWell(rows', Given)
  BY <1>1, <1>2, LooseRanked
<1>4. QED
  BY <1>1, <1>2, <1>3 DEF RowsInv, RankedWell, Unranked, Ranking, Written

LEMMA GroupsKeepInv == RowsInv /\ WriteGroups => RowsInv'
<1> SUFFICES ASSUME RowsInv, WriteGroups
             PROVE  RowsInv'
  OBVIOUS
<1>1. /\ step = "group" /\ scope' = scope
      /\ rows' = Live(WriteGroupsBestLast(rows))
      /\ step' = Steps[StepNo("group") + 1]
  BY DEF WriteGroups, Run, StepNo
<1>2. step' = "credentials" /\ Given' = Given /\ scope \in Scopes
  BY <1>1, NextStep DEF Given, RowsInv
<1>3. RankedWell(rows, Given)
  BY <1>1 DEF RowsInv, Ranking
<1>4. /\ RowsOK(rows') /\ FromGiven(rows', Given) /\ OwedThere(rows', Given)
      /\ SetsCovered(rows')
  BY <1>1, <1>3, GroupsLeave
<1>5. QED
  BY <1>1, <1>2, <1>4 DEF RowsInv, Unranked, Ranking, Written

LEMMA CredentialsKeepInv == RowsInv /\ LeaveOutCredentials => RowsInv'
<1> SUFFICES ASSUME RowsInv, LeaveOutCredentials
             PROVE  RowsInv'
  OBVIOUS
<1>1. /\ step = "credentials" /\ scope' = scope
      /\ rows' = LeaveOutSupersededCredentials(rows, records, net.frozen)
      /\ step' = Steps[StepNo("credentials") + 1]
  BY DEF LeaveOutCredentials, Run, StepNo
<1>2. step' = "absorbed" /\ Given' = Given /\ scope \in Scopes
  BY <1>1, NextStep DEF Given, RowsInv
<1>3. RowsOK(rows) /\ FromGiven(rows, Given) /\ OwedThere(rows, Given) /\ SetsCovered(rows)
  BY <1>1 DEF RowsInv
<1>4. /\ RowsOK(rows') /\ FromGiven(rows', Given) /\ OwedThere(rows', Given)
      /\ (\A a, b \in ToSet(Given) :
             a.key = b.key /\ FrozenBy(a, net.frozen) /\ FrozenBy(b, net.frozen) => a = b)
            => SetsCovered(rows')
  BY <1>1, <1>3, CredentialsLeave
<1>5. OneFrozenEach' <=> OneFrozenEach
  BY <1>1 DEF OneFrozenEach, FrozenEmergency, net
<1>6. OneFrozenEach => SetsCovered(rows')
  BY <1>4 DEF OneFrozenEach, FrozenEmergency, FrozenBy, Given
<1>7. QED
  BY <1>1, <1>2, <1>4, <1>5, <1>6 DEF RowsInv, Unranked, Ranking, Written

LEMMA AbsorbedKeepInv == RowsInv /\ LeaveOutAbsorbed => RowsInv'
<1> SUFFICES ASSUME RowsInv, LeaveOutAbsorbed
             PROVE  RowsInv'
  OBVIOUS
<1>1. /\ step = "absorbed" /\ scope' = scope
      /\ rows' = LeaveOutAbsorbedMms(rows)
      /\ step' = Steps[StepNo("absorbed") + 1]
  BY DEF LeaveOutAbsorbed, Run, StepNo
<1>2. step' = "load" /\ Given' = Given /\ scope \in Scopes
  BY <1>1, NextStep DEF Given, RowsInv
<1>3. /\ RowsOK(rows) /\ FromGiven(rows, Given) /\ OwedThere(rows, Given)
      /\ OneFrozenEach => SetsCovered(rows)
  BY <1>1 DEF RowsInv, Written
<1>4. /\ RowsOK(rows') /\ FromGiven(rows', Given) /\ OwedThere(rows', Given)
      /\ SetsCovered(rows) => SetsCovered(rows')
  BY <1>1, <1>3, AbsorbedLeave
<1>5. OneFrozenEach' <=> OneFrozenEach
  BY <1>1 DEF OneFrozenEach, FrozenEmergency, net
<1>6. QED
  BY <1>1, <1>2, <1>3, <1>4, <1>5 DEF RowsInv, Unranked, Ranking, Written

(* The phone's reading leaves the rows as they are.                           *)
LEMMA SameRowsKeepInv ==
  RowsInv /\ UNCHANGED <<scope, step, rows>> => RowsInv'
<1> SUFFICES ASSUME RowsInv, UNCHANGED <<scope, step, rows>>
             PROVE  RowsInv'
  OBVIOUS
<1>1. Given' = Given /\ (OneFrozenEach' <=> OneFrozenEach)
  BY DEF Given, OneFrozenEach, FrozenEmergency, net
<1>2. QED
  BY <1>1 DEF RowsInv

LEMMA RowsInvStep == RowsInv /\ [Next]_vars => RowsInv'
<1> SUFFICES ASSUME RowsInv, [Next]_vars
             PROVE  RowsInv'
  OBVIOUS
<1>1. CASE Ranks
  BY <1>1, RanksKeepInv
<1>2. CASE LoadRow \/ UNCHANGED vars
  <2>1. UNCHANGED <<scope, step, rows>>
    BY <1>2 DEF LoadRow, vars
  <2>2. QED
    BY <2>1, SameRowsKeepInv
<1>3. QED
  BY <1>1, <1>2, GapsKeepInv, AttachKeepsInv, StarKeepsInv, EmergencyKeepsInv,
     GroupsKeepInv, CredentialsKeepInv, AbsorbedKeepInv DEF Next, Ranks

(* Throughout a scope its rows are rows of the profile, apart from each       *)
(* other, and each step finds what the one before has kept: an APN that is    *)
(* owed keeps a row, and the APN sets their emergency service.                *)
THEOREM RowsStayWell == Spec => []RowsInv
BY RowsInvInit, RowsInvStep, PTL DEF Spec

(* Every APN stays in the file that a source gives for a type, other than     *)
(* those only the legacy copy gives, emergency, and attach on an emergency    *)
(* row (write_scope).                                                         *)
THEOREM OwedApnsStay == Spec => []EveryApnStays
<1>1. RowsInv => EveryApnStays
  BY DEF RowsInv, Written, EveryApnStays, FileWritten, OwedThere, Given
<1>2. QED
  BY <1>1, RowsStayWell, PTL

(* A scope whose file serves emergency calls serves them in every APN set a   *)
(* phone may have preferred (leave_out_emergency), where no two rows stored   *)
(* together have the type from superseded copies alone.                       *)
THEOREM EmergencyStaysCovered == Spec => []EmergencyCovered
<1>1. RowsInv => EmergencyCovered
  BY DEF RowsInv, Written, EmergencyCovered, FileWritten, SetsCovered
<1>2. QED
  BY <1>1, RowsStayWell, PTL

--------------------------------------------------------------------------------
(* The two models of the phone: the table it builds and the generator's own.  *)

BitsOf(attr) == Attr(attr, "network_type_bitmask", {})
Others(attr) == Without(attr, {"network_type_bitmask"})

(* A bitmask that is written names a network type.                            *)
NamesBits(attr) ==
    "network_type_bitmask" \in DOMAIN attr => attr.network_type_bitmask # {}

TableFields == {"key", "apn", "types", "attr", "srcs", "writers"}

(* A stored row of the phone, and the generator's reading of it.              *)
ReadAlike(t, s) ==
    /\ DOMAIN t = TableFields /\ DOMAIN s = StoredFields
    /\ t.key = s.key /\ t.apn = s.apn /\ t.srcs = s.ids
    /\ t.types = s.types /\ s.types # {}
    /\ BitsOf(t.attr) = BitsOf(s.attr) /\ Others(t.attr) = Others(s.attr)
    /\ NamesBits(s.attr)

AllAlike(list, stored) ==
    /\ list \in Seq(ToSet(list)) /\ stored \in Seq(ToSet(stored))
    /\ Len(list) = Len(stored)
    /\ \A i \in 1..Len(stored) : ReadAlike(list[i], stored[i])

PlainRow(r) == r.types # {} /\ NamesBits(r.attr)

LEMMA NewAlike ==
  ASSUME NEW r, PlainRow(r)
  PROVE  ReadAlike(NewStored(r), Unstored(r))
BY DEF PlainRow, ReadAlike, NewStored, Unstored, TableFields, StoredFields

LEMMA AtopIs ==
  ASSUME NEW a, NEW b
  PROVE  /\ DOMAIN Atop(a, b) = DOMAIN a \cup DOMAIN b
         /\ \A f \in DOMAIN a : Atop(a, b)[f] = a[f]
         /\ \A f \in DOMAIN b \ DOMAIN a : Atop(a, b)[f] = b[f]
BY DEF Atop

LEMMA OthersAtop ==
  ASSUME NEW a, NEW b, NEW c, Others(b) = Others(c)
  PROVE  Others(Atop(a, b)) = Atop(Others(a), Others(c))
<1>1. Others(Atop(a, b)) = Atop(Others(a), Others(b))
  BY DEF Others, Without, Atop
<1>2. QED
  BY <1>1

LEMMA MergeAlike ==
  ASSUME NEW t, NEW s, ReadAlike(t, s), NEW r, PlainRow(r)
  PROVE  ReadAlike(MergeFields(t, r), StoredWith(s, r))
<1> DEFINE bits == UniteBits(BitsOf(t.attr), BitsOf(r.attr))
           both == "network_type_bitmask" \in DOMAIN s.attr \cap DOMAIN r.attr
           joint == [network_type_bitmask |-> r.attr.network_type_bitmask
                                                 \cup s.attr.network_type_bitmask]
           rest == Atop(Others(r.attr), Others(s.attr))
           tattr == Atop([network_type_bitmask |-> bits], Atop(r.attr, t.attr))
           sattr == IF both THEN Atop(joint, rest) ELSE rest
           tnew == MergeFields(t, r)
           snew == StoredWith(s, r)
<1>1. /\ DOMAIN tnew = TableFields /\ tnew.key = t.key /\ tnew.apn = t.apn
      /\ tnew.types = UniteTypes(t.types, r.types) /\ tnew.srcs = Append(t.srcs, r.id)
      /\ tnew.attr = tattr
  BY DEF MergeFields, BitsOf, ReadAlike, TableFields
<1>2. /\ DOMAIN snew = StoredFields /\ snew.key = s.key /\ snew.apn = s.apn
      /\ snew.types = s.types \cup r.types /\ snew.ids = Append(s.ids, r.id)
      /\ snew.attr = sattr
  BY DEF StoredWith, Others, ReadAlike, StoredFields
<1> HIDE DEF tnew, snew
<1>3. tnew.types = snew.types /\ snew.types # {}
  BY <1>1, <1>2 DEF ReadAlike, PlainRow, UniteTypes
<1>4. BitsOf(tattr) = bits
  BY DEF BitsOf, Attr, Atop
<1>5. /\ "network_type_bitmask" \notin DOMAIN rest
      /\ BitsOf(sattr) = bits /\ NamesBits(sattr)
  <2>1. "network_type_bitmask" \notin DOMAIN rest
    BY DEF Others, Without, Atop
  <2>2. BitsOf(rest) = {} /\ NamesBits(rest)
    BY <2>1 DEF BitsOf, Attr, NamesBits
  <2>3. BitsOf(Atop(joint, rest)) = r.attr.network_type_bitmask \cup s.attr.network_type_bitmask
    BY DEF BitsOf, Attr, Atop
  <2>4. both => r.attr.network_type_bitmask # {} /\ s.attr.network_type_bitmask # {}
    BY DEF ReadAlike, PlainRow, NamesBits
  <2>5. bits = UniteBits(BitsOf(s.attr), BitsOf(r.attr))
    BY DEF ReadAlike
  <2>6. CASE both
    <3>1. bits = s.attr.network_type_bitmask \cup r.attr.network_type_bitmask
      BY <2>4, <2>5, <2>6 DEF UniteBits, BitsOf, Attr
    <3>2. NamesBits(Atop(joint, rest))
      BY <2>4, <2>6 DEF NamesBits, Atop
    <3>3. QED
      BY <2>1, <2>3, <2>6, <3>1, <3>2
  <2>7. CASE ~ both
    <3>1. bits = {}
      BY <2>5, <2>7 DEF UniteBits, BitsOf, Attr
    <3>2. QED
      BY <2>1, <2>2, <2>7, <3>1
  <2>8. QED
    BY <2>6, <2>7
<1>6. Others(tattr) = Others(sattr)
  <2>1. Others(t.attr) = Others(s.attr)
    BY DEF ReadAlike
  <2>2. Others(Atop(r.attr, t.attr)) = rest
    BY <2>1, OthersAtop
  <2>3. \A x, a : Others(Atop([network_type_bitmask |-> x], a)) = Others(a)
    BY DEF Others, Without, Atop
  <2>4. Others(rest) = rest
    BY DEF Others, Without, Atop
  <2> HIDE DEF rest, bits, joint
  <2>5. Others(tattr) = rest /\ Others(Atop(joint, rest)) = rest
    BY <2>2, <2>3, <2>4 DEF joint
  <2>6. QED
    BY <2>4, <2>5
<1> HIDE DEF tattr, sattr
<1>7. QED
  BY <1>1, <1>2, <1>3, <1>4, <1>5, <1>6 DEF ReadAlike, tnew, snew

LEMMA StepAlike ==
  ASSUME NEW list, NEW stored, AllAlike(list, stored), NEW r, PlainRow(r),
         NEW persist, ~ persist
  PROVE  AllAlike(StoreRow(list, r, persist), StoreNext(stored, r))
<1> DEFINE n == Len(stored)
           places == {i \in 1..n : stored[i].key = r.key}
           i == IF places # {} THEN Min(places) ELSE 0
           tnew == StoreRow(list, r, persist)
           snew == StoreNext(stored, r)
<1>1. /\ list \in Seq(ToSet(list)) /\ stored \in Seq(ToSet(stored)) /\ n \in Nat
      /\ Len(list) = n /\ DOMAIN list = 1..n /\ DOMAIN stored = 1..n
      /\ \A j \in 1..n : ReadAlike(list[j], stored[j])
  BY DEF AllAlike
<1>2. places = {j \in 1..Len(list) : list[j].key = r.key}
  BY <1>1 DEF ReadAlike
<1>3. snew = IF i = 0 THEN Append(stored, Unstored(r))
             ELSE [stored EXCEPT ![i] = StoredWith(stored[i], r)]
  BY DEF StoreNext, SelectInSeq
<1>4. tnew = IF i = 0 THEN Append(list, NewStored(r))
             ELSE [list EXCEPT ![i] = MergeFields(list[i], r)]
  BY <1>2 DEF StoreRow, SelectInSeq, SeparateRowsNeeded
<1>5. i = 0 \/ i \in 1..n
  <2>1. places # {} => Min(places) \in places
    <3>1. places \subseteq Nat
      OBVIOUS
    <3>2. QED
      BY <3>1, LeastOf
  <2>2. QED
    BY <2>1
<1> HIDE DEF tnew, snew, i, places
<1>6. CASE i = 0
  <2> DEFINE t == NewStored(r)
             s == Unstored(r)
  <2>1. ReadAlike(t, s)
    BY NewAlike
  <2> HIDE DEF t, s
  <2>2. tnew = Append(list, t) /\ snew = Append(stored, s)
    BY <1>3, <1>4, <1>6 DEF t, s
  <2>3. /\ tnew \in Seq(ToSet(list) \cup {t}) /\ snew \in Seq(ToSet(stored) \cup {s})
        /\ Len(tnew) = n + 1 /\ Len(snew) = n + 1
        /\ tnew[n + 1] = t /\ snew[n + 1] = s
        /\ \A j \in 1..n : tnew[j] = list[j] /\ snew[j] = stored[j]
    BY <1>1, <2>2
  <2>4. tnew \in Seq(ToSet(tnew)) /\ snew \in Seq(ToSet(snew))
    BY <2>3, Lists
  <2>5. \A j \in 1..(n + 1) : j \in 1..n \/ j = n + 1
    BY <1>1
  <2>6. \A j \in 1..(n + 1) : ReadAlike(tnew[j], snew[j])
    BY <1>1, <2>1, <2>3, <2>5
  <2>7. QED
    BY <2>3, <2>4, <2>6 DEF AllAlike, tnew, snew
<1>7. CASE i \in 1..n
  <2> DEFINE t == MergeFields(list[i], r)
             s == StoredWith(stored[i], r)
  <2>1. ReadAlike(t, s)
    BY <1>1, <1>7, MergeAlike
  <2>2. tnew = [list EXCEPT ![i] = t] /\ snew = [stored EXCEPT ![i] = s]
    <3>1. i # 0
      BY <1>7
    <3>2. QED
      BY <1>3, <1>4, <3>1, Zenon
  <2> HIDE DEF t, s
  <2>3. /\ tnew \in Seq(ToSet(list) \cup {t}) /\ snew \in Seq(ToSet(stored) \cup {s})
        /\ Len(tnew) = n /\ Len(snew) = n
        /\ tnew[i] = t /\ snew[i] = s
        /\ \A j \in 1..n : j # i => tnew[j] = list[j] /\ snew[j] = stored[j]
    BY <1>1, <1>7, <2>2
  <2>4. tnew \in Seq(ToSet(tnew)) /\ snew \in Seq(ToSet(snew))
    BY <2>3, Lists
  <2>5. \A j \in 1..n : ReadAlike(tnew[j], snew[j])
    BY <1>1, <2>1, <2>3
  <2>6. QED
    BY <2>3, <2>4, <2>5 DEF AllAlike, tnew, snew
<1>8. QED
  BY <1>5, <1>6, <1>7

LEMMA ProviderIs ==
  ASSUME NEW R, NEW rs \in Seq(R), NEW persist
  PROVE  \E f : /\ f = [i \in 0..Len(rs) |->
                          IF i = 0 THEN <<>> ELSE StoreRow(f[i - 1], rs[i], persist)]
                /\ Provider(rs, persist) = f[Len(rs)]
<1> DEFINE Body(f, i) == IF i = 0 THEN <<>> ELSE StoreRow(f[i - 1], rs[i], persist)
           Upto(m) == \E f : f = [i \in 0..m |-> Body(f, i)]
           bad == {m \in 0..Len(rs) : ~ Upto(m)}
<1>1. Len(rs) \in Nat
  OBVIOUS
<1>2. Upto(0)
  <2> DEFINE f == [i \in 0..0 |-> <<>>]
  <2>1. f = [i \in 0..0 |-> Body(f, i)]
    OBVIOUS
  <2>2. QED
    BY <2>1, Zenon
<1>3. ASSUME NEW m \in Nat, m # 0, Upto(m - 1)
      PROVE  Upto(m)
  <2>1. PICK g : g = [i \in 0..(m - 1) |-> Body(g, i)]
    BY <1>3, Zenon
  <2> DEFINE f == [i \in 0..m |-> IF i = m THEN Body(g, m) ELSE g[i]]
  <2>2. ASSUME NEW i \in 0..m
        PROVE  f[i] = Body(f, i)
    <3>1. CASE i = m
      <4>1. m - 1 \in 0..m /\ m - 1 # m /\ f[m - 1] = g[m - 1]
        BY <1>3
      <4>2. QED
        BY <3>1, <4>1, <1>3
    <3>2. CASE i # m
      <4>1. i \in 0..(m - 1) /\ f[i] = g[i]
        BY <3>2
      <4>2. g[i] = Body(g, i)
        BY <2>1, <4>1
      <4>3. i # 0 => i - 1 \in 0..m /\ i - 1 # m /\ f[i - 1] = g[i - 1]
        BY <4>1
      <4>4. QED
        BY <4>1, <4>2, <4>3
    <3>3. QED
      BY <3>1, <3>2
  <2>3. f = [i \in 0..m |-> Body(f, i)]
    <3>1. f = [i \in 0..m |-> f[i]]
      OBVIOUS
    <3> HIDE DEF Body, f
    <3>2. QED
      BY <2>2, <3>1
  <2>4. QED
    BY <2>3, Zenon
<1> HIDE DEF Upto
<1>4. bad = {}
  <2>1. \A m \in 1..Len(rs) : m \in bad => m - 1 \in bad
    BY <1>1, <1>3
  <2>2. 0 \notin bad /\ bad \subseteq 0..Len(rs)
    BY <1>2
  <2>3. QED
    BY <1>1, <2>1, <2>2, NoFirstBad
<1>5. Upto(Len(rs))
  BY <1>1, <1>4
<1>6. QED
  BY <1>5, Zenon DEF Provider, Upto

AllPlain(rs) == \A r \in ToSet(rs) : PlainRow(r)

LEMMA NoneAlike == AllAlike(<<>>, <<>>)
<1>1. <<>> \in Seq(ToSet(<<>>)) /\ Len(<<>>) = 0
  OBVIOUS
<1>2. QED
  BY <1>1 DEF AllAlike

LEMMA ProviderAlike ==
  ASSUME NEW R, NEW rs \in Seq(R), AllPlain(rs), NEW persist, ~ persist
  PROVE  AllAlike(Provider(rs, persist), AndroidStoredRows(rs))
<1>1. PICK f : /\ f = [i \in 0..Len(rs) |->
                         IF i = 0 THEN <<>> ELSE StoreNext(f[i - 1], rs[i])]
               /\ AndroidStoredRows(rs) = f[Len(rs)]
  BY StoredIs
<1>2. PICK g : /\ g = [i \in 0..Len(rs) |->
                         IF i = 0 THEN <<>> ELSE StoreRow(g[i - 1], rs[i], persist)]
               /\ Provider(rs, persist) = g[Len(rs)]
  BY ProviderIs
<1> DEFINE Good(m) == AllAlike(g[m], f[m])
           bad == {m \in 0..Len(rs) : ~ Good(m)}
<1>3. Len(rs) \in Nat /\ DOMAIN rs = 1..Len(rs)
  OBVIOUS
<1>4. Good(0)
  <2>1. f[0] = <<>> /\ g[0] = <<>>
    BY <1>1, <1>2, <1>3
  <2>2. QED
    BY <2>1, NoneAlike
<1>5. ASSUME NEW m \in 1..Len(rs), Good(m - 1)
      PROVE  Good(m)
  <2>1. m \in 0..Len(rs) /\ m # 0 /\ rs[m] \in ToSet(rs)
    BY <1>3 DEF ToSet
  <2>2. f[m] = StoreNext(f[m - 1], rs[m])
    BY <1>1, <2>1, Zenon
  <2>3. g[m] = StoreRow(g[m - 1], rs[m], persist)
    BY <1>2, <2>1, Zenon
  <2>4. PlainRow(rs[m])
    BY <2>1 DEF AllPlain
  <2>5. QED
    BY <1>5, <2>2, <2>3, <2>4, StepAlike
<1> HIDE DEF Good
<1>6. bad = {}
  <2>1. \A m \in 1..Len(rs) : m \in bad => m - 1 \in bad
    BY <1>3, <1>5
  <2>2. 0 \notin bad /\ bad \subseteq 0..Len(rs)
    BY <1>4
  <2>3. QED
    BY <1>3, <2>1, <2>2, NoFirstBad
<1>7. Good(Len(rs))
  BY <1>3, <1>6
<1>8. QED
  BY <1>1, <1>2, <1>7 DEF Good

(* The stored rows after each file row, and after none.                       *)
StoredAfter(rs) ==
    LET stored[n \in 0..Len(rs)] ==
            IF n = 0 THEN <<>> ELSE StoreNext(stored[n - 1], rs[n])
    IN  stored

LEMMA StoredAfterIs ==
  ASSUME NEW R, NEW rs \in Seq(R)
  PROVE  /\ StoredAfter(rs)[0] = <<>>
         /\ \A n \in 1..Len(rs) :
               StoredAfter(rs)[n] = StoreNext(StoredAfter(rs)[n - 1], rs[n])
         /\ AndroidStoredRows(rs) = StoredAfter(rs)[Len(rs)]
<1> DEFINE g == StoredAfter(rs)
<1>1. \E f : f = [n \in 0..Len(rs) |->
                    IF n = 0 THEN <<>> ELSE StoreNext(f[n - 1], rs[n])]
  BY StoredIs, Zenon
<1>2. g = [n \in 0..Len(rs) |-> IF n = 0 THEN <<>> ELSE StoreNext(g[n - 1], rs[n])]
  BY <1>1, Zenon DEF StoredAfter
<1>3. AndroidStoredRows(rs) = g[Len(rs)]
  BY DEF AndroidStoredRows, StoredAfter
<1> HIDE DEF g
<1>4. Len(rs) \in Nat
  OBVIOUS
<1>5. g[0] = <<>>
  BY <1>2, <1>4
<1>6. \A n \in 1..Len(rs) : n \in 0..Len(rs) /\ n # 0
  BY <1>4
<1>7. \A n \in 1..Len(rs) : g[n] = StoreNext(g[n - 1], rs[n])
  BY <1>2, <1>6, Zenon
<1>8. QED
  BY <1>3, <1>5, <1>7 DEF g

(* Rows read alike are the same plain rows.                                   *)
LEMMA AlikePlain ==
  ASSUME NEW list, NEW stored, AllAlike(list, stored)
  PROVE  MapRows(list, LAMBDA s : Plain(s, s.srcs))
           = MapRows(stored, LAMBDA s : Plain(s, s.ids))
<1> DEFINE a == MapRows(list, LAMBDA s : Plain(s, s.srcs))
           b == MapRows(stored, LAMBDA s : Plain(s, s.ids))
<1>1. /\ a = <<>> \o [i \in DOMAIN list |-> Plain(list[i], list[i].srcs)]
      /\ b = <<>> \o [i \in DOMAIN stored |-> Plain(stored[i], stored[i].ids)]
  BY DEF MapRows
<1>2. DOMAIN list = DOMAIN stored /\ DOMAIN stored = 1..Len(stored)
  BY DEF AllAlike
<1>3. \A i \in DOMAIN stored : ReadAlike(list[i], stored[i])
  BY <1>2 DEF AllAlike
<1>4. \A i \in DOMAIN stored :
         Plain(list[i], list[i].srcs) = Plain(stored[i], stored[i].ids)
  BY <1>3 DEF ReadAlike, Plain, BitsOf, Others
<1>5. [i \in DOMAIN list |-> Plain(list[i], list[i].srcs)]
        = [i \in DOMAIN stored |-> Plain(stored[i], stored[i].ids)]
  BY <1>2, <1>4
<1>6. QED
  BY <1>1, <1>5

LEMMA GivenPlain ==
  ASSUME NEW s \in Scopes, Comparable(s), NEW rs, FromGiven(rs, ScopeRecords(s))
  PROVE  AllPlain(rs)
<1> SUFFICES ASSUME NEW r \in ToSet(rs)
             PROVE  PlainRow(r)
  BY DEF AllPlain
<1>1. r.types # {}
  BY DEF FromGiven, Typed
<1>2. PICK o \in ToSet(ScopeRecords(s)) : r.attr = o.attr
  BY DEF FromGiven, FromRow
<1>3. PICK i \in DOMAIN s.apns : o.attr = s.apns[i].attr
  BY ScopeRecordsOK
<1>4. QED
  BY <1>1, <1>2, <1>3 DEF PlainRow, NamesBits, Comparable

(* What the phone has stored is what the generator reads of the rows so far,  *)
(* and the file is the rows before it less those left out as absorbed.        *)
TableInv ==
    /\ step # "load" => read = 0 /\ table = <<>>
    /\ read \in 0..Len(rows)
    /\ step = "load" /\ Comparable(scope) /\ ~net.persist
          => AllAlike(table, StoredAfter(rows)[read])

PriorInv ==
    step = "load" =>
        /\ RowsOK(prior) /\ FromGiven(prior, Given)
        /\ rows = prior \/ rows = LeaveOutAbsorbedMms(prior)

PhoneInv == RowsInv /\ TableInv /\ PriorInv

LEMMA PhoneInvInit == Init => PhoneInv
<1> SUFFICES ASSUME Init
             PROVE  PhoneInv
  OBVIOUS
<1>1. RowsInv
  BY RowsInvInit
<1>2. Len(rows) \in Nat
  BY <1>1 DEF RowsInv, RowsOK
<1>3. QED
  BY <1>1, <1>2 DEF Init, PhoneInv, TableInv, PriorInv

LEMMA AbsorbedKeepPhoneInv == PhoneInv /\ LeaveOutAbsorbed => PhoneInv'
<1> SUFFICES ASSUME PhoneInv, LeaveOutAbsorbed
             PROVE  PhoneInv'
  OBVIOUS
<1>1. /\ step = "absorbed" /\ scope' = scope /\ read' = read /\ table' = table
      /\ rows' = LeaveOutAbsorbedMms(rows) /\ prior' = rows
      /\ step' = Steps[StepNo("absorbed") + 1]
  BY DEF LeaveOutAbsorbed, Run, StepNo
<1>2. RowsInv' /\ RowsInv
  BY AbsorbedKeepInv DEF PhoneInv
<1>3. step' = "load" /\ Given' = Given
  BY <1>1, NextStep DEF Given
<1>4. read' = 0 /\ table' = <<>>
  BY <1>1 DEF PhoneInv, TableInv
<1>5. rows' \in Seq(ToSet(rows')) /\ Len(rows') \in Nat
  BY <1>2 DEF RowsInv, RowsOK
<1>6. StoredAfter(rows')[0] = <<>>
  BY <1>5, StoredAfterIs
<1>7. TableInv'
  BY <1>3, <1>4, <1>5, <1>6, NoneAlike DEF TableInv
<1>8. PriorInv'
  BY <1>1, <1>2, <1>3 DEF PriorInv, RowsInv
<1>9. QED
  BY <1>2, <1>7, <1>8 DEF PhoneInv

LEMMA LoadKeepsPhoneInv == PhoneInv /\ LoadRow => PhoneInv'
<1> SUFFICES ASSUME PhoneInv, LoadRow
             PROVE  PhoneInv'
  OBVIOUS
<1>1. /\ step = "load" /\ read < Len(rows) /\ read' = read + 1
      /\ table' = StoreRow(table, rows[read'], net.persist) /\ prior' = rows
      /\ scope' = scope /\ step' = step /\ rows' = rows
  BY DEF LoadRow
<1>2. RowsInv' /\ RowsInv
  BY <1>1, SameRowsKeepInv DEF PhoneInv
<1>3. rows \in Seq(ToSet(rows)) /\ Len(rows) \in Nat /\ DOMAIN rows = 1..Len(rows)
  BY <1>2 DEF RowsInv, RowsOK
<1>4. read' \in 1..Len(rows) /\ read' - 1 = read
  BY <1>1, <1>3 DEF PhoneInv, TableInv
<1>5. Given' = Given /\ net' = net
  BY <1>1 DEF Given, net
<1>6. ASSUME Comparable(scope), ~ net.persist
      PROVE  AllAlike(table', StoredAfter(rows)[read'])
  <2>1. AllAlike(table, StoredAfter(rows)[read])
    BY <1>1, <1>6 DEF PhoneInv, TableInv
  <2>2. StoredAfter(rows)[read'] = StoreNext(StoredAfter(rows)[read], rows[read'])
    BY <1>3, <1>4, StoredAfterIs
  <2>3. AllPlain(rows)
    BY <1>2, <1>6, GivenPlain DEF RowsInv, Given
  <2>4. PlainRow(rows[read'])
    BY <1>3, <1>4, <2>3 DEF AllPlain, ToSet
  <2>5. QED
    BY <1>1, <1>6, <2>1, <2>2, <2>4, StepAlike
<1>7. TableInv'
  BY <1>1, <1>4, <1>5, <1>6 DEF TableInv
<1>8. PriorInv'
  BY <1>1, <1>2, <1>5 DEF PriorInv, RowsInv
<1>9. QED
  BY <1>2, <1>7, <1>8 DEF PhoneInv

Early ==
    KeepGaps \/ LeaveOutAttach \/ LeaveOutStarIms \/ LeaveOutEmergencyTypes \/ Ranks
      \/ WriteGroups \/ LeaveOutCredentials

LEMMA EarlyKeepsPhoneInv == PhoneInv /\ Early => PhoneInv'
<1> SUFFICES ASSUME PhoneInv, Early
             PROVE  PhoneInv'
  OBVIOUS
<1>1. RowsInv'
  BY GapsKeepInv, AttachKeepsInv, StarKeepsInv, EmergencyKeepsInv, RanksKeepInv,
     GroupsKeepInv, CredentialsKeepInv DEF Early, PhoneInv
<1>2. \E at \in {"gaps", "attach", "star", "emergency", "rank", "mms", "ims", "xcap",
                 "vendor_attach", "type_leads", "group", "credentials"} :
         /\ step = at /\ step' = Steps[StepNo(at) + 1]
         /\ read' = read /\ table' = table
  BY DEF Early, Ranks, Run, KeepGaps, LeaveOutAttach, LeaveOutStarIms,
     LeaveOutEmergencyTypes, Rank, PutMms, TakeOffGroup, PutAttach, TakeMmsOffLeads,
     WriteGroups, LeaveOutCredentials, StepNo
<1>3. step # "load" /\ step' # "load" /\ read' = read /\ table' = table
  BY <1>2, NextStep
<1>4. Len(rows') \in Nat
  BY <1>1 DEF RowsInv, RowsOK
<1>5. TableInv' /\ PriorInv'
  BY <1>3, <1>4 DEF PhoneInv, TableInv, PriorInv
<1>6. QED
  BY <1>1, <1>5 DEF PhoneInv

LEMMA PhoneInvStep == PhoneInv /\ [Next]_vars => PhoneInv'
<1> SUFFICES ASSUME PhoneInv, [Next]_vars
             PROVE  PhoneInv'
  OBVIOUS
<1>1. CASE UNCHANGED vars
  <2>1. RowsInv'
    BY <1>1, SameRowsKeepInv DEF PhoneInv, vars
  <2>2. Given' = Given /\ net' = net
    BY <1>1 DEF Given, net, vars
  <2>3. TableInv' /\ PriorInv'
    BY <1>1, <2>2 DEF PhoneInv, TableInv, PriorInv, vars
  <2>4. QED
    BY <2>1, <2>3 DEF PhoneInv
<1>2. CASE Next
  BY <1>2, AbsorbedKeepPhoneInv, LoadKeepsPhoneInv, EarlyKeepsPhoneInv DEF Next, Early, Ranks
<1>3. QED
  BY <1>1, <1>2

LEMMA PhoneStaysWell == Spec => []PhoneInv
BY PhoneInvInit, PhoneInvStep, PTL DEF Spec

LEMMA StoresAsRead == PhoneInv /\ Comparable(scope) => StoredAsRead
<1> SUFFICES ASSUME PhoneInv, Comparable(scope), Loaded, ~ net.persist
             PROVE  MapRows(table, LAMBDA s : Plain(s, s.srcs))
                      = MapRows(AndroidStoredRows(rows), LAMBDA s : Plain(s, s.ids))
  BY DEF StoredAsRead
<1>1. rows \in Seq(ToSet(rows))
  BY DEF PhoneInv, RowsInv, RowsOK
<1>2. AllAlike(table, AndroidStoredRows(rows))
  BY <1>1, StoredAfterIs DEF PhoneInv, TableInv, Loaded
<1>3. QED
  BY <1>2, AlikePlain

--------------------------------------------------------------------------------
(* What DataProfileManager merges.                                            *)

Rising(h) == \A p, q \in DOMAIN h : p < q => h[p] < h[q]

(* The rows of a set are those of the list at rising places.                  *)
OrderOf(list, rs, S, m) ==
    /\ list \in Seq(S) /\ Len(list) <= m
    /\ \E h \in [1..Len(list) -> 1..m] :
          Rising(h) /\ \A p \in 1..Len(list) : list[p] = rs[h[p]]

LEMMA OnlyOrder ==
  ASSUME NEW R, NEW rs \in Seq(R), NEW S
  PROVE  OrderOf(Only(rs, S), rs, S, Len(rs))
<1>1. PICK f : /\ f = [i \in 0..Len(rs) |->
                         IF i = 0 THEN <<>>
                         ELSE IF rs[i] \in S THEN Append(f[i - 1], rs[i]) ELSE f[i - 1]]
               /\ Only(rs, S) = f[Len(rs)]
  BY OnlyIs
<1> DEFINE Good(m) == OrderOf(f[m], rs, S, m)
           bad == {m \in 0..Len(rs) : ~ Good(m)}
<1>2. Len(rs) \in Nat /\ DOMAIN rs = 1..Len(rs)
  OBVIOUS
<1>3. Good(0)
  <2>1. f[0] = <<>>
    BY <1>1, <1>2
  <2> DEFINE none == <<>>
             h == [p \in 1..0 |-> 0]
  <2>2. none \in Seq(S) /\ Len(none) = 0
    OBVIOUS
  <2>3. h \in [1..0 -> 1..0] /\ Rising(h) /\ \A p \in 1..0 : none[p] = rs[h[p]]
    BY DEF Rising
  <2> HIDE DEF h, none
  <2>4. OrderOf(none, rs, S, 0)
    <3>1. Len(none) <= 0 /\ 1..Len(none) = 1..0
      BY <2>2
    <3>2. h \in [1..Len(none) -> 1..0] /\ \A p \in 1..Len(none) : none[p] = rs[h[p]]
      BY <2>3, <3>1
    <3>3. QED
      BY <2>2, <2>3, <3>1, <3>2, Zenon DEF OrderOf
  <2>5. QED
    BY <2>1, <2>4 DEF none
<1>4. ASSUME NEW m \in 1..Len(rs), Good(m - 1)
      PROVE  Good(m)
  <2>1. f[m] = IF rs[m] \in S THEN Append(f[m - 1], rs[m]) ELSE f[m - 1]
    <3>1. m \in 0..Len(rs) /\ m # 0
      BY <1>2
    <3>2. QED
      BY <1>1, <3>1, Zenon
  <2> DEFINE old == f[m - 1]
             n == Len(old)
  <2>2. old \in Seq(S) /\ n <= m - 1 /\ n \in Nat /\ DOMAIN old = 1..n
    BY <1>4 DEF OrderOf
  <2>3. PICK h \in [1..n -> 1..(m - 1)] :
           Rising(h) /\ \A p \in 1..n : old[p] = rs[h[p]]
    BY <1>4 DEF OrderOf
  <2>4. m \in Nat
    BY <1>2
  <2> HIDE DEF old, n
  <2>5. CASE rs[m] \in S
    <3> DEFINE new == Append(old, rs[m])
               g == [p \in 1..(n + 1) |-> IF p = n + 1 THEN m ELSE h[p]]
    <3>1. /\ new \in Seq(S) /\ Len(new) = n + 1 /\ new[n + 1] = rs[m]
          /\ \A p \in 1..n : new[p] = old[p]
      BY <2>2, <2>5 DEF n
    <3>2. \A p \in 1..(n + 1) : p = n + 1 \/ p \in 1..n
      BY <2>2
    <3>3. \A p \in 1..n : h[p] \in 1..(m - 1) /\ g[p] = h[p]
      BY <2>2, <2>3
    <3>4. g[n + 1] = m
      BY <2>2
    <3>5. g \in [1..(n + 1) -> 1..m]
      BY <2>2, <2>3, <2>4, <3>3
    <3> HIDE DEF new, g
    <3>6. ASSUME NEW p \in 1..(n + 1), NEW q \in 1..(n + 1), p < q
          PROVE  g[p] < g[q]
      <4>1. p \in 1..n
        BY <2>2, <3>6
      <4>2. CASE q = n + 1
        BY <2>4, <3>3, <3>4, <4>1, <4>2
      <4>3. CASE q \in 1..n
        BY <2>3, <3>3, <3>6, <4>1, <4>3 DEF Rising
      <4>4. QED
        BY <3>2, <4>2, <4>3
    <3>7. Rising(g)
      BY <3>5, <3>6 DEF Rising
    <3>8. \A p \in 1..(n + 1) : new[p] = rs[g[p]]
      BY <2>3, <3>1, <3>2, <3>3, <3>4
    <3>9. n + 1 <= m
      BY <2>2, <2>4
    <3>10. OrderOf(new, rs, S, m)
      BY <3>1, <3>5, <3>7, <3>8, <3>9 DEF OrderOf
    <3>11. QED
      BY <2>1, <2>5, <3>10 DEF new, old
  <2>6. CASE rs[m] \notin S
    <3>1. h \in [1..n -> 1..m] /\ n <= m
      BY <2>2, <2>3, <2>4
    <3>2. OrderOf(old, rs, S, m)
      BY <2>2, <2>3, <3>1 DEF OrderOf, n
    <3>3. QED
      BY <2>1, <2>6, <3>2 DEF old
  <2>7. QED
    BY <2>5, <2>6
<1> HIDE DEF Good
<1>5. bad = {}
  <2>1. \A m \in 1..Len(rs) : m \in bad => m - 1 \in bad
    BY <1>2, <1>4
  <2>2. 0 \notin bad /\ bad \subseteq 0..Len(rs)
    BY <1>3
  <2>3. QED
    BY <1>2, <2>1, <2>2, NoFirstBad
<1>6. Good(Len(rs))
  BY <1>2, <1>5
<1>7. QED
  BY <1>1, <1>6 DEF Good

LEMMA StoreNextIs ==
  ASSUME NEW list, list \in Seq(ToSet(list)), NEW r
  PROVE  LET new == StoreNext(list, r)
         IN  \/ /\ \A j \in DOMAIN list : list[j].key # r.key
                /\ DOMAIN new = 1..(Len(list) + 1) /\ new[Len(list) + 1] = Unstored(r)
                /\ \A j \in DOMAIN list : new[j] = list[j]
             \/ \E i \in DOMAIN list :
                   /\ list[i].key = r.key /\ DOMAIN new = DOMAIN list
                   /\ new[i] = StoredWith(list[i], r)
                   /\ \A j \in DOMAIN list : j # i => new[j] = list[j]
<1> DEFINE places == {i \in 1..Len(list) : list[i].key = r.key}
           i == IF places # {} THEN Min(places) ELSE 0
           new == StoreNext(list, r)
<1>1. new = IF i = 0 THEN Append(list, Unstored(r)) ELSE [list EXCEPT ![i] = StoredWith(list[i], r)]
  BY DEF StoreNext, SelectInSeq
<1>2. Len(list) \in Nat /\ DOMAIN list = 1..Len(list)
  OBVIOUS
<1> HIDE DEF new
<1>3. CASE places = {}
  <2>1. new = Append(list, Unstored(r))
    BY <1>1, <1>3
  <2>2. \A j \in DOMAIN list : list[j].key # r.key
    BY <1>2, <1>3
  <2>3. /\ DOMAIN new = 1..(Len(list) + 1) /\ new[Len(list) + 1] = Unstored(r)
        /\ \A j \in DOMAIN list : new[j] = list[j]
    BY <1>2, <2>1
  <2>4. QED
    BY <2>2, <2>3 DEF new
<1>4. CASE places # {}
  <2>1. i \in DOMAIN list /\ list[i].key = r.key /\ i # 0
    <3>1. places \subseteq Nat
      BY <1>2
    <3>2. Min(places) \in places
      BY <1>4, <3>1, LeastOf
    <3>3. QED
      BY <1>2, <1>4, <3>2
  <2> HIDE DEF places, i
  <2>2. new = [list EXCEPT ![i] = StoredWith(list[i], r)]
    BY <1>1, <2>1
  <2>3. /\ DOMAIN new = DOMAIN list /\ new[i] = StoredWith(list[i], r)
        /\ \A j \in DOMAIN list : j # i => new[j] = list[j]
    BY <1>2, <2>1, <2>2
  <2>4. QED
    BY <2>1, <2>3 DEF new
<1>5. QED
  BY <1>3, <1>4

(* A stored row names the rows of its key, and gives no attribute that no row *)
(* gives.                                                                     *)
Silent(attr, F) == \A f \in F : Attr(attr, f, 0) = 0

NamesRows(list, S, F) ==
    \A i \in DOMAIN list :
       /\ list[i].ids \in Seq(ToSet(list[i].ids))
       /\ ToSet(list[i].ids) = {r.id : r \in RowsOfKey(S, list[i].key)}
       /\ Silent(list[i].attr, F)

LEMMA SilentAtop ==
  ASSUME NEW a, NEW b, NEW F, Silent(a, F), Silent(b, F)
  PROVE  Silent(Atop(a, b), F)
BY DEF Silent, Attr, Atop

LEMMA StoredWithNames ==
  ASSUME NEW row, DOMAIN row = StoredFields, NEW r, NEW F, "network_type_bitmask" \notin F,
         Silent(row.attr, F), Silent(r.attr, F), row.ids \in Seq(ToSet(row.ids))
  PROVE  LET new == StoredWith(row, r)
         IN  /\ Silent(new.attr, F) /\ new.ids \in Seq(ToSet(new.ids))
             /\ ToSet(new.ids) = ToSet(row.ids) \cup {r.id}
<1> DEFINE new == StoredWith(row, r)
           both == "network_type_bitmask" \in DOMAIN row.attr \cap DOMAIN r.attr
           joint == [network_type_bitmask |-> r.attr.network_type_bitmask
                                                 \cup row.attr.network_type_bitmask]
           rest == Atop(Others(r.attr), Others(row.attr))
<1>1. new.ids = Append(row.ids, r.id) /\ new.attr = IF both THEN Atop(joint, rest) ELSE rest
  BY DEF StoredWith, Others, StoredFields
<1>2. Silent(joint, F)
  BY DEF Silent, Attr
<1>3. Silent(Others(r.attr), F) /\ Silent(Others(row.attr), F)
  BY DEF Silent, Others, Without, Attr
<1> HIDE DEF joint
<1>4. Silent(rest, F)
  BY <1>3, SilentAtop
<1> HIDE DEF rest, new
<1>5. Silent(new.attr, F)
  BY <1>1, <1>2, <1>4, SilentAtop
<1> DEFINE R == ToSet(row.ids) \cup {r.id}
<1>6. row.ids \in Seq(R) /\ r.id \in R
  BY Lists
<1>7. Append(row.ids, r.id) \in Seq(R) /\ ToSet(Append(row.ids, r.id)) = R
  BY <1>6, AppendSet
<1>8. QED
  BY <1>1, <1>5, <1>7 DEF new

LEMMA StoreNextNames ==
  ASSUME NEW list, NEW S, Stored(list, S), NEW F, "network_type_bitmask" \notin F,
         NamesRows(list, S, F), NEW r, Silent(r.attr, F)
  PROVE  NamesRows(StoreNext(list, r), S \cup {r}, F)
<1> DEFINE new == StoreNext(list, r)
           n == Len(list) + 1
           Names(s, T) == /\ s.ids \in Seq(ToSet(s.ids))
                          /\ ToSet(s.ids) = {o.id : o \in RowsOfKey(T, s.key)}
                          /\ Silent(s.attr, F)
<1>1. list \in Seq(ToSet(list)) /\ DOMAIN list = 1..Len(list) /\ Len(list) \in Nat
  BY DEF Stored
<1>2. ASSUME NEW s, Names(s, S), s.key # r.key
      PROVE  Names(s, S \cup {r})
  <2>1. RowsOfKey(S \cup {r}, s.key) = RowsOfKey(S, s.key)
    BY <1>2 DEF RowsOfKey
  <2>2. QED
    BY <1>2, <2>1
<1>3. \A j \in DOMAIN list : Names(list[j], S)
  BY DEF NamesRows
<1>4. CASE /\ \A j \in DOMAIN list : list[j].key # r.key
           /\ DOMAIN new = 1..n /\ new[n] = Unstored(r)
           /\ \A j \in DOMAIN list : new[j] = list[j]
  <2> DEFINE s == Unstored(r)
             one == <<r.id>>
  <2>1. s.key = r.key /\ s.attr = r.attr /\ s.ids = one
    BY DEF Unstored
  <2>2. one \in Seq(ToSet(one)) /\ ToSet(one) = {r.id}
    BY DEF ToSet
  <2>3. \A o \in S : o.key # r.key
    BY <1>4 DEF Stored
  <2>4. RowsOfKey(S \cup {r}, s.key) = {r}
    BY <2>1, <2>3 DEF RowsOfKey
  <2>5. {o.id : o \in {r}} = {r.id}
    OBVIOUS
  <2> HIDE DEF s, one
  <2>6. Names(s, S \cup {r})
    BY <2>1, <2>2, <2>4, <2>5
  <2>7. \A j \in 1..n : j = n \/ j \in DOMAIN list
    BY <1>1
  <2> HIDE DEF n, new, Names
  <2>8. \A j \in DOMAIN new : Names(new[j], S \cup {r})
    BY <1>2, <1>3, <1>4, <2>6, <2>7 DEF s
  <2>9. QED
    BY <2>8 DEF NamesRows, Names, new
<1>5. ASSUME NEW i \in DOMAIN list,
             /\ list[i].key = r.key /\ DOMAIN new = DOMAIN list
             /\ new[i] = StoredWith(list[i], r)
             /\ \A j \in DOMAIN list : j # i => new[j] = list[j]
      PROVE  NamesRows(new, S \cup {r}, F)
  <2> DEFINE row == list[i]
             s == StoredWith(row, r)
  <2>1. DOMAIN row = StoredFields /\ Names(row, S)
    BY <1>3 DEF Stored
  <2>2. s.key = r.key /\ row.key = r.key
    BY <1>5, <2>1, StoredWithIs
  <2>3. /\ Silent(s.attr, F) /\ s.ids \in Seq(ToSet(s.ids))
        /\ ToSet(s.ids) = ToSet(row.ids) \cup {r.id}
    BY <2>1, StoredWithNames
  <2>4. RowsOfKey(S \cup {r}, s.key) = RowsOfKey(S, row.key) \cup {r}
    BY <2>2 DEF RowsOfKey
  <2>5. {o.id : o \in RowsOfKey(S, row.key) \cup {r}}
          = {o.id : o \in RowsOfKey(S, row.key)} \cup {r.id}
    OBVIOUS
  <2> HIDE DEF s, row
  <2>6. Names(s, S \cup {r})
    BY <2>1, <2>3, <2>4, <2>5
  <2>7. \A j \in DOMAIN list : j # i => list[j].key # r.key
    BY <1>5 DEF Stored
  <2> HIDE DEF new, Names
  <2>8. \A j \in DOMAIN new : Names(new[j], S \cup {r})
    BY <1>2, <1>3, <1>5, <2>6, <2>7 DEF s, row
  <2>9. QED
    BY <2>8 DEF NamesRows, Names
<1>6. \/ /\ \A j \in DOMAIN list : list[j].key # r.key
         /\ DOMAIN new = 1..n /\ new[n] = Unstored(r)
         /\ \A j \in DOMAIN list : new[j] = list[j]
      \/ \E i \in DOMAIN list :
            /\ list[i].key = r.key /\ DOMAIN new = DOMAIN list
            /\ new[i] = StoredWith(list[i], r)
            /\ \A j \in DOMAIN list : j # i => new[j] = list[j]
  BY <1>1, StoreNextIs, Zenon
<1>7. QED
  BY <1>4, <1>5, <1>6, Zenon

LEMMA StoredNames ==
  ASSUME NEW R, NEW rs \in Seq(R), NEW F, "network_type_bitmask" \notin F,
         \A r \in ToSet(rs) : Silent(r.attr, F)
  PROVE  NamesRows(AndroidStoredRows(rs), ToSet(rs), F)
<1> DEFINE f == StoredAfter(rs)
           Upto(m) == {rs[i] : i \in 1..m}
           Good(m) == Stored(f[m], Upto(m)) /\ NamesRows(f[m], Upto(m), F)
           bad == {m \in 0..Len(rs) : ~ Good(m)}
<1>1. /\ f[0] = <<>> /\ AndroidStoredRows(rs) = f[Len(rs)]
      /\ \A n \in 1..Len(rs) : f[n] = StoreNext(f[n - 1], rs[n])
  BY StoredAfterIs
<1>2. Len(rs) \in Nat /\ DOMAIN rs = 1..Len(rs)
  OBVIOUS
<1> HIDE DEF f
<1>3. Good(0)
  <2>1. Upto(0) = {}
    OBVIOUS
  <2>2. <<>> \in Seq(ToSet(<<>>)) /\ DOMAIN <<>> = {}
    OBVIOUS
  <2>3. Stored(<<>>, {}) /\ NamesRows(<<>>, {}, F)
    BY <2>2 DEF Stored, NamesRows
  <2>4. QED
    BY <1>1, <2>1, <2>3
<1>4. ASSUME NEW m \in 1..Len(rs), Good(m - 1)
      PROVE  Good(m)
  <2>1. Upto(m) = Upto(m - 1) \cup {rs[m]}
    <3>1. 1..m = (1..(m - 1)) \cup {m}
      BY <1>2
    <3>2. QED
      BY <3>1
  <2>2. Silent(rs[m].attr, F)
    BY <1>2 DEF ToSet
  <2> HIDE DEF Upto
  <2>3. /\ Stored(StoreNext(f[m - 1], rs[m]), Upto(m - 1) \cup {rs[m]})
        /\ NamesRows(StoreNext(f[m - 1], rs[m]), Upto(m - 1) \cup {rs[m]}, F)
    BY <1>4, <2>2, StoreNextKeeps, StoreNextNames
  <2>4. QED
    BY <1>1, <2>1, <2>3
<1> HIDE DEF Good
<1>5. bad = {}
  <2>1. \A m \in 1..Len(rs) : m \in bad => m - 1 \in bad
    BY <1>2, <1>4
  <2>2. 0 \notin bad /\ bad \subseteq 0..Len(rs)
    BY <1>3
  <2>3. QED
    BY <1>2, <2>1, <2>2, NoFirstBad
<1>6. Good(Len(rs))
  BY <1>2, <1>5
<1>7. Upto(Len(rs)) = ToSet(rs)
  BY <1>2 DEF ToSet
<1> HIDE DEF Upto
<1>8. QED
  BY <1>1, <1>6, <1>7 DEF Good

LEMMA NamesApart ==
  ASSUME NEW rs, RowsOK(rs), NEW F, NEW list, Stored(list, ToSet(rs)),
         NamesRows(list, ToSet(rs), F)
  PROVE  /\ \A r \in ToSet(rs), i \in DOMAIN list :
               list[i].key = r.key => r.id \in ToSet(list[i].ids)
         /\ \A i, j \in DOMAIN list : \A x :
               x \in ToSet(list[i].ids) /\ x \in ToSet(list[j].ids) => i = j
<1>1. ASSUME NEW r \in ToSet(rs), NEW i \in DOMAIN list, list[i].key = r.key
      PROVE  r.id \in ToSet(list[i].ids)
  BY <1>1 DEF NamesRows, RowsOfKey
<1>2. ASSUME NEW i \in DOMAIN list, NEW j \in DOMAIN list, NEW x,
             x \in ToSet(list[i].ids), x \in ToSet(list[j].ids)
      PROVE  i = j
  <2>1. PICK a \in ToSet(rs) : a.key = list[i].key /\ a.id = x
    BY <1>2 DEF NamesRows, RowsOfKey
  <2>2. PICK b \in ToSet(rs) : b.key = list[j].key /\ b.id = x
    BY <1>2 DEF NamesRows, RowsOfKey
  <2>3. a = b
    BY <2>1, <2>2 DEF RowsOK, IdsApart
  <2>4. QED
    BY <2>1, <2>2, <2>3 DEF Stored
<1>3. QED
  BY <1>1, <1>2

LEMMA OthersGive ==
  ASSUME NEW a, NEW b, Others(a) = Others(b), NEW f, f # "network_type_bitmask", NEW d
  PROVE  Attr(a, f, d) = Attr(b, f, d)
<1>1. f \in DOMAIN a <=> f \in DOMAIN Others(a)
  BY DEF Others, Without
<1>2. f \in DOMAIN b <=> f \in DOMAIN Others(b)
  BY DEF Others, Without
<1>3. /\ f \in DOMAIN a => a[f] = Others(a)[f]
      /\ f \in DOMAIN b => b[f] = Others(b)[f]
  BY DEF Others, Without
<1>4. QED
  BY <1>1, <1>2, <1>3 DEF Attr

(* Android's own reading of a stored row, from the generator's.               *)
LEMMA SettingIs ==
  ASSUME NEW t, NEW s, ReadAlike(t, s)
  PROVE  LET a == ApnSetting(t)
         IN  /\ "base" \in DOMAIN a /\ a.base = s.ids /\ a.apn = s.apn
             /\ a.types = ApnRowTypes(s.types)
             /\ a.authtype = AndroidAuthType(s.attr) /\ a.nt = BitsOf(s.attr)
             /\ a.open = [f \in DOMAIN UnsetOrEqualFields |->
                             Attr(s.attr, f, UnsetOrEqualFields[f])]
             /\ a.fixed = [f \in DOMAIN EqualFields |-> Attr(s.attr, f, EqualFields[f])]
             /\ a.mtu4 = IF Attr(s.attr, "mtu_v4", 0) = 0 THEN Attr(s.attr, "mtu", 0)
                         ELSE Attr(s.attr, "mtu_v4", 0)
<1>1. /\ "network_type_bitmask" \notin DOMAIN UnsetOrEqualFields
      /\ "network_type_bitmask" \notin DOMAIN EqualFields
  BY DEF UnsetOrEqualFields, EqualFields
<1>2. \A f, d : f # "network_type_bitmask" => Attr(t.attr, f, d) = Attr(s.attr, f, d)
  BY OthersGive DEF ReadAlike
<1>3. TypeSet(t.types) = ApnRowTypes(s.types)
  BY DEF TypeSet, ReadAlike
<1>4. AndroidAuthType(t.attr) = AndroidAuthType(s.attr)
  BY <1>2 DEF AndroidAuthType
<1>5. [f \in DOMAIN UnsetOrEqualFields |-> Attr(t.attr, f, UnsetOrEqualFields[f])]
        = [f \in DOMAIN UnsetOrEqualFields |-> Attr(s.attr, f, UnsetOrEqualFields[f])]
  BY <1>1, <1>2
<1>6. [f \in DOMAIN EqualFields |-> Attr(t.attr, f, EqualFields[f])]
        = [f \in DOMAIN EqualFields |-> Attr(s.attr, f, EqualFields[f])]
  BY <1>1, <1>2
<1>7. QED
  BY <1>2, <1>3, <1>4, <1>5, <1>6 DEF ApnSetting, ReadAlike, BitsOf

LEMMA FieldsOf ==
  /\ DOMAIN UnsetOrEqualFields = {"proxy", "mmsc", "mmsproxy", "user"}
  /\ \A f \in {"proxy", "mmsc", "mmsproxy", "user"} : UnsetOrEqualFields[f] = ""
  /\ DOMAIN EqualFields = {"protocol", "roaming_protocol", "carrier_enabled",
                          "profile_id", "apn_set_id", "infrastructure"}
  /\ EqualFields["infrastructure"] = UniqueDefaults.infrastructure
  /\ \A f \in {"protocol", "roaming_protocol", "carrier_enabled", "profile_id",
                "apn_set_id"} : EqualFields[f] = ApnDefaults[f]
<1>1. /\ DOMAIN UnsetOrEqualFields = {"proxy", "mmsc", "mmsproxy", "user"}
      /\ UnsetOrEqualFields["proxy"] = "" /\ UnsetOrEqualFields["mmsc"] = ""
      /\ UnsetOrEqualFields["mmsproxy"] = "" /\ UnsetOrEqualFields["user"] = ""
  BY DEF UnsetOrEqualFields
<1>2. /\ DOMAIN EqualFields = {"protocol", "roaming_protocol", "carrier_enabled",
                              "profile_id", "apn_set_id", "infrastructure"}
      /\ EqualFields["infrastructure"] = UniqueDefaults.infrastructure
  BY DEF EqualFields, UniqueDefaults
<1>3. /\ EqualFields["protocol"] = ApnDefaults["protocol"]
      /\ EqualFields["roaming_protocol"] = ApnDefaults["roaming_protocol"]
      /\ EqualFields["carrier_enabled"] = ApnDefaults["carrier_enabled"]
      /\ EqualFields["profile_id"] = ApnDefaults["profile_id"]
      /\ EqualFields["apn_set_id"] = ApnDefaults["apn_set_id"]
  BY DEF EqualFields, ApnDefaults
<1>4. QED
  BY <1>1, <1>2, <1>3

LEMMA AlikeSimilar ==
  ASSUME NEW ta, NEW a, ReadAlike(ta, a), NEW tb, NEW b, ReadAlike(tb, b),
         NEW mtu \in {"mtu", "mtu_v4"}, Silent(a.attr, {mtu}), Silent(b.attr, {mtu}),
         AndroidSimilar(a, b)
  PROVE  Similar(ApnSetting(ta), ApnSetting(tb))
<1> DEFINE x == ApnSetting(ta)
           y == ApnSetting(tb)
<1>1. /\ x.apn = a.apn /\ x.types = ApnRowTypes(a.types)
      /\ x.authtype = AndroidAuthType(a.attr) /\ x.nt = BitsOf(a.attr)
      /\ x.open = [f \in DOMAIN UnsetOrEqualFields |-> Attr(a.attr, f, UnsetOrEqualFields[f])]
      /\ x.fixed = [f \in DOMAIN EqualFields |-> Attr(a.attr, f, EqualFields[f])]
      /\ x.mtu4 = IF Attr(a.attr, "mtu_v4", 0) = 0 THEN Attr(a.attr, "mtu", 0)
                  ELSE Attr(a.attr, "mtu_v4", 0)
  BY SettingIs
<1>2. /\ y.apn = b.apn /\ y.types = ApnRowTypes(b.types)
      /\ y.authtype = AndroidAuthType(b.attr) /\ y.nt = BitsOf(b.attr)
      /\ y.open = [f \in DOMAIN UnsetOrEqualFields |-> Attr(b.attr, f, UnsetOrEqualFields[f])]
      /\ y.fixed = [f \in DOMAIN EqualFields |-> Attr(b.attr, f, EqualFields[f])]
      /\ y.mtu4 = IF Attr(b.attr, "mtu_v4", 0) = 0 THEN Attr(b.attr, "mtu", 0)
                  ELSE Attr(b.attr, "mtu_v4", 0)
  BY SettingIs
<1> HIDE DEF x, y
<1>3. /\ "dun" \notin ApnRowTypes(a.types) \cup ApnRowTypes(b.types)
      /\ ApnRowTypes(a.types) \cap ApnRowTypes(b.types) = {} /\ a.apn = b.apn
      /\ AndroidAuthType(a.attr) = AndroidAuthType(b.attr)
      /\ BitsOf(a.attr) = BitsOf(b.attr)
  BY DEF AndroidSimilar, BitsOf
<1>4. ASSUME NEW f, NEW d, Attr(a.attr, f, d) # d, Attr(b.attr, f, d) # d,
             a.attr[f] = b.attr[f]
      PROVE  Attr(a.attr, f, d) = Attr(b.attr, f, d)
  BY <1>4 DEF Attr
<1>5. ASSUME NEW f \in DOMAIN UnsetOrEqualFields
      PROVE  \/ x.open[f] = UnsetOrEqualFields[f]
             \/ y.open[f] = UnsetOrEqualFields[f]
             \/ x.open[f] = y.open[f]
  <2>1. f \in {"proxy", "mmsc", "mmsproxy", "user"} /\ UnsetOrEqualFields[f] = ""
    BY FieldsOf
  <2>2. \/ Attr(a.attr, f, "") = "" \/ Attr(b.attr, f, "") = ""
        \/ a.attr[f] = b.attr[f]
    BY <2>1 DEF AndroidSimilar
  <2>3. x.open[f] = Attr(a.attr, f, "") /\ y.open[f] = Attr(b.attr, f, "")
    <3>1. x.open[f] = Attr(a.attr, f, UnsetOrEqualFields[f])
      BY <1>1
    <3>2. y.open[f] = Attr(b.attr, f, UnsetOrEqualFields[f])
      BY <1>2
    <3>3. QED
      BY <2>1, <3>1, <3>2
  <2>4. \/ Attr(a.attr, f, "") = "" \/ Attr(b.attr, f, "") = ""
        \/ Attr(a.attr, f, "") = Attr(b.attr, f, "")
    BY <1>4, <2>2
  <2>5. QED
    BY <2>1, <2>3, <2>4
<1>6. x.fixed = y.fixed
  <2>1. ASSUME NEW f \in DOMAIN EqualFields
        PROVE  Attr(a.attr, f, EqualFields[f]) = Attr(b.attr, f, EqualFields[f])
    <3>1. CASE f = "infrastructure"
      <4>1. EqualFields[f] = UniqueDefaults.infrastructure
        BY <3>1, FieldsOf
      <4>2. Attr(a.attr, "infrastructure", UniqueDefaults.infrastructure)
              = Attr(b.attr, "infrastructure", UniqueDefaults.infrastructure)
        BY DEF AndroidSimilar
      <4>3. QED
        BY <3>1, <4>1, <4>2
    <3>2. CASE f # "infrastructure"
      <4>1. /\ f \in {"protocol", "roaming_protocol", "carrier_enabled",
                      "profile_id", "apn_set_id"}
            /\ EqualFields[f] = ApnDefaults[f]
        BY <3>2, FieldsOf
      <4>2. \A g \in {"protocol", "roaming_protocol", "carrier_enabled",
                      "profile_id", "apn_set_id"} :
               Attr(a.attr, g, ApnDefaults[g]) = Attr(b.attr, g, ApnDefaults[g])
        BY DEF AndroidSimilar
      <4>3. QED
        BY <4>1, <4>2
    <3>3. QED
      BY <3>1, <3>2
  <2>2. QED
    BY <1>1, <1>2, <2>1
<1>7. x.mtu4 = 0 \/ y.mtu4 = 0 \/ x.mtu4 = y.mtu4
  <2>1. \A f \in {"mtu", "mtu_v4"} :
           \/ Attr(a.attr, f, 0) = 0 \/ Attr(b.attr, f, 0) = 0 \/ a.attr[f] = b.attr[f]
    BY DEF AndroidSimilar
  <2>2. \A f \in {"mtu", "mtu_v4"} :
           \/ Attr(a.attr, f, 0) = 0 \/ Attr(b.attr, f, 0) = 0
           \/ Attr(a.attr, f, 0) = Attr(b.attr, f, 0)
    BY <1>4, <2>1
  <2>3. Attr(a.attr, mtu, 0) = 0 /\ Attr(b.attr, mtu, 0) = 0
    BY DEF Silent
  <2>4. QED
    BY <1>1, <1>2, <2>2, <2>3
<1>8. QED
  BY <1>1, <1>2, <1>3, <1>5, <1>6, <1>7 DEF Similar, x, y

LEMMA MergeBase ==
  ASSUME NEW a, "base" \in DOMAIN a, NEW b
  PROVE  Merge(a, b).base = a.base
BY DEF Merge

(* Of the later settings those stay, in order, that the one at i is not       *)
(* similar to.                                                                *)
LEMMA DedupeAtIs ==
  ASSUME NEW R, NEW s \in Seq(R), NEW n \in 1..Len(s), "base" \in DOMAIN s[n]
  PROVE  LET new == DedupeAt(s, n)
         IN  /\ new \in Seq(ToSet(new)) /\ Len(new) >= n /\ Len(new) <= Len(s)
             /\ \A p \in 1..(n - 1) : new[p] = s[p]
             /\ new[n].base = s[n].base
             /\ \E h \in [1..(Len(new) - n) -> 1..(Len(s) - n)] :
                   /\ Rising(h)
                   /\ \A p \in 1..(Len(new) - n) :
                         new[n + p] = s[n + h[p]] /\ ~ Similar(s[n], s[n + h[p]])
<1> DEFINE first == s[n]
           rest == SubSeq(s, n + 1, Len(s))
           alike == {x \in ToSet(rest) : Similar(first, x)}
           same == Only(rest, alike)
           x == IF same = <<>> THEN first ELSE Merge(first, Last(same))
           left == SubSeq(s, 1, n - 1)
           others == ToSet(rest) \ alike
           right == Only(rest, others)
           one == <<x>>
           front == left \o one
           new == DedupeAt(s, n)
<1>1. new = front \o right
  BY DEF DedupeAt
<1>2. Len(s) \in Nat /\ n \in Nat /\ n >= 1 /\ n <= Len(s)
  OBVIOUS
<1>3. x.base = first.base
  BY MergeBase
<1>4. /\ left \in Seq(R) /\ Len(left) = n - 1
      /\ \A p \in 1..(n - 1) : left[p] = s[p]
  BY <1>2
<1>5. /\ rest \in Seq(R) /\ Len(rest) = Len(s) - n
      /\ \A p \in 1..(Len(s) - n) : rest[p] = s[n + p]
  <2>1. /\ rest \in Seq(R) /\ Len(rest) = Len(s) - n
        /\ \A p \in 1..(Len(s) - n) : rest[p] = s[n + 1 + p - 1]
    BY <1>2
  <2>2. \A p \in 1..(Len(s) - n) : n + 1 + p - 1 = n + p
    BY <1>2
  <2>3. QED
    BY <2>1, <2>2
<1>6. OrderOf(right, rest, others, Len(rest))
  <2> HIDE DEF rest, others
  <2>1. QED
    BY <1>5, OnlyOrder
<1>7. \A y \in others : ~ Similar(first, y)
  OBVIOUS
<1> DEFINE m == Len(right)
<1> HIDE DEF first, rest, alike, same, x, left, others, right, new, m
<1>8. right \in Seq(others) /\ m \in Nat /\ m <= Len(s) - n
  BY <1>5, <1>6 DEF OrderOf, m
<1>9. PICK h \in [1..m -> 1..(Len(s) - n)] :
         Rising(h) /\ \A p \in 1..m : right[p] = rest[h[p]]
  BY <1>5, <1>6 DEF OrderOf, m
<1> DEFINE T == R \cup {x} \cup others
<1>10. left \in Seq(T) /\ one \in Seq(T) /\ right \in Seq(T) /\ Len(one) = 1 /\ one[1] = x
  BY <1>4, <1>8
<1> HIDE DEF one, T
<1>11. /\ front \in Seq(T) /\ Len(front) = n /\ front[n] = x
       /\ \A p \in 1..(n - 1) : front[p] = s[p]
  <2>1. /\ front \in Seq(T) /\ Len(front) = Len(left) + Len(one)
        /\ \A p \in 1..(Len(left) + Len(one)) :
              front[p] = IF p <= Len(left) THEN left[p] ELSE one[p - Len(left)]
    BY <1>10, ConcatProperties
  <2>2. Len(left) + Len(one) = n /\ n - Len(left) = 1 /\ ~ (n <= Len(left)) /\ n \in 1..n
    BY <1>2, <1>4, <1>10
  <2>3. \A p \in 1..(n - 1) : p <= Len(left) /\ p \in 1..n
    BY <1>2, <1>4
  <2> HIDE DEF front
  <2>4. QED
    BY <1>4, <1>10, <2>1, <2>2, <2>3
<1> HIDE DEF front
<1>12. /\ new \in Seq(T) /\ Len(new) = n + m
       /\ \A p \in 1..(n + m) : new[p] = IF p <= n THEN front[p] ELSE right[p - n]
  BY <1>1, <1>10, <1>11, ConcatProperties DEF m
<1>13. new \in Seq(ToSet(new))
  BY <1>12, Lists
<1>14. /\ Len(new) >= n /\ Len(new) <= Len(s) /\ Len(new) - n = m
  BY <1>2, <1>8, <1>12
<1>15. \A p \in 1..(n - 1) : new[p] = s[p]
  BY <1>2, <1>8, <1>11, <1>12
<1>16. new[n].base = s[n].base
  <2>1. new[n] = x
    BY <1>2, <1>8, <1>11, <1>12
  <2>2. QED
    BY <1>3, <2>1 DEF first
<1>17. ASSUME NEW p \in 1..m
       PROVE  new[n + p] = s[n + h[p]] /\ ~ Similar(s[n], s[n + h[p]])
  <2>1. n + p \in 1..(n + m) /\ ~ (n + p <= n) /\ n + p - n = p
    BY <1>2, <1>8
  <2>2. new[n + p] = right[p]
    BY <1>12, <2>1
  <2>3. right[p] = s[n + h[p]]
    BY <1>5, <1>9
  <2>4. right[p] \in others
    BY <1>8 DEF m
  <2>5. QED
    BY <1>7, <2>2, <2>3, <2>4 DEF first
<1>18. QED
  BY <1>9, <1>13, <1>14, <1>15, <1>16, <1>17 DEF new

(* After n turns each setting left is one of the first ones, in their order,  *)
(* those past the turn as they were, and none of them is similar to one that  *)
(* had its turn before.                                                       *)
Track(s, c, n) ==
    /\ s \in Seq(ToSet(s)) /\ Len(s) <= Len(c)
    /\ \E at \in [1..Len(s) -> 1..Len(c)] :
          /\ Rising(at)
          /\ \A p \in 1..Len(s) : s[p].base = c[at[p]].base
          /\ \A p \in 1..Len(s) : p > n => s[p] = c[at[p]]
          /\ \A p, q \in 1..Len(s) : p <= n /\ p < q => ~ Similar(c[at[p]], c[at[q]])

LEMMA TurnTracks ==
  ASSUME NEW R, NEW c \in Seq(R), \A i \in DOMAIN c : "base" \in DOMAIN c[i],
         NEW n \in 1..Len(c), NEW s, Track(s, c, n - 1)
  PROVE  Track(DedupeTurn(s, n), c, n)
<1>1. /\ s \in Seq(ToSet(s)) /\ Len(s) \in Nat /\ DOMAIN s = 1..Len(s) /\ Len(s) <= Len(c)
      /\ Len(c) \in Nat /\ DOMAIN c = 1..Len(c) /\ n \in Nat /\ n >= 1
  BY DEF Track
<1>2. PICK at \in [1..Len(s) -> 1..Len(c)] :
         /\ Rising(at)
         /\ \A p \in 1..Len(s) : s[p].base = c[at[p]].base
         /\ \A p \in 1..Len(s) : p > n - 1 => s[p] = c[at[p]]
         /\ \A p, q \in 1..Len(s) : p <= n - 1 /\ p < q => ~ Similar(c[at[p]], c[at[q]])
  BY DEF Track
<1>3. CASE ~ (n < Len(s))
  <2>1. DedupeTurn(s, n) = s
    BY <1>3 DEF DedupeTurn
  <2>2. \A p, q \in 1..Len(s) : p <= n /\ p < q => p <= n - 1
    BY <1>1, <1>3
  <2>3. \A p \in 1..Len(s) : p > n => p > n - 1
    BY <1>1
  <2>4. Track(s, c, n)
    BY <1>1, <1>2, <2>2, <2>3 DEF Track
  <2>5. QED
    BY <2>1, <2>4
<1>4. CASE n < Len(s)
  <2> DEFINE new == DedupeAt(s, n)
  <2>1. DedupeTurn(s, n) = new
    BY <1>4 DEF DedupeTurn
  <2>2. n \in 1..Len(s) /\ s[n] = c[at[n]] /\ at[n] \in DOMAIN c
    BY <1>1, <1>2, <1>4
  <2>3. /\ new \in Seq(ToSet(new)) /\ Len(new) >= n /\ Len(new) <= Len(s)
        /\ \A p \in 1..(n - 1) : new[p] = s[p]
        /\ new[n].base = s[n].base
        /\ \E h \in [1..(Len(new) - n) -> 1..(Len(s) - n)] :
              /\ Rising(h)
              /\ \A p \in 1..(Len(new) - n) :
                    new[n + p] = s[n + h[p]] /\ ~ Similar(s[n], s[n + h[p]])
    BY <1>1, <2>2, DedupeAtIs
  <2> HIDE DEF new
  <2> DEFINE m == Len(new)
  <2>4. m \in Nat /\ m >= n /\ m <= Len(s) /\ m <= Len(c)
    BY <1>1, <2>3
  <2>5. PICK h \in [1..(m - n) -> 1..(Len(s) - n)] :
           /\ Rising(h)
           /\ \A p \in 1..(m - n) : new[n + p] = s[n + h[p]] /\ ~ Similar(s[n], s[n + h[p]])
    BY <2>3
  <2> HIDE DEF m
  (* The place in s of each setting left. *)
  <2> DEFINE was == [p \in 1..m |-> IF p <= n THEN p ELSE n + h[p - n]]
             now == [p \in 1..m |-> at[was[p]]]
  <2>6. ASSUME NEW p \in 1..m
        PROVE  /\ was[p] \in 1..Len(s)
               /\ p <= n => was[p] = p
               /\ p > n => /\ p - n \in 1..(m - n) /\ was[p] = n + h[p - n] /\ was[p] > n
                           /\ new[p] = s[was[p]] /\ ~ Similar(s[n], s[was[p]])
    <3>1. CASE p <= n
      BY <1>1, <2>4, <3>1
    <3>2. CASE p > n
      <4>1. p - n \in 1..(m - n) /\ n + (p - n) = p
        BY <1>1, <2>4, <3>2
      <4>2. h[p - n] \in 1..(Len(s) - n)
        BY <2>5, <4>1
      <4>3. was[p] = n + h[p - n]
        BY <1>1, <2>4, <3>2
      <4>4. was[p] \in 1..Len(s) /\ was[p] > n
        BY <1>1, <4>2, <4>3
      <4>5. new[p] = s[was[p]] /\ ~ Similar(s[n], s[was[p]])
        <5>1. new[n + (p - n)] = s[n + h[p - n]] /\ ~ Similar(s[n], s[n + h[p - n]])
          BY <2>5, <4>1
        <5> HIDE DEF was
        <5>2. QED
          BY <4>1, <4>3, <5>1
      <4>6. QED
        BY <1>1, <3>2, <4>1, <4>3, <4>4, <4>5
    <3>3. QED
      BY <1>1, <2>4, <3>1, <3>2
  <2>7. ASSUME NEW p \in 1..m, NEW q \in 1..m, p < q
        PROVE  was[p] < was[q]
    <3>1. p \in Int /\ q \in Int
      OBVIOUS
    <3>2. CASE q <= n
      <4>1. was[q] = q /\ was[p] = p
        BY <1>1, <2>6, <2>7, <3>1, <3>2
      <4>2. QED
        BY <2>7, <4>1
    <3>3. CASE p <= n /\ q > n
      <4>1. was[p] = p /\ was[q] > n /\ was[q] \in Int
        BY <2>6, <3>3
      <4>2. QED
        BY <1>1, <3>1, <3>3, <4>1
    <3>4. CASE p > n
      <4>1. /\ p - n \in 1..(m - n) /\ q - n \in 1..(m - n) /\ p - n < q - n
            /\ was[p] = n + h[p - n] /\ was[q] = n + h[q - n]
        BY <1>1, <2>6, <2>7, <3>1, <3>4
      <4>2. h[p - n] < h[q - n] /\ h[p - n] \in Int /\ h[q - n] \in Int
        BY <2>5, <4>1 DEF Rising
      <4>3. QED
        BY <1>1, <4>1, <4>2
    <3>5. QED
      BY <1>1, <3>1, <3>2, <3>3, <3>4
  <2>8. now \in [1..m -> 1..Len(c)] /\ \A p \in 1..m : now[p] = at[was[p]]
    BY <1>2, <2>6
  <2> HIDE DEF was, now
  <2>9. Rising(now)
    <3> SUFFICES ASSUME NEW p \in 1..m, NEW q \in 1..m, p < q
                 PROVE  now[p] < now[q]
      BY <2>8 DEF Rising
    <3>1. was[p] < was[q] /\ was[p] \in DOMAIN at /\ was[q] \in DOMAIN at
      BY <1>2, <2>6, <2>7
    <3>2. QED
      BY <1>2, <2>8, <3>1 DEF Rising
  <2>10. ASSUME NEW p \in 1..m
         PROVE  new[p].base = c[now[p]].base
    <3>1. s[was[p]].base = c[now[p]].base
      <4>1. was[p] \in 1..Len(s) /\ now[p] = at[was[p]]
        BY <2>6, <2>8
      <4>2. QED
        BY <1>2, <4>1
    <3>2. CASE p < n
      <4>1. p \in 1..(n - 1) /\ was[p] = p
        BY <1>1, <2>6, <3>2
      <4>2. QED
        BY <2>3, <3>1, <4>1
    <3>3. CASE p = n
      <4>1. was[p] = p
        BY <1>1, <2>6, <3>3
      <4>2. QED
        BY <2>3, <3>1, <3>3, <4>1
    <3>4. CASE p > n
      <4>1. new[p] = s[was[p]]
        BY <2>6, <3>4
      <4>2. QED
        BY <3>1, <4>1
    <3>5. QED
      BY <1>1, <3>2, <3>3, <3>4
  <2>11. ASSUME NEW p \in 1..m, p > n
         PROVE  new[p] = c[now[p]]
    <3>1. was[p] \in 1..Len(s) /\ was[p] > n - 1 /\ new[p] = s[was[p]]
      BY <1>1, <2>6, <2>11
    <3>2. QED
      BY <1>2, <2>8, <3>1
  <2>12. ASSUME NEW p \in 1..m, NEW q \in 1..m, p <= n, p < q
         PROVE  ~ Similar(c[now[p]], c[now[q]])
    <3>1. was[p] = p /\ was[q] \in 1..Len(s) /\ p < was[q] /\ p \in 1..Len(s)
      BY <2>6, <2>7, <2>12
    <3>2. CASE p = n
      <4>1. q > n /\ was[q] > n - 1
        BY <1>1, <2>6, <2>12, <3>2
      <4>2. ~ Similar(s[n], s[was[q]])
        BY <2>6, <4>1
      <4>3. s[n] = c[now[p]] /\ s[was[q]] = c[now[q]]
        BY <1>2, <2>2, <2>8, <3>1, <3>2, <4>1
      <4>4. QED
        BY <4>2, <4>3
    <3>3. CASE p # n
      <4>1. p <= n - 1
        BY <1>1, <2>4, <2>12, <3>3
      <4>2. QED
        BY <1>2, <2>8, <3>1, <4>1
    <3>4. QED
      BY <3>2, <3>3
  <2>13. Track(new, c, n)
    BY <2>3, <2>4, <2>8, <2>9, <2>10, <2>11, <2>12 DEF Track, m
  <2>14. QED
    BY <2>1, <2>13
<1>5. QED
  BY <1>3, <1>4

LEMMA ProfilesIs ==
  ASSUME NEW stored, NEW R, NEW c \in Seq(R), c = MapRows(stored, ApnSetting)
  PROVE  \E f : /\ f = [i \in 0..Len(c) |->
                          IF i = 0 THEN c ELSE DedupeTurn(f[i - 1], i)]
                /\ Profiles(stored, TRUE) = f[Len(c)]
<1> DEFINE Body(f, i) == IF i = 0 THEN c ELSE DedupeTurn(f[i - 1], i)
           Upto(m) == \E f : f = [i \in 0..m |-> Body(f, i)]
           bad == {m \in 0..Len(c) : ~ Upto(m)}
<1>1. Len(c) \in Nat
  OBVIOUS
<1>2. Upto(0)
  <2> DEFINE f == [i \in 0..0 |-> c]
  <2>1. f = [i \in 0..0 |-> Body(f, i)]
    OBVIOUS
  <2>2. QED
    BY <2>1, Zenon
<1>3. ASSUME NEW m \in Nat, m # 0, Upto(m - 1)
      PROVE  Upto(m)
  <2>1. PICK g : g = [i \in 0..(m - 1) |-> Body(g, i)]
    BY <1>3, Zenon
  <2> DEFINE f == [i \in 0..m |-> IF i = m THEN Body(g, m) ELSE g[i]]
  <2>2. ASSUME NEW i \in 0..m
        PROVE  f[i] = Body(f, i)
    <3>1. CASE i = m
      <4>1. m - 1 \in 0..m /\ m - 1 # m /\ f[m - 1] = g[m - 1]
        BY <1>3
      <4>2. QED
        BY <3>1, <4>1, <1>3
    <3>2. CASE i # m
      <4>1. i \in 0..(m - 1) /\ f[i] = g[i]
        BY <3>2
      <4>2. g[i] = Body(g, i)
        BY <2>1, <4>1
      <4>3. i # 0 => i - 1 \in 0..m /\ i - 1 # m /\ f[i - 1] = g[i - 1]
        BY <4>1
      <4>4. QED
        BY <4>1, <4>2, <4>3
    <3>3. QED
      BY <3>1, <3>2
  <2>3. f = [i \in 0..m |-> Body(f, i)]
    <3>1. f = [i \in 0..m |-> f[i]]
      OBVIOUS
    <3> HIDE DEF Body, f
    <3>2. QED
      BY <2>2, <3>1
  <2>4. QED
    BY <2>3, Zenon
<1> HIDE DEF Upto
<1>4. bad = {}
  <2>1. \A m \in 1..Len(c) : m \in bad => m - 1 \in bad
    BY <1>1, <1>3
  <2>2. 0 \notin bad /\ bad \subseteq 0..Len(c)
    BY <1>2
  <2>3. QED
    BY <1>1, <2>1, <2>2, NoFirstBad
<1>5. Upto(Len(c))
  BY <1>1, <1>4
<1>6. QED
  BY <1>5, Zenon DEF Profiles, Upto

LEMMA ProfilesTrack ==
  ASSUME NEW stored, NEW R, NEW c \in Seq(R), c = MapRows(stored, ApnSetting),
         \A i \in DOMAIN c : "base" \in DOMAIN c[i]
  PROVE  Track(Profiles(stored, TRUE), c, Len(c))
<1>1. PICK f : /\ f = [i \in 0..Len(c) |->
                         IF i = 0 THEN c ELSE DedupeTurn(f[i - 1], i)]
               /\ Profiles(stored, TRUE) = f[Len(c)]
  BY ProfilesIs
<1> DEFINE Good(m) == Track(f[m], c, m)
           bad == {m \in 0..Len(c) : ~ Good(m)}
<1>2. Len(c) \in Nat /\ DOMAIN c = 1..Len(c)
  OBVIOUS
<1>3. Good(0)
  <2>1. f[0] = c
    BY <1>1, <1>2
  <2> DEFINE at == [p \in 1..Len(c) |-> p]
  <2>2. at \in [1..Len(c) -> 1..Len(c)] /\ Rising(at)
        /\ \A p \in 1..Len(c) : c[p] = c[at[p]]
    BY DEF Rising
  <2> HIDE DEF at
  <2>3. \A p \in 1..Len(c) : ~ (p <= 0)
    BY <1>2
  <2>4. c \in Seq(ToSet(c)) /\ Len(c) <= Len(c)
    BY <1>2, Lists
  <2>5. Track(c, c, 0)
    BY <2>2, <2>3, <2>4 DEF Track
  <2>6. QED
    BY <2>1, <2>5
<1>4. ASSUME NEW m \in 1..Len(c), Good(m - 1)
      PROVE  Good(m)
  <2>1. f[m] = DedupeTurn(f[m - 1], m)
    <3>1. m \in 0..Len(c) /\ m # 0
      BY <1>2
    <3>2. QED
      BY <1>1, <3>1, Zenon
  <2>2. Track(DedupeTurn(f[m - 1], m), c, m)
    BY <1>4, TurnTracks
  <2>3. QED
    BY <2>1, <2>2
<1> HIDE DEF Good
<1>5. bad = {}
  <2>1. \A m \in 1..Len(c) : m \in bad => m - 1 \in bad
    BY <1>2, <1>4
  <2>2. 0 \notin bad /\ bad \subseteq 0..Len(c)
    BY <1>3
  <2>3. QED
    BY <1>2, <2>1, <2>2, NoFirstBad
<1>6. Good(Len(c))
  BY <1>2, <1>5
<1>7. QED
  BY <1>1, <1>6 DEF Good

(* No two profiles a phone keeps come from stored rows that are similar.      *)
LEMMA ProfilesApart ==
  ASSUME NEW stored, stored \in Seq(ToSet(stored)),
         \A t \in ToSet(stored) : "base" \in DOMAIN ApnSetting(t)
  PROVE  LET list == Profiles(stored, TRUE)
         IN  \E at \in [DOMAIN list -> DOMAIN stored] :
                /\ \A p \in DOMAIN list : list[p].base = ApnSetting(stored[at[p]]).base
                /\ \A p, q \in DOMAIN list :
                      at[p] < at[q]
                         => ~ Similar(ApnSetting(stored[at[p]]), ApnSetting(stored[at[q]]))
<1> DEFINE n == Len(stored)
           c == [i \in 1..n |-> ApnSetting(stored[i])]
           list == Profiles(stored, TRUE)
<1>1. n \in Nat /\ DOMAIN stored = 1..n /\ \A i \in 1..n : stored[i] \in ToSet(stored)
  BY DEF ToSet
<1>2. /\ DOMAIN c = 1..n /\ Len(c) = n /\ c \in Seq({ApnSetting(t) : t \in ToSet(stored)})
      /\ \A i \in 1..n : c[i] = ApnSetting(stored[i])
  BY <1>1
<1>3. c = MapRows(stored, ApnSetting)
  <2>1. MapRows(stored, ApnSetting) = <<>> \o c
    BY <1>1 DEF MapRows
  <2> HIDE DEF c
  <2>2. QED
    BY <1>2, <2>1
<1>4. \A i \in DOMAIN c : "base" \in DOMAIN c[i]
  BY <1>1, <1>2
<1> HIDE DEF c, list
<1>5. Track(list, c, n)
  BY <1>2, <1>3, <1>4, ProfilesTrack DEF list
<1>6. PICK at \in [1..Len(list) -> 1..n] :
         /\ Rising(at)
         /\ \A p \in 1..Len(list) : list[p].base = c[at[p]].base
         /\ \A p, q \in 1..Len(list) : p <= n /\ p < q => ~ Similar(c[at[p]], c[at[q]])
  BY <1>2, <1>5 DEF Track
<1>7. DOMAIN list = 1..Len(list) /\ Len(list) \in Nat /\ Len(list) <= n
  BY <1>2, <1>5 DEF Track
<1>8. \A p \in DOMAIN list : list[p].base = ApnSetting(stored[at[p]]).base
  BY <1>2, <1>6, <1>7
<1>9. ASSUME NEW p \in DOMAIN list, NEW q \in DOMAIN list, at[p] < at[q]
      PROVE  ~ Similar(ApnSetting(stored[at[p]]), ApnSetting(stored[at[q]]))
  <2>1. at[p] \in 1..n /\ at[q] \in 1..n
    BY <1>6, <1>7
  <2>2. p < q
    <3>1. p \in Int /\ q \in Int /\ at[p] \in Int /\ at[q] \in Int
      BY <1>7, <2>1
    <3>2. q < p => at[q] < at[p]
      BY <1>6, <1>7 DEF Rising
    <3>3. QED
      BY <1>9, <3>1, <3>2
  <2>3. p <= n
    BY <1>1, <1>7
  <2>4. QED
    BY <1>2, <1>6, <1>7, <2>1, <2>2, <2>3
<1>10. QED
  BY <1>1, <1>6, <1>7, <1>8, <1>9 DEF list

LEMMA GivenSilent ==
  ASSUME NEW s \in Scopes, Comparable(s), NEW rs, FromGiven(rs, ScopeRecords(s))
  PROVE  \E mtu \in {"mtu", "mtu_v4"} : \A r \in ToSet(rs) : Silent(r.attr, {mtu})
<1>1. PICK mtu \in {"mtu", "mtu_v4"} : ~ AnyGives(s, mtu, 0)
  BY DEF Comparable
<1>2. ASSUME NEW r \in ToSet(rs)
      PROVE  Silent(r.attr, {mtu})
  <2>1. PICK o \in ToSet(ScopeRecords(s)) : r.attr = o.attr
    BY DEF FromGiven, FromRow
  <2>2. PICK i \in DOMAIN s.apns : o.attr = s.apns[i].attr
    BY ScopeRecordsOK
  <2>3. QED
    BY <1>1, <2>1, <2>2 DEF Silent, AnyGives
<1>3. QED
  BY <1>2

(* A row left out as absorbed is merged, or every earlier one like it was.    *)
LEMMA LeftOutAgree ==
  ASSUME NEW rs, RowsOK(rs), AllPlain(rs), NEW persist, ~ persist,
         NEW mtu \in {"mtu", "mtu_v4"}, \A r \in ToSet(rs) : Silent(r.attr, {mtu}),
         NEW r \in ToSet(rs), r.key \in AbsorbedMms(rs),
         NEW at \in DOMAIN AndroidStoredRows(rs), AndroidStoredRows(rs)[at].key = r.key,
         NEW j \in 1..(at - 1),
         AndroidSimilar(AndroidStoredRows(rs)[j], AndroidStoredRows(rs)[at]),
         NEW x \in ToSet(AndroidStoredRows(rs)[j].ids)
  PROVE  r.id \in AbsorbedRows(rs, persist) \/ x \in AbsorbedRows(rs, persist)
<1> DEFINE L == AndroidStoredRows(rs)
           T == Provider(rs, persist)
           profiles == Profiles(T, TRUE)
           absorbed == AbsorbedRows(rs, persist)
           present == UNION {ToSet(p.srcs) : p \in ToSet(profiles)}
<1>1. absorbed = (UNION {ToSet(p.srcs) \ ToSet(p.base) : p \in ToSet(profiles)})
                   \cup (UNION {ToSet(s.srcs) \ present : s \in ToSet(T)})
  BY DEF AbsorbedRows
<1>2. AllAlike(T, L)
  BY ProviderAlike DEF RowsOK
<1>3. Stored(L, ToSet(rs)) /\ NamesRows(L, ToSet(rs), {mtu})
  BY StoredRows, StoredNames DEF RowsOK
<1>4. /\ \A i \in DOMAIN L : L[i].key = r.key => r.id \in ToSet(L[i].ids)
      /\ \A i, k \in DOMAIN L : \A y : y \in ToSet(L[i].ids) /\ y \in ToSet(L[k].ids) => i = k
  BY <1>3, NamesApart
<1> HIDE DEF L, T, profiles, absorbed, present
<1>5. /\ L \in Seq(ToSet(L)) /\ DOMAIN L = 1..Len(L) /\ Len(L) \in Nat
      /\ T \in Seq(ToSet(T)) /\ DOMAIN T = DOMAIN L
      /\ \A i \in DOMAIN L : ReadAlike(T[i], L[i])
  BY <1>2 DEF AllAlike
<1>6. /\ at \in DOMAIN L /\ j \in DOMAIN L /\ j < at /\ L[at].key = r.key
      /\ AndroidSimilar(L[j], L[at]) /\ x \in ToSet(L[j].ids)
  BY <1>5 DEF L
<1>7. \A i \in DOMAIN L : "base" \in DOMAIN ApnSetting(T[i]) /\ ApnSetting(T[i]).base = L[i].ids
  BY <1>5, SettingIs
<1>8. \A t \in ToSet(T) : "base" \in DOMAIN ApnSetting(t)
  BY <1>5, <1>7 DEF ToSet
<1>9. PICK of \in [DOMAIN profiles -> DOMAIN T] :
         /\ \A p \in DOMAIN profiles : profiles[p].base = ApnSetting(T[of[p]]).base
         /\ \A p, q \in DOMAIN profiles :
               of[p] < of[q] => ~ Similar(ApnSetting(T[of[p]]), ApnSetting(T[of[q]]))
  BY <1>5, <1>8, ProfilesApart DEF profiles
(* A row that is not absorbed has a profile of its own. *)
<1>10. ASSUME NEW i \in DOMAIN L, NEW y \in ToSet(L[i].ids), y \notin absorbed
       PROVE  \E p \in DOMAIN profiles : of[p] = i
  <2>1. T[i] \in ToSet(T) /\ y \in ToSet(T[i].srcs)
    BY <1>5, <1>10 DEF ReadAlike, ToSet
  <2>2. y \in present
    BY <1>1, <1>10, <2>1
  <2>3. PICK p \in ToSet(profiles) : y \in ToSet(p.srcs)
    BY <2>2 DEF present
  <2>4. y \in ToSet(p.base)
    BY <1>1, <1>10, <2>3
  <2>5. PICK k \in DOMAIN profiles : profiles[k] = p
    BY DEF ToSet
  <2>6. of[k] \in DOMAIN L /\ y \in ToSet(L[of[k]].ids)
    BY <1>5, <1>7, <1>9, <2>4, <2>5
  <2>7. of[k] = i
    BY <1>4, <1>10, <2>6
  <2>8. QED
    BY <2>7
<1>11. Similar(ApnSetting(T[j]), ApnSetting(T[at]))
  BY <1>3, <1>5, <1>6, AlikeSimilar DEF NamesRows
<1>12. ASSUME r.id \notin absorbed, x \notin absorbed
       PROVE  FALSE
  <2>1. PICK p \in DOMAIN profiles : of[p] = j
    BY <1>6, <1>10, <1>12
  <2>2. PICK q \in DOMAIN profiles : of[q] = at
    BY <1>4, <1>6, <1>10, <1>12
  <2>3. QED
    BY <1>6, <1>9, <1>11, <2>1, <2>2
<1>13. QED
  BY <1>12 DEF absorbed

LEMMA AfterAbsorbed ==
  ASSUME step \in {Steps[k] : k \in 1..14}, After("absorbed")
  PROVE  step = "load"
<1>1. PICK k \in 1..14 : step = Steps[k]
  OBVIOUS
<1>2. StepNo(step) = k /\ StepNo("absorbed") = 13
  <2>1. Steps[13] = "absorbed"
    BY DEF Steps
  <2>2. QED
    BY <1>1, <2>1, StepNoIs
<1>3. k = 14 /\ Steps[14] = "load"
  BY <1>2 DEF After, Steps
<1>4. QED
  BY <1>1, <1>3

LEMMA AbsorbsAsRead == PhoneInv /\ Comparable(scope) => AbsorbedUnlessAllMerged
<1> SUFFICES ASSUME PhoneInv, Comparable(scope), After("absorbed"), ~ net.persist,
                    NEW r \in ToSet(prior) \ ToSet(rows)
             PROVE  LET absorbed == AbsorbedRows(prior, net.persist)
                    IN  r.id \in absorbed \/ EarlierSimilarIds(r.key) \subseteq absorbed
  BY DEF AbsorbedUnlessAllMerged
<1> DEFINE L == AndroidStoredRows(prior)
           absorbed == AbsorbedRows(prior, net.persist)
           at == CHOOSE i \in DOMAIN L : L[i].key = r.key
<1>1. step = "load"
  <2>1. step \in {"gaps", "attach", "star", "emergency", "rank", "mms", "ims", "xcap",
                  "vendor_attach", "type_leads", "group", "credentials", "absorbed", "load"}
    BY DEF PhoneInv, RowsInv, Unranked, Ranking, Written
  <2>2. /\ Steps[1] = "gaps" /\ Steps[2] = "attach" /\ Steps[3] = "star"
        /\ Steps[4] = "emergency" /\ Steps[5] = "rank" /\ Steps[6] = "mms"
        /\ Steps[7] = "ims" /\ Steps[8] = "xcap" /\ Steps[9] = "vendor_attach"
        /\ Steps[10] = "type_leads" /\ Steps[11] = "group" /\ Steps[12] = "credentials"
        /\ Steps[13] = "absorbed" /\ Steps[14] = "load"
    BY DEF Steps
  <2>3. step \in {Steps[k] : k \in 1..14}
    BY <2>1, <2>2
  <2>4. QED
    BY <2>3, AfterAbsorbed
<1>2. /\ RowsOK(prior) /\ FromGiven(prior, ScopeRecords(scope)) /\ scope \in Scopes
      /\ rows = prior \/ rows = LeaveOutAbsorbedMms(prior)
  BY <1>1 DEF PhoneInv, PriorInv, RowsInv, Given
<1>3. r \in ToSet(prior) /\ r.key \in AbsorbedMms(prior)
  <2>1. rows = Only(prior, {o \in ToSet(prior) : o.key \notin AbsorbedMms(prior)})
    BY <1>2 DEF LeaveOutAbsorbedMms
  <2>2. ToSet(rows) = ToSet(prior) \cap {o \in ToSet(prior) : o.key \notin AbsorbedMms(prior)}
    BY <1>2, <2>1, OnlySet DEF RowsOK
  <2>3. QED
    BY <2>2
<1>4. PICK mtu \in {"mtu", "mtu_v4"} : \A o \in ToSet(prior) : Silent(o.attr, {mtu})
  BY <1>2, GivenSilent
<1>5. AllPlain(prior)
  BY <1>2, GivenPlain
<1>6. at \in DOMAIN L /\ L[at].key = r.key
  <2>1. \E i \in DOMAIN L : L[i].key = r.key
    BY <1>2, <1>3, StoredRows DEF RowsOK, Stored
  <2> HIDE DEF L
  <2>2. QED
    BY <2>1
<1> HIDE DEF at, L, absorbed
<1>7. ASSUME NEW x \in EarlierSimilarIds(r.key)
      PROVE  r.id \in absorbed \/ x \in absorbed
  <2>1. PICK j \in 1..(at - 1) : AndroidSimilar(L[j], L[at]) /\ x \in ToSet(L[j].ids)
    BY DEF EarlierSimilarIds, at, L
  <2>2. QED
    BY <1>2, <1>3, <1>4, <1>5, <1>6, <2>1, LeftOutAgree DEF L, absorbed
<1>8. QED
  BY <1>7 DEF absorbed

(* The generator's model of the phone and android_phone_model.py agree on     *)
(* what it stores of the file, and a row left out as absorbed is merged, or   *)
(* every earlier row similar to it was (leave_out_absorbed_mms).              *)
THEOREM PhonesAgree == Spec => []PhoneModelsAgree
<1>1. PhoneInv => PhoneModelsAgree
  BY StoresAsRead, AbsorbsAsRead DEF PhoneModelsAgree
<1>2. QED
  BY <1>1, PhoneStaysWell, PTL
================================================================================
