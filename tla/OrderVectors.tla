---------------------------- MODULE OrderVectors ----------------------------
(***************************************************************************)
(* tools/order_vectors.py: a SIM built to match given profiles, what the   *)
(* dataset serves a SIM, and the pairs whose order changed with the        *)
(* resolution order.  Rows that name a carrier ID are left out.            *)
(***************************************************************************)
EXTENDS OcdTies

CONSTANTS
  ImsiLength,   \* 15 in the code
  IccidLength,  \* 20 in the code
  Zero, One     \* the digits that fill a synthetic SIM

-----------------------------------------------------------------------------
(* Synthetic SIMs.                                                         *)

(* One value of each match that has the dimension; the code takes the first *)
(* choice of its lists.                                                    *)
Chosen(dimension, a, b) ==
  IF a[dimension] = {} /\ b[dimension] = {} THEN {{}}
  ELSE IF a[dimension] = {} \/ b[dimension] = {}
  THEN {{x} : x \in a[dimension] \union b[dimension]}
  ELSE {{c[1], c[2]} : c \in {d \in a[dimension] \X b[dimension] :
                                ValuesOverlap(dimension, d[1], d[2])}}

(* Mutant: the digits are those of the longest pattern alone.               *)
ImsiOfLongest(patterns) ==
  LET longest == CHOOSE p \in patterns : \A q \in patterns : Len(p) >= Len(q)
      length == IF patterns = {} THEN 0 ELSE Len(longest)
  IN  [i \in 1..ImsiLength |->
         IF i <= length /\ longest[i] \notin Wildcards THEN longest[i]
         ELSE IF i = ImsiLength THEN One ELSE Zero]

ImsiOf(patterns) ==
  LET length == IF patterns = {} THEN 0 ELSE Max({Len(p) : p \in patterns})
      fixed(i) == {p[i] : p \in {q \in patterns : i <= Len(q)}} \ Wildcards
  IN  [i \in 1..ImsiLength |->
         IF fixed(i) # {} THEN CHOOSE d \in fixed(i) : TRUE
         ELSE IF i = ImsiLength /\ length < ImsiLength THEN One ELSE Zero]

Longest(texts) == CHOOSE t \in texts : \A u \in texts : Len(t) >= Len(u)

IccidOf(prefix) ==
  [i \in 1..IccidLength |->
     IF i = IccidLength THEN One
     ELSE IF i <= Len(prefix) THEN prefix[i] ELSE Zero]

TextOf(dimension, texts) ==
  IF dimension = "imsi_prefix_patterns" THEN {ImsiOf(texts)}
  ELSE IF texts = {} THEN {}
  ELSE IF dimension = "iccid_prefixes" THEN {IccidOf(Longest(texts))}
  ELSE {Longest(texts)}

CarrierIdsOf(a, b) ==
  LET common == IF a = {} THEN b ELSE IF b = {} THEN a ELSE a \intersect b
  IN  CASE a \union b = {} -> {{}}
        [] common # {} -> {{c} : c \in common}
        [] OTHER -> {{x, y} : x \in a, y \in b}

(* One SIM per choice of values, from the published selectors of both.      *)
SyntheticSims(net, a, b) ==
  {[mccmnc |-> {net}, android_carrier_ids |-> ids,
    spn |-> TextOf("spn", spn), gid1_prefixes |-> TextOf("gid1_prefixes", gid1),
    gid2_prefixes |-> TextOf("gid2_prefixes", gid2),
    iccid_prefixes |-> TextOf("iccid_prefixes", iccid),
    imsi_prefix_patterns |-> TextOf("imsi_prefix_patterns", imsi)] :
     ids \in CarrierIdsOf(a.android_carrier_ids, b.android_carrier_ids),
     spn \in Chosen("spn", a, b), gid1 \in Chosen("gid1_prefixes", a, b),
     gid2 \in Chosen("gid2_prefixes", a, b), iccid \in Chosen("iccid_prefixes", a, b),
     imsi \in Chosen("imsi_prefix_patterns", a, b)}

-----------------------------------------------------------------------------
(* What the dataset serves a SIM.                                          *)

RowSelectorMatches(selector, sim) ==
  LET data == selector[2]
  IN  CASE selector[1] = "spn" -> \E f \in sim.spn : JavaEqualsIgnoreCase(f, data)
        [] selector[1] = "imsi" ->
             \E f \in sim.imsi_prefix_patterns : ImsiPatternMatches(data, f)
        [] selector[1] = "gid" ->
             \E f \in sim.gid1_prefixes : JavaStartsWithIgnoreCase(f, data)
        [] selector[1] = "iccid" -> \E f \in sim.iccid_prefixes : IsPrefix(data, f)
        [] OTHER -> FALSE

(* The rows TelephonyProvider gives a SIM.                                  *)
ApnRows(rows, sim, net) ==
  LET here == {r \in rows : r.net = net}
      mvno == {r \in here : \E selector \in r.mvno : RowSelectorMatches(selector, sim)}
  IN  IF mvno # {} THEN mvno ELSE {r \in here : r.mvno = {}}

(* The most specific profile with APN rows anywhere.                        *)
ApnProfile(stack, rows) ==
  LET with == {i \in DOMAIN stack : \E r \in rows : stack[i].id \in r.owners}
  IN  IF with = {} THEN {} ELSE {stack[Max(with)].id}

Coupling(stack, sim, net, rows) ==
  LET selected == ApnRows(rows, sim, net)
      owner == ApnProfile(stack, rows)
  IN  IF \/ owner = {} /\ selected = {}
         \/ owner # {} /\ selected # {} /\ \A r \in selected : owner \subseteq r.owners
      THEN "same" ELSE "mismatch"

Outcome(stack, sim, net, rows, entries) ==
  [values |-> Overlaid(stack),
   fill |-> IF stack = <<>> THEN {} ELSE PickFill(Last(stack).fill, sim, entries),
   coupling |-> Coupling(stack, sim, net, rows)]

-----------------------------------------------------------------------------
(* The dry run: pairs one SIM can match whose order flipped.                *)

CountStack(profiles) == Sorted(profiles, [id \in {p.id : p \in profiles} |->
                                StackOrderKey(CHOOSE p \in profiles : p.id = id)])

Flipped(profiles, net) ==
  {pair \in {{a, b} : a, b \in profiles} :
     /\ \A a, b \in pair : SelectorsCanOverlap(a.match, b.match)
     /\ \E a, b \in pair :
          KeyBelow(StackOrderKey(a), StackOrderKey(b))
            /\ KeyBelow(ResolutionKey(b, net), ResolutionKey(a, net))}

=============================================================================
