------------------------------- MODULE OcdTies -------------------------------
(***************************************************************************)
(* tools/ocd_dataset.py: what is certain about the SIMs of a profile, and  *)
(* the tie check that keeps the profile ID from deciding what a SIM is     *)
(* served; and how profiles are built for Google's rules.  A row of the    *)
(* APN index is [net, mvno, apn, owners], owners the profiles it is        *)
(* written for.                                                            *)
(***************************************************************************)
EXTENDS OcdStacks

-----------------------------------------------------------------------------
(* Stacks that every SIM of a profile has.                                 *)

(* Mutant: one value of the specific profile that implies is enough.        *)
ImpliedByOne(specific, generic) ==
  \A d \in Used(generic) :
    /\ d \in Used(specific)
    /\ IF d = "android_carrier_ids" THEN specific[d] \subseteq generic[d]
       ELSE \E w \in specific[d], v \in generic[d] : ValueImplies(d, w, v)

ImpliedMatch(specific, generic) ==
  \A d \in Used(generic) :
    /\ d \in Used(specific)
    /\ IF d = "android_carrier_ids" THEN specific[d] \subseteq generic[d]
       ELSE \A w \in specific[d] : \E v \in generic[d] : ValueImplies(d, w, v)

ProfileStack(profiles, profile, net) ==
  LET top == ResolutionKey(profile, net)
  IN  Sorted({q \in profiles :
                \/ q.id = profile.id
                \/ /\ KeyBelow(ResolutionKey(q, net), top)
                   /\ ImpliedMatch(profile.match, q.match)},
             ResolutionKeys(profiles, net))

(* The value of each key a stack states: the most specific one.             *)
Overlaid(stack) ==
  [key \in UNION {DOMAIN stack[i].values : i \in DOMAIN stack} |->
     stack[Max({i \in DOMAIN stack : key \in DOMAIN stack[i].values})].values[key]]

-----------------------------------------------------------------------------
(* Ties up to the profile ID.                                              *)

(* Mutant: the carrier IDs must meet, as if a SIM had one.                  *)
OverlapWithOneCarrierId(a, b) ==
  \A d \in Used(a) \intersect Used(b) :
    IF d = "android_carrier_ids" THEN a[d] \intersect b[d] # {}
    ELSE \E x \in a[d], y \in b[d] : ValuesOverlap(d, x, y)

SelectorsCanOverlap(a, b) ==
  \A d \in (Used(a) \intersect Used(b)) \ {"android_carrier_ids"} :
    \E x \in a[d], y \in b[d] : ValuesOverlap(d, x, y)

(* Mutant: a condition on a selector neither match has is never met.        *)
SharedEffectUnseen(when, a, b) ==
  LET datum == CHOOSE d \in when : TRUE
      dim == datum[1]
      lists == {m[dim] : m \in {a, b}} \ {{}}
      combos == {{x, y} : x \in a[dim], y \in b[dim]}
      texts == IF a[dim] # {} /\ b[dim] # {}
               THEN {c \in combos : \A x, y \in c : ValuesOverlap(dim, x, y)}
               ELSE {{x} : x \in UNION lists}
  IN  IF when = {} THEN "ends"
      ELSE IF lists = {} THEN "skips"
      ELSE IF ~ \E c \in texts : \A w \in c : ValuesOverlap(dim, w, datum[2]) THEN "skips"
      ELSE IF \A c \in texts : \E w \in c : ValueImplies(dim, w, datum[2]) THEN "ends"
      ELSE "when"

(* What a fill item's condition comes to for the SIMs of two matches.       *)
SharedEffect(when, a, b) ==
  LET datum == CHOOSE d \in when : TRUE
      dim == datum[1]
      lists == {m[dim] : m \in {a, b}} \ {{}}
      combos == {{x, y} : x \in a[dim], y \in b[dim]}
      texts == IF a[dim] # {} /\ b[dim] # {}
               THEN {c \in combos : \A x, y \in c : ValuesOverlap(dim, x, y)}
               ELSE {{x} : x \in UNION lists}
  IN  IF when = {} THEN "ends"
      ELSE IF lists = {} THEN "when"
      ELSE IF ~ \E c \in texts : \A w \in c : ValuesOverlap(dim, w, datum[2]) THEN "skips"
      ELSE IF \A c \in texts : \E w \in c : ValueImplies(dim, w, datum[2]) THEN "ends"
      ELSE "when"

FillUnder(fill, a, b) ==
  LET Effect(i) == SharedEffect(fill[i].when, a, b)
      left == {i \in DOMAIN fill :
                 Effect(i) # "skips" /\ ~ \E j \in DOMAIN fill : j < i /\ Effect(j) = "ends"}
  IN  [i \in left |-> [entry |-> fill[i].entry,
                      when |-> IF Effect(i) = "ends" THEN {} ELSE fill[i].when]]

(* The items of a list in their order, wherever in the file they come from. *)
Listed(fill) ==
  [k \in 1..Cardinality(DOMAIN fill) |->
     fill[CHOOSE i \in DOMAIN fill : Cardinality({j \in DOMAIN fill : j < i}) = k - 1]]

SingleMvno(match) ==
  \E d \in {"spn", "imsi_prefix_patterns", "gid1_prefixes", "iccid_prefixes"} :
    Used(match) = {d}

OwnsAlone(rows, a, b) == \E r \in rows : a.id \in r.owners /\ b.id \notin r.owners

ServedDifference(a, b, rows) ==
  {what \in {"carrier_config", "google_fill", "apn_coupling"} :
     CASE what = "carrier_config" ->
            \E key \in DOMAIN a.values \intersect DOMAIN b.values :
              a.values[key] # b.values[key]
       [] what = "google_fill" ->
            Listed(FillUnder(a.fill, a.match, b.match))
              # Listed(FillUnder(b.fill, b.match, a.match))
       [] what = "apn_coupling" ->
            /\ \A p \in {a, b} : \E r \in rows : p.id \in r.owners
            /\ ~ /\ SingleMvno(a.match) /\ SingleMvno(b.match)
                 /\ OwnsAlone(rows, a, b) /\ OwnsAlone(rows, b, a)}

Tied(a, b, net) ==
  SubSeq(ResolutionKey(a, net), 1, 9) = SubSeq(ResolutionKey(b, net), 1, 9)

(* The pairs of one network that tie up to the profile ID and that one SIM  *)
(* can match together.                                                     *)
TieReport(profiles, net) ==
  {pair \in {{a, b} : a, b \in profiles} :
     \A a, b \in pair :
       /\ Cardinality(pair) = 2
       /\ a # b => Tied(a, b, net) /\ SelectorsCanOverlap(a.match, b.match)}

TieProblems(profiles, net, rows) ==
  {pair \in TieReport(profiles, net) :
     \E a, b \in pair : a # b /\ ServedDifference(a, b, rows) # {}}

-----------------------------------------------------------------------------
(* Profiles for Google's rules.                                            *)

EmptyMatch == [d \in Dimensions \union {"mccmnc"} |-> {}]

RuleMatch(rule) ==
  [d \in Dimensions \union {"mccmnc"} |->
     IF d = "mccmnc" THEN {rule.net}
     ELSE {datum[2] : datum \in {x \in rule.mvno : x[1] = d}}]

SameDatum(dimension, a, b) ==
  CASE dimension \in {"spn", "gid1_prefixes"} -> JavaEqualsIgnoreCase(a, b)
    [] dimension = "imsi_prefix_patterns" ->
         /\ Len(a) = Len(b)
         /\ \A i \in DOMAIN a : {a[i], b[i]} \subseteq Wildcards \/ a[i] = b[i]
    [] OTHER -> a = b

(* A profile with exactly the rule's match.                                 *)
ExactProfileExists(rule, profiles) ==
  \E p \in profiles :
    /\ p.match.mccmnc = {rule.net}
    /\ Used(p.match) = Used(RuleMatch(rule))
    /\ \A datum \in rule.mvno :
         \E text \in p.match[datum[1]] :
           p.match[datum[1]] = {text} /\ SameDatum(datum[1], text, datum[2])

(* Fill-only IDs start with "fill" and sort below the open ones.            *)
FillOnlyProfile(rules, i) ==
  [id |-> 0 - i, kind |-> "fill_only", name |-> rules[i].name,
   match |-> RuleMatch(rules[i]), values |-> <<>>, sources |-> <<>>, apns |-> {}, fill |-> <<>>]

FillOnly(rules, ocd) ==
  LET none == {i \in DOMAIN rules : ~ ExactProfileExists(rules[i], ocd)}
      first == {i \in none :
                  ~ \E j \in none : j < i /\ ExactProfileExists(rules[i], {FillOnlyProfile(rules, j)})}
  IN  {FillOnlyProfile(rules, i) : i \in first}

RulesOn(rules, net) == Restrict(rules, {i \in DOMAIN rules : rules[i].net = net})

(* A network's profiles, each with its fill there.                          *)
NetworkProfiles(everyone, rules, net) ==
  {[p EXCEPT !.fill = ComputeFill(p, RulesOn(rules, net))] :
     p \in {q \in everyone : net \in q.match.mccmnc}}

=============================================================================
