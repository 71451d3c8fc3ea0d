----------------------------- MODULE OcdDataset -----------------------------
(***************************************************************************)
(* The OCD dataset from its inputs to a SIM: profiles and the Google lane  *)
(* change, a reader reads group A values that wait, the dataset is         *)
(* generated and validated, and a phone resolves its SIM from what was     *)
(* published.  The changes of the inputs and the reader are the world      *)
(* around the tools.                                                       *)
(*                                                                         *)
(* An input record says what one behaviour may meet: its first source, the *)
(* profiles that may replace one of the same ID, the values the evidence   *)
(* index may come to flag, its SIMs, and the reads it has room for.        *)
(***************************************************************************)
EXTENDS GroupAReads, OrderVectors

CONSTANTS
  Chars, Fold, Wildcard,  \* for tools/resolve_carrier_profiles.py
  Inputs

VARIABLES
  input,    \* the input record of this behaviour
  source,   \* the tree: profiles, rules, lane, unapplied, what TwoAnswers reads
            \* and the answers written in the profile files
  reads,    \* the group A read records on main
  dataset,  \* what was last published, at most one
  served    \* what a phone made of it for one SIM, at most one

vars == <<input, source, reads, dataset, served>>

Lookup == INSTANCE TwoAnswers WITH CarrierIdTable <- AospRules

-----------------------------------------------------------------------------
(* What the inputs are.  A published profile is one that passed             *)
(* tools/validate_public_carrier_data.py: its ICCID prefixes are digits,   *)
(* its IMSI patterns digits and wildcards, and both leave room in the      *)
(* number they are a prefix of.                                            *)

TextDimensions == Dimensions \ {"android_carrier_ids"}

(* Characters that no other one folds to, as digits are.                    *)
Caseless == {c \in Chars \ Wildcards : \A b \in Chars : Fold[b] = Fold[c] => b = c}

IsSelector(dimension, text) ==
  /\ text \in Seq(Chars)
  /\ dimension = "iccid_prefixes" => text \in Seq(Caseless) /\ Len(text) < IccidLength
  /\ dimension = "imsi_prefix_patterns" =>
       text \in Seq(Caseless \union Wildcards) /\ Len(text) <= ImsiLength

IsMatch(match) ==
  /\ \A d \in Dimensions \union {"mccmnc"} : IsFiniteSet(match[d])
  /\ \A d \in TextDimensions : \A text \in match[d] : IsSelector(d, text)

ProfileFields == {"id", "kind", "name", "match", "values", "sources", "apns", "fill"}

IsProfile(p) ==
  /\ ProfileFields \subseteq DOMAIN p
  /\ p.id \in Nat /\ p.name \in Seq(Chars) /\ IsMatch(p.match)

IsRule(rule) ==
  /\ rule.name \in Seq(Chars)
  /\ \A x, y \in rule.mvno : x = y
  /\ \A datum \in rule.mvno :
       /\ datum[1] \in {"spn", "imsi_prefix_patterns", "gid1_prefixes", "iccid_prefixes"}
       /\ IsSelector(datum[1], datum[2])

(* A SIM has one network, and of every text one or none.                    *)
IsSim(sim) ==
  /\ sim.mccmnc # {} /\ \A x, y \in sim.mccmnc : x = y
  /\ \A d \in TextDimensions : sim[d] \subseteq Seq(Chars) /\ \A x, y \in sim[d] : x = y
  /\ sim.iccid_prefixes \union sim.imsi_prefix_patterns \subseteq Seq(Caseless)

ASSUME TextAssumption ==
  /\ Fold \in [Chars -> Chars] /\ JavaFold \in [Chars -> Chars]
  /\ \A c \in Chars : Fold[c] = Wildcard <=> c \in Wildcards
  /\ Wildcards \union {Zero, One} \subseteq Chars
  /\ ImsiLength \in Nat /\ IccidLength \in Nat
  /\ \A row \in DOMAIN AospRules : AospRules[row] # {}

ASSUME InputsAssumption ==
  \A x \in Inputs :
    /\ {"profiles", "rules", "lane", "unapplied", "written", "statements"} \subseteq DOMAIN x.source
    /\ IsFiniteSet(x.source.profiles)
    /\ \A p \in x.source.profiles \union x.revisions : IsProfile(p)
    /\ \A p, q \in x.source.profiles : p.id = q.id => p = q
    /\ DOMAIN x.source.rules = 1..Len(x.source.rules) /\ Len(x.source.rules) \in Nat
    /\ \A i \in DOMAIN x.source.rules : IsRule(x.source.rules[i])
    /\ \A sim \in x.sims : IsSim(sim)

-----------------------------------------------------------------------------
(* generate.                                                               *)

(* The MVNO selectors of a profile's APN rows: none of its own, one per     *)
(* value of its one selector, or no rows at all.                           *)
ApnMvnos(match) ==
  LET kinds == [imsi_prefix_patterns |-> "imsi", spn |-> "spn",
                gid1_prefixes |-> "gid", iccid_prefixes |-> "iccid"]
      used == Used(match) \intersect DOMAIN kinds
  IN  IF match.gid2_prefixes # {} \/ Cardinality(used) > 1 THEN {}
      ELSE IF used = {} THEN {{}}
      ELSE {{<<kinds[d], text>>} : d \in used, text \in UNION {match[d] : d \in used}}

(* The file's rows, and the profiles each is written for.                   *)
IndexRows(profiles) ==
  LET written(p) == {[net |-> n, mvno |-> m, apn |-> a] :
                       n \in p.match.mccmnc, m \in ApnMvnos(p.match), a \in p.apns}
  IN  {[net |-> r.net, mvno |-> r.mvno, apn |-> r.apn,
        owners |-> {p.id : p \in {q \in profiles : r \in written(q)}}] :
         r \in UNION {written(p) : p \in profiles}}

MatchSets(profiles) ==
  [id \in {p.id : p \in profiles} |-> (CHOOSE p \in profiles : p.id = id).match]

NetworksOf(profiles) == UNION {p.match.mccmnc : p \in profiles}

Generated(s, rs) ==
  LET everyone == s.profiles \union FillOnly(s.rules, s.profiles)
      networks == [n \in NetworksOf(everyone) |-> NetworkProfiles(everyone, s.rules, n)]
      candidates == Candidates(networks, s.lane, GroupAKeys(rs))
      current == MatchSets(s.profiles)
  IN  [tree |-> s, networks |-> networks, lane |-> s.lane, rows |-> IndexRows(s.profiles),
       items |-> ReadItems(candidates, rs, current, s.unapplied),
       unrecorded |-> Unrecorded(candidates, rs, current, s.unapplied),
       pending |-> Pending(candidates, rs, current, s.unapplied),
       left |-> LeftGroupA(rs)]

(* validate's tie check.                                                    *)
TiesSettled(d) ==
  \A net \in DOMAIN d.networks : TieProblems(d.networks[net], net, d.rows) = {}

(* validate's check that the published lane has every fill entry.  The      *)
(* rules are the lane's own, so without a lane there are none.             *)
FillsInLane(d) ==
  \A net \in DOMAIN d.networks : \A p \in d.networks[net] : \A i \in DOMAIN p.fill :
    p.fill[i].entry \in DOMAIN d.lane

(* validate's check of each read against the flagged values.                *)
ReadsAllowed(s, rs) ==
  \A r \in rs : r.subject = "value" /\ r.verdict = "proceed" =>
    \A id \in r.profiles : <<id, r.key>> \notin s.unapplied

Generate ==
  LET d == Generated(source, reads)
  IN  /\ TiesSettled(d) /\ FillsInLane(d) /\ ReadsAllowed(source, reads)
      /\ Lookup!TreeHolds(source)
      /\ \A base \in dataset : Lookup!BaseHolds(base.tree, source)
      /\ {d} # dataset
      /\ dataset' = {d}
      /\ served' = {}
      /\ UNCHANGED <<input, source, reads>>

(* The publisher derives the two answers and writes them into the profile   *)
(* files of the tree it is about to publish.                               *)
WriteAnswers ==
  /\ source.written # Lookup!Derived(source)
  /\ source' = [source EXCEPT !.written = Lookup!Derived(source)]
  /\ UNCHANGED <<input, reads, dataset, served>>

-----------------------------------------------------------------------------
(* The world around it.                                                    *)

Revise(p) ==
  /\ p \notin source.profiles
  /\ \E q \in source.profiles : q.id = p.id
  /\ source' = [source EXCEPT !.profiles =
                  {q \in source.profiles : q.id # p.id} \union {p}]
  /\ UNCHANGED <<input, reads, dataset, served>>

Flag(mark) ==
  /\ mark \notin source.unapplied
  /\ source' = [source EXCEPT !.unapplied = source.unapplied \union {mark}]
  /\ UNCHANGED <<input, reads, dataset, served>>

(* The statements are read again: one has lapsed.                           *)
Lapse(id) ==
  /\ \E s \in source.statements : s.id = id /\ ~s.lapsed
  /\ source' = [source EXCEPT !.statements =
                  {[s EXCEPT !.lapsed = @ \/ s.id = id] : s \in source.statements}]
  /\ UNCHANGED <<input, reads, dataset, served>>

(* A reader takes one waiting value of the published list, with the         *)
(* profiles and families it names, and looks at the match sets of the day. *)
ReadValue(key, value, verdict) ==
  /\ Cardinality(reads) < input.reads
  /\ \E d \in dataset :
       LET waiting == {c \in d.pending : c.key = key /\ c.value = value}
           ids == {c.profile : c \in waiting}
           current == MatchSets(source.profiles)
           read == [subject |-> "value", key |-> key, value |-> value,
                    profiles |-> ids, families |-> UNION {c.families : c \in waiting},
                    hashes |-> [id \in ids \intersect DOMAIN current |-> current[id]],
                    verdict |-> verdict, effect |-> "call_path"]
       IN  waiting # {} /\ ReadsAllowed(source, {read}) /\ reads' = reads \union {read}
  /\ UNCHANGED <<input, source, dataset, served>>

ReadKey(key) ==
  /\ Cardinality(reads) < input.reads
  /\ reads' = reads \union
       {[subject |-> "key", key |-> key, value |-> "none", profiles |-> {},
         families |-> {}, hashes |-> <<>>, verdict |-> "proceed", effect |-> "display_only"]}
  /\ reads' # reads
  /\ UNCHANGED <<input, source, dataset, served>>

(* The one network of a SIM.                                                *)
NetOf(sim) == CHOOSE n \in sim.mccmnc : TRUE

ProfilesFor(d, net) == IF net \in DOMAIN d.networks THEN d.networks[net] ELSE {}

(* lookup.json repeats the answers of each profile.                         *)
AnswersFor(d, stack) ==
  IF stack = <<>> THEN <<>>
  ELSE Lookup!Part(d.tree.written, Last(stack).id, Lookup!NoAnswers).for_you

(* The phone's reader, which explain_sim runs on a checkout.                *)
Insert(sim) ==
  /\ \E d \in dataset :
       LET net == NetOf(sim)
           stack == ResolveStack(ProfilesFor(d, net), sim, net)
       IN  served' = {[sim |-> sim, stack |-> stack,
                       reason |-> ReasonServing(stack, net),
                       outcome |-> Outcome(stack, sim, net, d.rows, DOMAIN d.lane),
                       for_you |-> AnswersFor(d, stack)]}
  /\ served' # served
  /\ UNCHANGED <<input, source, reads, dataset>>

Keys == PatternKeys \union NamedKeys

Init ==
  /\ input \in Inputs
  /\ source = input.source
  /\ reads = {} /\ dataset = {} /\ served = {}

Next ==
  \/ Generate \/ WriteAnswers
  \/ \E p \in input.revisions : Revise(p)
  \/ \E mark \in input.flags : Flag(mark)
  \/ \E id \in input.lapses : Lapse(id)
  \/ \E key \in Keys, value \in input.values, verdict \in {"proceed", "hold"} :
       ReadValue(key, value, verdict)
  \/ \E key \in input.key_reads : ReadKey(key)
  \/ \E sim \in input.sims : Insert(sim)

Spec == Init /\ [][Next]_vars

-----------------------------------------------------------------------------
(* Properties.                                                             *)

(* Both tools, written apart, give a SIM the same profiles in the same      *)
(* order, for the same reason, the same CarrierConfig overlay and the same  *)
(* APN rows, as long as no text holds a character that casefold and Java    *)
(* compare differently.                                                    *)
FoldedApart ==
  {c \in Chars : \E d \in Chars : (Fold[c] = Fold[d]) # (JavaFold[c] = JavaFold[d])}

PlainTexts(holder) ==
  \A d \in TextDimensions : \A text \in holder[d] :
    {text[i] : i \in DOMAIN text} \intersect FoldedApart = {}

ResolversAgree ==
  \A d \in dataset, s \in served :
    LET net == NetOf(s.sim)
        profiles == ProfilesFor(d, net)
        stack == Lookup!Resolve(profiles, s.sim, net)
    IN  PlainTexts(s.sim) /\ (\A p \in profiles : PlainTexts(p.match)) =>
          /\ stack = s.stack
          /\ Lookup!ResolveByCount(profiles, s.sim) = CountStack(ToSet(s.stack))
          /\ Lookup!ServingReason(stack, net) = s.reason
          /\ Lookup!Overlay(stack) = s.outcome.values
          /\ Lookup!ExplainedRows(d.rows, s.sim, net) = ApnRows(d.rows, s.sim, net)

(* A published dataset serves a SIM the same CarrierConfig values, Google   *)
(* fill and APN coupling whichever of two profiles that tie up to the       *)
(* profile ID has the higher ID.  The coupling is left to profiles of one   *)
(* network with one selector value.                                        *)
OutcomeSwapped(d, s, a, b) ==
  LET net == NetOf(s.sim)
      key == [ResolutionKeys(d.networks[net], net) EXCEPT ![a.id][10] = b.id, ![b.id][10] = a.id]
  IN  Outcome(Sorted(ToSet(s.stack), key), s.sim, net, d.rows, DOMAIN d.lane)

TiedPairs(s) ==
  {pair \in {{s.stack[k], s.stack[k + 1]} : k \in 1..(Len(s.stack) - 1)} :
     \A a, b \in pair : Tied(a, b, NetOf(s.sim))}

OneValued(p) == \A d \in Dimensions \union {"mccmnc"} : Cardinality(p.match[d]) <= 1

TiesServeAlike ==
  \A d \in dataset, s \in served : \A pair \in TiedPairs(s) : \A a, b \in pair :
    a # b =>
      LET swapped == OutcomeSwapped(d, s, a, b)
      IN  /\ swapped.values = s.outcome.values /\ swapped.fill = s.outcome.fill
          /\ OneValued(a) /\ OneValued(b) => swapped.coupling = s.outcome.coupling

(* As tools/ocd_dataset.py:2664 says it, for every profile.                 *)
TiesCoupleAlike ==
  \A d \in dataset, s \in served : \A pair \in TiedPairs(s) : \A a, b \in pair :
    a # b => OutcomeSwapped(d, s, a, b).coupling = s.outcome.coupling

(* Google's own reading of its rules: the first one, in file order, that    *)
(* the SIM meets, among the rules that have no selector, one the profile    *)
(* pins too, or (round 58) an SPN equal to the name of an ICCID profile.    *)
RuleHolds(rule, sim) ==
  \A datum \in rule.mvno : DimensionHolds(datum[1], {datum[2]}, sim)

Concerns(rule, p) ==
  \A datum \in rule.mvno :
    \/ p.match[datum[1]] # {}
    \/ /\ datum[1] = "spn" /\ p.match.iccid_prefixes # {}
       /\ JavaEqualsIgnoreCase(p.name, datum[2])

FirstRule(rules, p, sim) ==
  LET met == {i \in DOMAIN rules : Concerns(rules[i], p) /\ RuleHolds(rules[i], sim)}
  IN  IF met = {} THEN {} ELSE {rules[Min(met)].entry}

HasProfileOf(rule, profiles) ==
  \E p \in profiles :
    \A sim \in {x \in input.sims : NetOf(x) = rule.net} :
      ProfileHolds(p, sim) <=> RuleHolds(rule, sim)

(* What is worked out from a profile without a SIM holds for its SIMs.  A   *)
(* SIM of a profile has every profile of the certain stack, from which      *)
(* group A reads and served bundles are computed; it picks the same entry   *)
(* from the profile's short fill list as from the network's rules; and      *)
(* every rule has a profile for exactly its SIMs.                          *)
ProfilesKnowTheirSims ==
  \A d \in dataset :
    /\ served = {} => \A i \in DOMAIN source.rules :
         HasProfileOf(source.rules[i], d.networks[source.rules[i].net])
    /\ \A s \in served : \A p \in ToSet(s.stack) :
         LET net == NetOf(s.sim)
         IN  /\ ToSet(ProfileStack(d.networks[net], p, net)) \subseteq ToSet(s.stack)
             /\ PickFill(p.fill, s.sim, DOMAIN d.lane)
                  = FirstRule(RulesOn(source.rules, net), p, s.sim)

(* Two profiles are taken for overlapping exactly when a SIM can match      *)
(* both, and the SIM the vectors build does; so every SIM whose stack the   *)
(* new order changed is one of a pair the dry run counts.                   *)
DryRunReaches ==
  \A d \in dataset :
    /\ served = {} => \A net \in DOMAIN d.networks : \A a, b \in d.networks[net] :
         SelectorsCanOverlap(a.match, b.match) =>
           \A sim \in SyntheticSims(net, a.match, b.match) :
             ProfileHolds(a, sim) /\ ProfileHolds(b, sim)
    /\ \A s \in served :
         /\ \A a, b \in ToSet(s.stack) : SelectorsCanOverlap(a.match, b.match)
         /\ CountStack(ToSet(s.stack)) # s.stack =>
              \E pair \in Flipped(d.networks[NetOf(s.sim)], NetOf(s.sim)) :
                pair \subseteq ToSet(s.stack)

GoogleBundle(d, fill) ==
  LET entry == UNION {DOMAIN d.lane[e] : e \in fill}
  IN  [k \in entry \union DOMAIN DefaultOf(d.lane) |->
         IF k \in entry THEN d.lane[CHOOSE e \in fill : TRUE][k] ELSE DefaultOf(d.lane)[k]]

ItemsOf(d, owner, key) ==
  {i \in d.items : i.key = key /\ i.value = owner.values[key] /\ i.profile = owner.id}

(* The key left group A, the value waits, its basis is not recorded, or     *)
(* reads of it for this profile, made under the match set it is published  *)
(* with, speak for every family behind it, and none lets a value through   *)
(* that the evidence index flags.                                          *)
Accounted(d, owner, key) ==
  \/ key \in d.left
  \/ \E c \in d.pending \union d.unrecorded :
       c.key = key /\ c.value = owner.values[key] /\ c.profile = owner.id
  \/ /\ FamiliesOf(owner, key) # {}
     /\ \A f \in FamiliesOf(owner, key) : \E i \in ItemsOf(d, owner, key), r \in reads :
          /\ i.family = f /\ r.verdict = i.verdict
          /\ r.key = key /\ r.value = owner.values[key] /\ f \in r.families
          /\ owner.id \in DOMAIN r.hashes /\ r.hashes[owner.id] = owner.match
          /\ r.verdict = "proceed" => <<owner.id, key>> \notin d.tree.unapplied

(* The report of what the reads act on holds this SIM's bundle.             *)
Shown(d, stack, net, fill, key) ==
  \E b \in Reach(d.networks, d.lane, d.items) :
    /\ b.key = key /\ b.owner = CarrierOf(stack, key).id
    /\ b.net = net /\ b.profile = Last(stack).id /\ b.entry = fill

(* A SIM with no profile beyond its serving profile's certain stack gets no *)
(* group A value unseen: one that differs from its Google bundle is         *)
(* accounted for, and where a read lets it through, a reader is shown that  *)
(* it reaches this SIM's bundle.                                           *)
EveryDifferenceIsRead ==
  \A d \in dataset, s \in served :
    LET net == NetOf(s.sim)
        fill == PickFill(Last(s.stack).fill, s.sim, DOMAIN d.lane)
        owner(key) == CarrierOf(s.stack, key)
    IN  s.stack # <<>> /\ s.stack = ProfileStack(d.networks[net], Last(s.stack), net) =>
          \A key \in CarriedKeys(s.stack, Keys) :
            ~ States(GoogleBundle(d, fill), key, owner(key).values[key]) =>
              /\ Accounted(d, owner(key), key)
              /\ (\E i \in ItemsOf(d, owner(key), key) : i.verdict = "proceed") =>
                   Shown(d, s.stack, net, fill, key)

Rival(d, p, q) ==
  /\ \E x \in d.tree.profiles : x.id = q.id
  /\ Lookup!Dimensions(q.match) = Lookup!Dimensions(p.match)
  /\ \E e, f \in d.tree.table.entries : e # f /\ p.id \in e.selectors /\ q.id \in f.selectors

KnownByNetwork(p, sim) ==
  /\ Lookup!Selectors(p.match) \subseteq {"android_carrier_ids"}
  /\ \A id \in sim.android_carrier_ids : Lookup!NetworkRule(id, NetOf(sim))

BrandsOwnState(d, answer) ==
  /\ answer.brands = {}
  /\ \A s \in d.tree.statements : s.id \in answer.statements => s.scope = "brand"

LongerByWildcards(match, other) ==
  \E x \in match.imsi_prefix_patterns, y \in other.imsi_prefix_patterns :
    /\ Lookup!ImsiImplies(x, y) /\ Len(x) > Len(y)
    /\ Lookup!FixedLength("imsi_prefix_patterns", x) = Lookup!FixedLength("imsi_prefix_patterns", y)

(* Where a narrower profile is the one that serves, as brand_alone takes it *)
(* to be (two_answers.py:252-262).  It may not be where a selector has      *)
(* several values, of which the order counts the shortest, or where a       *)
(* pattern is longer by wildcards alone, which it does not count.  And for  *)
(* rules_overlap two rules do not overlap on different carrier IDs, of      *)
(* which a SIM can have both, nor on texts that Java alone takes for one.   *)
NarrowerServes(p, q) ==
  /\ OneValued(p) /\ OneValued(q)
  /\ ~LongerByWildcards(q.match, p.match)
  /\ p.match.android_carrier_ids = q.match.android_carrier_ids
  /\ PlainTexts(p.match) /\ PlainTexts(q.match)

(* A brand speaks for no SIM that may be another's.  A SIM told a brand's   *)
(* own state is in no other entry's rule on the same selectors but a wider  *)
(* one, where a narrower profile would serve it: not if either has several  *)
(* values for a selector, if the other's IMSI pattern is longer by          *)
(* wildcards alone, on different carrier IDs, or on texts that casefold and *)
(* Java compare differently.  Where a brand rides that OCD cannot tell      *)
(* apart, no SIM known only by Android's rule for the network is told one,  *)
(* if the profile has one carrier ID at most.                              *)
BrandsSpeakForTheirOwn ==
  \A d \in dataset, s \in served :
    (\E c \in DOMAIN s.for_you : BrandsOwnState(d, s.for_you[c])) =>
      LET p == Last(s.stack)
      IN  /\ \A q \in ToSet(s.stack) :
               NarrowerServes(p, q) /\ Rival(d, p, q) => Lookup!RuleImplies(p.match, q.match)
          /\ KnownByNetwork(p, s.sim) /\ Cardinality(p.match.android_carrier_ids) <= 1
               => Lookup!HostOnlyOn(d.tree.table, {NetOf(s.sim)}) = {}

=============================================================================
