----------------------------- MODULE TwoAnswers -----------------------------
(***************************************************************************)
(* tools/two_answers.py: the maps beside a profile's capabilities.         *)
(* depends_on says why a conditional one has no single value; for_you says *)
(* whether this customer has the feature, as brands and networks state it. *)
(*                                                                         *)
(* A table is the carrier-identity table with the regulator rows: entries  *)
(* [key, selectors, host_networks, host_only, host_only_networks], the     *)
(* last at most one set, and holders, networks to operators.               *)
(***************************************************************************)
EXTENDS CarrierResolver

CapabilityOfService ==
  [mms |-> "mms", volte |-> "volte", vonr |-> "vonr", wifi_calling |-> "vowifi",
   wifi_calling_abroad |-> "wifi_calling_roaming", esim |-> "esim"]

StateOfStatus ==
  [ended |-> "ended", not_offered |-> "not_offered", offered |-> "depends_on_plan",
   included |-> "included", free_option |-> "free_option", paid_option |-> "paid_option"]

-----------------------------------------------------------------------------
(* depends_on.                                                             *)

DeviceReasons(records) ==
  {reason \in {"device", "firmware"} :
     \E x, y \in records :
       /\ x.state # y.state
       /\ \/ reason = "device" /\ x.stack = y.stack
          \/ reason = "firmware" /\ x.devices \intersect y.devices # {}}

(* conflicts has the capabilities whose source families disagree, variants  *)
(* the device records by capability.                                       *)
DependsOn(capabilities, conflicts, variants) ==
  [key \in {k \in DOMAIN capabilities : capabilities[k] = "conditional"} |->
     LET recorded == IF key \in DOMAIN variants THEN DeviceReasons(variants[key]) ELSE {}
     IN  IF key \in conflicts \/ recorded = {}
         THEN recorded \union {"sources_disagree"} ELSE recorded]

-----------------------------------------------------------------------------
(* Who a profile's SIMs belong to.                                         *)

LiveStatements(statements) ==
  {s \in statements : ~s.lapsed /\ s.status \in DOMAIN StateOfStatus
                                /\ s.service \in DOMAIN CapabilityOfService}

(* Android has a rule for this carrier ID on the network code alone.        *)
NetworkRule(id, net) ==
  <<id, net>> \in DOMAIN CarrierIdTable /\ {"mccmnc"} \in CarrierIdTable[<<id, net>>]

Listing(table, p) == {e \in table.entries : p.id \in e.selectors}

HostOnlyNetworks(entry) ==
  IF entry.host_only_networks # {} THEN UNION entry.host_only_networks
  ELSE IF entry.host_only THEN entry.host_networks ELSE {}

HostOnlyOn(table, codes) == {e \in table.entries : codes \intersect HostOnlyNetworks(e) # {}}

(* The operator that holds all of these codes, if one does.                 *)
OneOperator(table, codes) ==
  {operator \in Range(table.holders) :
     \A c \in codes : c \in DOMAIN table.holders /\ table.holders[c] = operator}

Reaches(table, statement, codes) ==
  \/ codes \subseteq statement.codes
  \/ /\ Cardinality(codes) > 1 /\ statement.codes \intersect codes # {}
     /\ OneOperator(table, codes) # {}

Selectors(match) == Dimensions(match) \intersect SelectorKeys

PlainLike(match) ==
  /\ Selectors(match) = {"android_carrier_ids"}
  /\ \A id \in match.android_carrier_ids : \E net \in match.mccmnc : NetworkRule(id, net)

Plain(match) == Selectors(match) = {} \/ PlainLike(match)

Hosts(table, p) ==
  IF PlainLike(p.match)
  THEN {e \in table.entries : e.key \in OneOperator(table, p.match.mccmnc)}
  ELSE Listing(table, p)

(* Another entry's rule on the same selectors shares SIMs and is neither    *)
(* narrower nor wider.                                                     *)
Crosses(rule, match) ==
  /\ RulesOverlap(rule, match)
  /\ ~RuleImplies(rule, match) /\ ~RuleImplies(match, rule)
  /\ Dimensions(rule) = Dimensions(match)

(* Mutant: a profile that one entry lists is that brand's.                  *)
BrandByListing(table, profiles, p) ==
  {e \in Listing(table, p) : Listing(table, p) = {e} /\ ~Plain(p.match)}

BrandAlone(table, profiles, p) ==
  {e \in Listing(table, p) :
     /\ Listing(table, p) = {e} /\ ~Plain(p.match)
     /\ \A other \in table.entries \ {e}, q \in profiles :
          q.id \in other.selectors => ~Crosses(q.match, p.match)}

-----------------------------------------------------------------------------
(* for_you.                                                                *)

Answer(state, statements, brands) ==
  [state |-> state, statements |-> {s.id : s \in statements}, brands |-> brands]

(* The answer of statements that agree on a state.                          *)
Agreed(statements) ==
  LET states == {StateOfStatus[s.status] : s \in statements}
  IN  {Answer(state, statements, {}) : state \in {x \in states : states = {x}}}

(* At most one answer, from the statements about one capability.  brands    *)
(* names those behind brand_not_tellable; an answer without it has none.   *)
AnswerFrom(about, riding, hosts, brand) ==
  LET network == {s \in about : s.scope = "network"}
      keys    == {e.key : e \in riding \union hosts}
      behind  == {s \in about : s.brand \in keys}
      own     == {s \in about : ~s.host_only /\ \E e \in brand : s.brand = e.key}
  IN  CASE network # {} -> Agreed(network)
        [] network = {} /\ riding # {} -> {Answer("depends_on_plan", behind, keys) : s \in behind}
        [] OTHER -> Agreed(own)

ForYou(statements, table, profiles, p) ==
  LET reaching == {s \in LiveStatements(statements) : Reaches(table, s, p.match.mccmnc)}
      plain    == Plain(p.match)
      riding   == IF plain THEN HostOnlyOn(table, p.match.mccmnc) ELSE {}
      hosts    == IF plain THEN Hosts(table, p) ELSE {}
      brand    == BrandAlone(table, profiles, p)
      From(c)  == AnswerFrom({s \in reaching : CapabilityOfService[s.service] = c},
                             riding, hosts, brand)
      stated   == {CapabilityOfService[s.service] : s \in reaching}
  IN  [c \in {x \in stated : From(x) # {}} |-> CHOOSE answer \in From(c) : TRUE]

-----------------------------------------------------------------------------
(* derive, and what check asks of the profile files.                       *)

Part(f, id, default) == IF id \in DOMAIN f THEN f[id] ELSE default

NoEvidence == [basis |-> "none", conflicts |-> {}]

NoAnswers == [depends_on |-> <<>>, for_you |-> <<>>]

(* s has profiles, evidence, variants, statements and table.                *)
Derived(s) ==
  LET Both(p) == [depends_on |-> DependsOn(p.capabilities, Part(s.evidence, p.id, NoEvidence).conflicts,
                                           Part(s.variants, p.id, <<>>)),
                  for_you |-> ForYou(s.statements, s.table, s.profiles, p)]
      all == {<<p.id, Both(p)>> : p \in s.profiles}
      some == {pair \in all : pair[2] # NoAnswers}
  IN  [id \in {pair[1] : pair \in some} |-> (CHOOSE pair \in some : pair[1] = id)[2]]

(* Mutant: an answer passes whose statements stand.                         *)
StatementsStand(s) ==
  \A id \in DOMAIN s.written : \A c \in DOMAIN s.written[id].for_you :
    s.written[id].for_you[c].statements \subseteq {x.id : x \in LiveStatements(s.statements)}

(* What the profile files carry is what derive gives, once any carries it.  *)
TreeHolds(s) == s.written # <<>> => s.written = Derived(s)

(* Against the base: the maps do not vanish, and a profile whose maps       *)
(* changed on the same evidence keeps its capabilities.                    *)
BaseHolds(base, s) ==
  LET Same(f, id, none) == Part(base[f], id, none) = Part(s[f], id, none)
  IN  /\ base.written # <<>> => s.written # <<>>
      /\ \A old \in base.profiles, new \in s.profiles :
           /\ old.id = new.id
           /\ ~Same("written", new.id, NoAnswers) /\ Same("evidence", new.id, NoEvidence)
           => old.capabilities = new.capabilities

=============================================================================
