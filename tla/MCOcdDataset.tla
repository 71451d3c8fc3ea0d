---------------------------- MODULE MCOcdDataset ----------------------------
(* Small instances of OcdDataset.  A text is a sequence of characters; in   *)
(* an IMSI the network's own digits, the same in every SIM of it, are left  *)
(* out, and 0 and 1 stand for all digits.                                  *)
EXTENDS OcdDataset

MCChars == {"0", "1", "x", "a", "A", "i", "dotless"}

(* casefold keeps a dotless i; Java takes it for an i.                      *)
MCFold == [c \in MCChars |-> IF c = "A" THEN "a" ELSE c]
MCJavaFold == [c \in MCChars |-> CASE c = "A" -> "a" [] c = "dotless" -> "i" [] OTHER -> c]
MCWildcards == {"x"}

(* Carrier ID 6 has the network's rule, 7 two narrower ones, 8 and 9 none.  *)
MCAospRules ==
  <<6, "n1">> :> {{"mccmnc"}} @@
  <<7, "n1">> :> {{"mccmnc", "gid1"}, {"mccmnc", "imsi_prefix_xpattern"}}

a == <<"a">>
A == <<"A">>
aA == <<"a", "A">>
i == <<"i">>
dotless == <<"dotless">>
d0 == <<"0">>
d00 == <<"0", "0">>
d01 == <<"0", "1">>
dx == <<"0", "x">>
xd == <<"x", "0">>

Match(changes) == changes @@ [EmptyMatch EXCEPT !.mccmnc = {"n1"}]

Blank == [id |-> 0, kind |-> "ocd", name |-> i, match |-> Match(<<>>), values |-> <<>>,
          sources |-> <<>>, apns |-> {}, fill |-> <<>>, capabilities |-> <<>>]

Profile(id, match) == [Blank EXCEPT !.id = id, !.match = match]

Sim(changes) ==
  changes @@ [mccmnc |-> {"n1"}, android_carrier_ids |-> {}, spn |-> {}, gid1_prefixes |-> {},
              gid2_prefixes |-> {}, iccid_prefixes |-> {}, imsi_prefix_patterns |-> {<<"0", "0", "1">>}]

Sims ==
  {Sim(<<>>), Sim([spn |-> {a}]), Sim([spn |-> {i}]), Sim([spn |-> {A}, gid1_prefixes |-> {aA}]),
   Sim([spn |-> {a}, gid1_prefixes |-> {i}]), Sim([gid1_prefixes |-> {a}]),
   Sim([imsi_prefix_patterns |-> {<<"0", "1", "0">>}]),
   Sim([iccid_prefixes |-> {<<"0", "0", "0", "1">>}, spn |-> {a}]),
   Sim([iccid_prefixes |-> {<<"1", "0", "0", "1">>}]),
   Sim([android_carrier_ids |-> {7}, gid1_prefixes |-> {a}]),
   Sim([android_carrier_ids |-> {8, 9}, spn |-> {a}]),
   Sim([mccmnc |-> {"n2"}, spn |-> {a}])}

Source(profiles, rules, lane) ==
  [profiles |-> profiles, rules |-> rules, lane |-> lane, unapplied |-> {}, written |-> <<>>,
   evidence |-> <<>>, variants |-> <<>>, statements |-> {},
   table |-> [entries |-> {}, holders |-> <<>>]]

Static(source_) ==
  [source |-> source_, revisions |-> {}, flags |-> {}, lapses |-> {}, values |-> {},
   key_reads |-> {}, reads |-> 0, sims |-> Sims]

-----------------------------------------------------------------------------
(* Orders: any three of these profiles.                                     *)

OrderMatches ==
  <<Match(<<>>), Match([spn |-> {a}]), Match([spn |-> {A, i}]), Match([spn |-> {dotless}]),
    Match([imsi_prefix_patterns |-> {dx}]), Match([imsi_prefix_patterns |-> {d00, d01}]),
    Match([gid1_prefixes |-> {a}]), Match([gid1_prefixes |-> {aA}, spn |-> {a}]),
    Match([android_carrier_ids |-> {7}]), Match([android_carrier_ids |-> {8}]),
    Match([android_carrier_ids |-> {7, 8}, gid1_prefixes |-> {a}]),
    Match([iccid_prefixes |-> {d0}]), Match([mccmnc |-> {"n1", "n2"}, spn |-> {a}])>>

Orders ==
  {Static(Source({[Profile(n, OrderMatches[n]) EXCEPT !.values = ("k" :> n)] : n \in ns}, <<>>, <<>>)) :
     ns \in {s \in SUBSET (DOMAIN OrderMatches) : Cardinality(s) = 3}}

-----------------------------------------------------------------------------
(* Fills: one profile and the rules of its network.                         *)

Rule(entry, mvno) == [net |-> "n1", entry |-> entry, name |-> a, mvno |-> mvno]

Rules ==
  {Rule("e1", {<<"spn", a>>}), Rule("e2", {<<"spn", A>>}), Rule("e3", {<<"imsi_prefix_patterns", d0>>}),
   Rule("e4", {<<"imsi_prefix_patterns", d01>>}), Rule("e5", {<<"gid1_prefixes", a>>}),
   Rule("e6", {<<"gid1_prefixes", aA>>}), Rule("e7", {<<"iccid_prefixes", d00>>})}

NetworkRule == Rule("e0", {})

Lists == {<<r1, r2>> : r1, r2 \in Rules} \union {<<r, NetworkRule>> : r \in Rules}

Entries(rules) == [e \in {"default"} \union {rules[n].entry : n \in DOMAIN rules} |-> <<>>]

FillMatches ==
  {Match([spn |-> {a, i}]), Match([imsi_prefix_patterns |-> {d0}]),
   Match([imsi_prefix_patterns |-> {dx}, gid1_prefixes |-> {a}]), Match([gid1_prefixes |-> {aA, i}]),
   Match([iccid_prefixes |-> {d0}])}

Fills ==
  {Static(Source({[Profile(1, m) EXCEPT !.name = a]}, rules, Entries(rules))) :
     m \in FillMatches, rules \in Lists}

-----------------------------------------------------------------------------
(* Ties: two profiles that only the profile ID puts apart.                  *)

d11 == <<"1", "1">>
d10 == <<"1", "0">>
p == <<"p">>
q == <<"q">>

TiePairs ==
  {<<Match([spn |-> {a}]), Match([spn |-> {A}])>>,
   <<Match([spn |-> {a, i}]), Match([spn |-> {a, A}])>>,
   <<Match([spn |-> {a, i}, gid1_prefixes |-> {a}]), Match([spn |-> {a}, gid1_prefixes |-> {a, i}])>>,
   <<Match([imsi_prefix_patterns |-> {dx}]), Match([imsi_prefix_patterns |-> {xd}])>>,
   <<Match([android_carrier_ids |-> {8}]), Match([android_carrier_ids |-> {9}])>>,
   <<Match([iccid_prefixes |-> {d0, d11}]), Match([iccid_prefixes |-> {d0, d10}])>>,
   <<Match([mccmnc |-> {"n1", "n2"}, spn |-> {a}]), Match([mccmnc |-> {"n2", "n3"}, spn |-> {a}])>>}

Pair(matches, values, apns) ==
  {[Profile(n, matches[n]) EXCEPT !.name = IF n = 1 THEN a ELSE i,
                                  !.values = values[n], !.apns = apns[n]] : n \in 1..2}

Values == {<<>>} \union {"k" :> n : n \in 1..2}

PairValues == {<<"k" :> 1, v>> : v \in Values}

PairApns == ({{}, {p}, {p, q}} \X {{}, {p}, {q}})

TieRules ==
  {<<>>} \union {<<r, Rule("e5", {<<"gid1_prefixes", a>>})>> :
                   r \in {Rule("e1", {<<"spn", a>>}), Rule("e3", {<<"imsi_prefix_patterns", d00>>}),
                          Rule("e7", {<<"iccid_prefixes", d00>>})}}

Ties ==
  {Static(Source(Pair(m, v, <<{}, {}>>), rules, Entries(rules))) :
     m \in TiePairs, v \in PairValues, rules \in TieRules}
  \union {Static(Source(Pair(m, <<<<>>, <<>>>>, x), <<>>, <<>>)) : m \in TiePairs, x \in PairApns}

-----------------------------------------------------------------------------
(* Reads: a profile with two group A values, and one that stands on it.     *)

Base(match, value, families) ==
  [Profile(1, match) EXCEPT !.values = [emergency |-> value, named |-> "v1"],
     !.sources = [emergency |-> families, named |-> {}]]

Upper(values) ==
  [Profile(2, Match([spn |-> {a}, gid1_prefixes |-> {a}])) EXCEPT !.values = values,
     !.sources = [key \in DOMAIN values |-> {"f1"}]]

SpnA == Match([spn |-> {a}])
SpnAI == Match([spn |-> {a, i}])

Lanes ==
  {[default |-> lane[1], e1 |-> lane[2], e5 |-> <<>>] :
     lane \in {<<<<>>, "emergency" :> "v1">>, <<"emergency" :> "v1", <<>>>>,
               <<"emergency" :> "v1", "emergency" :> "v2">>}}

ReadRules == <<Rule("e5", {<<"gid1_prefixes", a>>}), Rule("e1", {<<"spn", a>>})>>

ReadSims ==
  {Sim([spn |-> {a}]), Sim([spn |-> {i}]), Sim([spn |-> {a}, gid1_prefixes |-> {a}])}

Reading(room, source_, revisions) ==
  [Static(source_) EXCEPT !.revisions = revisions, !.flags = {<<1, "emergency">>},
     !.values = {"v1", "v2"}, !.key_reads = {"emergency"}, !.reads = room, !.sims = ReadSims]

Reads ==
  {Reading(1, Source({Base(SpnA, "v1", {"f1", "f2"}), Upper(v)}, ReadRules, lane),
           {Base(SpnAI, "v1", {"f1", "f2"}), Base(SpnA, "v1", {"f1"})}) :
     v \in {<<>>, "emergency" :> "v2"}, lane \in Lanes}
  \union
  {[Reading(2, Source({Base(SpnA, "v1", {"f1"}), Upper(<<>>)}, ReadRules, Entries(ReadRules)),
           {Base(SpnA, "v1", {"f1", "f2"}), Base(SpnAI, "v1", {"f1"})})
     EXCEPT !.key_reads = {}]}

-----------------------------------------------------------------------------
(* Brands: two profiles of two brands, a network-wide statement that may    *)
(* lapse, and a third brand that may ride on n1.                           *)

Entry(key, selectors, host_only) ==
  [key |-> key, selectors |-> selectors, host_networks |-> {"n1"}, host_only |-> host_only,
   host_only_networks |-> {}]

Statement(id, scope, brand, service, status, codes) ==
  [id |-> id, scope |-> scope, brand |-> brand, service |-> service, status |-> status,
   codes |-> codes, lapsed |-> FALSE, host_only |-> brand = "rider"]

Statements ==
  {Statement("s1", "brand", "b1", "volte", "included", {"n1"}),
   Statement("s2", "brand", "b2", "volte", "paid_option", {"n1"}),
   Statement("s3", "brand", "rider", "volte", "offered", {"n1"}),
   Statement("s4", "network", "none", "volte", "ended", {"n1"})}

Tables ==
  {[entries |-> {Entry("b1", {1}, FALSE), Entry("b2", {2}, FALSE)} \union riding,
    holders |-> [n \in {"n1", "n2"} |-> "b1"]] :
     riding \in {{}, {Entry("rider", {}, TRUE)},
                 {[Entry("rider", {}, FALSE) EXCEPT !.host_only_networks = {{"n1"}}]}}}

BrandMatches ==
  <<Match([imsi_prefix_patterns |-> {dx}]), Match([imsi_prefix_patterns |-> {xd}]),
   Match([imsi_prefix_patterns |-> {d00}]), Match([gid1_prefixes |-> {a}]),
   Match([android_carrier_ids |-> {6}]), Match([mccmnc |-> {"n1", "n2"}, android_carrier_ids |-> {6}]),
   Match(<<>>),
   Match([imsi_prefix_patterns |-> {d0}]), Match([android_carrier_ids |-> {8}]),
   Match([android_carrier_ids |-> {9}]), Match([android_carrier_ids |-> {6, 8}]),
   Match([gid1_prefixes |-> {<<"0">>, <<"1", "0">>, <<"1", "1">>}]),
   Match([gid1_prefixes |-> {<<"0">>, <<"1">>}]), Match([spn |-> {i}]), Match([spn |-> {dotless}])>>

(* The last pairs are those that brand_alone misjudges: a pattern longer by *)
(* a wildcard, carrier IDs that one SIM has both of, a carrier ID with the  *)
(* network's rule beside one without, a list whose shortest text is that of *)
(* a wider one, and texts that Java alone takes for one.                   *)
BrandPairs ==
  {x \in (1..7) \X (1..7) : x[1] < x[2]} \union {<<1, 8>>, <<9, 10>>, <<7, 11>>, <<12, 13>>, <<14, 15>>}

Stated(id, match, volte) == [Profile(id, match) EXCEPT !.capabilities = "volte" :> volte]

BrandSims ==
  {Sim(<<>>), Sim([imsi_prefix_patterns |-> {<<"0", "1", "0">>}]), Sim([gid1_prefixes |-> {aA}]),
   Sim([android_carrier_ids |-> {6}]), Sim([mccmnc |-> {"n2"}, android_carrier_ids |-> {6}]),
   Sim([android_carrier_ids |-> {8, 9}]), Sim([gid1_prefixes |-> {<<"1", "0">>}]),
   Sim([spn |-> {i}])}

Disputed ==
  [state : {"on", "off"}, stack : {"maker"}, devices : {{"d1"}}]

Brands ==
  {[Static([Source({Stated(1, BrandMatches[pair[1]], "supported"),
                    Stated(2, BrandMatches[pair[2]], "conditional")}, <<>>, <<>>)
              EXCEPT !.statements = Statements, !.table = table,
                     !.variants = 2 :> ("volte" :> Disputed)])
      EXCEPT !.revisions = {Stated(2, Match([imsi_prefix_patterns |-> {xd}]), "supported")},
             !.lapses = {"s4"}, !.sims = BrandSims] :
     pair \in BrandPairs, table \in Tables}

MCInputs == Orders \union Fills \union Ties \union Reads \union Brands

=============================================================================
