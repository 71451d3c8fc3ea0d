--------------------------- MODULE MCRegistryGate ---------------------------
(***************************************************************************)
(* Two questions of the registry in one run.  What do the relations of     *)
(* MatchRules and ProfileTree mean, for the SIMs of a small population:    *)
(* any three match sets, a retired one and two of a new tree.  And does    *)
(* RegistryGate keep its ledger, from every registry tree of three IDs and *)
(* three match sets, two of them spellings of one set of SIMs.  The hashes *)
(* of those three collide, so an ID can be the first counter of one match  *)
(* set and the second of another.                                          *)
(***************************************************************************)
EXTENDS RegistryGate, MatchMeaning

MCChars == {"1", "2", "a", "A", "x", "X"}

MCFold == [c \in MCChars |-> CASE c = "A" -> "a" [] c = "X" -> "x" [] OTHER -> c]

MCRule(networks, gid1, imsi, spn, ids) ==
  [key \in MatchKeys |->
     CASE key = "mccmnc" -> networks
       [] key = "gid1_prefixes" -> gid1
       [] key = "imsi_prefix_patterns" -> imsi
       [] key = "spn" -> spn
       [] key = "android_carrier_ids" -> ids
       [] OTHER -> {}]

MCRules ==
  LET N1 == {<<"1">>}
      N2 == {<<"1">>, <<"2">>}
  IN  [plain  |-> MCRule(N1, {}, {}, {}, {}),
       wide   |-> MCRule(N2, {}, {}, {}, {}),
       gid    |-> MCRule(N1, {<<"1">>}, {}, {}, {}),
       gid2   |-> MCRule(N1, {<<"2">>}, {}, {}, {}),
       gidA   |-> MCRule(N1, {<<"1", "A">>}, {}, {}, {}),
       gida   |-> MCRule(N1, {<<"1", "a">>}, {}, {}, {}),
       gids   |-> MCRule(N1, {<<"1", "A">>, <<"2">>}, {}, {}, {}),
       imsi   |-> MCRule(N1, {}, {<<"1", "x">>}, {}, {}),
       imsiX  |-> MCRule(N1, {}, {<<"X", "2">>}, {}, {}),
       imsi12 |-> MCRule(N1, {}, {<<"1", "2">>}, {}, {}),
       imsi1  |-> MCRule(N1, {}, {<<"1">>}, {}, {}),
       spnA   |-> MCRule(N1, {}, {}, {<<"A">>}, {}),
       spna   |-> MCRule(N1, {}, {}, {<<"a">>}, {}),
       both   |-> MCRule(N2, {<<"1">>}, {}, {<<"a">>}, {}),
       id1    |-> MCRule(N1, {}, {}, {}, {1}),
       id2    |-> MCRule(N1, {}, {}, {}, {2}),
       id12   |-> MCRule(N1, {<<"2">>}, {}, {}, {1, 2})]

MCDigits == {"1", "2"}

MCSims ==
  [mccmnc : {{<<"1">>}, {<<"2">>}},
   gid1_prefixes : {{}, {<<"1", "a">>}, {<<"1", "2">>}, {<<"2", "A">>}},
   gid2_prefixes : {{}},
   iccid_prefixes : {{}},
   imsi_prefix_patterns : {{}, {<<"1", "2", "1">>}, {<<"1", "1", "2">>}, {<<"2", "2", "2">>}},
   spn : {{}, {<<"a">>}, {<<"A">>}, {<<"1">>}},
   android_carrier_ids : {{}, {1}, {2}, {1, 2}}]

GateMatches == {"gidA", "spnA", "spna"}

MCHash ==
  [m \in Matches |-> [c \in Counters |->
     CASE <<m, c>> \in {<<"spnA", 0>>, <<"gidA", 1>>} -> "idA"
       [] <<m, c>> \in {<<"spna", 0>>, <<"spnA", 1>>} -> "idB"
       [] OTHER -> "idC"]]

(* What a tree may say of one ID.                                          *)
Absent == [match |-> "none", basis |-> "none", retired |-> FALSE, on |-> 0]

Records ==
  {Absent}
    \union [match : GateMatches, basis : {"none"} \union ContinuedBases, retired : {FALSE}, on : {0}]
    \union [match : {"spnA"}, basis : {"none"}, retired : {TRUE}, on : {0, 1}]

TreeOf(record) ==
  LET live == {id \in Ids : record[id].match # "none" /\ ~record[id].retired}
  IN  [live      |-> [id \in live |-> record[id].match],
       aliases   |-> [id \in {i \in Ids : record[i].retired} |->
                        [kind |-> "withdrawn", to |-> {}, match |-> record[id].match,
                         day |-> record[id].on]],
       continued |-> [id \in {i \in live : record[i].basis # "none"} |->
                        [basis |-> record[id].basis,
                         hash  |-> MatchSetHash(record[id].match),
                         from  |-> MatchSetHash("spnA")]]]

MCTrees == {tree \in {TreeOf(record) : record \in [Ids -> Records]} : TreeValid(tree)}

-----------------------------------------------------------------------------
(* Trees with the relations at rest, and relations with an empty tree.     *)

AtRest == old = "plain" /\ first = "plain" /\ second = "plain"

MCInit ==
  \/ main \in MCTrees /\ GateInit /\ AtRest
  \/ main = TreeOf([id \in Ids |-> Absent]) /\ SurveyInit

MCLand ==
  /\ AtRest
  /\ \E tree \in MCTrees : main' = tree /\ GateLand
  /\ UNCHANGED <<old, first, second>>

MCRetire == ~AtRest /\ Retire /\ UNCHANGED main

MCNext == MCLand \/ MCRetire

MCSpec == MCInit /\ [][MCNext]_<<main, old, first, second>>

=============================================================================
