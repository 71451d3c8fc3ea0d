---------------------------- MODULE MCProfileIds ----------------------------
(* Small instances of ProfileIds: match sets of one network, told apart by *)
(* GID1 prefixes and SPN spellings.                                        *)
EXTENDS ProfileIds

MCChars == {"1", "2", "a", "A", "x"}

MCFold == [c \in MCChars |-> IF c = "A" THEN "a" ELSE c]

MCRule(gid1, spn) ==
  [key \in MatchKeys |->
     CASE key = "mccmnc" -> {<<"1">>}
       [] key = "gid1_prefixes" -> gid1
       [] key = "spn" -> spn
       [] OTHER -> {}]

(* The test suite's match sets: PLAIN, GID_11, GID_22, GID_BOTH, SPN_UPPER *)
(* and SPN_LOWER, and two more.                                            *)
MCRules ==
  [plain |-> MCRule({}, {}),
   gid1  |-> MCRule({<<"1", "1">>}, {}),
   gid2  |-> MCRule({<<"2", "2">>}, {}),
   clash |-> MCRule({<<"2", "1">>}, {}),
   both  |-> MCRule({<<"1", "1">>, <<"2", "2">>}, {}),
   wide  |-> MCRule({}, {<<"A">>, <<"2">>}),
   upper |-> MCRule({}, {<<"A">>}),
   lower |-> MCRule({}, {<<"a">>})]

MCIds == Matches \X Counters

(* One hash collision: the clash match set hashes to the ID of gid1.       *)
MCHash ==
  [m \in Matches |-> [c \in Counters |->
     IF <<m, c>> = <<"clash", 0>> THEN <<"gid1", 0>> ELSE <<m, c>>]]

MCStarts == {EmptyTree}

AnyYield == (SUBSET Matches) \ {{}}

(* Builds that never write the same SIMs twice.                            *)
PlainYield ==
  {S \in AnyYield : \A m, n \in S : KeyOf[m] = KeyOf[n] => m = n}

=============================================================================
