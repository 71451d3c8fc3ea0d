-------------------------- MODULE MCObservedReports --------------------------
(* Four reports: t1 shares its cell with t2 and its place with t3; t4,      *)
(* which a plausibility check flags, shares nothing.  A report is held for  *)
(* a day, expires after one, and one counts in a month of two days.  r1,    *)
(* r2 and r3 have findings about one profile, r2 and r3 the same.           *)
EXTENDS SourceReviews

VARIABLE scenario

MCTexts == {"t1", "t2", "t3", "t4", "r1", "r2", "r3"}

MCCell == [t \in MCTexts |-> CASE t \in {"t1", "t2"} -> "c1" [] t = "t3" -> "c2" [] OTHER -> t]

MCPlace == [t \in MCTexts |-> CASE t \in {"t1", "t3"} -> "p1" [] t = "t2" -> "p2" [] OTHER -> t]

MCTestedOn == [t \in MCTexts |-> IF t \in {"t1", "t3", "r2", "r3"} THEN 1 ELSE 0]

MCProfile == [t \in MCTexts |-> IF t \in {"r1", "r2", "r3"} THEN "p" ELSE "none"]

MCDevice == [t \in MCTexts |-> IF t = "r3" THEN "r2" ELSE t]

Switch(feature, value) == [kind |-> "switch", feature |-> feature, value |-> value]

Apn(name, types) == [kind |-> "apn", name |-> name, types |-> types]

Tested(entry, ocd, result, reason) ==
  [entry |-> entry, ocd |-> ocd, result |-> result, reason |-> reason, restored |-> TRUE]

(* All find that a switch of OCD fails and its other value passes; r1 the   *)
(* same of an APN row, and the others have failures that open no review.    *)
MCResults ==
  [t \in MCTexts |->
     CASE t = "r1" -> {Tested(Switch("vowifi", "on"), TRUE, "failed", "no_call"),
                       Tested(Switch("vowifi", "off"), FALSE, "service_off", "none"),
                       Tested(Apn("a", {"default", "mms"}), TRUE, "failed", "no_data"),
                       Tested(Apn("b", {"mms"}), TRUE, "works", "none")}
       [] t \in {"r2", "r3"} -> {Tested(Switch("vowifi", "on"), TRUE, "failed", "no_call"),
                       Tested(Switch("vowifi", "off"), FALSE, "works", "none"),
                       Tested(Switch("volte", "on"), TRUE, "failed", "revert_not_proven"),
                       Tested(Switch("volte", "off"), FALSE, "works", "none"),
                       Tested(Apn("a", {"default"}), TRUE, "failed", "no_data"),
                       Tested(Apn("b", {"mms"}), TRUE, "works", "none")}
       [] OTHER -> {}]

(* Two accounts that only submit.                                           *)
Two ==
  [accounts |-> {"a", "b"}, texts |-> {"t1", "t2", "t3", "t4"}, issues |-> 2, moves |-> 0, days |-> 2]

(* One account with every kind of report that filters can order.            *)
Many == [accounts |-> {"a"}, texts |-> {"t1", "t2", "t3"}, issues |-> 3, moves |-> 0, days |-> 2]

(* One account whose issues change under the job.                           *)
Changing == [accounts |-> {"a"}, texts |-> {"t1", "t4"}, issues |-> 2, moves |-> 2, days |-> 1]

(* Two accounts with findings, and maintainers who close their reviews.     *)
Reviewing ==
  [accounts |-> {"a", "b"}, texts |-> {"r1", "r2", "r3"}, issues |-> 2, moves |-> 2, days |-> 2]

MCInit ==
  /\ scenario \in {Two, Many, Changing, Reviewing}
  /\ ReviewInit

(* Only the last scenario runs the job of source reviews: there the moves   *)
(* are about reviews alone; the accounts differ in nothing, nor do the      *)
(* findings of r2 and r3, so that "a" submits first, and r2 before r3.      *)
MCNext ==
  /\ \/ scenario # Reviewing /\ Next /\ UNCHANGED review_vars
     \/ /\ scenario = Reviewing /\ ReviewNext
        /\ moves' # moves => issues' = issues
        /\ issues' # <<>> => issues'[1].author = "a" /\ issues'[1].text # "r3"
  /\ UNCHANGED scenario
  /\ moves' <= scenario.moves /\ today' <= scenario.days
  /\ Len(issues') <= scenario.issues
  /\ \A n \in DOMAIN issues' : /\ issues'[n].author \in scenario.accounts
                               /\ issues'[n].text \in scenario.texts \union {NoReport}

Reports(step) == step /\ UNCHANGED review_vars

(* Fairness of the reports, or ReviewFairness, as the scenario needs.       *)
MCFairSpec ==
  /\ MCInit /\ [][MCNext]_<<vars, review_vars, scenario>>
  /\ WF_<<vars, review_vars>>(IF scenario = Reviewing THEN ReviewSchedule ELSE Reports(Schedule))
  /\ WF_<<vars, review_vars>>(IF scenario = Reviewing THEN ReviewJobStep ELSE Reports(Rebuild))
  /\ WF_<<vars, review_vars>>(IF scenario = Reviewing THEN PublishReports ELSE Reports(Propose))
  /\ WF_<<vars, review_vars>>(scenario # Reviewing /\ Reports(Merge))

=============================================================================
