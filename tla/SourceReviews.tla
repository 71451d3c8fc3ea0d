---------------------------- MODULE SourceReviews ----------------------------
(***************************************************************************)
(* The source-review job of ocd-check-report.yml, on top of the observed   *)
(* reports: from the counted reports on main it opens one issue per        *)
(* carrier profile and failed entry, and keeps its text current, while     *)
(* maintainers close and reopen these issues and main moves on.  A report  *)
(* names what it tested by records; a body is known by its key and items.  *)
(***************************************************************************)
EXTENDS ObservedReports, SequencesExt

CONSTANTS
  Profile,    \* text -> the OCD profile of its SIM, or NoReport
  Device,     \* text -> the device of its phone
  Results     \* text -> the tested entries, with what the phone measured

VARIABLES
  reviews,         \* the source-review issues, by number
  review_job,      \* what the running job read and has still to write
  review_queued    \* a run of the job waits

review_vars == <<reviews, review_job, review_queued>>

NoReviewJob == [phase |-> "none", records |-> Nothing, steps |-> <<>>]

-----------------------------------------------------------------------------
(* review_plan.                                                            *)

Passed == {"works", "signed_in", "service_off"}

UncleanFailures == {"revert_not_proven", "insert_no_row", "read_back_differs"}

(* The test ran and the phone's state came back.                           *)
CleanFailure(result) ==
  result.result = "failed" /\ result.reason \notin UncleanFailures /\ result.restored

(* The other value of a switch, or an APN row for a type of this one.      *)
SameTarget(failed, other) ==
  /\ other # failed
  /\ failed.kind = other.kind
  /\ IF failed.kind = "apn" THEN failed.types \intersect other.types # {}
     ELSE failed.feature = other.feature

Passing(text, failed) ==
  {r.entry : r \in {x \in Results[text] : x.result \in Passed /\ SameTarget(failed, x.entry)}}

ReviewItems(records) ==
  {item \in UNION {{[key |-> [profile |-> Profile[records[n].text], entry |-> r.entry], issue |-> n,
                     device |-> Device[records[n].text], reason |-> r.reason,
                     passing |-> Passing(records[n].text, r.entry)] :
                      r \in {x \in Results[records[n].text] : x.ocd /\ CleanFailure(x)}} :
                     n \in {m \in DOMAIN records : records[m].status = "counted"}} :
     item.key.profile # NoReport /\ item.passing # {}}

(* A body names its key and lists the reports behind it.                   *)
BodyOf(key, records) == {item \in ReviewItems(records) : item.key = key}

(* What the review is about, without dates, counts or issue numbers.       *)
Signature(items) ==
  {[device |-> item.device, reason |-> item.reason, passing |-> item.passing] : item \in items}

BotReviews(list, key) == {n \in DOMAIN list : list[n].by = "bot" /\ list[n].key = key}

IsOpen(list, key) == {n \in BotReviews(list, key) : list[n].state = "open"}

Targets(list, key) == IsOpen(list, key)

(* Mutant: a closed issue of the key covers whatever is found later.       *)
CoveredByKey(list, key, items) == BotReviews(list, key) # {}

Covered(list, key, items) ==
  \E n \in BotReviews(list, key) : Signature(list[n].body) = Signature(items)

StepsFor(list, key, records) ==
  LET body    == BodyOf(key, records)
      targets == Targets(list, key)
      Step(n) == {[number |-> n, key |-> key, body |-> body]}
  IN  CASE targets # {} /\ list[Max(targets)].body # body -> Step(Max(targets))
        [] targets = {} /\ ~Covered(list, key, body)       -> Step(0)
        [] OTHER                                           -> {}

(* One step a key, in an order of keys that does not change.               *)
ReviewPlan(list, records) ==
  SetToSeq(UNION {StepsFor(list, item.key, records) : item \in ReviewItems(records)})

-----------------------------------------------------------------------------
ReviewInit ==
  /\ Init
  /\ reviews = <<>> /\ review_job = NoReviewJob /\ review_queued = FALSE

(* Accounts, maintainers and days change the reports.                      *)
ReportsChange ==
  /\ \/ \E account \in Accounts : Submit(account)
     \/ \E n \in DOMAIN issues : Edit(n) \/ Withdraw(n) \/ Delete(n) \/ Release(n)
     \/ Tick
  /\ UNCHANGED review_vars

(* The observed job, its pull request and the merge, of which               *)
(* ObservedReports has the steps.  A push that changes observed/reports/    *)
(* queues the review job.                                                   *)
PublishReports ==
  /\ observed' = Records(issues, today)
  /\ observed' # observed
  /\ LET added == DOMAIN observed' \ DOMAIN observed
     IN  issues' = [n \in DOMAIN issues |->
                      IF n \in added /\ issues[n].state = "open"
                      THEN [issues[n] EXCEPT !.state = "completed"] ELSE issues[n]]
  /\ review_queued' = TRUE
  /\ UNCHANGED <<today, moves, queued, job, pull, reviews, review_job>>

ReviewSchedule ==
  /\ ~review_queued
  /\ review_queued' = TRUE
  /\ UNCHANGED <<vars, reviews, review_job>>

(* The concurrency group lets one job run and one wait.                    *)
ReviewCheckout ==
  /\ review_queued /\ review_job.phase = "none"
  /\ review_queued' = FALSE
  /\ review_job' = [NoReviewJob EXCEPT !.phase = "checked_out", !.records = observed]
  /\ UNCHANGED <<vars, reviews>>

(* It reads the source-review issues, and decides on them.                 *)
PlanReviews ==
  /\ review_job.phase = "checked_out"
  /\ review_job' = [phase |-> "planned", records |-> Nothing,
                     steps |-> ReviewPlan(reviews, review_job.records)]
  /\ UNCHANGED <<vars, reviews, review_queued>>

(* It opens or edits one issue, whatever happened to it since.             *)
WriteReview ==
  /\ review_job.phase = "planned" /\ review_job.steps # <<>>
  /\ LET step == Head(review_job.steps)
         n    == step.number
     IN  reviews' =
           IF n = 0
           THEN Append(reviews, [by |-> "bot", state |-> "open", key |-> step.key,
                                 body |-> step.body, seen |-> {}, late |-> FALSE])
           ELSE [reviews EXCEPT ![n].body = step.body]
  /\ review_job' = [review_job EXCEPT !.steps = Tail(@)]
  /\ UNCHANGED <<vars, review_queued>>

ReviewsDone ==
  /\ review_job.phase = "planned" /\ review_job.steps = <<>>
  /\ review_job' = NoReviewJob
  /\ UNCHANGED <<vars, reviews, review_queued>>

ReviewMove == Move /\ UNCHANGED <<issues, today, queued, job, pull, observed, review_queued>>

(* A call to GitHub fails, which ends the job.                             *)
ReviewFails ==
  /\ ReviewMove
  /\ review_job.phase # "none"
  /\ review_job' = NoReviewJob
  /\ UNCHANGED reviews

(* A maintainer closes the issue, having read it, or opens it again.       *)
CloseReview(n) ==
  /\ ReviewMove
  /\ reviews[n].state = "open"
  /\ reviews' = [reviews EXCEPT ![n].state = "closed",
                                ![n].seen = @ \union {Signature(reviews[n].body)},
                                ![n].late = \E step \in ToSet(review_job.steps) : step.number = n]
  /\ UNCHANGED review_job

ReopenReview(n) ==
  /\ ReviewMove
  /\ reviews[n].state = "closed"
  /\ reviews' = [reviews EXCEPT ![n].state = "open", ![n].late = FALSE]
  /\ UNCHANGED review_job

(* Someone opens an issue of their own with the text of a review.          *)
OpenByHand(key) ==
  /\ ReviewMove
  /\ reviews' = Append(reviews, [by |-> "person", state |-> "open", key |-> key,
                                 body |-> BodyOf(key, observed), seen |-> {}, late |-> FALSE])
  /\ UNCHANGED review_job

ReviewJobStep == ReviewCheckout \/ PlanReviews \/ WriteReview \/ ReviewsDone

ReviewNext ==
  \/ ReportsChange \/ PublishReports \/ ReviewSchedule \/ ReviewJobStep \/ ReviewFails
  \/ \E n \in DOMAIN reviews : CloseReview(n) \/ ReopenReview(n)
  \/ \E key \in {item.key : item \in ReviewItems(observed)} : OpenByHand(key)

(* The schedule is daily, GitHub runs a queued job, and a maintainer       *)
(* merges the reports.                                                     *)
ReviewFairness ==
  /\ WF_<<vars, review_vars>>(PublishReports)
  /\ WF_<<vars, review_vars>>(ReviewSchedule)
  /\ WF_<<vars, review_vars>>(ReviewJobStep)

-----------------------------------------------------------------------------
(* An issue of the bot puts the findings before a maintainer: it is open   *)
(* and shows them, or was closed with them in view, or was closed while a  *)
(* job that had seen it open was about to write them.                      *)
Reviewed(key) ==
  LET body == BodyOf(key, observed)
  IN  \E n \in BotReviews(reviews, key) :
        \/ reviews[n].state = "open" /\ reviews[n].body = body
        \/ /\ reviews[n].state = "closed" /\ Signature(reviews[n].body) = Signature(body)
           /\ Signature(body) \in reviews[n].seen \/ reviews[n].late

(* When nothing changes any more, every finding on main comes to be        *)
(* reviewed, whatever was closed, reopened or merged while the job ran and *)
(* wherever it failed; only an edit that lands after a close hides one.    *)
FindingsAreReviewed ==
  <>[](\A item \in ReviewItems(observed) : Reviewed(item.key))

=============================================================================
