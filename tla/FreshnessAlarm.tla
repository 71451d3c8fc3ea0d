--------------------------- MODULE FreshnessAlarm ---------------------------
(***************************************************************************)
(* The freshness-alarm job of .github/workflows/validate.yml.  Every day   *)
(* it validates main strictly, and keeps one issue labelled stale-data     *)
(* open while that fails.  Maintainers may dispatch it too, on any branch  *)
(* and for any date; publishes land, and people close and open issues,     *)
(* between the steps of a run.  The scheduled runs of two days do not      *)
(* overlap, a dispatched one overlaps with any.                            *)
(*                                                                         *)
(* A snapshot is what a commit says of time: per lane the day of its       *)
(* source's last check and the day its values were last confirmed (earlier *)
(* under the vendor build grace), and the day of the last publish.         *)
(***************************************************************************)
EXTENDS Integers, Sequences, FiniteSetsExt

CONSTANTS
  Lanes,
  GraceLanes,   \* those of which a publish may carry a build's values in grace
  LaneLimit,    \* lane -> LANE_LIVENESS_MAX_AGE_DAYS, else LIVENESS_MAX_AGE_DAYS
  MaxAge,       \* LIVENESS_MAX_AGE_DAYS
  WindowDays,   \* stale_after is this long after the oldest confirmation
  RealDate,     \* no simulate_today
  Simulated,    \* bound: the dates of rehearsals
  MaxDate,      \* bound: days
  MaxHands      \* bound: what maintainers do, and jobs that are lost

VARIABLES
  date,          \* today
  snapshot,      \* of main
  snooze,        \* LIVENESS_SNOOZE_UNTIL, or a day before all
  stale_issues,  \* the stale-data issues by number, open or closed
  alarms,        \* the scheduled and the dispatched run
  hands          \* what maintainers did so far, counted

alarm_vars == <<date, snapshot, snooze, stale_issues, alarms, hands>>

NotSnoozed == -1

Idle == [phase |-> "idle", today |-> RealDate, tree |-> <<>>, snooze |-> NotSnoozed,
         passed |-> FALSE, found |-> 0]

FirstSnapshot ==
  [checked |-> [lane \in Lanes |-> 0], confirmed |-> [lane \in Lanes |-> 0], published |-> 0]

-----------------------------------------------------------------------------
(* The strict validation of one snapshot.                                  *)

StaleAfter(tree) == Min({tree.confirmed[lane] : lane \in Lanes}) + WindowDays

Fresh(tree, today) == today <= StaleAfter(tree)

(* The last publish is of the branch as the API gives it, if it does.      *)
Live(tree, last_publish, today) ==
  /\ \A lane \in Lanes : /\ today - tree.checked[lane] <= LaneLimit[lane]
                         /\ today - tree.confirmed[lane] <= LaneLimit[lane]
  /\ \A day \in last_publish : today - day <= MaxAge

(* Before the data's own dates the files are future-dated.                 *)
Strict(tree, last_publish, today, quiet) ==
  /\ \A lane \in Lanes : tree.checked[lane] <= today
  /\ Fresh(tree, today)
  /\ quiet \/ Live(tree, last_publish, today)

CheckDay(simulated) == IF simulated = RealDate THEN date ELSE simulated

-----------------------------------------------------------------------------
(* A run.                                                                  *)

(* It reads LIVENESS_SNOOZE_UNTIL, and checks out a commit.                 *)
StartAlarm(r, tree, simulated) ==
  /\ alarms[r].phase = "idle"
  /\ alarms' = [alarms EXCEPT ![r] =
       [Idle EXCEPT !.phase = "checked_out", !.today = simulated, !.tree = tree, !.snooze = snooze]]

StartScheduled ==
  /\ StartAlarm("scheduled", snapshot, RealDate)
  /\ UNCHANGED <<date, snapshot, snooze, stale_issues, hands>>

(* The day of the last publish is main's by now or that of the commit, if  *)
(* the API gives it at all.                                                *)
ValidateStrictly(r) ==
  LET A == alarms[r]
      today == CheckDay(A.today)
  IN  /\ A.phase = "checked_out"
      /\ \E passed \in {Strict(A.tree, last_publish, today, today <= A.snooze) :
                           last_publish \in {{}, {snapshot.published}, {A.tree.published}}} :
           alarms' = [alarms EXCEPT ![r] =
             [Idle EXCEPT !.phase = "validated", !.today = A.today, !.passed = passed]]
      /\ UNCHANGED <<date, snapshot, snooze, stale_issues, hands>>

OpenIssues == {n \in DOMAIN stale_issues : stale_issues[n] = "open"}

(* Mutant: closed issues are listed too.                                   *)
AllIssues == DOMAIN stale_issues

ListedIssues == OpenIssues

ListIssues(r) ==
  /\ alarms[r].phase = "validated"
  /\ alarms' = [alarms EXCEPT ![r].phase = "listed", ![r].found = Max({0} \union ListedIssues)]
  /\ UNCHANGED <<date, snapshot, snooze, stale_issues, hands>>

(* It closes the newest issue it saw open, opens one if it saw none, or    *)
(* leaves all as they are.                                                 *)
SettleIssue(r) ==
  LET A == alarms[r]
  IN  /\ A.phase = "listed"
      /\ stale_issues' =
           CASE A.passed /\ A.found # 0 /\ A.today = RealDate -> [stale_issues EXCEPT ![A.found] = "closed"]
             [] ~A.passed /\ A.found = 0 -> Append(stale_issues, "open")
             [] OTHER -> stale_issues
      /\ alarms' = [alarms EXCEPT ![r] = Idle]
      /\ UNCHANGED <<date, snapshot, snooze, hands>>

AlarmStep(r) == ValidateStrictly(r) \/ ListIssues(r) \/ SettleIssue(r)

ScheduledRun == StartScheduled \/ AlarmStep("scheduled")

-----------------------------------------------------------------------------
(* Days, publishes and maintainers.                                        *)

NextDay ==
  /\ date < MaxDate
  /\ date' = date + 1
  /\ UNCHANGED <<snapshot, snooze, stale_issues, alarms, hands>>

Now(days, lanes) == [lane \in Lanes |-> IF lane \in lanes THEN date ELSE days[lane]]

(* A publish brings the checks of some lanes, perhaps with values in grace. *)
Published(tree, checked, grace) ==
  [checked |-> Now(tree.checked, checked), confirmed |-> Now(tree.confirmed, checked \ grace),
   published |-> date]

PublishData ==
  /\ \E checked \in (SUBSET Lanes) \ {{}}, grace \in SUBSET GraceLanes :
       snapshot' = Published(snapshot, checked, grace)
  /\ snapshot' # snapshot
  /\ UNCHANGED <<date, snooze, stale_issues, alarms, hands>>

Hand == hands < MaxHands /\ hands' = hands + 1

(* On main, on a branch that holds a publish back, or on one long behind.  *)
DispatchAlarm(simulated) ==
  /\ Hand
  /\ \E tree \in {snapshot, Published(snapshot, Lanes, {}), FirstSnapshot} :
       StartAlarm("dispatched", tree, simulated)
  /\ UNCHANGED <<date, snapshot, snooze, stale_issues>>

(* The job is cancelled, or a call to GitHub fails.                        *)
LoseAlarm(r) ==
  /\ Hand
  /\ alarms[r].phase # "idle"
  /\ alarms' = [alarms EXCEPT ![r] = Idle]
  /\ UNCHANGED <<date, snapshot, snooze, stale_issues>>

(* Somebody closes an issue, or opens it again.                             *)
TurnIssue(n) ==
  /\ Hand
  /\ stale_issues' = [stale_issues EXCEPT ![n] = IF @ = "open" THEN "closed" ELSE "open"]
  /\ UNCHANGED <<date, snapshot, snooze, alarms>>

SetSnooze(until) ==
  /\ Hand
  /\ snooze' = until
  /\ snooze' # snooze
  /\ UNCHANGED <<date, snapshot, stale_issues, alarms>>

-----------------------------------------------------------------------------
AlarmInit ==
  /\ date = 0 /\ snooze = NotSnoozed /\ stale_issues = <<>> /\ hands = 0
  /\ snapshot = FirstSnapshot
  /\ alarms = [r \in {"scheduled", "dispatched"} |-> Idle]

AlarmNext ==
  \/ ScheduledRun \/ AlarmStep("dispatched") \/ NextDay \/ PublishData
  \/ \E r \in DOMAIN alarms : LoseAlarm(r)
  \/ \E simulated \in Simulated \union {RealDate} : DispatchAlarm(simulated)
  \/ \E n \in DOMAIN stale_issues : TurnIssue(n)
  \/ \E until \in 0..MaxDate : SetSnooze(until)

-----------------------------------------------------------------------------
(* What the strict validation of main would say today.                     *)
MainPasses == Strict(snapshot, {snapshot.published}, date, date <= snooze)

(* Whatever runs, rehearsals and hands did, and however many issues two    *)
(* runs opened at once: when they and the data rest, an issue is open if   *)
(* and only if main is stale or its pipeline looks stopped.                *)
AlarmSettles == <>[](OpenIssues # {} <=> ~MainPasses)

=============================================================================
