----------------------------- MODULE MCGuardedMain -----------------------------
(* The guarded main on files of a network and an MVNO of it, each with a few  *)
(* contents; the guard's readings, trips and lines are computed from the rows *)
(* of every pair of files. The properties of pairs of files are stated of     *)
(* consecutive commits of main, which the two pull requests make of every     *)
(* pair. The other job of validate.yml, the freshness alarm, has a behaviour   *)
(* of its own: of a lane that is late the day after its last check and one    *)
(* that is late a day later.                                                  *)
EXTENDS GuardedReports, FreshnessAlarm

CONSTANTS p1, p2

VARIABLE workflow_job

MCLaneLimit == [daily |-> 0, weekly |-> 1]

MCFolded == [n \in {"net", "mms", "web", "ims", "sos"} |-> n] @@ ("NET" :> "net")
MCMmscKey == "C1/" :> "c1"
MCHost == [s \in {"net", "mvno"} |-> "net"]

GoogleSays == {"google_carriersettings"}
SamsungSays == {"samsung_omc"}
AospSays == {"lineageos"}
CopySays == {"lineageos_legacy_apn_list"}

(* A row of a file with the evidence behind it.                               *)
FileRow(id, apn, types, attr, by) ==
    ApnRecord([id |-> id, apn |-> apn, types |-> types, attr |-> attr],
              [sources |-> by, facts |-> [k \in {} |-> {}]])

Plain == [f \in {} |-> 0]
To(mmsc) == [mmsc |-> mmsc]
As(user) == [user |-> user]
Via(proxy) == [proxy |-> proxy]
On(nts) == [network_type_bitmask |-> nts]

Internet == FileRow(1, "net", {"default", "supl"}, Plain, GoogleSays)
OwnMms == FileRow(2, "mms", {"mms"}, To("c1"), GoogleSays)

NetRows == <<
    <<Internet, OwnMms>>,
    <<FileRow(1, "NET", {"default", "supl"}, Plain, AospSays), Internet,
      FileRow(3, "mms", {"mms"}, To("C1/"), AospSays)>>,
    <<Internet, FileRow(3, "mms", {"mms"}, To("c2") @@ On({13}), AospSays)>>,
    <<FileRow(4, "web", {"default", "ims"}, Via("p"), AospSays), OwnMms>>,
    <<FileRow(5, "ims", {"ia", "emergency", "ims"}, Plain, AospSays),
      FileRow(6, "net", {"default", "mms"}, Plain, CopySays), OwnMms>>,
    <<FileRow(7, "net", {"*"}, On({2, 13}), AospSays),
      FileRow(8, "ims", {"ims"}, [carrier_enabled |-> FALSE], SamsungSays)>>,
    <<FileRow(1, "web", {"default", "supl"}, Plain, GoogleSays),
      FileRow(9, "net", {"ia"}, Plain, GoogleSays), OwnMms>>,
    <<Internet, FileRow(2, "mms", {"mms"}, To("c1") @@ As("u"), GoogleSays)>>,
    <<Internet, OwnMms, FileRow(10, "sos", {"emergency"}, Plain, GoogleSays)>>,
    <<Internet, OwnMms, FileRow(10, "sos", {"emergency"}, Via("q"), GoogleSays)>>>>

MvnoRows == <<
    <<FileRow(1, "web", {"default"}, Plain, AospSays), OwnMms>>,
    <<FileRow(1, "net", {"default", "ims", "mms"}, To("c2"), AospSays)>>>>

RowsOf(f) ==
    [net |-> IF f.net = 0 THEN <<>> ELSE NetRows[f.net],
     mvno |-> IF f.mvno = 0 THEN <<>> ELSE MvnoRows[f.mvno]]

MCFiles == {[net |-> n, mvno |-> m] : n \in 0 .. Len(NetRows), m \in 0 .. Len(MvnoRows)}

MCRowsIn == [f \in MCFiles |-> RowsOf(f)]

MCTripsOf == [p \in MCFiles \X MCFiles |-> Trips(Readings[p[1]], Readings[p[2]])]
MCRolesOf == [f \in MCFiles |-> GuardRoles(Readings[f])]

(* Of any other first file the pull requests change nothing.                  *)
MCPushFiles ==
    [p \in {p1, p2} |-> [f \in MCFiles |->
        CASE f # [net |-> 1, mvno |-> 1] -> <<f, {}>>
          [] p = p1 -> <<[net |-> 3, mvno |-> 1], {[net |-> 6, mvno |-> 1]}>>
          [] p = p2 -> <<[net |-> 1, mvno |-> 2], {}>>]]
MCMaxCommits == (p1 :> 2) @@ (p2 :> 1)
MCInit ==
    /\ Init /\ AlarmInit
    /\ workflow_job \in {"validate", "freshness-alarm"}
    /\ workflow_job = "freshness-alarm" => Tip = [net |-> 0, mvno |-> 0]

MCNext ==
    /\ \/ workflow_job = "validate" /\ Next /\ UNCHANGED alarm_vars
       \/ workflow_job = "freshness-alarm" /\ AlarmNext /\ UNCHANGED vars
    /\ UNCHANGED workflow_job

(* The schedule is daily, and GitHub runs a job to its end.                    *)
MCFairSpec ==
    /\ MCInit /\ [][MCNext]_<<vars, alarm_vars, workflow_job>>
    /\ WF_alarm_vars(workflow_job = "freshness-alarm" /\ ScheduledRun)
    /\ WF_alarm_vars(workflow_job = "freshness-alarm" /\ AlarmStep("dispatched"))
================================================================================
