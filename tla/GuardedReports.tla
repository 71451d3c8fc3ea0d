---------------------------- MODULE GuardedReports ----------------------------
(* What the guard's lines on two files tell of what phones lose between them  *)
(* (tools/check_phone_guard.py), on the files that get to main.               *)
EXTENDS PhoneGuard, GuardedMain

CONSTANT RowsIn   \* per file, the rows it gives each scope

Readings == [f \in Files |-> ReadFile(RowsIn[f])]
LinesOf == [p \in Files \X Files |-> Shown(Readings[p[1]], Readings[p[2]])]

(* The roles a file gives, each under the line that tells its loss.           *)
Gives(reading, role, nt) ==
    CASE role = "internet_lost" -> Some(reading.leads[nt].internet)
      [] role = "attach_lost" -> Some(reading.leads[nt].attach)
      [] role = "mms_lost" -> Works(reading.leads[nt].mms)

GuardRoles(reading) ==
    {r \in {"internet_lost", "attach_lost", "mms_lost"} \X (DOMAIN reading) \X HoldTypes :
        Gives(reading[r[2]], r[1], r[3])}

(* The scope whose rows a SIM of s gets from a file: its own, or its host's.  *)
NoScope == "none"
Served(reading, s) ==
    IF s \in DOMAIN reading THEN s
    ELSE IF Host[s] \in DOMAIN reading THEN Host[s] ELSE NoScope

RolesOn(reading, s, nt) ==
    LET leads == reading[s].leads[nt]
    IN  When(Some(leads.internet), "internet") \cup When(Some(leads.attach), "attach")
        \cup When(Works(leads.mms), "mms")
        \cup When(nt \in WatchTypes /\ Some(reading[s].typed[nt].ims.key), "ims")

Lost(base, head, s, nt) ==
    RolesOn(base, s, nt)
      \ (IF Served(head, s) = NoScope THEN {} ELSE RolesOn(head, Served(head, s), nt))

(* The lines that tell of a role lost by the SIMs of a scope.                 *)
LostLine == [internet |-> "internet_lost", attach |-> "attach_lost", mms |-> "mms_lost"]

TellsLoss(line, s, role) ==
    \/ role # "ims" /\ line[1] = LostLine[role] /\ line[2] = s
    \/ line = <<"lost only on IWLAN or CDMA", s, role>>
    \/ role = "ims" /\ line = <<"ims lead lost", s>>
    \/ line = <<"MVNO scope gone", s, role>>

LossUnseen(old, new, lines) ==
    \E s \in DOMAIN old, nt \in WatchTypes :
        /\ Served(new, s) # NoScope
        /\ \E role \in Lost(old, new, s, nt) : ~\E line \in lines : TellsLoss(line, s, role)

(* The files that some file follows with a loss unseen.                       *)
BeforeUnseen ==
    {p[1] : p \in {p \in Files \X Files :
                      LossUnseen(Readings[p[1]], Readings[p[2]], LinesOf[p])}}

(* Whatever file follows one of main, no SIM loses internet, attach, working  *)
(* MMS or its IMS lead without a line that says so of its scope, also when    *)
(* its MVNO scope leaves the file and it falls back to its network's rows.    *)
LossIsSeen == \A i \in DOMAIN main : main[i].file \notin BeforeUnseen

GivenOrSame(old, new, reading, types) ==
    \/ ~Some(old)
    \/ SameApn(old, new)
    \/ GivenTypes(reading.vendor, new) \cap types # {}

(* No credentials lost, and neither they nor a proxy gained or changed.       *)
SendsAlike(old, new) ==
    Some(new) =>
        /\ SendsCredentials(old) => new[3] = old[3]
        /\ new[3] # "" => Some(old) /\ old[3] = new[3]
        /\ new[2] # "" => Some(old) /\ old[2] = new[2]

QuietOn(old, new, s, nt) ==
    LET was == old[s].leads[nt]
        is  == new[s].leads[nt]
    IN  /\ GivenOrSame(was.internet, is.internet, new[s], {"default"})
        /\ GivenOrSame(was.attach, is.attach, new[s], {"default", "ia"})
        /\ \A role \in {"internet", "attach", "mmslead"} : SendsAlike(was[role], is[role])
        /\ Works(was.mms) => Norm(is.mms) \in {Norm(was.mms)} \cup new[s].tuples
        /\ nt \in WatchTypes =>
              /\ old[s].typed[nt].emergency = new[s].typed[nt].emergency
              /\ Some(old[s].typed[nt].ims.key) =>
                    SameApn(old[s].typed[nt].ims.key, new[s].typed[nt].ims.key)

Quiet(old, new) ==
    \A s \in DOMAIN old :
        s \in DOMAIN new /\ \A nt \in AllNetworkTypes : QuietOn(old, new, s, nt)

BeforeSilent ==
    {p[1] : p \in {p \in Files \X Files :
                      LinesOf[p] = {} /\ ~Quiet(Readings[p[1]], Readings[p[2]])}}

(* When the guard prints no line at all, every scope stays, its internet and  *)
(* attach leads keep their APN and MMS its setting, or go where a current     *)
(* vendor of the new file says; no internet, attach or MMS lead loses         *)
(* credentials or gains or changes them or a proxy; the IMS lead's APN stays, *)
(* and the emergency lead but for its proxy, which no line tells of.          *)
SilentMeansSame == \A i \in DOMAIN main : main[i].file \notin BeforeSilent

(* The report of any file that may follow one of main tells every loss, and   *)
(* an empty report every change: what a reviewer does not read did not occur. *)
ReportTellsAll == LossIsSeen /\ SilentMeansSame
================================================================================
