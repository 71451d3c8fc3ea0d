--------------------------- MODULE AndroidGenerator ---------------------------
(* One scope of apns-conf.xml, from the profile rows that serve its SIMs to   *)
(* the rows a phone stores of it: apn_xml_rows and write_scope of             *)
(* tools/generate_android_outputs.py, one action per step, and then           *)
(* TelephonyProvider, one file row after another.                             *)
EXTENDS RoleGaps

CONSTANT Scopes   \* the scopes a run starts from: profile rows, evidence, network

(* The rows of a scope are a list, and each has a place of its own in the     *)
(* fallback order and names a type (the validator refuses a row without one). *)
ASSUME ScopesAssumption ==
    \A s \in Scopes :
        /\ s.apns \in Seq(ToSet(s.apns))
        /\ \A i, j \in DOMAIN s.apns : s.apns[i].id = s.apns[j].id => i = j
        /\ \A i \in DOMAIN s.apns : s.apns[i].types # {}

VARIABLES
    scope,    \* the scope as the profiles and the evidence index give it
    step,     \* the next step
    rows,     \* the rows the steps so far leave, in order
    prior,    \* the rows before the last step
    records,  \* the scope's rows as write_scope_steps was given and retyped them
    read,     \* how many of the file's rows the phone has read
    table     \* what the phone has stored of them

vars == <<scope, step, rows, prior, records, read, table>>

Steps ==
    <<"gaps", "attach", "star", "emergency", "rank", "mms", "ims", "xcap",
      "vendor_attach", "type_leads", "group", "credentials", "absorbed", "load">>

(* Google's lane has moved past LineageOS's Pixel snapshot: it reads none of  *)
(* the snapshot's builds, and a newer build than each of them.                *)
PixelSnapshotSuperseded(snapshot, google) ==
    /\ snapshot # {}
    /\ snapshot \cap google = {}
    /\ \A b \in snapshot : \E g \in google : g > b

Network(s) ==
    [persist |-> s.persist,
     frozen  |-> FrozenPixelCopySources
                   \cup (IF PixelSnapshotSuperseded(s.snapshot, s.google)
                         THEN {"lineageos_pixel_apn_snapshot"} ELSE {})]

net == Network(scope)

ScopeRecords(s) ==
    CollapseDuplicates(MapRows(s.apns, LAMBDA apn : ApnRecord(apn, s.ev)))

RowIds(seq) == {r.id : r \in ToSet(seq)}
FileRows(stored) == UNION {ToSet(s.srcs) : s \in ToSet(stored)}

--------------------------------------------------------------------------------
Init ==
    /\ scope \in Scopes
    /\ step = "gaps"
    /\ rows = ScopeRecords(scope) /\ prior = rows
    /\ records = <<>>
    /\ read = 0 /\ table = <<>>

(* A step of the generator on the rows as they stand.                         *)
Run(at, Op(_)) ==
    /\ step = at
    /\ step' = Steps[SelectInSeq(Steps, LAMBDA s : s = at) + 1]
    /\ rows' = Op(rows) /\ prior' = rows
    /\ UNCHANGED <<scope, read, table>>

KeepGaps ==
    Run("gaps", LAMBDA r : KeepRoleGapRows(r, net)) /\ UNCHANGED records
LeaveOutAttach ==
    Run("attach", LeaveOutStaleAttach) /\ UNCHANGED records
LeaveOutStarIms ==
    Run("star", LAMBDA r : LeaveOutUnbackedStarIms(r, net)) /\ records' = rows'
LeaveOutEmergencyTypes ==
    Run("emergency", LeaveOutEmergency) /\ UNCHANGED records
Rank ==
    Run("rank", RankScope) /\ UNCHANGED records
PutMms ==
    Run("mms", LAMBDA r : PutVendorMmsFirst(r, net)) /\ UNCHANGED records
TakeOffGroup(t) ==
    Run(t, LAMBDA r : TakeTypeOffInternetGroup(r, t, net)) /\ UNCHANGED records
PutAttach ==
    Run("vendor_attach", PutVendorAttachFirst) /\ UNCHANGED records
TakeMmsOffLeads ==
    Run("type_leads", LAMBDA r : TakeMmsOffTypeInternetLeads(r, net)) /\ UNCHANGED records
WriteGroups ==
    /\ Run("group", LAMBDA r : Live(WriteGroupsBestLast(r)))
    /\ records' = AsRetyped(records, rows)
LeaveOutCredentials ==
    /\ Run("credentials", LAMBDA r : LeaveOutSupersededCredentials(r, records, net.frozen))
    /\ UNCHANGED records
LeaveOutAbsorbed ==
    Run("absorbed", LeaveOutAbsorbedMms) /\ UNCHANGED records

(* TelephonyProvider reads the file, one row after another.                   *)
LoadRow ==
    /\ step = "load"
    /\ read < Len(rows)
    /\ read' = read + 1
    /\ table' = StoreRow(table, rows[read'], net.persist)
    /\ prior' = rows
    /\ UNCHANGED <<scope, step, rows, records>>

Next ==
    \/ KeepGaps \/ LeaveOutAttach \/ LeaveOutStarIms \/ LeaveOutEmergencyTypes
    \/ Rank \/ PutMms \/ TakeOffGroup("ims") \/ TakeOffGroup("xcap")
    \/ PutAttach \/ TakeMmsOffLeads \/ WriteGroups \/ LeaveOutCredentials
    \/ LeaveOutAbsorbed \/ LoadRow

Spec == Init /\ [][Next]_vars

--------------------------------------------------------------------------------
(* What the phone would make of a scope's rows, written as they stand, on the *)
(* networks still in service: every type but the retired CDMA ones.           *)

StepNo(at) == SelectInSeq(Steps, LAMBDA s : s = at)
Done(at)  == StepNo(step) > StepNo(at)
After(at) == StepNo(step) = StepNo(at) + 1

OnPhone(seq, grouped) ==
    Provider(IF grouped THEN seq ELSE Live(WriteGroupsBestLast(seq)), net.persist)

StoredBefore == OnPhone(prior, Done("group") /\ ~After("group"))
StoredNow    == OnPhone(rows, Done("group"))

Roles == {"default", "ia", "mms", "ims", "xcap"}
LeadPlaces == BOOLEAN \X (MmsNetworkTypes \cup {Iwlan}) \X Roles

PhoneLeads(stored) ==
    LET with  == Profiles(stored, TRUE)
        apart == Profiles(stored, FALSE)
    IN  [k \in LeadPlaces |-> Lead(IF k[1] THEN with ELSE apart, k[3], k[2])]

FileWritten == step = "load" /\ read = 0
Loaded == step = "load" /\ read = Len(rows)

(* The generator decides most steps on its own reading of what Android        *)
(* stores (android_stored_rows); off the persist networks that is what        *)
(* TelephonyProvider makes of the file.                                       *)
Plain(s, ids) ==
    [apn |-> s.apn, types |-> s.types, ids |-> ids,
     bits |-> Attr(s.attr, "network_type_bitmask", {}),
     attr |-> Without(s.attr, {"network_type_bitmask"})]

StoredAsRead ==
    Loaded /\ ~net.persist =>
        MapRows(table, LAMBDA s : Plain(s, s.srcs))
            = MapRows(AndroidStoredRows(rows), LAMBDA s : Plain(s, s.ids))

(* Past the role gaps no step costs the phone a role on a network in service: *)
(* where a profile led the internet, attach, MMS, IMS or XCAP, with Android's *)
(* merge on or off, one still does; and once the scope is ranked, MMS that    *)
(* had a server keeps one.  Rule D8 is held to this where it leaves out at    *)
(* most one row of those stored together: it judges each with the others      *)
(* still there. The attach step takes a role of its own where the internet    *)
(* rows are of another APN set.                                               *)
Ranked == Done("rank") /\ ~After("rank")

HasInternet(seq) == \E r \in ToSet(seq) : Serves(r, "default") /\ Usable(r.attr)

OneLeaves == \A a, b \in ToSet(prior) \ ToSet(rows) : a.key = b.key => a = b

HasServer(profile, stored) == MmsOf(profile, stored)[2] # ""

RolesKept ==
    LET stored == StoredBefore
        now    == StoredNow
        before == PhoneLeads(stored)
        after  == PhoneLeads(now)
    IN  /\ prior # rows /\ Done("gaps") /\ ~After("gaps")
        /\ After("credentials") => OneLeaves
        =>
            \A k \in LeadPlaces :
                /\ before[k] # NoProfile /\ (After("attach") => HasInternet(rows))
                      => after[k] # NoProfile
                /\ Ranked /\ k[3] = "mms" /\ HasServer(before[k], stored)
                      => HasServer(after[k], now)

(* Once a scope is ranked no step moves the internet: its lead keeps what it  *)
(* sends, except that rule D8 may take a user or an authentication off it.    *)
(* The attach lead moves only to an APN a current vendor gives for attach.    *)
(* The attach step holds to it only where Android merges nothing: a row it    *)
(* moves ahead can take a similar internet row with it.                       *)
VendorAttach(apn) == \E r \in ToSet(rows) : r.apn = apn /\ Backed(r, "ia")

Unmoved(before, after, role) ==
    \/ LeadKey(before) = LeadKey(after)
    \/ before.apn = after.apn /\ After("credentials")
    \/ role = "ia" /\ VendorAttach(after.apn)

InternetUnmoved ==
    LET before == PhoneLeads(StoredBefore)
        after  == PhoneLeads(StoredNow)
    IN  Ranked /\ prior # rows =>
           \A k \in {k \in LeadPlaces : k[3] \in {"default", "ia"}
                                       /\ ~(k[1] /\ After("vendor_attach"))} :
              Unmoved(before[k], after[k], k[3])

(* A scope whose file serves emergency calls serves them in every APN set a   *)
(* phone may have preferred, if of the rows stored together at most one has   *)
(* its emergency type from superseded Google copies alone.                    *)
FrozenEmergency(r) ==
    Serves(r, "emergency") /\ Attr(r.sup, "emergency", {}) \subseteq net.frozen

OneFrozenEach ==
    \A a, b \in ToSet(ScopeRecords(scope)) :
        a.key = b.key /\ FrozenEmergency(a) /\ FrozenEmergency(b) => a = b

EmergencyCovered ==
    FileWritten /\ OneFrozenEach =>
        \/ \A r \in ToSet(rows) : ~Serves(r, "emergency")
        \/ \A s \in PreferredSets(rows) :
              SetCovered({r \in ToSet(rows) : Serves(r, "emergency")}, s)

(* Every APN stays in the file that a source gives for a type, other than     *)
(* those only the legacy copy gives, emergency, and attach on an emergency    *)
(* row.                                                                       *)
Owed(r) ==
    LET own == ApnRowTypes(r.types) \ (CopyTypes(r) \cup {"emergency"})
    IN  own # {} /\ ~(own = {"ia"} /\ Serves(r, "emergency"))

EveryApnStays ==
    FileWritten =>
        \A r \in ToSet(ScopeRecords(scope)) :
            Owed(r) => \E w \in ToSet(rows) : w.apn = r.apn

(* The legacy copy fills gaps only: a role that is no gap in the scope        *)
(* without the copy is led by the same APN with it, wherever no row left of   *)
(* the copy is stored with another row, whose network types it would widen.   *)
Alone(r) == \A o \in ToSet(rows) : o.key = r.key => o.id = r.id

FillsGapsOnly(given, without) ==
    LET gaps  == RoleGapsOn(without, given, AllNetworkTypes, net)
        base  == RoleGapLeads(without, net)
        final == RoleGapLeads(rows, net)
    IN  /\ without # <<>>
        /\ \E r \in ToSet(given) : CopyTypes(r) # {}
        /\ \A r \in ToSet(rows) : CopyTypes(r) # {} => Alone(r)
        => \A k \in Keys : k[1] /\ k[3] \notin gaps => final[k] = base[k]

CopyFillsGapsOnly ==
    FileWritten =>
        FillsGapsOnly(ScopeRecords(scope), WriteScope(WithoutCopy(ScopeRecords(scope)), net))

(* The docstring of step 9 says that Android never keeps a row it leaves out  *)
(* as a profile of its own (generate_android_outputs.py:2170). That holds     *)
(* where an earlier row that is similar to it is still a profile when its     *)
(* turn comes: one that Android has merged itself absorbs nothing. On a       *)
(* persist network the provider can replace the earlier row.                  *)
EarlierSimilarIds(k) ==
    LET stored == AndroidStoredRows(prior)
        at     == CHOOSE i \in DOMAIN stored : stored[i].key = k
    IN  UNION {ToSet(stored[j].ids) :
                  j \in {j \in 1 .. at - 1 : AndroidSimilar(stored[j], stored[at])}}

AbsorbedUnlessAllMerged ==
    After("absorbed") /\ ~net.persist =>
        LET absorbed == AbsorbedRows(prior, net.persist)
        IN  \A r \in ToSet(prior) \ ToSet(rows) :
               r.id \in absorbed \/ EarlierSimilarIds(r.key) \subseteq absorbed

(* The two models of the phone that the repository keeps, the generator's own *)
(* and android_phone_model.py, agree on a network that keeps no APNs: on what *)
(* the phone stores of the file, and that a row left out as absorbed is       *)
(* merged, or every earlier row similar to it was merged before. They read    *)
(* differently a scope with a bitmask that is written as 0, or whose rows     *)
(* give the MTU in two attributes.                                            *)
AnyGives(s, f, none) == \E i \in DOMAIN s.apns : Attr(s.apns[i].attr, f, none) # none

Comparable(s) ==
    /\ \A i \in DOMAIN s.apns :
          LET attr == s.apns[i].attr
          IN  "network_type_bitmask" \in DOMAIN attr => attr.network_type_bitmask # {}
    /\ ~AnyGives(s, "mtu", 0) \/ ~AnyGives(s, "mtu_v4", 0)

PhoneModelsAgree ==
    Comparable(scope) => StoredAsRead /\ AbsorbedUnlessAllMerged
================================================================================
