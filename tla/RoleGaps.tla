------------------------------- MODULE RoleGaps -------------------------------
(* LineageOS's legacy list fills role gaps only: a row of the copy keeps a    *)
(* type only where the type's role is a gap in the scope without the copy, or *)
(* where the type holds a gap role's lead elsewhere (keep_role_gap_rows,      *)
(* tools/generate_android_outputs.py).                                        *)
EXTENDS ScopeSteps

RoleGapSources == {"lineageos_legacy_apn_list"}
RoleGapTypes == {"default", "ia", "mms", "ims", "dun", "supl", "xcap", "fota", "cbs"}
VendorTypes(role) == IF role = "ia" THEN {"default", "ia"} ELSE {role}

(* The types of a row that only the copy backs.                               *)
CopyTypes(r) ==
    {t \in ApnRowTypes(r.types) :
        t \in DOMAIN r.sup /\ r.sup[t] # {} /\ r.sup[t] \subseteq RoleGapSources}

DropTypes(r, types) ==
    [TypesOff(r, types) EXCEPT
        !.sup = [t \in DOMAIN @ \ types |-> @[t]],
        !.cur = [t \in DOMAIN @ \ types |-> @[t]]]

(* The rows of a scope without the types leave gives for each; a row left     *)
(* with no type is not written.                                               *)
LessTypes(rows, leave) ==
    WithTypes([i \in DOMAIN rows |-> IF leave[i] = {} THEN rows[i]
                                     ELSE DropTypes(rows[i], leave[i])])

--------------------------------------------------------------------------------
(* The lead of every role, and where it is a gap: no lead, or one whose APN   *)
(* no current vendor gives for the role.                                      *)

Keys == BOOLEAN \X AllNetworkTypes \X RoleGapTypes

NoLead == "no lead"

RoleGapLeads(written, net) ==
    LET stored == Provider(written, net.persist)
        with   == Profiles(stored, TRUE)
        apart  == Profiles(stored, FALSE)
        LeadApn(p) == IF p = NoProfile THEN NoLead ELSE Folded[p.apn]
    IN  [k \in Keys |-> LeadApn(Lead(IF k[1] THEN with ELSE apart, k[3], k[2]))]

VendorGives(records, role) ==
    {Folded[r.apn] : r \in {r \in ToSet(records) : \E t \in VendorTypes(role) : Backed(r, t)}}

GapKeys(leads, records) ==
    LET gives == [role \in RoleGapTypes |-> VendorGives(records, role)]
    IN  {k \in Keys : leads[k] \notin gives[k[3]]}

(* The roles that are a gap somewhere, and those that are one on IWLAN, with  *)
(* the merge on.                                                              *)
RoleGapsOn(written, records, types, net) ==
    {k[3] : k \in {k \in GapKeys(RoleGapLeads(written, net), records) :
                      k[1] /\ k[2] \in types}}

(* A copy row typed only "ims" whose APN another row serves without IWLAN.    *)
IwlanCase(r, records) ==
    /\ ApnRowTypes(r.types) = {"ims"} /\ CopyTypes(r) = {"ims"}
    /\ \E o \in ToSet(records) :
          /\ o.id # r.id /\ Folded[o.apn] = Folded[r.apn]
          /\ Serves(o, "ims") /\ "ims" \notin CopyTypes(o)
          /\ Attr(o.attr, "network_type_bitmask", {}) # {}
          /\ Iwlan \notin o.attr.network_type_bitmask

--------------------------------------------------------------------------------
(* The types the copy's rows lose.                                            *)

CopyTypesOf(records) == [i \in DOMAIN records |-> CopyTypes(records[i])]
NoTypes(records) == [i \in DOMAIN records |-> {}]
WithoutCopy(records) == LessTypes(records, CopyTypesOf(records))

(* Mutant: a row of the copy whose type fills a gap keeps every type.         *)
WholeRowsStay(records, without, net) ==
    LET gaps == RoleGapsOn(without, records, AllNetworkTypes, net)
    IN  [i \in DOMAIN records |->
            IF CopyTypes(records[i]) \cap gaps = {} THEN CopyTypes(records[i]) ELSE {}]

(* By what is written of the scope without the copy.                          *)
LeavingTypes(records, without, net) ==
    LET any   == RoleGapsOn(without, records, AllNetworkTypes, net)
        iwlan == RoleGapsOn(without, records, {Iwlan}, net)
    IN  [i \in DOMAIN records |->
            CopyTypes(records[i]) \
                (IF IwlanCase(records[i], records) THEN {"ims"} \cap iwlan
                 ELSE any \cup {"emergency"}
                        \cup {t \in {"hipri"} : "default" \in any})]

(* The search for rows to give their types back: the leads of the scope with  *)
(* every copy type, those of the last trial, and the gap roles' leads that    *)
(* moved and no row gave back yet.                                            *)
StartBack(records, written, final, full) ==
    [back |-> {}, leads |-> final, full |-> full,
     moved |-> {k \in GapKeys(final, records) : final[k] # full[k] /\ written # <<>>}]

RestoredBy(s, r, leads) ==
    LET fixed == {k \in s.moved : leads[k] = s.full[k]}
        other == {k \in Keys \ s.moved : leads[k] # s.leads[k]}
    IN  IF fixed = {} \/ other # {} THEN s
        ELSE [s EXCEPT !.back = @ \cup {r.id}, !.leads = leads, !.moved = @ \ fixed]

Trial(records, leave, back) ==
    [i \in DOMAIN records |-> IF records[i].id \in back THEN {} ELSE leave[i]]

(* Give the left-out types back, one row at a time, where that returns a gap  *)
(* role's lead to what it is with every copy type kept and moves no other.    *)
GivenBack(records, leave, written, start, net) ==
    LET Try(s, r) ==
            IF \/ s.moved = {} \/ leave[Place(records, r)] = {} \/ IwlanCase(r, records)
            THEN s
            ELSE RestoredBy(s, r, RoleGapLeads(
                     written[Trial(records, leave, s.back \cup {r.id})], net))
    IN  FoldLeft(Try, start, RankScope(records)).back

KeepLoadBearing(records, leave, written, start, net) ==
    LessTypes(records, Trial(records, leave, GivenBack(records, leave, written, start, net)))

KeepGapTypes(records, leave, written, net) ==
    IF \A i \in DOMAIN leave : leave[i] = {} THEN records
    ELSE KeepLoadBearing(records, leave, written,
             StartBack(records, written[leave], RoleGapLeads(written[leave], net),
                       RoleGapLeads(written[NoTypes(records)], net)),
             net)

(* written gives what is written of the scope without some types of its rows. *)
KeepWritten(records, without, written, net) ==
    IF without = <<>> \/ \A r \in ToSet(records) : CopyTypes(r) = {} THEN records
    ELSE KeepGapTypes(records, LeavingTypes(records, without, net), written, net)

KeepGapsOf(records, written, net) ==
    KeepWritten(records, written[CopyTypesOf(records)], written, net)

ScopeTypes(records) == UNION {ApnRowTypes(r.types) : r \in ToSet(records)}

(* The trial files are written with the frozen copies of every run, the       *)
(* Pixel snapshot not among them.                                             *)
KeepInNetwork(records, net) ==
    KeepGapsOf(records,
               [leave \in [DOMAIN records -> SUBSET ScopeTypes(records)] |->
                   WriteScope(LessTypes(records, leave), net)], net)

KeepRoleGapRows(records, network) ==
    KeepInNetwork(records, [network EXCEPT !.frozen = FrozenPixelCopySources])
================================================================================
