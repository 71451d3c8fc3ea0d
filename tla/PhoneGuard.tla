------------------------------- MODULE PhoneGuard -------------------------------
(* The phone-level guard (tools/check_phone_guard.py): what phones make of    *)
(* two files of APN rows, the changes that hold a publish (trips), and those  *)
(* that are only reported. A file is a function from scopes to its rows, none *)
(* for a scope that is not in it; a row carries the generator's evidence.     *)
(* A line is the set's member <<text, scope, ...>>; its wording, order and    *)
(* length limits are left out.                                                *)
EXTENDS PhoneApns

CONSTANTS
    Scopes,         \* network codes, and MVNOs on them
    Host,           \* per scope, its network's own scope
    PersistScopes,  \* the scopes of PERSIST_APNS_FOR_PLMN
    MmscKey         \* the MMSCs with a capital or a trailing slash, each without

ASSUME HostAssumption == \A s \in Scopes : Host[s] \in Scopes /\ Host[Host[s]] = Host[s]

(* An MMSC is a URL with a host (validate_public_carrier_data.py:558).        *)
ASSUME MmscAssumption == \A c \in DOMAIN MmscKey : c # "" /\ MmscKey[c] # ""

HoldTypes == MmsNetworkTypes
WatchTypes == HoldTypes \cup {Iwlan}
WatchChangeTypes == {"xcap", "dun", "supl"}
FirstProfileTypes == {"dun", "xcap", "supl", "fota", "cbs"}
RoleTypes == [internet |-> {"default"}, attach |-> {"default", "ia"}]
LegacyCopy == "lineageos_legacy_apn_list"
Mvno(s) == Host[s] # s

--------------------------------------------------------------------------------
(* What a phone makes of the rows of one scope.                               *)

NoLead == LeadKey(NoProfile)
Some(lead) == lead # NoLead
SameApn(old, new) == Some(new) /\ Folded[old[1]] = Folded[new[1]]

NormMmsc(c) == IF c \in DOMAIN MmscKey THEN MmscKey[c] ELSE c
Norm(mms) ==
    IF mms[1] = "none" THEN mms ELSE <<Folded[mms[1]], NormMmsc(mms[2]), mms[3]>>
Works(mms) == mms[2] # ""
SendsCredentials(lead) == Some(lead) /\ lead[3] # "" /\ lead[4] # 0

LeadProfiles(profiles, nt) ==
    [internet |-> Lead(profiles, "default", nt), attach |-> Lead(profiles, "ia", nt),
     mms |-> Lead(profiles, "mms", nt)]

StateOn(leads, stored) ==
    [internet |-> LeadKey(leads.internet), attach |-> LeadKey(leads.attach),
     mmslead |-> LeadKey(leads.mms), mms |-> MmsOf(leads.mms, stored)]

(* Android's own profile for a type no profile of the scope can handle.       *)
AndroidDefault(apn, t) ==
    [srcs |-> <<>>, base |-> <<>>, apn |-> apn, types |-> {t},
     open |-> UnsetOrEqualFields,
     fixed |-> [EqualFields EXCEPT !.protocol = "IPV4V6", !.roaming_protocol = "IPV4V6",
                                   !.apn_set_id = -1],
     authtype |-> 0, nt |-> {}, mtu4 |-> 0]

Handles(p, t) == p.fixed.carrier_enabled /\ t \in p.types

WithDefault(profiles, apn, t) ==
    IF \E i \in DOMAIN profiles : Handles(profiles[i], t) THEN profiles
    ELSE Append(profiles, AndroidDefault(apn, t))

IsDefault(p) == p # NoProfile /\ p.srcs = <<>>

ImsOn(p) ==
    [key |-> LeadKey(p), default |-> IsDefault(p), srcs |-> ToSet(p.base),
     internet |-> "default" \in p.types]

EmergencyLead(profiles, nt, set) ==
    LET i == SelectInSeq(profiles, LAMBDA p :
                /\ Handles(p, "emergency") /\ ServesOn(p, nt)
                /\ "cellular" \in p.fixed.infrastructure
                /\ p.fixed.apn_set_id \in {-1, set})
    IN  IF i = 0 THEN NoProfile ELSE profiles[i]

(* What an emergency lead puts into the request: of its attributes not the    *)
(* proxy, which a request does not carry. Password, IPv6 MTU, skip_464xlat,   *)
(* always_on and persistent stand in no profile of the model.                 *)
EmergencyKey(p) ==
    IF p = NoProfile THEN NoLead
    ELSE <<IsDefault(p), p.apn, p.fixed.protocol, p.fixed.roaming_protocol, p.open.user,
           p.authtype, p.mtu4, p.nt, p.fixed.profile_id>>

(* The preferred APN sets that leave a phone without emergency profile.       *)
StrandedSets(profiles) ==
    {set \in {0} \cup {p.fixed.apn_set_id : p \in {p \in ToSet(profiles) :
                           "default" \in p.types /\ p.fixed.apn_set_id # -1}} :
        \A nt \in WatchTypes :
            EmergencyLead(WithDefault(profiles, "sos", "emergency"), nt, set) = NoProfile}

TypedOn(profiles, nt) ==
    [ims |-> ImsOn(FirstServing(WithDefault(profiles, "ims", "ims"), "ims", nt)),
     first |-> [t \in FirstProfileTypes |-> LeadKey(FirstServing(profiles, t, nt))],
     emergency |-> EmergencyKey(EmergencyLead(WithDefault(profiles, "sos", "emergency"),
                                              nt, 0))]

--------------------------------------------------------------------------------
(* What the generator's records say of the rows of one scope.                 *)

VendorMmsTuples(rows) ==
    {Norm(MmsSetting(r)) : r \in {r \in ToSet(rows) :
        Backed(r, "mms") /\ r.apn \notin Placeholders /\ Attr(r.attr, "mmsc", "") # ""}}

BackedTypes(r) == {t \in DOMAIN r.cur : r.cur[t] # {}}
VendorRows(rows) == {r \in ToSet(rows) : BackedTypes(r) # {}}
VendorRowsOf(vendor, lead) == {r \in vendor : Folded[r.apn] = Folded[lead[1]]}
GivenTypes(vendor, lead) == UNION {BackedTypes(r) : r \in VendorRowsOf(vendor, lead)}
GivenUsers(vendor, lead) == {Attr(r.attr, "user", "") : r \in VendorRowsOf(vendor, lead)}
GivenProxies(vendor, lead) == {Attr(r.attr, "proxy", "") : r \in VendorRowsOf(vendor, lead)}

ListingSources == CurrentVendorApnSources \cup {"apple_carrier_bundles"}
Listed(rows) ==
    \E r \in ToSet(rows) : BackedTypes(r) # {} \/ RecordSources(r) \cap ListingSources # {}

NoFill == [signature |-> <<>>, classA |-> FALSE]

(* The credentials a lead's stored row takes from rows under its best one,    *)
(* and whether no current vendor backs any of them and one backs the best.    *)
FilledRow(rows, p, stored) ==
    LET filled  == FillIns(stored)
        RowOf(i) == CHOOSE r \in ToSet(rows) : r.id = i
        fillers == {RowOf(stored.writers[f]) : f \in filled}
    IN  [signature |-> <<p.apn, [f \in filled |-> RowOf(stored.writers[f]).attr[f]]>>,
         classA |-> /\ filled # {}
                    /\ BackedTypes(RowOf(Last(stored.srcs))) # {}
                    /\ \A r \in fillers : BackedTypes(r) = {}]

FilledLead(rows, stored, p) ==
    LET i == SelectInSeq(stored, LAMBDA s : s.srcs = p.base)
    IN  IF p = NoProfile \/ i = 0 THEN NoFill ELSE FilledRow(rows, p, stored[i])

FilledLeads(rows, stored, leads) ==
    [role \in DOMAIN leads |-> FilledLead(rows, stored, leads[role])]

(* An IMS lead on rows that serve every type of "*", none backed for IMS,     *)
(* while a vendor gives an IMS row.                                           *)
StarIms(rows, srcs) ==
    LET behind == {r \in ToSet(rows) : r.id \in srcs}
    IN  /\ \E r \in ToSet(rows) : Backed(r, "ims")
        /\ behind # {}
        /\ WildcardTypes \subseteq UNION {TypeSet(r.types) : r \in behind}
        /\ \A r \in behind : ~Backed(r, "ims")

RoleType(role) ==
    CASE role = "internet" -> "default" [] role = "attach" -> "ia" [] OTHER -> role

(* A lead every row of which only the legacy copy backs for the role.         *)
OnlyCopy(rows, role, p) ==
    LET want == IF role = "attach" /\ "ia" \notin p.types THEN "default" ELSE RoleType(role)
        serving == {r \in ToSet(rows) : r.id \in ToSet(p.srcs) /\ want \in TypeSet(r.types)}
    IN  /\ serving # {}
        /\ \A r \in serving :
              want \in DOMAIN r.sup /\ r.sup[want] # {} /\ r.sup[want] \subseteq {LegacyCopy}

(* A current vendor gives an APN for the role that a profile there has.       *)
VendorHasRole(rows, profiles, role, nt) ==
    LET wanted == IF role \in DOMAIN RoleTypes THEN RoleTypes[role] ELSE {RoleType(role)}
    IN  \E i \in DOMAIN profiles :
            /\ wanted \cap profiles[i].types # {}
            /\ ServesOn(profiles[i], nt) /\ Cellular(profiles[i])
            /\ \E r \in VendorRows(rows) :
                  Folded[r.apn] = Folded[profiles[i].apn] /\ BackedTypes(r) \cap wanted # {}

CopyRoles == {"internet", "attach", "mms", "ims"} \cup FirstProfileTypes

RoleLead(profiles, role, nt) ==
    CASE role = "internet" -> Lead(profiles, "default", nt)
      [] role = "attach" -> Lead(profiles, "ia", nt)
      [] OTHER -> Lead(profiles, role, nt)

CopyLeadsOn(rows, profiles, nt) ==
    {role \in CopyRoles :
        LET p == RoleLead(profiles, role, nt)
        IN  p # NoProfile /\ OnlyCopy(rows, role, p) /\ VendorHasRole(rows, profiles, role, nt)}

--------------------------------------------------------------------------------
(* Everything the guard reads of one file, scope by scope.                    *)

ReadProfiles(rows, stored, profiles) ==
    [leads |-> [nt \in AllNetworkTypes |-> StateOn(LeadProfiles(profiles, nt), stored)],
     typed |-> [nt \in WatchTypes |-> TypedOn(profiles, nt)],
     sets |-> StrandedSets(profiles),
     fills |-> [nt \in HoldTypes |-> FilledLeads(rows, stored, LeadProfiles(profiles, nt))],
     copies |-> [nt \in WatchTypes |-> CopyLeadsOn(rows, profiles, nt)],
     tuples |-> VendorMmsTuples(rows), vendor |-> VendorRows(rows),
     listed |-> Listed(rows), rows |-> rows]

ReadStored(rows, stored) == ReadProfiles(rows, stored, Profiles(stored, TRUE))

ReadScope(rows, s) == ReadStored(rows, Provider(rows, s \in PersistScopes))

ReadFile(f) == [s \in {s \in DOMAIN f : f[s] # <<>>} |-> ReadScope(f[s], s)]

Both(base, head) == DOMAIN base \cap DOMAIN head

--------------------------------------------------------------------------------
(* The trips: internet, attach or working MMS lost, or MMS moved off a        *)
(* current vendor's tuple, the base's or the head's, to none of the head's.   *)

When(condition, line) == IF condition THEN {line} ELSE {}

TripsOn(s, nt, old, new, headTuples, baseTuples) ==
    When(Some(old.internet) /\ ~Some(new.internet),
         <<"internet_lost", s, nt, old.internet[1], "none">>)
    \cup When(Some(old.attach) /\ ~Some(new.attach),
              <<"attach_lost", s, nt, old.attach[1], "none">>)
    \cup When(Works(old.mms) /\ ~Works(new.mms), <<"mms_lost", s, nt, old.mms, new.mms>>)
    \cup When(/\ Works(old.mms) /\ Works(new.mms)
              /\ Norm(old.mms) # Norm(new.mms)
              /\ Norm(old.mms) \in headTuples \cup baseTuples
              /\ Norm(new.mms) \notin headTuples,
              <<"mms_away", s, nt, old.mms, new.mms>>)

(* Mutant: only the head's vendor tuples count.                               *)
TripsOffHead(base, head) ==
    UNION {TripsOn(s, nt, base[s].leads[nt], head[s].leads[nt], head[s].tuples, {}) :
              s \in Both(base, head), nt \in HoldTypes}

Trips(base, head) ==
    UNION {TripsOn(s, nt, base[s].leads[nt], head[s].leads[nt],
                   head[s].tuples, base[s].tuples) :
              s \in Both(base, head), nt \in HoldTypes}

--------------------------------------------------------------------------------
(* The IMS and emergency report.                                              *)

ImsChange(old, new) ==
    IF ~Some(old.key) THEN When(Some(new.key) /\ ~new.default, "ims lead gained")
    ELSE IF ~Some(new.key) THEN {"ims lead lost"}
    ELSE IF ~old.default /\ new.default THEN {"ims lead lost to Android's default"}
    ELSE IF old.default /\ ~new.default THEN {"ims lead gained over Android's default"}
    ELSE IF ~SameApn(old.key, new.key) THEN {"ims lead APN changed"}
    ELSE When(<<old.key[5], old.key[6]>> # <<new.key[5], new.key[6]>>,
              "ims lead protocol changed")

OntoInternet(old, new) ==
    When(/\ Some(new.key) /\ new.internet
         /\ \/ ~Some(old.key) \/ old.default \/ ~old.internet
            \/ ~SameApn(old.key, new.key),
         "IMS profile moves onto an internet APN")

EmergencyChange(old, new) ==
    IF old = new THEN {}
    ELSE CASE Some(old) /\ Some(new) /\ old[1] /\ ~new[1] -> {"emergency lead gained"}
           [] Some(old) /\ Some(new) /\ ~old[1] /\ new[1] -> {"emergency lead lost"}
           [] OTHER -> {"emergency lead changed"}

EmergencyNamed(lead) == Some(lead) /\ lead[1] \in EmergencyNames

BecomesEmergency(role, old, new) ==
    When(EmergencyNamed(new) /\ ~EmergencyNamed(old),
         "emergency-named APN becomes lead: " \o role)

WatchLeads(old, new) ==
    BecomesEmergency("internet", old.internet, new.internet)
    \cup BecomesEmergency("attach", old.attach, new.attach)
    \cup When(/\ Some(old.attach) /\ Some(new.attach) /\ ~SameApn(old.attach, new.attach),
              "attach lead APN changed")

WatchTyped(old, new) ==
    ImsChange(old.ims, new.ims) \cup OntoInternet(old.ims, new.ims)
    \cup {t \o " lead APN changed" : t \in {t \in WatchChangeTypes :
              Some(old.first[t]) /\ Some(new.first[t]) /\ ~SameApn(old.first[t], new.first[t])}}
    \cup EmergencyChange(old.emergency, new.emergency)

WatchOn(s, old, new, nt) ==
    {<<line, s>> : line \in WatchTyped(old.typed[nt], new.typed[nt])
                              \cup WatchLeads(old.leads[nt], new.leads[nt])}

SetMissing(s, old, new) ==
    When(~(new.sets \subseteq old.sets), <<"emergency profile missing under an APN set", s>>)

Watch(base, head) ==
    (UNION {WatchOn(s, base[s], head[s], nt) : s \in Both(base, head), nt \in WatchTypes})
    \cup (UNION {SetMissing(s, base[s], head[s]) : s \in Both(base, head)})

StarImsLeads(head) ==
    {<<"ims lead on a *-typed row no current vendor backs for ims", s>> :
        s \in {s \in DOMAIN head : \E nt \in WatchTypes :
                  StarIms(head[s].rows, head[s].typed[nt].ims.srcs)}}

--------------------------------------------------------------------------------
(* MVNO scopes that leave or arrive, against their network's plain rows.      *)

ApnMoved(old, new) == ~(Some(old) /\ SameApn(old, new)) /\ (Some(old) \/ Some(new))

(* Mutant: only an APN that changes, not one that goes.                       *)
FallbackMoves(old, new, typedOld, typedNew) ==
    {role \in {"internet", "attach"} :
        Some(old[role]) /\ Some(new[role]) /\ ~SameApn(old[role], new[role])}

FallbackChanges(old, new, typedOld, typedNew) ==
    {role \in {"internet", "attach"} : Some(old[role]) /\ ~SameApn(old[role], new[role])}
    \cup When(Works(old.mms) /\ Norm(old.mms) # Norm(new.mms), "mms")
    \cup When(Some(typedOld.ims.key) /\ ~SameApn(typedOld.ims.key, typedNew.ims.key), "ims")

ArrivalChanges(old, new, typedOld, typedNew) ==
    {role \in {"internet", "attach"} : ApnMoved(old[role], new[role])}
    \cup When(Norm(old.mms) # Norm(new.mms), "mms")
    \cup When(ApnMoved(typedOld.ims.key, typedNew.ims.key), "ims")

ScopesGone(base, head) ==
    LET gone == DOMAIN base \ DOMAIN head
        Left(s) ==
            IF Host[s] \notin DOMAIN head THEN {"internet"}
            ELSE UNION {FallbackChanges(base[s].leads[nt], head[Host[s]].leads[nt],
                                        base[s].typed[nt], head[Host[s]].typed[nt]) :
                           nt \in WatchTypes}
    IN  {<<"scopes gone", s>> : s \in gone}
        \cup {<<"network gone while a current observation lists it", s>> :
                 s \in {s \in gone : ~Mvno(s) /\ base[s].listed}}
        \cup (UNION {{<<"MVNO scope gone", s, role>> : role \in Left(s)} :
                        s \in {s \in gone : Mvno(s)}})

(* A new MVNO scope whose MMS is neither its host's nor a vendor's.           *)
ArrivalMms(base, head, s) ==
    \E nt \in WatchTypes :
        LET old == base[Host[s]].leads[nt].mms
            new == head[s].leads[nt].mms
        IN  /\ Works(new) /\ Norm(new) # Norm(old)
            /\ Norm(new) \notin head[s].tuples
            /\ Host[s] \in DOMAIN head => Norm(new) \notin head[Host[s]].tuples

ScopesNew(base, head) ==
    LET new == {s \in DOMAIN head \ DOMAIN base : Mvno(s)}
        Taken(s) ==
            IF Host[s] \notin DOMAIN base THEN {"internet"}
            ELSE UNION {ArrivalChanges(base[Host[s]].leads[nt], head[s].leads[nt],
                                       base[Host[s]].typed[nt], head[s].typed[nt]) :
                           nt \in WatchTypes}
    IN  (UNION {{<<"MVNO scope new", s, role>> : role \in Taken(s)} : s \in new})
        \cup {<<"MVNO scope new, MMS to a tuple no current vendor gives", s>> :
                 s \in {s \in new : Host[s] \in DOMAIN base /\ ArrivalMms(base, head, s)}}

--------------------------------------------------------------------------------
(* The report on a scope that is in both files.                               *)

FirstProfileMoves(s, old, new, vendor) ==
    {<<t \o " lead on an APN no current vendor gives", s>> : t \in {t \in FirstProfileTypes :
        /\ Some(new[t]) /\ ~(Some(old[t]) /\ SameApn(old[t], new[t]))
        /\ t \notin GivenTypes(vendor, new[t])}}

RoleReport(s, role, old, new, vendor) ==
    IF ~Some(new) \/ old = new THEN {}
    ELSE LET users == GivenUsers(vendor, new)
             gained == new[3] # "" /\ (~Some(old) \/ old[3] # new[3])
             lost   == SendsCredentials(old) /\ ~SendsCredentials(new)
             proxy  == new[2] # "" /\ (~Some(old) \/ old[2] # new[2])
         IN  When(gained, <<"credentials gained or changed", s, role>>)
             \cup When(gained /\ users \ {""} # {} /\ new[3] \notin users,
                       <<"WARNING: credentials contradict a vendor's", s, role>>)
             \cup When(lost, <<"credentials lost", s, role>>)
             \cup When(lost /\ users # {} /\ "" \notin users,
                       <<"WARNING: every vendor row carries credentials", s, role>>)
             \cup When(proxy, <<"HTTP proxy gained or changed", s, role>>)
             \cup When(proxy /\ new[2] \notin GivenProxies(vendor, new),
                       <<"WARNING: proxy no vendor row gives", s, role>>)
             \cup When(/\ role # "mmslead" /\ Some(old) /\ ~SameApn(old, new)
                       /\ GivenTypes(vendor, new) \cap RoleTypes[role] = {},
                       <<"lead moves to an APN no current vendor gives", s, role>>)

MmsReport(s, old, new, tuples) ==
    IF ~Works(old) \/ ~Works(new) \/ Norm(old) = Norm(new) THEN {}
    ELSE IF Norm(new) \in tuples
         THEN When(Norm(old) \notin tuples, <<"MMS moves to a vendor tuple", s>>)
         ELSE {<<"MMS moves to a tuple no current vendor gives", s>>}

LostTypes(kind, old, new) ==
    {nt \in AllNetworkTypes :
        IF kind = "mms" THEN Works(old[nt].mms) /\ ~Works(new[nt].mms)
        ELSE Some(old[nt][kind]) /\ ~Some(new[nt][kind])}

LostElsewhere(s, old, new) ==
    {<<"lost only on IWLAN or CDMA", s, kind>> : kind \in {kind \in {"internet", "attach", "mms"} :
        /\ LostTypes(kind, old, new) # {}
        /\ LostTypes(kind, old, new) \cap HoldTypes = {}}}

(* Mutant: the MMS lead and what it sends is left out.                        *)
LeadsReport(s, old, new) ==
    UNION {RoleReport(s, role, old.leads[nt][role], new.leads[nt][role], new.vendor) :
              nt \in AllNetworkTypes, role \in {"internet", "attach"}}

ScopeReport(s, old, new) ==
    (UNION {FirstProfileMoves(s, old.typed[nt].first, new.typed[nt].first, new.vendor) :
               nt \in WatchTypes})
    \cup (UNION {RoleReport(s, role, old.leads[nt][role], new.leads[nt][role], new.vendor) :
                    nt \in AllNetworkTypes, role \in {"internet", "attach", "mmslead"}})
    \cup (UNION {MmsReport(s, old.leads[nt].mms, new.leads[nt].mms, new.tuples) :
                    nt \in AllNetworkTypes})
    \cup LostElsewhere(s, old.leads, new.leads)

FilledAsBefore(base, s, role, nt, fill) ==
    s \in DOMAIN base /\ base[s].fills[nt][role].signature = fill.signature

FillInReport(base, head) ==
    UNION {{<<"credentials filled in from a non-current source", s, role>> :
               role \in {role \in DOMAIN head[s].fills[nt] :
                   /\ head[s].fills[nt][role].classA
                   /\ ~FilledAsBefore(base, s, role, nt, head[s].fills[nt][role])}} :
              s \in DOMAIN head, nt \in HoldTypes}

StateKey(reading, role, nt) ==
    CASE role \in {"internet", "attach"} -> reading.leads[nt][role]
      [] role = "mms" -> reading.leads[nt].mmslead
      [] role = "ims" -> reading.typed[nt].ims.key
      [] OTHER -> reading.typed[nt].first[role]

CopyReport(base, head) ==
    UNION {{<<"legacy list leads a role a current vendor gives",
              IF s \in DOMAIN base /\ StateKey(base[s], role, nt) = StateKey(head[s], role, nt)
              THEN "same as base" ELSE "differs from base", s, role>> :
               role \in head[s].copies[nt]} :
              s \in DOMAIN head, nt \in WatchTypes}

Report(base, head) ==
    ScopesGone(base, head) \cup ScopesNew(base, head)
    \cup (UNION {ScopeReport(s, base[s], head[s]) : s \in Both(base, head)})
    \cup FillInReport(base, head)

(* What the run shows, in a line, of any scope.                               *)
Shown(base, head) ==
    Trips(base, head) \cup Report(base, head) \cup Watch(base, head)
================================================================================
