------------------------------ MODULE ScopeSteps ------------------------------
(* The steps that turn the rows of one scope into the rows apns-conf.xml      *)
(* writes, each an operator from rows to rows, in the order of write_scope    *)
(* (tools/generate_android_outputs.py). A step that removes a row or a type   *)
(* leaves the profile JSON as it is; only the written file changes. The marks *)
(* that only --explain and the counts read are left out.                      *)
EXTENDS PhoneApns

CONSTANTS
    OperatorPages,  \* OPERATOR_PAGE_CREDENTIALS: names, without letter case
    StarGateTypes   \* STAR_IMS_GATE_TYPES

(* A scope's network: whether it is one of persist_apns_for_plmn, and the     *)
(* sources D8 rule 1 reads as superseded Google copies in this run.           *)
FrozenPixelCopySources == {"google_pixel_vendor_carriersettings"}

--------------------------------------------------------------------------------
(* Attach types of stale copies.                                              *)

LeaveOutStaleAttach(rows) ==
    LET Gives(r) == Backed(r, "default") \/ Backed(r, "ia")
        vendor   == {Folded[r.apn] : r \in {r \in ToSet(rows) : Gives(r)}}
        covered  == \E r \in ToSet(rows) : Gives(r) /\ r.apn \notin Placeholders
        Stale(r) == /\ "ia" \in r.types /\ r.types # {"ia"}
                    /\ Folded[r.apn] \notin vendor
    IN  MapRows(rows, LAMBDA r : IF covered /\ Stale(r)
                                 THEN [r EXCEPT !.types = @ \ {"ia"}] ELSE r)

--------------------------------------------------------------------------------
(* Emergency types.                                                           *)

EmergencyNeutral == {"user_visible", "protocol", "roaming_protocol"}
EmergencyNeutralValues == [authtype |-> {0}, apn_set_id |-> {0, -1}]

EmergencyDefaultInEffect(r) ==
    /\ r.apn = "sos"
    /\ Attr(r.attr, "protocol", "") = "IPV4V6"
    /\ Attr(r.attr, "roaming_protocol", "") = "IPV4V6"
    /\ \A f \in DOMAIN r.attr \ EmergencyNeutral :
          \/ f \in DOMAIN ApnDefaults /\ r.attr[f] = ApnDefaults[f]
          \/ f \in DOMAIN EmergencyNeutralValues
               /\ r.attr[f] \in EmergencyNeutralValues[f]

EmergencyStated(r) ==
    \/ Backed(r, "emergency")
    \/ "emergency" \in DOMAIN r.sup /\ "lineageos" \in r.sup["emergency"]

MayKeepEmergency(r) ==
    /\ {"protocol", "roaming_protocol"} \subseteq DOMAIN r.attr
    /\ ApnRowTypes(r.types) = {"emergency"}
    /\ EmergencyDefaultInEffect(r) \/ EmergencyStated(r)

ApnSet(r) == Attr(r.attr, "apn_set_id", 0)

PreferredSets(rows) == {0} \cup {ApnSet(r) : r \in {r \in ToSet(rows) : Serves(r, "default")}}

SetCovered(kept, s) == \E r \in kept : ApnSet(r) \in {-1, s}

(* A row left with no type is not written.                                    *)
WithTypes(rows) == Only(rows, {r \in ToSet(rows) : r.types # {}})

(* Mutants: one covered APN set is enough, and a row left with no type stays. *)
LeaveOutEmergencyOneSet(rows) ==
    LET kept == {r \in ToSet(rows) : Serves(r, "emergency") /\ MayKeepEmergency(r)}
        some == \E s \in PreferredSets(rows) : SetCovered(kept, s)
    IN  WithTypes(MapRows(rows, LAMBDA r : IF Serves(r, "emergency") /\ ~(r \in kept /\ some)
                                           THEN [r EXCEPT !.types = @ \ {"emergency"}]
                                           ELSE r))

LeaveOutEmergency(rows) ==
    LET kept == {r \in ToSet(rows) : Serves(r, "emergency") /\ MayKeepEmergency(r)}
        all  == \A s \in PreferredSets(rows) : SetCovered(kept, s)
        Loses(r) == Serves(r, "emergency") /\ ~(r \in kept /\ all)
    IN  WithTypes(MapRows(rows, LAMBDA r : IF Loses(r)
                                           THEN [r EXCEPT !.types = @ \ {"emergency"}]
                                           ELSE r))

--------------------------------------------------------------------------------
(* MMS to a current vendor's MMS row (change 18, steps 1 to 4).               *)

Mark(r, m) == [r EXCEPT !.marks = @ \cup {m}]
LeftWithInternet(r) == r.marks \cap {"mms_with_internet", "type_with_internet"} # {}
Live(rows) == Only(rows, {r \in ToSet(rows) : ~LeftWithInternet(r)})

InternetRow(rows) == FirstRow(rows, LAMBDA r : Serves(r, "default"))
VendorMmsRows(rows) == SelectSeq(rows, VendorMmsRow)

(* The written order of the internet row's group: the internet row last.      *)
WrittenOrder(group, best) ==
    Append(SelectSeq(Reverse(group), LAMBDA r : r.id # best.id), best)

(* Mutant: no sole-effect test.                                              *)
AnyEffect(group, best, r) == TRUE

(* The stored row without one row of its group has the same values.           *)
SoleEffectIsType(group, best, r) ==
    LET order == WrittenOrder(group, best)
    IN  StoredRow(Only(order, ToSet(order) \ {r})).attr = StoredRow(order).attr

(* A row of the internet row's stored group with no other type is marked to   *)
(* be left out; a row with other types loses the type.                        *)
TakeOff(rows, stale, t, mark) ==
    MapRows(rows, LAMBDA r :
        IF r \notin stale THEN r
        ELSE IF ApnRowTypes(r.types) = {t} THEN Mark(r, mark) ELSE TypesOff(r, {t}))

(* Step 2: the internet row itself.                                           *)
TakeMmsOffInternetRow(rows, internet, vendor) ==
    IF /\ internet.id # 0 /\ Serves(internet, "mms")
       /\ ~Backed(internet, "mms")
       /\ MmsTypesOf(internet) \subseteq AllOf(vendor, MmsTypesOf)
    THEN MapRows(rows, LAMBDA r : IF r.id = internet.id THEN TypesOff(r, {"mms"}) ELSE r)
    ELSE rows

(* Step 2b: the rows stored with it.                                          *)
TakeMmsOffInternetGroup(rows, internet, group, vendor, net) ==
    LET stale == {r \in ToSet(group) : r.id # internet.id /\ Serves(r, "mms")}
    IN  IF /\ ~Serves(internet, "mms")
           /\ ~net.persist
           /\ stale # {}
           /\ \A r \in ToSet(group) : ~Backed(r, "mms")
           /\ AllOf(group, MmsTypesOf) \subseteq AllOf(vendor, MmsTypesOf)
           /\ \A r \in stale : ApnRowTypes(r.types) = {"mms"}
                                 => SoleEffectIsType(group, internet, r)
        THEN TakeOff(rows, stale, "mms", "mms_with_internet")
        ELSE rows

GroupServes(rows, r, t) == \E o \in ToSet(rows) : o.key = r.key /\ Serves(o, t)

(* Step 3's read-past of an internet group that serves no 3GPP type.          *)
ReadPastCdmaInternetGroup(live, internet, first) ==
    IF \/ first.id = 0 \/ first.id # internet.id
       \/ AllOf(Group(live, internet.key), MmsTypesOf) # {}
    THEN first
    ELSE FirstRow(live, LAMBDA r :
            /\ r.key # internet.key
            /\ GroupServes(live, r, "mms")
            /\ AllOf(Group(live, r.key), MmsTypesOf) # {})

MoveBefore(rows, moved, place) ==
    Ascending(rows, [r \in ToSet(rows) |->
                        IF r \in moved THEN <<Place(rows, place), 0, Place(rows, r)>>
                        ELSE <<Place(rows, r), 1>>])

(* Steps 3 and 4.                                                             *)
MoveVendorMms(rows, live, first, internet, candidates) ==
    IF \/ first.id \in {0, internet.id}
       \/ \E r \in ToSet(Group(live, first.key)) : VendorMmsRow(r)
       \/ candidates = {}
    THEN rows
    ELSE MoveBefore(rows, {BestFor(rows, candidates, "mms")}, first)

FirstMmsRow(live, internet) ==
    ReadPastCdmaInternetGroup(live, internet,
                              FirstRow(live, LAMBDA r : GroupServes(live, r, "mms")))

MoveMms(rows, live, internet) ==
    MoveVendorMms(rows, live, FirstMmsRow(live, internet), internet,
                  {r \in ToSet(rows) : VendorMmsRow(r) /\ ~Serves(r, "default")
                                                       /\ ~Serves(r, "ia")})

MmsOffInternetGroup(rows, internet, net) ==
    IF internet.id = 0 THEN rows
    ELSE TakeMmsOffInternetGroup(rows, internet, Group(rows, internet.key),
                                 VendorMmsRows(rows), net)

MmsOffThenMove(rows, net) ==
    LET Move(left) == MoveMms(left, Live(left), InternetRow(left))
    IN  Move(MmsOffInternetGroup(rows, InternetRow(rows), net))

PutVendorMmsFirst(ranked, net) ==
    IF VendorMmsRows(ranked) = <<>> THEN ranked
    ELSE MmsOffThenMove(
            TakeMmsOffInternetRow(ranked, InternetRow(ranked), VendorMmsRows(ranked)), net)

--------------------------------------------------------------------------------
(* Step 2c: another type that a row stored with the internet row gives it.    *)

StaleGroupTypes == MmsNetworkTypes \cup {Iwlan}
TypesRead(r) == RowNetworkTypes(r.attr, StaleGroupTypes)

VendorFor(r, t) == Backed(r, t) /\ r.apn \notin Placeholders /\ Usable(r.attr)

(* The first stored row after the group that serves the type on a network     *)
(* type holds a row a current vendor backs for it.                            *)
VendorFollows(live, key, t, nt) ==
    LET next == FirstRow(live, LAMBDA r :
                    /\ r.key # key
                    /\ GroupServes(live, r, t)
                    /\ nt \in AllOf(Group(live, r.key), TypesRead))
    IN  next.id # 0 /\ \E r \in ToSet(Group(live, next.key)) : VendorFor(r, t)

VendorElsewhere(live, key, t) ==
    SelectSeq(live, LAMBDA r : r.key # key /\ VendorFor(r, t) /\ TypesRead(r) # {})

MayLoseTypeRead(live, internet, group, vendor, served, t, net) ==
    /\ ~Serves(internet, t)
    /\ ~net.persist
    /\ \A r \in ToSet(group) : ~Backed(r, t)
    /\ vendor # <<>>
    /\ served \subseteq AllOf(vendor, TypesRead)
    /\ ~\E r \in ToSet(live) : Folded[r.apn] = Folded[internet.apn] /\ Backed(r, t)
    /\ \A nt \in served : VendorFollows(live, internet.key, t, nt)
    /\ \A r \in ToSet(group) :
          r.id # internet.id /\ ApnRowTypes(r.types) = {t} => SoleEffectIsType(group, internet, r)

MayLoseType(live, internet, group, t, net) ==
    MayLoseTypeRead(live, internet, group, VendorElsewhere(live, internet.key, t),
                    AllOf(group, TypesRead), t, net)

TakeTypeOffGroup(rows, live, internet, group, t, net) ==
    IF MayLoseType(live, internet, group, t, net)
    THEN TakeOff(rows, {r \in ToSet(group) : r.id # internet.id /\ Serves(r, t)}, t,
                 "type_with_internet")
    ELSE rows

TakeTypeOffLive(rows, live, internet, t, net) ==
    IF internet.id = 0 THEN rows
    ELSE TakeTypeOffGroup(rows, live, internet, Group(live, internet.key), t, net)

TakeTypeOffInternetGroup(rows, t, net) ==
    TakeTypeOffLive(rows, Live(rows), InternetRow(rows), t, net)

--------------------------------------------------------------------------------
(* Step 4b: the vendor attach row ahead of a CDMA-only internet group.        *)

AttachCandidates(live, internet) ==
    {r \in ToSet(live) : /\ r.key # internet.key /\ Backed(r, "ia")
                         /\ r.apn \notin Placeholders
                         /\ ~Serves(r, "default") /\ ~Serves(r, "mms")}

(* No row between the two groups serves another type of the one that moves.   *)
NothingPassed(live, own, group) ==
    LET other == (UNION {ApnRowTypes(r.types) : r \in group}) \ {"ia"}
    IN  ~\E i \in DOMAIN live :
            /\ \E j \in 1 .. i : live[j] \in own
            /\ \A j \in DOMAIN live : live[j] \in group => i < j
            /\ \E t \in other : Serves(live[i], t)

MoveAttachGroup(rows, live, internet, own, group, best) ==
    IF /\ \E r \in group : Lte \in MmsTypesOf(r)
       /\ \A r \in group : Usable(r.attr)
       /\ NothingPassed(live, own, group)
    THEN MapRows(MoveBefore(rows, {r \in ToSet(rows) : r.key = best.key},
                            FirstRow(rows, LAMBDA r : r \in own)),
                 LAMBDA r : IF r.id = best.id THEN Mark(r, "attach_ahead") ELSE r)
    ELSE rows

MoveAttach(rows, live, internet, own, candidates, first) ==
    LET Move(best) ==
            MoveAttachGroup(rows, live, internet, own, ToSet(Group(live, best.key)), best)
    IN  IF /\ first.id # 0 /\ first.key = internet.key /\ ~Serves(internet, "ia")
           /\ \A r \in own : MmsTypesOf(r) = {} /\ ~Backed(r, "ia")
           /\ candidates # {}
        THEN Move(BestFor(rows, candidates, "ia"))
        ELSE rows

AttachFirst(rows, live, internet) ==
    IF internet.id = 0 THEN rows
    ELSE MoveAttach(rows, live, internet, ToSet(Group(live, internet.key)),
                    AttachCandidates(live, internet),
                    FirstRow(live, LAMBDA r : GroupServes(live, r, "ia")))

PutVendorAttachFirst(rows) ==
    LET Put(live) == AttachFirst(rows, live, InternetRow(live))
    IN  Put(Live(rows))

--------------------------------------------------------------------------------
(* Step 2d: MMS off the rows that lead the internet on some network types.    *)

ServesBut(live, k, t, off) ==
    \E r \in ToSet(live) \ off : r.key = k /\ Serves(r, t)

FirstKey(live, Test(_)) ==
    LET i == SelectInSeq(live, LAMBDA r : Test(r.key))
    IN  IF i = 0 THEN <<>> ELSE <<live[i].key>>

OnNetworkType(s, nt) ==
    Usable(s.attr) /\ nt \in RowNetworkTypes(s.attr, StaleGroupTypes)

FirstServingOn(live, stored, t, nt, off) ==
    FirstKey(live, LAMBDA k :
        /\ ServesBut(live, k, t, off)
        /\ OnNetworkType(stored[SelectInSeq(stored, LAMBDA s : s.key = k)], nt))

(* Per network type, the stored row that leads the internet, and the one MMS  *)
(* goes over once some rows no longer serve it.                               *)
TypeLeads(live, stored) ==
    [nt \in StaleGroupTypes |-> FirstServingOn(live, stored, "default", nt, {})]

MmsCarriers(live, stored, leads, off) ==
    [nt \in StaleGroupTypes |->
        IF leads[nt] # <<>> /\ ServesBut(live, leads[nt][1], "mms", off)
        THEN leads[nt]
        ELSE FirstServingOn(live, stored, "mms", nt, off)]

(* The leads that serve MMS, the scope's own internet row aside.              *)
MmsTypeLeads(live, leads) ==
    LET ahead == {r.key : r \in {r \in ToSet(live) : "attach_ahead" \in r.marks}}
        own   == FirstKey(live, LAMBDA k : k \notin ahead /\ ServesBut(live, k, "default", {}))
    IN  {k \in {r.key : r \in ToSet(live)} :
            /\ <<k>> # own /\ ServesBut(live, k, "mms", {})
            /\ \E nt \in MmsNetworkTypes : leads[nt] = <<k>>}

MayLoseMms(members, stored, vendor, net) ==
    /\ \A r \in members : ~Backed(r, "mms") /\ ApnRowTypes(r.types) # {"mms"}
    /\ RowNetworkTypes(stored.attr, MmsNetworkTypes) \subseteq AllOf(vendor, MmsTypesOf)
    /\ net.persist => Cardinality(members) = 1

(* Wherever MMS goes over a candidate, it goes over a vendor's row after it.  *)
VendorTakesOver(live, candidates, before, after) ==
    \A nt \in StaleGroupTypes :
        before[nt] \in {<<k>> : k \in candidates} =>
            /\ after[nt] # <<>>
            /\ \E r \in ToSet(live) :
                  r.key = after[nt][1] /\ VendorMmsRow(r) /\ nt \in TypesRead(r)

TakeMmsOffCandidates(rows, live, stored, leads, candidates, net) ==
    LET vendor == VendorMmsRows(live)
        stale  == {r \in ToSet(live) : r.key \in candidates /\ Serves(r, "mms")}
        Carriers(off) == MmsCarriers(live, stored, leads, off)
    IN  IF /\ vendor # <<>>
           /\ \A s \in {s \in ToSet(stored) : s.key \in candidates} :
                 MayLoseMms({r \in ToSet(live) : r.key = s.key}, s, vendor, net)
           /\ VendorTakesOver(live, candidates, Carriers({}), Carriers(stale))
        THEN MapRows(rows, LAMBDA r : IF r \in stale THEN TypesOff(r, {"mms"}) ELSE r)
        ELSE rows

TakeMmsOffLeadsOf(rows, live, stored, leads, net) ==
    TakeMmsOffCandidates(rows, live, stored, leads, MmsTypeLeads(live, leads), net)

TakeMmsOffStored(rows, live, stored, net) ==
    TakeMmsOffLeadsOf(rows, live, stored, TypeLeads(live, stored), net)

TakeMmsOffTypeInternetLeads(rows, net) ==
    TakeMmsOffStored(rows, Live(rows), AndroidStoredRows(Reverse(Live(rows))), net)

--------------------------------------------------------------------------------
(* The rows a phone stores as one, next to each other, the best of them last. *)

WriteGroupsBestLast(ranked) ==
    LET At(r)   == Place(ranked, r)
        Best(r) == SelectInSeq(ranked, LAMBDA o : o.key = r.key)
    IN  Ascending(ranked, [r \in ToSet(ranked) |-> <<Best(r), Flag(At(r) = Best(r)), -At(r)>>])

--------------------------------------------------------------------------------
(* D8 rule 1: credentials only superseded Google copies still give.           *)

(* The stored rows that lead a role somewhere, without DataProfileManager's   *)
(* merge.                                                                     *)
AndroidLeadPositions(stored) ==
    LET FirstOn(Test(_)) == SelectInSeq(stored, LAMBDA s : Usable(s.attr) /\ Test(s))
        On(s, nt) == nt \in RowNetworkTypes(s.attr, MmsNetworkTypes)
        Internet(nt) == FirstOn(LAMBDA s : On(s, nt) /\ Serves(s, "default"))
        Mms(nt) == IF Internet(nt) # 0 /\ Serves(stored[Internet(nt)], "mms")
                   THEN Internet(nt)
                   ELSE FirstOn(LAMBDA s : On(s, nt) /\ Serves(s, "mms"))
        ia == FirstOn(LAMBDA s : Serves(s, "ia"))
        attach == IF ia # 0 THEN ia ELSE FirstOn(LAMBDA s : Serves(s, "default"))
    IN  ({attach} \cup UNION {{Internet(nt), Mms(nt)} : nt \in MmsNetworkTypes}) \ {0}

(* The credentials a row fills in under the rows of its group written later.  *)
Fills(group, i) ==
    {f \in CredentialAttributes \cap DOMAIN group[i].attr :
        \A j \in i + 1 .. Len(group) : f \notin DOMAIN group[j].attr}

OnlyFillsIn(group, r) ==
    LET with    == StoredRow(group)
        without == StoredRow(Only(group, ToSet(group) \ {r}))
    IN  /\ Without(with.attr, CredentialAttributes)
              = Without(without.attr, CredentialAttributes)
        /\ ApnRowTypes(with.types) = ApnRowTypes(without.types)

SupersededCredentials(group, i, scope, frozen) ==
    LET r     == group[i]
        fills == Fills(group, i)
        named == {o \in ToSet(scope) : /\ Folded[o.apn] = Folded[r.apn]
                                       /\ ApnRowTypes(o.types) \cap ApnRowTypes(r.types) # {}}
        Bare(o) == Attr(o.attr, "user", "") = ""
    IN  /\ fills # {}
        /\ RecordSources(r) # {} /\ RecordSources(r) \subseteq frozen
        /\ OnlyFillsIn(group, r)
        /\ ~\E o \in named :
               /\ o.id # r.id
               /\ ~(RecordSources(o) \subseteq frozen)
               /\ \/ ~Bare(o)
                  \/ \E f \in fills : f \in DOMAIN o.attr /\ o.attr[f] = r.attr[f]
        /\ \A t \in ApnRowTypes(r.types) : \E o \in named :
               Bare(o) /\ t \in DOMAIN o.cur /\ "google_carriersettings" \in o.cur[t]
        /\ Folded[r.apn] \notin OperatorPages

LeaveOutSupersededCredentials(written, scope, frozen) ==
    LET stored == AndroidStoredRows(written)
        leads  == {stored[i].key : i \in AndroidLeadPositions(stored)}
        Goes(r) == LET group == Group(written, r.key)
                       i     == Place(group, r)
                   IN  /\ r.key \in leads
                       /\ r # Last(group)
                       /\ SupersededCredentials(group, i, scope, frozen)
    IN  Only(written, {r \in ToSet(written) : ~Goes(r)})

--------------------------------------------------------------------------------
(* MMS-only rows a phone merges into an earlier row.                          *)

AbsorbedMms(written) ==
    LET vendor == VendorMmsRows(written)
        stored == AndroidStoredRows(written)
        Gone(i) == /\ ApnRowTypes(stored[i].types) = {"mms"}
                   /\ MmsSetting(stored[i]) \notin {MmsSetting(r) : r \in ToSet(vendor)}
                   /\ RowNetworkTypes(stored[i].attr, MmsNetworkTypes)
                         \subseteq AllOf(vendor, MmsTypesOf)
                   /\ \E j \in 1 .. i - 1 : AndroidSimilar(stored[j], stored[i])
    IN  IF vendor = <<>> THEN {} ELSE {stored[i].key : i \in {i \in DOMAIN stored : Gone(i)}}

LeaveOutAbsorbedMms(written) ==
    LET absorbed == AbsorbedMms(written)
    IN  Only(written, {r \in ToSet(written) : r.key \notin absorbed})

--------------------------------------------------------------------------------
(* The steps after the IMS mirror, in order; its gate runs them on copies.    *)

RankedSteps(rows, net) ==
    TakeMmsOffTypeInternetLeads(
        PutVendorAttachFirst(
            TakeTypeOffInternetGroup(
                TakeTypeOffInternetGroup(
                    PutVendorMmsFirst(RankScope(LeaveOutEmergency(rows)), net),
                    "ims", net),
                "xcap", net)),
        net)

(* The scope's rows as the steps so far have retyped them, in place.          *)
AsRetyped(rows, ranked) ==
    MapRows(rows, LAMBDA r : IF Place(ranked, r) = 0 THEN r ELSE ranked[Place(ranked, r)])

WriteRanked(rows, ranked, net) ==
    LeaveOutAbsorbedMms(LeaveOutSupersededCredentials(
        Live(WriteGroupsBestLast(ranked)), AsRetyped(rows, ranked), net.frozen))

WriteScopeSteps(rows, net) == WriteRanked(rows, RankedSteps(rows, net), net)

--------------------------------------------------------------------------------
(* The IMS mirror: "ims" off the stored rows that serve every type of "*".    *)

Subjects(rows) ==
    {k \in {r.key : r \in ToSet(rows)} :
        /\ WildcardTypes \subseteq UNION {ApnRowTypes(r.types) : r \in ToSet(Group(rows, k))}
        /\ \A r \in ToSet(Group(rows, k)) : ~Backed(r, "ims")}

(* The profile that carries IMS, with the merge on or off.                    *)
ImsLead(written, merge, nt, net) ==
    FirstServing(Profiles(Provider(written, net.persist), merge), "ims", nt)

ImsOff(rows, subjects) ==
    MapRows(rows, LAMBDA r : IF r.key \in subjects /\ ApnRowTypes(r.types) # {"ims"}
                                  /\ Serves(r, "ims")
                             THEN TypesOff(r, {"ims"}) ELSE r)

(* Wherever a subject carries IMS before the change, a vendor row does after; *)
(* written gives the file without the change and with it.                     *)
ImsMoves(written, probes, net) ==
    \A merge \in BOOLEAN, nt \in StarGateTypes :
        ToSet(ImsLead(written[FALSE], merge, nt, net).srcs) \cap probes # {}
          => \E r \in ToSet(written[TRUE]) :
                /\ r.id \in ToSet(ImsLead(written[TRUE], merge, nt, net).base) \ probes
                /\ VendorImsRow(r)

StarGate(rows, subjects, net) ==
    ImsMoves([off \in BOOLEAN |->
                 WriteScopeSteps(IF off THEN ImsOff(rows, subjects) ELSE rows, net)],
             {r.id : r \in {r \in ToSet(rows) : r.key \in subjects}}, net)

(* No other row gives the group's APN for IMS, and vendors' rows serve it     *)
(* wherever the group does.                                                   *)
StarImsMayGo(rows, subjects, net) ==
    LET vendor(k) == SelectSeq(rows, LAMBDA r : r.key # k /\ VendorImsRow(r)
                                                  /\ TypesRead(r) # {})
        Named(r, k) == \E o \in ToSet(Group(rows, k)) : Folded[o.apn] = Folded[r.apn]
    IN  /\ ~net.persist
        /\ subjects # {}
        /\ \E r \in ToSet(rows) : VendorImsRow(r) /\ TypesRead(r) # {}
        /\ \A k \in subjects :
              /\ ~\E r \in ToSet(rows) : r.key # k /\ Named(r, k) /\ Backed(r, "ims")
              /\ AllOf(Group(rows, k), TypesRead) \subseteq AllOf(vendor(k), TypesRead)
        /\ StarGate(rows, subjects, net)

LeaveOutUnbackedStarIms(rows, net) ==
    IF StarImsMayGo(rows, Subjects(rows), net) THEN ImsOff(rows, Subjects(rows)) ELSE rows

WriteScope(rows, net) ==
    WriteScopeSteps(LeaveOutUnbackedStarIms(LeaveOutStaleAttach(rows), net), net)
================================================================================
