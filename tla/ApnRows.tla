-------------------------------- MODULE ApnRows --------------------------------
(* The APN rows the Android generator works on: what a row serves, which      *)
(* current vendors back it, the key under which a phone stores it, and the    *)
(* rank that orders a scope (tools/generate_android_outputs.py).              *)
(*                                                                            *)
(* A row is a record                                                          *)
(*   id     its place in the fallback order, which also names the row;        *)
(*   apn    the APN name;   types  its type list, as a set;                   *)
(*   attr   the attributes it writes (an attribute it leaves out is not in    *)
(*          the domain); a bitmask is the set of network types it names, and  *)
(*          the empty set is the bitmask 0;                                   *)
(*   sup, cur   per type, the sources and the current vendors behind it;      *)
(*   marks  the underscore marks that later steps read.                       *)
(* Ports, MTU of IPv6, the carrier ID and the attributes every row of a scope *)
(* shares (network code, MVNO selector) are left out: the code treats each    *)
(* like an attribute that is kept.                                            *)
EXTENDS Integers, Sequences, FiniteSets, SequencesExt, TLC

CONSTANTS
    Folded,            \* per APN name, the name without letter case
    Placeholders,      \* names that name no network (placeholder_apn)
    EmergencyNames,    \* names read as an emergency APN's (emergency_named)
    MmsNetworkTypes,   \* MMS_NETWORK_TYPES: the 3GPP data network types
    Iwlan,             \* IWLAN_NETWORK_TYPE
    OtherNetworkTypes, \* the CDMA types of the phone's ALL_NETWORK_TYPES
    Lte                \* the network type step 4b asks for

ASSUME NetworkTypesApart ==
    /\ Iwlan \notin MmsNetworkTypes \cup OtherNetworkTypes
    /\ MmsNetworkTypes \cap OtherNetworkTypes = {}
    /\ Lte \in MmsNetworkTypes

AllNetworkTypes == MmsNetworkTypes \cup OtherNetworkTypes \cup {Iwlan}

WildcardTypes == {"default", "hipri", "mms", "supl", "dun", "fota", "ims", "cbs"}

ApnTypePriority ==
    <<"default", "ia", "mms", "ims", "supl", "dun", "xcap", "emergency", "cbs",
      "fota", "hipri">>

SourceFamily ==
    [s \in {"google_pixel_vendor_carriersettings", "lineageos_pixel_apn_snapshot"}
        |-> "google_carriersettings"]
    @@ [s \in {"lineageos", "lineageos_legacy_apn_list"} |-> "aosp_apn_lists"]
    @@ ("samsung_ims" :> "samsung_omc")

PrimaryApnSources ==
    {"apple_carrier_bundles", "google_carriersettings",
     "google_pixel_vendor_carriersettings", "lineageos",
     "lineageos_legacy_apn_list", "lineageos_pixel_apn_snapshot", "samsung_omc"}

CurrentVendorApnSources == {"google_carriersettings", "samsung_omc", "samsung_ims"}

ApnDefaults ==
    [protocol |-> "IP", roaming_protocol |-> "IP", authtype |-> -1,
     carrier_enabled |-> TRUE, profile_id |-> 0, apn_set_id |-> 0,
     mtu |-> 0, mtu_v4 |-> 0]

UniqueDefaults ==
    [proxy |-> "", mmsproxy |-> "", mmsc |-> "", carrier_enabled |-> TRUE,
     profile_id |-> 0, protocol |-> "IP", roaming_protocol |-> "IP",
     apn_set_id |-> 0, infrastructure |-> {"cellular", "satellite"}]

CredentialAttributes == {"user", "authtype", "mtu", "mtu_v4"}

Attr(attr, f, default) == IF f \in DOMAIN attr THEN attr[f] ELSE default

Without(attr, fields) == [f \in DOMAIN attr \ fields |-> attr[f]]

(* What new gives, and where it gives nothing, what old does.                 *)
Atop(new, old) ==
    [f \in DOMAIN new \cup DOMAIN old |-> IF f \in DOMAIN new THEN new[f] ELSE old[f]]

(* The rows after an operation on each; the concatenation makes TLC evaluate  *)
(* them once.                                                                 *)
MapRows(rows, Op(_)) == <<>> \o [i \in DOMAIN rows |-> Op(rows[i])]

(* The rows of a set, in the order they have in rows.                         *)
Only(rows, S) ==
    LET f[i \in 0 .. Len(rows)] ==
            IF i = 0 THEN <<>>
            ELSE IF rows[i] \in S THEN Append(f[i - 1], rows[i]) ELSE f[i - 1]
    IN  f[Len(rows)]

LexLess(a, b) ==
    \E i \in 1 .. Len(a) :
        /\ i <= Len(b)
        /\ a[i] < b[i]
        /\ \A j \in 1 .. i - 1 : a[j] = b[j]

(* A list in ascending order of key, with one more row in its place.          *)
PutInOrder(list, row, key) ==
    InsertAt(list, Cardinality({j \in DOMAIN list : LexLess(key[list[j]], key[row])}) + 1, row)

(* The rows from the least key to the greatest, by key, a function of them.   *)
Ascending(rows, key) ==
    LET f[i \in 0 .. Len(rows)] ==
            IF i = 0 THEN <<>> ELSE PutInOrder(f[i - 1], rows[i], key)
    IN  f[Len(rows)]

(* The key under which TelephonyProvider stores a row: rows with equal keys   *)
(* are one stored row.                                                        *)
UniqueKey(apn, attr) ==
    [f \in DOMAIN UniqueDefaults \cup {"apn"} |->
        IF f = "apn" THEN apn ELSE Attr(attr, f, UniqueDefaults[f])]

(* Everything a phone stores of a row but its label and types.                *)
SettingsKey(r) ==
    [f \in {g \in DOMAIN r.attr :
              ~(g \in DOMAIN ApnDefaults /\ ApnDefaults[g] = r.attr[g])}
        |-> r.attr[f]]
    @@ ("apn" :> r.apn)

--------------------------------------------------------------------------------
(* Types and network types.                                                   *)

ServedTypes(t) == IF t = "*" THEN WildcardTypes ELSE {t}
ApnRowTypes(types) == UNION {ServedTypes(t) : t \in types}
Serves(r, t) == t \in ApnRowTypes(r.types)

TypesOff(r, types) == [r EXCEPT !.types = ApnRowTypes(r.types) \ types]

RowNetworkTypes(attr, allowed) ==
    LET bits == Attr(attr, "network_type_bitmask", {})
    IN  IF bits = {} THEN allowed ELSE bits \cap allowed

(* Mutant: the bitmask is not read.                                           *)
AllMmsTypes(r) == MmsNetworkTypes

MmsTypesOf(r) == RowNetworkTypes(r.attr, MmsNetworkTypes)

AllOf(rows, Types(_)) == UNION {Types(r) : r \in ToSet(rows)}

(* A stored row a cellular request can use.                                   *)
Usable(attr) ==
    /\ Attr(attr, "carrier_enabled", TRUE)
    /\ "cellular" \in Attr(attr, "infrastructure", {"cellular", "satellite"})
    /\ Attr(attr, "apn_set_id", 0) \in {0, -1}

--------------------------------------------------------------------------------
(* Evidence: the sources and the current vendors behind each type of a row.   *)

FactOf(ev, apn, t) ==
    IF <<apn.id, t>> \in DOMAIN ev.facts
    THEN ev.facts[<<apn.id, t>>]
    ELSE [sources |-> ev.sources, not_current |-> {}]

TypesServing(apn, s) == {t \in apn.types : s \in ServedTypes(t)}

ApnRowSupport(apn, ev) ==
    [s \in ApnRowTypes(apn.types) |->
        UNION {FactOf(ev, apn, t).sources : t \in TypesServing(apn, s)}]

(* A vendor that gives the fact only from old builds, tablet packs, superseded*)
(* packs or an unconfirmed shared file is no current vendor of it.            *)
ApnRowCurrent(apn, ev) ==
    [s \in ApnRowTypes(apn.types) |->
        UNION {(FactOf(ev, apn, t).sources \cap CurrentVendorApnSources)
                 \ FactOf(ev, apn, t).not_current : t \in TypesServing(apn, s)}]

ApnRecord(apn, ev) ==
    [id |-> apn.id, apn |-> apn.apn, types |-> apn.types, attr |-> apn.attr,
     key |-> UniqueKey(apn.apn, apn.attr), sup |-> ApnRowSupport(apn, ev),
     cur |-> ApnRowCurrent(apn, ev), marks |-> {}]

UniteSources(rows, field) ==
    [t \in UNION {DOMAIN r[field] : r \in rows} |->
        UNION {Attr(r[field], t, {}) : r \in rows}]

(* Rows equal in all but label and types become one row with both type sets,  *)
(* at the first row's place in fallback order.                                *)
CollapseDuplicates(records) ==
    LET Equal(r) == {o \in ToSet(records) : SettingsKey(o) = SettingsKey(r)}
        firsts   == {r \in ToSet(records) : \A o \in Equal(r) : r.id <= o.id}
    IN  MapRows(Ascending(Only(records, firsts), [r \in firsts |-> <<r.id>>]),
                LAMBDA r : [r EXCEPT !.types = UNION {o.types : o \in Equal(r)},
                                     !.sup = UniteSources(Equal(r), "sup"),
                                     !.cur = UniteSources(Equal(r), "cur")])

Backed(r, t) == t \in DOMAIN r.cur /\ r.cur[t] # {}
RecordSources(r) == UNION {r.sup[t] : t \in DOMAIN r.sup}
Family(sources) ==
    {IF s \in DOMAIN SourceFamily THEN SourceFamily[s] ELSE s : s \in sources}

(* A row that can carry MMS the way a current vendor says.                    *)
VendorMmsRow(r) ==
    /\ Backed(r, "mms")
    /\ r.apn \notin Placeholders
    /\ Attr(r.attr, "mmsc", "") # ""
    /\ MmsTypesOf(r) # {}
    /\ Usable(r.attr)

VendorImsRow(r) == Backed(r, "ims") /\ r.apn \notin Placeholders /\ Usable(r.attr)

--------------------------------------------------------------------------------
(* Ranking a scope.                                                           *)

LeadType(r) ==
    LET i == SelectInSeq(ApnTypePriority, LAMBDA t : Serves(r, t))
    IN  IF i = 0 THEN "none" ELSE ApnTypePriority[i]

Flag(b) == IF b THEN 1 ELSE 0

(* The sources (field "sup") or vendors ("cur") that give the row's APN name  *)
(* for a type anywhere in the scope.                                          *)
ValueSources(rows, r, t, field) ==
    UNION {o[field][t] : o \in {o \in ToSet(rows) :
              Folded[o.apn] = Folded[r.apn] /\ t \in DOMAIN o[field]}}

SortKey(rows, r, lead) ==
    LET place == SelectInSeq(ApnTypePriority, LAMBDA t : t = lead)
        value == ValueSources(rows, r, lead, "sup")
        row   == IF lead \in DOMAIN r.sup THEN r.sup[lead] ELSE {}
    IN  IF lead = "none" THEN <<Len(ApnTypePriority) + 1>>
        ELSE <<place,
               Flag(r.apn \in Placeholders),
               Flag(lead # "emergency" /\ r.apn \in EmergencyNames),
               Flag(ValueSources(rows, r, lead, "cur") = {}),
               Flag(lead = "default" /\ Attr(r.attr, "proxy", "") # ""),
               -Cardinality(Family(value)),
               Flag(value \cap PrimaryApnSources = {}),
               Flag(~Backed(r, lead)),
               -Cardinality(Family(row)),
               Flag(row \cap PrimaryApnSources = {}),
               -Cardinality(row)>>

(* The order of two rows, each read for its lead type, or both for one type.  *)
RankedBefore(rows, a, b, LeadOf(_)) ==
    LexLess(Append(SortKey(rows, a, LeadOf(a)), a.id),
            Append(SortKey(rows, b, LeadOf(b)), b.id))

RankScope(rows) ==
    Ascending(rows, [r \in ToSet(rows) |-> Append(SortKey(rows, r, LeadType(r)), r.id)])

BestFor(rows, candidates, t) ==
    CHOOSE r \in candidates :
        \A o \in candidates \ {r} : RankedBefore(rows, r, o, LAMBDA x : t)

--------------------------------------------------------------------------------
(* What a phone stores of written rows, as the generator reads it.            *)

NoRow == [id |-> 0]

FirstRow(rows, Test(_)) ==
    LET i == SelectInSeq(rows, Test) IN IF i = 0 THEN NoRow ELSE rows[i]

Place(rows, r) == SelectInSeq(rows, LAMBDA o : o.id = r.id)

Group(rows, key) == Only(rows, {r \in ToSet(rows) : r.key = key})

(* Mutant: the first row's values stay.                                       *)
StoredUnder(row, r) ==
    LET bits == {"network_type_bitmask"}
        both == bits \subseteq DOMAIN row.attr /\ bits \subseteq DOMAIN r.attr
        rest == Atop(Without(row.attr, bits), Without(r.attr, bits))
    IN  [row EXCEPT
            !.types = @ \cup r.types, !.ids = Append(@, r.id),
            !.attr = IF both
                     THEN Atop([network_type_bitmask |->
                                   r.attr.network_type_bitmask
                                     \cup row.attr.network_type_bitmask], rest)
                     ELSE rest]

StoredWith(row, r) ==
    LET bits == {"network_type_bitmask"}
        both == bits \subseteq DOMAIN row.attr /\ bits \subseteq DOMAIN r.attr
        rest == Atop(Without(r.attr, bits), Without(row.attr, bits))
    IN  [row EXCEPT
            !.types = @ \cup r.types,
            !.ids = Append(@, r.id),
            !.attr = IF both
                     THEN Atop([network_type_bitmask |->
                                   r.attr.network_type_bitmask
                                     \cup row.attr.network_type_bitmask], rest)
                     ELSE rest]

Unstored(r) ==
    [key |-> r.key, apn |-> r.apn, types |-> r.types, attr |-> r.attr,
     ids |-> <<r.id>>]

StoreNext(before, r) ==
    LET i == SelectInSeq(before, LAMBDA s : s.key = r.key)
    IN  IF i = 0 THEN Append(before, Unstored(r))
        ELSE [before EXCEPT ![i] = StoredWith(@, r)]

AndroidStoredRows(written) ==
    LET stored[n \in 0 .. Len(written)] ==
            IF n = 0 THEN <<>> ELSE StoreNext(stored[n - 1], written[n])
    IN  stored[Len(written)]

(* The stored row of one group, in written order.                             *)
StoredRow(group) == AndroidStoredRows(group)[1]

AndroidAuthType(attr) ==
    LET value == Attr(attr, "authtype", -1)
    IN  IF value # -1 THEN value
        ELSE IF Attr(attr, "user", "") # "" THEN 3 ELSE 0

(* Mutant: the APN is not compared.                                           *)
SimilarSettings(a, b) ==
    /\ ApnRowTypes(a.types) \cap ApnRowTypes(b.types) = {}
    /\ AndroidAuthType(a.attr) = AndroidAuthType(b.attr)
    /\ Attr(a.attr, "network_type_bitmask", {}) = Attr(b.attr, "network_type_bitmask", {})

(* ApnSetting.similar on two stored rows, as the generator compares them.     *)
AndroidSimilar(a, b) ==
    LET UnsetOrEqual(f, none) ==
            \/ Attr(a.attr, f, none) = none
            \/ Attr(b.attr, f, none) = none
            \/ a.attr[f] = b.attr[f]
        Equal(f, default) == Attr(a.attr, f, default) = Attr(b.attr, f, default)
        aTypes == ApnRowTypes(a.types)
        bTypes == ApnRowTypes(b.types)
    IN  /\ "dun" \notin aTypes \cup bTypes
        /\ aTypes \cap bTypes = {}
        /\ a.apn = b.apn
        /\ AndroidAuthType(a.attr) = AndroidAuthType(b.attr)
        /\ \A f \in {"proxy", "mmsc", "mmsproxy", "user"} : UnsetOrEqual(f, "")
        /\ \A f \in {"mtu", "mtu_v4"} : UnsetOrEqual(f, 0)
        /\ \A f \in {"protocol", "roaming_protocol", "carrier_enabled",
                     "profile_id", "apn_set_id"} : Equal(f, ApnDefaults[f])
        /\ Equal("network_type_bitmask", {})
        /\ Equal("infrastructure", UniqueDefaults.infrastructure)

MmsSetting(r) ==
    <<r.apn, Attr(r.attr, "mmsc", ""), Attr(r.attr, "mmsproxy", "")>>
================================================================================
