------------------------------- MODULE PhoneApns -------------------------------
(* What an Android phone makes of the rows of one scope of apns-conf.xml      *)
(* (tools/android_phone_model.py): TelephonyProvider stores the rows, rows    *)
(* with equal keys as one; ApnSetting reads the stored rows; and              *)
(* DataProfileManager merges similar ones and picks the profile that leads    *)
(* each role on each network type.                                            *)
EXTENDS ApnRows

(* The fields two similar settings may differ in when one leaves them unset,  *)
(* and the fields in which they must agree.                                   *)
UnsetOrEqualFields == [proxy |-> "", mmsc |-> "", mmsproxy |-> "", user |-> ""]
EqualFields ==
    [protocol |-> "IP", roaming_protocol |-> "IP", carrier_enabled |-> TRUE,
     profile_id |-> 0, apn_set_id |-> 0, infrastructure |-> {"cellular", "satellite"}]

--------------------------------------------------------------------------------
(* TelephonyProvider: one file row after another.                             *)

Writers(r) == [f \in CredentialAttributes \cap DOMAIN r.attr |-> r.id]

NewStored(r) ==
    [key |-> r.key, apn |-> r.apn, types |-> r.types, attr |-> r.attr,
     srcs |-> <<r.id>>, writers |-> Writers(r)]

(* An empty type list is the empty string, which every union with it stays.   *)
UniteTypes(a, b) == IF a = {} \/ b = {} THEN {} ELSE a \cup b

(* The bitmask 0 means every network type, so a union with it is 0.           *)
UniteBits(a, b) == IF a = {} \/ b = {} THEN {} ELSE a \cup b

(* separateRowsNeeded: on a persist network two rows whose types differ only  *)
(* by "dun" are not merged.                                                   *)
SeparateRowsNeeded(persist, old, new) ==
    /\ persist
    /\ old.types # {} /\ new.types # {}
    /\ \/ "dun" \notin new.types /\ old.types = new.types \cup {"dun"}
       \/ "dun" \notin old.types /\ new.types = old.types \cup {"dun"}
    /\ Attr(old.attr, "profile_id", 0) = 0

MergeFields(old, new) ==
    LET bits == UniteBits(Attr(old.attr, "network_type_bitmask", {}),
                          Attr(new.attr, "network_type_bitmask", {}))
    IN  [old EXCEPT
            !.types = UniteTypes(@, new.types),
            !.attr = Atop([network_type_bitmask |-> bits], Atop(new.attr, @)),
            !.srcs = Append(@, new.id),
            !.writers = Atop(Writers(new), @)]

(* The stored row with "dun" loses it and the new row is dropped, or the new  *)
(* row with "dun" is stored apart under profile 1, in place of a row that is  *)
(* already there.                                                             *)
KeepApart(table, i, new) ==
    IF "dun" \in table[i].types
    THEN [table EXCEPT ![i].types = @ \ {"dun"}]
    ELSE LET attr  == Atop([profile_id |-> 1], new.attr)
             apart == [new EXCEPT !.attr = attr, !.key = UniqueKey(new.apn, attr)]
             same  == SelectInSeq(table, LAMBDA s : s.key = apart.key)
             rest  == IF same = 0 THEN table ELSE RemoveAt(table, same)
         IN  Append(rest, NewStored(apart))

StoreRow(table, new, persist) ==
    LET i == SelectInSeq(table, LAMBDA s : s.key = new.key)
    IN  IF i = 0 THEN Append(table, NewStored(new))
        ELSE IF SeparateRowsNeeded(persist, table[i], new)
             THEN KeepApart(table, i, new)
             ELSE [table EXCEPT ![i] = MergeFields(@, new)]

Provider(written, persist) ==
    LET table[n \in 0 .. Len(written)] ==
            IF n = 0 THEN <<>> ELSE StoreRow(table[n - 1], written[n], persist)
    IN  table[Len(written)]

(* The credential fields a stored row takes from a file row other than its    *)
(* last one.                                                                  *)
FillIns(stored) ==
    {f \in DOMAIN stored.writers : stored.writers[f] # Last(stored.srcs)}

--------------------------------------------------------------------------------
(* ApnSetting and DataProfileManager.                                         *)

(* An empty type list reads as "*".                                           *)
TypeSet(types) == IF types = {} THEN WildcardTypes ELSE ApnRowTypes(types)

ApnSetting(s) ==
    LET mtu4 == Attr(s.attr, "mtu_v4", 0)
    IN  [srcs |-> s.srcs, base |-> s.srcs, apn |-> s.apn, types |-> TypeSet(s.types),
         open |-> [f \in DOMAIN UnsetOrEqualFields |->
                      Attr(s.attr, f, UnsetOrEqualFields[f])],
         fixed |-> [f \in DOMAIN EqualFields |-> Attr(s.attr, f, EqualFields[f])],
         authtype |-> AndroidAuthType(s.attr),
         nt |-> Attr(s.attr, "network_type_bitmask", {}),
         mtu4 |-> IF mtu4 = 0 THEN Attr(s.attr, "mtu", 0) ELSE mtu4]

Similar(a, b) ==
    /\ "dun" \notin a.types \cup b.types
    /\ a.apn = b.apn
    /\ \A f \in DOMAIN UnsetOrEqualFields :
          \/ a.open[f] = UnsetOrEqualFields[f]
          \/ b.open[f] = UnsetOrEqualFields[f]
          \/ a.open[f] = b.open[f]
    /\ a.authtype = b.authtype
    /\ a.types \cap b.types = {}
    /\ a.fixed = b.fixed
    /\ a.mtu4 = 0 \/ b.mtu4 = 0 \/ a.mtu4 = b.mtu4
    /\ a.nt = b.nt

(* The later setting's values win where it sets them.                         *)
Merge(a, b) ==
    [a EXCEPT !.open = [f \in DOMAIN UnsetOrEqualFields |->
                           IF b.open[f] = UnsetOrEqualFields[f]
                           THEN a.open[f] ELSE b.open[f]],
              !.authtype = b.authtype,
              !.types = @ \cup b.types,
              !.mtu4 = IF b.mtu4 = 0 THEN @ ELSE b.mtu4,
              !.srcs = @ \o b.srcs]

(* The loop reads the setting it compares with once, so of several similar    *)
(* settings the last one is merged and the earlier ones are lost.             *)
DedupeAt(settings, i) ==
    LET first == settings[i]
        rest  == SubSeq(settings, i + 1, Len(settings))
        alike == {s \in ToSet(rest) : Similar(first, s)}
        same  == Only(rest, alike)
    IN  SubSeq(settings, 1, i - 1)
          \o <<IF same = <<>> THEN first ELSE Merge(first, Last(same))>>
          \o Only(rest, ToSet(rest) \ alike)

DedupeTurn(settings, i) == IF i < Len(settings) THEN DedupeAt(settings, i) ELSE settings

Profiles(stored, dedupe) ==
    LET settings == MapRows(stored, ApnSetting)
        after[n \in 0 .. Len(settings)] ==
            IF n = 0 THEN settings ELSE DedupeTurn(after[n - 1], n)
    IN  IF dedupe THEN after[Len(settings)] ELSE settings

ServesOn(p, nt) == p.nt = {} \/ nt \in p.nt

Cellular(p) ==
    /\ "cellular" \in p.fixed.infrastructure
    /\ p.fixed.carrier_enabled
    /\ p.fixed.apn_set_id \in {0, -1}

NoProfile == [apn |-> "no profile", types |-> {}, srcs |-> <<>>, base |-> <<>>]

FirstProfile(profiles, Test(_)) ==
    LET i == SelectInSeq(profiles, LAMBDA p : Cellular(p) /\ Test(p))
    IN  IF i = 0 THEN NoProfile ELSE profiles[i]

FirstServing(profiles, t, nt) ==
    FirstProfile(profiles, LAMBDA p : t \in p.types /\ ServesOn(p, nt))

(* The profile that leads a role: the internet ("default"), attach ("ia", by  *)
(* a row of any network type), MMS, or the first that serves another type.    *)
Lead(profiles, role, nt) ==
    LET internet == FirstServing(profiles, "default", nt)
        attach   == FirstProfile(profiles, LAMBDA p : "ia" \in p.types)
    IN  CASE role \in {"ia", "mms"} /\ role \in internet.types -> internet
          [] role = "ia" /\ "ia" \notin internet.types ->
                IF attach # NoProfile THEN attach
                ELSE FirstProfile(profiles, LAMBDA p : "default" \in p.types)
          [] OTHER -> FirstServing(profiles, role, nt)

(* Where an MMS goes: without an MMSC of its own a profile uses that of a     *)
(* stored MMS row with its APN name.                                          *)
MmsOf(profile, stored) ==
    LET row == SelectInSeq(stored, LAMBDA s :
                  /\ s.apn = profile.apn
                  /\ "mms" \in TypeSet(s.types)
                  /\ Attr(s.attr, "mmsc", "") # "")
    IN  IF profile = NoProfile THEN <<"none", "", "">>
        ELSE IF profile.open.mmsc # ""
             THEN <<profile.apn, profile.open.mmsc, profile.open.mmsproxy>>
             ELSE IF row # 0
                  THEN <<profile.apn, stored[row].attr.mmsc,
                         Attr(stored[row].attr, "mmsproxy", "")>>
                  ELSE <<profile.apn, "", "">>

(* What a lead sends.                                                         *)
LeadKey(p) ==
    IF p = NoProfile THEN <<"none">>
    ELSE <<p.apn, p.open.proxy, p.open.user, p.authtype, p.fixed.protocol,
           p.fixed.roaming_protocol, p.nt>>

(* File rows that stand as no profile of their own on the phone.              *)
AbsorbedRows(written, persist) ==
    LET stored   == Provider(written, persist)
        profiles == ToSet(Profiles(stored, TRUE))
        present  == UNION {ToSet(p.srcs) : p \in profiles}
    IN  (UNION {ToSet(p.srcs) \ ToSet(p.base) : p \in profiles})
          \cup (UNION {ToSet(s.srcs) \ present : s \in ToSet(stored)})
================================================================================
