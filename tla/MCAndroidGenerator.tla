--------------------------- MODULE MCAndroidGenerator ---------------------------
(* Scopes for the Android generator: every choice of up to five rows of a     *)
(* theme's rows, on a network that keeps its APNs and on one that does not.   *)
EXTENDS AndroidGenerator

MCFolded == [n \in {"net", "mms", "wap", "ims", "cdma", "lte", "old", "sos", "xcap"} |-> n]
            @@ ("NET" :> "net")

Row(id, apn, types, attr, by) ==
    [apn |-> [id |-> id, apn |-> apn, types |-> types, attr |-> attr],
     by |-> by, old |-> {}]
OldBuild(row) == [row EXCEPT !.old = row.by]

None == [f \in {} |-> 0]
Bits(nts) == [network_type_bitmask |-> nts]
User == [user |-> "u"]
Mmsc(c) == [mmsc |-> c]
Google == {"google_carriersettings"}
Samsung == {"samsung_omc"}
Aosp == {"lineageos"}
Legacy == {"lineageos_legacy_apn_list"}
Frozen == {"google_pixel_vendor_carriersettings"}
Snapshot == {"lineageos_pixel_apn_snapshot"}
Dual == [protocol |-> "IPV4V6", roaming_protocol |-> "IPV4V6"]

MmsRows == <<
    Row(1, "net", {"default", "mms", "supl"}, None, Aosp),
    Row(2, "net", {"default", "ia"}, User, Google),
    Row(3, "mms", {"mms"}, Mmsc("c1"), Google),
    Row(4, "net", {"mms"}, [user |-> "v"], Aosp),
    Row(5, "net", {"mms"}, Mmsc("c2"), Aosp),
    Row(6, "mms", {"mms"}, Mmsc("c1") @@ Bits({13}), Samsung),
    Row(7, "net", {"mms"}, Bits({13}), Aosp),
    Row(8, "cdma", {"default", "mms"}, Bits({14}), Aosp),
    Row(9, "old", {"default", "mms"}, Bits({2}), Legacy),
    Row(10, "net", {"mms", "dun"}, Mmsc("c3"), Google)>>

ImsRows == <<
    Row(1, "net", {"*"}, None, Aosp),
    Row(2, "net", {"default", "supl"}, User, Google),
    Row(3, "ims", {"ims"}, None, Google),
    Row(4, "ims", {"ims"}, Bits({18}), {"samsung_ims"}),
    Row(5, "net", {"ims"}, [user |-> "v"], Aosp),
    Row(6, "xcap", {"xcap"}, None, Google),
    Row(7, "net", {"xcap"}, [user |-> "w"], Aosp),
    Row(8, "ims", {"ims", "ia"}, [mtu |-> 1400], Aosp),
    OldBuild(Row(9, "wap", {"default", "xcap"}, None, Google)),
    Row(10, "wap", {"*"}, [carrier_enabled |-> FALSE], Legacy)>>

SosRows == <<
    Row(1, "net", {"default", "emergency"}, None, Aosp),
    Row(2, "net", {"default"}, [apn_set_id |-> 1], Google),
    Row(3, "sos", {"emergency"}, Dual, {"apple_carrier_bundles"}),
    Row(4, "sos", {"emergency"}, Dual @@ [apn_set_id |-> 1], Google),
    Row(5, "sos", {"emergency"}, Dual @@ [apn_set_id |-> -1], {"apple_carrier_bundles"}),
    Row(6, "ims", {"emergency"}, Dual, Aosp),
    Row(7, "ims", {"ims", "emergency"}, Dual, Google),
    Row(8, "sos", {"default"}, Dual, Google),
    Row(9, "wap", {"default"}, [proxy |-> "p"], Google),
    Row(10, "wap", {"ia", "emergency"}, None, Aosp)>>

UserRows == <<
    Row(1, "net", {"default"}, User, Frozen),
    Row(2, "net", {"default", "ia"}, [mtu |-> 1400], Google),
    Row(3, "NET", {"default"}, [user |-> "v"], Aosp),
    Row(4, "net", {"mms"}, User @@ Mmsc("c1"), Snapshot),
    Row(5, "net", {"mms"}, Mmsc("c1"), Google),
    Row(6, "net", {"supl"}, [mtu |-> 1500], Frozen),
    Row(7, "wap", {"default"}, User, Snapshot),
    Row(8, "wap", {"default"}, [authtype |-> 1], Google),
    OldBuild(Row(9, "net", {"default"}, [user |-> "w"], Google)),
    Row(10, "net", {"mms"}, [mtu |-> 1400], Frozen)>>

GapRows == <<
    Row(1, "old", {"default", "mms"}, Mmsc("c1"), Legacy),
    Row(2, "net", {"default"}, None, Google),
    Row(3, "ims", {"ims"}, Bits({18}), Legacy),
    Row(4, "ims", {"ims"}, Bits({13}), Aosp),
    Row(5, "net", {"mms", "supl"}, User, Legacy),
    Row(6, "mms", {"mms"}, Mmsc("c2"), Google),
    Row(7, "old", {"ia", "xcap"}, None, Legacy),
    Row(8, "net", {"dun", "xcap"}, None, Google),
    Row(9, "old", {"mms", "emergency"}, User, Aosp)>>

AttachRows == <<
    Row(1, "cdma", {"default"}, Bits({14}), Google),
    Row(2, "cdma", {"ia"}, Bits({14}) @@ User, Aosp),
    Row(3, "lte", {"ia"}, None, Google),
    Row(4, "lte", {"supl"}, User, Aosp),
    Row(5, "old", {"default", "ia"}, None, Aosp),
    Row(6, "lte", {"default", "mms"}, Mmsc("c1"), Aosp),
    Row(7, "mms", {"mms"}, Mmsc("c2"), Google),
    Row(8, "lte", {"default"}, [user |-> "v"], Google),
    Row(9, "cdma", {"mms"}, Bits({13, 14}), Legacy)>>

(* A row similar to one that Android merges itself (rows 1 to 3).             *)
MergeRows == <<
    Row(1, "net", {"default", "mms"}, Mmsc("c1"), Google),
    Row(2, "net", {"ia"}, None, Google),
    Row(3, "net", {"mms"}, Mmsc("c2"), Aosp),
    Row(4, "net", {"supl"}, None, Google),
    Row(5, "net", {"mms"}, [mmsc |-> "c3", mmsproxy |-> "p"], Aosp)>>

ScopesOf(pool, sizes) ==
    {[apns |-> MapRows(SelectSeq(pool, LAMBDA p : p \in c), LAMBDA p : p.apn),
      ev |-> [sources |-> {},
              facts |-> [k \in UNION {{<<p.apn.id, t>> : t \in p.apn.types} : p \in c}
                         |-> LET p == CHOOSE p \in c : p.apn.id = k[1]
                             IN  [sources |-> p.by, not_current |-> p.old]]],
      persist |-> persist, snapshot |-> {1}, google |-> {2}]
     : c \in {c \in SUBSET ToSet(pool) : Cardinality(c) \in sizes}, persist \in BOOLEAN}

MCScopes ==
    UNION {ScopesOf(pool, 1 .. 5) :
               pool \in {MmsRows, ImsRows, SosRows, UserRows, GapRows, AttachRows, MergeRows}}
================================================================================
