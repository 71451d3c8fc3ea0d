----------------------------- MODULE GroupAReads -----------------------------
(***************************************************************************)
(* tools/ocd_dataset.py: a group A value (an emergency-call key) that      *)
(* differs from the Google lane waits for an independent read.  Which      *)
(* values those are, which reads cover them, what waits, and what a read   *)
(* acts on.                                                                *)
(*                                                                         *)
(* networks is a function from networks to their profiles, lane one from   *)
(* Google's entries to their values.  A profile's values and sources are   *)
(* functions of the keys it states.  A read is a record [subject, key,     *)
(* value, profiles, families, hashes, verdict, effect]; hashes gives the   *)
(* match set of each profile the reader saw.                               *)
(***************************************************************************)
EXTENDS OcdTies

CONSTANTS
  PatternKeys,  \* the keys GROUP_A_PATTERN finds
  NamedKeys,    \* GROUP_A_NAMES
  NeverLeave    \* GROUP_A_NEVER_LEAVE

-----------------------------------------------------------------------------
(* Group A.                                                                *)

LeftGroupA(reads) ==
  {r.key : r \in {x \in reads : /\ x.subject = "key" /\ x.verdict = "proceed"
                                /\ x.effect = "display_only"}} \ NeverLeave

(* As CarrierSettings takes it: the marked keys, and always the named ones. *)
GroupAKeys(reads) == (PatternKeys \ LeftGroupA(reads)) \union NamedKeys

DefaultOf(lane) == IF "default" \in DOMAIN lane THEN lane["default"] ELSE <<>>

WithDefault(lane, entry) ==
  LET own == lane[entry]
      default == DefaultOf(lane)
  IN  [k \in DOMAIN own \union DOMAIN default |-> IF k \in DOMAIN own THEN own[k] ELSE default[k]]

(* The Google bundles a SIM that the profile serves can get.                *)
FillVariants(profile, lane) ==
  LET items == profile.fill
      known == {i \in DOMAIN items : items[i].entry \in DOMAIN lane}
      ends == {i \in known : items[i].when = {}}
  IN  {[entry |-> {items[i].entry}, bundle |-> WithDefault(lane, items[i].entry)] :
         i \in {k \in known : ~ \E j \in ends : j < k}}
      \union IF ends = {} THEN {[entry |-> {}, bundle |-> DefaultOf(lane)]} ELSE {}

States(bundle, key, value) == key \in DOMAIN bundle /\ bundle[key] = value

(* The profile of a stack whose value of a key applies.                     *)
CarrierOf(stack, key) == stack[Max({i \in DOMAIN stack : key \in DOMAIN stack[i].values})]

CarriedKeys(stack, keys) ==
  keys \intersect UNION {DOMAIN stack[i].values : i \in DOMAIN stack}

FamiliesOf(profile, key) ==
  IF key \in DOMAIN profile.sources THEN profile.sources[key] ELSE {}

(* The group A values that differ from the Google lane, each with the       *)
(* profile that states it and the source families behind it there.          *)
CandidatesOf(profiles, profile, net, lane, keys) ==
  LET stack == ProfileStack(profiles, profile, net)
      variants == FillVariants(profile, lane)
      differs == {key \in CarriedKeys(stack, keys) :
                    \E v \in variants :
                      ~ States(v.bundle, key, CarrierOf(stack, key).values[key])}
  IN  {[key |-> key, value |-> CarrierOf(stack, key).values[key],
        profile |-> CarrierOf(stack, key).id,
        families |-> FamiliesOf(CarrierOf(stack, key), key)] : key \in differs}

Candidates(networks, lane, keys) ==
  UNION {UNION {CandidatesOf(networks[net], p, net, lane, keys) : p \in networks[net]} :
           net \in DOMAIN networks}

-----------------------------------------------------------------------------
(* Reads.                                                                  *)

(* A record may serve only while its profile's match set is the one it was  *)
(* made under; a fill-only profile's ID changes with its rule.              *)
UnderCurrentMatchSet(id, read, current) ==
  id \in DOMAIN read.hashes => current[id] = read.hashes[id]

(* Mutant: the match set is not looked at.                                  *)
CoversAnyMatchSet(read, id, current, unapplied) ==
  /\ id \in read.profiles
  /\ ~ (read.verdict = "proceed" /\ <<id, read.key>> \in unapplied)

Covers(read, id, current, unapplied) ==
  /\ id \in read.profiles
  /\ ~ (read.verdict = "proceed" /\ <<id, read.key>> \in unapplied)
  /\ UnderCurrentMatchSet(id, read, current)

ReadsOf(candidate, reads) ==
  {r \in reads : /\ r.subject = "value"
                 /\ r.key = candidate.key /\ r.value = candidate.value}

(* group-a-reads.json: what a read says of one profile and source family.   *)
ReadItems(candidates, reads, current, unapplied) ==
  UNION {UNION {{[key |-> c.key, value |-> c.value, profile |-> c.profile,
                  family |-> f, verdict |-> r.verdict] : f \in c.families \intersect r.families} :
                  r \in {x \in ReadsOf(c, reads) : Covers(x, c.profile, current, unapplied)}} :
           c \in candidates}

(* The values a read covers whose basis is not recorded.                    *)
Unrecorded(candidates, reads, current, unapplied) ==
  {c \in candidates :
     /\ c.families = {}
     /\ \E r \in ReadsOf(c, reads) : Covers(r, c.profile, current, unapplied)}

(* Mutant: a read of one of a value's families is enough.                   *)
PendingUntilOneFamily(candidates, reads, current, unapplied) ==
  {c \in candidates :
     /\ c.key \notin LeftGroupA(reads)
     /\ ~ \E r \in ReadsOf(c, reads) :
            /\ Covers(r, c.profile, current, unapplied)
            /\ c.families = {} \/ c.families \intersect r.families # {}}

(* group-a-pending.json: the candidates no read covers with all families.   *)
Pending(candidates, reads, current, unapplied) ==
  {c \in candidates :
     /\ c.key \notin LeftGroupA(reads)
     /\ ~ \E r \in ReadsOf(c, reads) :
            Covers(r, c.profile, current, unapplied) /\ c.families \subseteq r.families}

-----------------------------------------------------------------------------
(* The bundles a proceed item acts on: the profile variants that get the    *)
(* value only through the read.                                            *)

BundleClass(key, entry, lane) ==
  IF entry = {} THEN "no_google_entry"
  ELSE IF \E e \in entry : key \in DOMAIN lane[e] THEN "own_entry_other"
  ELSE IF key \in DOMAIN DefaultOf(lane) THEN "google_default_other"
  ELSE "own_entry_silent"

OwnEntries(profile) ==
  {{profile.fill[i].entry} : i \in {j \in DOMAIN profile.fill : profile.fill[j].when = {}}}

ReachOf(profiles, profile, net, lane, items) ==
  LET stack == ProfileStack(profiles, profile, net)
      acting == {key \in CarriedKeys(stack, {i.key : i \in items}) :
                   \E i \in items :
                     /\ i.key = key
                     /\ i.profile = CarrierOf(stack, key).id
                     /\ i.value = CarrierOf(stack, key).values[key]
                     /\ i.family \in FamiliesOf(CarrierOf(stack, key), key)}
  IN  UNION {LET owner == CarrierOf(stack, key)
             IN  {[key |-> key, value |-> owner.values[key], owner |-> owner.id,
                   net |-> net, profile |-> profile.id, entry |-> v.entry,
                   class |-> BundleClass(key, v.entry, lane),
                   fill |-> IF v.entry \in OwnEntries(owner) THEN "own" ELSE "another_entry"] :
                    v \in {x \in FillVariants(profile, lane) :
                             ~ States(x.bundle, key, owner.values[key])}} :
               key \in acting}

Reach(networks, lane, items) ==
  LET proceeding == {i \in items : i.verdict = "proceed"}
  IN  UNION {UNION {ReachOf(networks[net], p, net, lane, proceeding) : p \in networks[net]} :
               net \in DOMAIN networks}

=============================================================================
