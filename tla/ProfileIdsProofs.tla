-------------------------- MODULE ProfileIdsProofs --------------------------
(***************************************************************************)
(* Theorems about the profile ID registry, for any match sets and hashes.  *)
(* The gate keeps the ledger: a tree that both checks of profile_ids.py    *)
(* accept changes main only as IdLedger allows.  And of any builders and   *)
(* yields, so do their builds.  The inductive invariant is IInv: a         *)
(* build is idle, or it is well formed and sound, where sound says of each *)
(* assigned ID which of the three ways of Registry.assign gave it.         *)
(* On it rests a second one, Drafts: how plan and assign chose each ID     *)
(* against the base and the rest of the build, and that the tree of an     *)
(* open pull request is the one finish writes from them.                   *)
(***************************************************************************)
EXTENDS ProfileIds, FiniteSetTheorems, TLAPS

GateValid == IsTree(main) /\ TreeValid(main)

LEMMA GateValidHolds == GateSpec => []GateValid
<1>1. GateInit => GateValid
  BY DEF GateInit, GateValid
<1>2. GateValid /\ [GateLand]_main => GateValid'
  BY DEF GateValid, GateLand, IsTree, TreeValid, NoneLiveAndAliased, TargetsRegistered,
         ContinuedCurrent, LiveExplained
<1>3. QED
  BY <1>1, <1>2, PTL DEF GateSpec

(* main is a registry tree.                                                *)
THEOREM GateTypeCorrect == GateSpec => []GateTypeOK
<1>1. GateValid => GateTypeOK
  BY DEF GateValid, GateTypeOK
<1>2. QED
  BY <1>1, GateValidHolds, PTL

-----------------------------------------------------------------------------
(* Reading a tree as a ledger gives a state of the ledger.                 *)
LEMMA LedgerState ==
  ASSUME NEW tree, IsTree(tree), TreeValid(tree)
  PROVE  /\ StatusOf(tree) \in [Ids -> {"unissued", "live", "retired"}]
         /\ {id \in Ids : StatusOf(tree)[id] = "live"} = DOMAIN tree.live
         /\ DOMAIN SimsOf(tree) = DOMAIN tree.live
         /\ \A id \in DOMAIN tree.live : SimsOf(tree)[id] \in {KeyOf[m] : m \in Matches}
         /\ CarriedOf(tree) \subseteq DOMAIN tree.live
<1>1. DOMAIN tree.live \subseteq Ids /\ tree.live \in [DOMAIN tree.live -> Matches]
  BY DEF IsTree, IsPartial
<1>2. StatusOf(tree) \in [Ids -> {"unissued", "live", "retired"}]
  BY DEF StatusOf
<1>3. {id \in Ids : StatusOf(tree)[id] = "live"} = DOMAIN tree.live
  BY <1>1 DEF StatusOf
<1>4. /\ DOMAIN SimsOf(tree) = DOMAIN tree.live
      /\ \A id \in DOMAIN tree.live : SimsOf(tree)[id] \in {KeyOf[m] : m \in Matches}
  BY <1>1 DEF SimsOf
<1>5. CarriedOf(tree) \subseteq DOMAIN tree.live
  BY DEF CarriedOf, TreeValid, ContinuedCurrent
<1>6. QED
  BY <1>2, <1>3, <1>4, <1>5

(* An ID that retired stays retired, and a live one stays live or retires. *)
LEMMA StatusMonotone ==
  ASSUME NEW base, NEW head, NEW id \in Ids, TreeValid(base), TreeValid(head), BaseValid(base, head)
  PROVE  /\ StatusOf(base)[id] = "retired" => StatusOf(head)[id] = "retired"
         /\ StatusOf(base)[id] = "live" => StatusOf(head)[id] \in {"live", "retired"}
<1>1. ASSUME StatusOf(base)[id] = "retired"
      PROVE  StatusOf(head)[id] = "retired"
  <2>1. id \in DOMAIN base.aliases
    BY <1>1 DEF StatusOf
  <2>2. id \in DOMAIN head.aliases
    BY <2>1 DEF BaseValid, EntriesKept
  <2>3. id \notin DOMAIN head.live
    BY <2>2 DEF TreeValid, NoneLiveAndAliased
  <2>4. QED
    BY <2>2, <2>3 DEF StatusOf
<1>2. ASSUME StatusOf(base)[id] = "live"
      PROVE  StatusOf(head)[id] \in {"live", "retired"}
  <2>1. id \in DOMAIN base.live
    BY <1>2 DEF StatusOf
  <2>2. id \in DOMAIN head.live \union DOMAIN head.aliases
    BY <2>1 DEF BaseValid, NoIdLost, Registry
  <2>3. QED
    BY <2>2 DEF StatusOf
<1>3. QED
  BY <1>1, <1>2

(* SIMs that have a live ID keep it, and an ID that gets other SIMs is     *)
(* carried by a continuity entry.                                          *)
LEMMA SimsAndIdsStay ==
  ASSUME NEW base, NEW head, NEW id \in DOMAIN head.live, BaseValid(base, head)
  PROVE  /\ (\E h \in DOMAIN base.live : SimsOf(base)[h] = SimsOf(head)[id]) =>
              id \in DOMAIN base.live /\ SimsOf(base)[id] = SimsOf(head)[id]
         /\ id \in DOMAIN base.live =>
              SimsOf(head)[id] = SimsOf(base)[id] \/ id \in CarriedOf(head)
<1>1. ASSUME NEW h \in DOMAIN base.live, SimsOf(base)[h] = SimsOf(head)[id]
      PROVE  id \in DOMAIN base.live /\ SimsOf(base)[id] = SimsOf(head)[id]
  <2> DEFINE holders == HoldersOf(base.live, KeyOf[head.live[id]])
  <2>1. h \in holders
    BY <1>1 DEF SimsOf, HoldersOf
  <2>2. id = CHOOSE g \in holders : TRUE
    BY <2>1 DEF BaseValid, SimsKeepId
  <2>3. id \in holders
    BY <2>1, <2>2
  <2>4. QED
    BY <2>3 DEF HoldersOf, SimsOf
<1>2. ASSUME id \in DOMAIN base.live
      PROVE  SimsOf(head)[id] = SimsOf(base)[id] \/ id \in CarriedOf(head)
  BY <1>2 DEF BaseValid, IdKeepsSims, SimsOf, CarriedOf
<1>3. QED
  BY <1>1, <1>2

(* Every behaviour of main under the gate is one of the ledger: IDs are    *)
(* never reused, never disappear, and move to other SIMs only by an        *)
(* accepted continuity entry.                                              *)
THEOREM GateKeepsLedger == GateSpec => KeepsLedger
<1>1. GateInit => Ledger!Init
  BY LedgerState DEF GateInit, Ledger!Init, Ledger!Live
<1>2. GateValid /\ GateValid' /\ [GateLand]_main => [Ledger!Next]_(Ledger!vars)
  <2> SUFFICES ASSUME GateValid, GateValid', [GateLand]_main
               PROVE  [Ledger!Next]_(Ledger!vars)
    OBVIOUS
  <2>1. CASE UNCHANGED main
    BY <2>1 DEF Ledger!vars, StatusOf, SimsOf, CarriedOf
  <2>2. CASE GateLand
    <3>1. /\ IsTree(main) /\ TreeValid(main)
          /\ IsTree(main') /\ TreeValid(main')
          /\ BaseValid(main, main')
      BY <2>2 DEF GateLand, GateValid
    <3>2. Ledger!Live = DOMAIN main.live /\ Ledger!Live' = DOMAIN main'.live
      BY <3>1, LedgerState DEF Ledger!Live
    <3>3. /\ StatusOf(main') \in [Ids -> {"unissued", "live", "retired"}]
          /\ DOMAIN SimsOf(main') = DOMAIN main'.live
          /\ \A id \in DOMAIN main'.live : SimsOf(main')[id] \in {KeyOf[m] : m \in Matches}
          /\ CarriedOf(main') \subseteq DOMAIN main'.live
      BY <3>1, LedgerState
    <3>4. \A id \in Ids :
            /\ StatusOf(main)[id] = "retired" => StatusOf(main')[id] = "retired"
            /\ StatusOf(main)[id] = "live" => StatusOf(main')[id] \in {"live", "retired"}
      BY <3>1, StatusMonotone
    <3>5. \A id \in DOMAIN main'.live :
            /\ (\E h \in DOMAIN main.live : SimsOf(main)[h] = SimsOf(main')[id]) =>
                 id \in DOMAIN main.live /\ SimsOf(main)[id] = SimsOf(main')[id]
            /\ id \in DOMAIN main.live =>
                 SimsOf(main')[id] = SimsOf(main)[id] \/ id \in CarriedOf(main')
      BY <3>1, SimsAndIdsStay
    <3>6. Ledger!Next
      BY <3>2, <3>3, <3>4, <3>5 DEF Ledger!Next
    <3>7. QED
      BY <3>6
  <2>3. QED
    BY <2>1, <2>2
<1>3. QED
  BY <1>1, <1>2, GateValidHolds, PTL DEF GateSpec, KeepsLedger, Ledger!Spec

-----------------------------------------------------------------------------
(* What the operators return.                                              *)

LEMMA TargetsAreNew ==
  ASSUME NEW old, NEW new
  PROVE  AliasTargets(old, new) \subseteq DOMAIN new
BY DEF AliasTargets

LEMMA HashIsId ==
  ASSUME NEW m \in Matches
  PROVE  MatchSetHash(m) \in Ids
BY HashAssumption DEF MatchSetHash, Counters

LEMMA EmptyTreeValid == IsTree(EmptyTree) /\ TreeValid(EmptyTree) /\ Loadable(EmptyTree)
<1>1. EmptyTree.live = Empty /\ EmptyTree.aliases = Empty /\ EmptyTree.continued = Empty
  BY DEF EmptyTree
<1>2. DOMAIN Empty = {}
  BY DEF Empty
<1>3. IsTree(EmptyTree)
  <2>1. EmptyTree = [live |-> EmptyTree.live, aliases |-> EmptyTree.aliases,
                     continued |-> EmptyTree.continued]
    BY DEF EmptyTree
  <2>2. \A S, T : IsPartial(Empty, S, T)
    BY DEF IsPartial, Empty
  <2>3. QED
    BY <1>1, <2>1, <2>2 DEF IsTree
<1>4. TreeValid(EmptyTree)
  BY <1>1, <1>2 DEF TreeValid, NoneLiveAndAliased, TargetsRegistered, ContinuedCurrent, LiveExplained
<1>5. Loadable(EmptyTree)
  BY <1>1, <1>2 DEF Loadable
<1>6. QED
  BY <1>3, <1>4, <1>5

LEMMA IdleIsBuild == IsBuild(Idle)
<1> USE EmptyTreeValid
<1>1. /\ Idle.phase = "idle" /\ Idle.base = EmptyTree /\ Idle.matches = {}
      /\ Idle.assigned = Empty /\ Idle.issued = {} /\ Idle.owner = Empty
      /\ Idle.applied = {} /\ Idle.withdrawn = Empty
      /\ Idle.head = EmptyTree /\ Idle.proposals = {}
  BY DEF Idle
<1>2. \A S, T : IsPartial(Empty, S, T)
  BY DEF IsPartial, Empty
<1>3. QED
  BY <1>1, <1>2 DEF IsBuild

(* A carried ID: the SIMs of its match set are new, the ID is retiring,    *)
(* and no other new match set takes its SIMs.                              *)
CarriedSound(tree, S, carried) ==
  \A m \in DOMAIN carried :
    /\ KeyOf[m] \notin LiveKeys(tree)
    /\ carried[m] \in Retiring(tree, S)
    /\ Takers(tree, S, carried[m]) = {m}

LEMMA CarriedIsSound ==
  ASSUME NEW tree, NEW S \in SUBSET Matches, NEW entries \in SUBSET Continuities
  PROVE  /\ IsPartial(Carried(tree, S, entries), S, Ids)
         /\ CarriedSound(tree, S, Carried(tree, S, entries))
<1> DEFINE carried == Carried(tree, S, entries)
           EntryOf(m) == CHOOSE e \in entries : AppliesTo(tree, S, e, m)
<1>1. \A m \in DOMAIN carried :
        /\ m \in S
        /\ EntryOf(m) \in entries
        /\ AppliesTo(tree, S, EntryOf(m), m)
        /\ carried[m] = EntryOf(m).id
  BY DEF Carried
<1>2. IsPartial(carried, S, Ids)
  <2>1. \A m \in DOMAIN carried : carried[m] \in Ids
    BY <1>1 DEF Continuities
  <2>2. carried = [m \in DOMAIN carried |-> carried[m]]
    BY DEF Carried
  <2>3. QED
    BY <1>1, <2>1, <2>2 DEF IsPartial
<1>3. ASSUME NEW m \in DOMAIN carried
      PROVE  /\ KeyOf[m] \notin LiveKeys(tree)
             /\ carried[m] \in Retiring(tree, S)
             /\ Takers(tree, S, carried[m]) = {m}
  <2>1. carried[m] \in Retiring(tree, S) /\ Takers(tree, S, carried[m]) = {m}
    BY <1>1 DEF AppliesTo
  <2>2. m \in Fresh(tree, S)
    BY <2>1 DEF Takers
  <2>3. QED
    BY <2>1, <2>2 DEF Fresh
<1>4. QED
  BY <1>2, <1>3 DEF CarriedSound

LEMMA KeyOwnerType ==
  ASSUME NEW tree, NEW S \in SUBSET Matches
  PROVE  IsPartial(KeyOwner(tree, S), KeysOf(Matches), Matches)
<1> DEFINE owner == KeyOwner(tree, S)
<1>1. DOMAIN owner = KeysOf(S) \intersect LiveKeys(tree)
  BY DEF KeyOwner
<1>2. DOMAIN owner \subseteq KeysOf(Matches)
  BY <1>1 DEF KeysOf
<1>3. ASSUME NEW key \in DOMAIN owner
      PROVE  owner[key] \in Matches
  <2> DEFINE group == {m \in S : KeyOf[m] = key}
  <2>1. group # {} /\ group \subseteq Matches
    BY <1>1 DEF KeysOf
  <2>2. (CHOOSE m \in group : TRUE) \in group
    BY <2>1
  <2>3. owner[key] = IF tree.live[HolderOf(tree, key)] \in group
                     THEN tree.live[HolderOf(tree, key)]
                     ELSE CHOOSE m \in group : TRUE
    BY <1>1 DEF KeyOwner
  <2>4. QED
    BY <2>1, <2>2, <2>3
<1>4. owner = [key \in DOMAIN owner |-> owner[key]]
  BY DEF KeyOwner
<1>5. QED
  BY <1>2, <1>3, <1>4 DEF IsPartial

-----------------------------------------------------------------------------
(* The tree that finish writes.                                            *)

LEMMA NewLiveType ==
  ASSUME NEW B, IsBuild(B), Assigned(B)
  PROVE  IsPartial(NewLive(B), Ids, Matches)
<1> DEFINE live == NewLive(B)
           Named(id) == {m \in Published(B) : B.assigned[m] = id}
<1>1. /\ B.matches \subseteq Matches
      /\ Published(B) \subseteq DOMAIN B.assigned
      /\ Published(B) \subseteq Matches
      /\ \A m \in DOMAIN B.assigned : B.assigned[m] \in Ids
  BY DEF IsBuild, Assigned, Published, IsPartial
<1>2. DOMAIN live = {B.assigned[m] : m \in Published(B)}
  BY DEF NewLive
<1>3. DOMAIN live \subseteq Ids
  BY <1>1, <1>2
<1>4. ASSUME NEW id \in DOMAIN live
      PROVE  live[id] \in Matches
  <2>1. \E m \in Published(B) : B.assigned[m] = id
    BY <1>2
  <2>2. live[id] = CHOOSE m \in Published(B) : B.assigned[m] = id
    BY <1>2 DEF NewLive
  <2>3. live[id] \in Published(B)
    BY <2>1, <2>2
  <2>4. QED
    BY <2>3, <1>1
<1>5. live = [id \in DOMAIN live |-> live[id]]
  BY DEF NewLive
<1>6. QED
  BY <1>3, <1>4, <1>5 DEF IsPartial

LEMMA TodayType ==
  ASSUME landings \in Nat
  PROVE  Today \in Nat
BY BoundsAssumption DEF Today

LEMMA NewAliasesType ==
  ASSUME NEW B, IsBuild(B), Assigned(B), landings \in Nat
  PROVE  IsPartial(NewAliases(B), Ids, AliasEntries)
<1> DEFINE aliases == NewAliases(B)
<1>1. IsTree(B.base)
  BY DEF IsBuild
<1>2. /\ DOMAIN B.base.live \subseteq Ids
      /\ \A id \in DOMAIN B.base.live : B.base.live[id] \in Matches
      /\ DOMAIN B.base.aliases \subseteq Ids
      /\ \A id \in DOMAIN B.base.aliases : B.base.aliases[id] \in AliasEntries
  BY <1>1 DEF IsTree, IsPartial
<1>3. DOMAIN aliases = RetiredIds(B) \union DOMAIN B.base.aliases
  BY DEF NewAliases
<1>4. DOMAIN aliases \subseteq Ids
  BY <1>2, <1>3 DEF RetiredIds
<1>5. ASSUME NEW id \in RetiredIds(B)
      PROVE  NewAlias(B, id) \in AliasEntries
  <2>1. TargetsOf(B, id) \subseteq Ids
    BY TargetsAreNew, NewLiveType DEF TargetsOf, IsPartial
  <2>2. KindOf(B, id) \in AliasKinds
    BY DEF KindOf, AliasKinds
  <2>3. B.base.live[id] \in Matches
    BY <1>2 DEF RetiredIds
  <2>4. QED
    BY <2>1, <2>2, <2>3, TodayType DEF NewAlias, AliasEntries
<1>6. \A id \in DOMAIN aliases :
        aliases[id] = IF id \in RetiredIds(B) THEN NewAlias(B, id) ELSE B.base.aliases[id]
  BY <1>3 DEF NewAliases
<1>7. \A id \in DOMAIN aliases : aliases[id] \in AliasEntries
  BY <1>2, <1>3, <1>5, <1>6
<1>8. aliases = [id \in DOMAIN aliases |-> aliases[id]]
  BY DEF NewAliases
<1>9. QED
  BY <1>4, <1>7, <1>8 DEF IsPartial

LEMMA NewContinuedType ==
  ASSUME NEW B, IsBuild(B), Assigned(B), Finishes(B)
  PROVE  IsPartial(NewContinued(B), Ids, ContinuedEntries)
<1> DEFINE continued == NewContinued(B)
           live == NewLive(B)
<1>1. IsPartial(live, Ids, Matches)
  BY NewLiveType
<1>2. DOMAIN live \subseteq Ids /\ \A id \in DOMAIN live : live[id] \in Matches
  BY <1>1 DEF IsPartial
<1>3. IsTree(B.base)
  BY DEF IsBuild
<1>4. /\ \A id \in DOMAIN B.base.live : B.base.live[id] \in Matches
      /\ \A id \in DOMAIN B.base.continued : B.base.continued[id] \in ContinuedEntries
  BY <1>3 DEF IsTree, IsPartial
<1>5. DOMAIN continued = KeptChanged(B) \union StillContinued(B)
  BY DEF NewContinued
<1>6. DOMAIN continued \subseteq Ids
  BY <1>2, <1>5 DEF KeptChanged, StillContinued
<1>7. ASSUME NEW id \in DOMAIN continued
      PROVE  continued[id] \in ContinuedEntries
  <2>1. CASE id \in KeptChanged(B)
    <3>1. id \in DOMAIN live /\ id \in DOMAIN B.base.live
      BY <2>1 DEF KeptChanged
    <3>2. MatchSetHash(live[id]) \in Ids /\ MatchSetHash(B.base.live[id]) \in Ids
      BY <3>1, <1>2, <1>4, HashIsId
    <3>3. continued[id] =
            [basis |-> IF id \in B.applied THEN "continuity_entry" ELSE "same_sims",
             hash  |-> MatchSetHash(live[id]),
             from  |-> MatchSetHash(B.base.live[id])]
      BY <2>1, <1>5 DEF NewContinued
    <3>4. QED
      BY <3>2, <3>3 DEF ContinuedEntries, ContinuedBases
  <2>2. CASE id \notin KeptChanged(B)
    <3>1. id \in StillContinued(B)
      BY <2>2, <1>5
    <3>2. id \in DOMAIN B.base.continued
      BY <3>1 DEF Finishes
    <3>3. continued[id] = B.base.continued[id]
      BY <2>2, <1>5 DEF NewContinued
    <3>4. QED
      BY <3>2, <3>3, <1>4
  <2>3. QED
    BY <2>1, <2>2
<1>8. continued = [id \in DOMAIN continued |-> continued[id]]
  BY DEF NewContinued
<1>9. QED
  BY <1>6, <1>7, <1>8 DEF IsPartial

LEMMA NewTreeIsTree ==
  ASSUME NEW B, IsBuild(B), Assigned(B), Finishes(B), landings \in Nat
  PROVE  IsTree(NewTree(B))
<1>1. /\ NewTree(B) = [live |-> NewLive(B), aliases |-> NewAliases(B), continued |-> NewContinued(B)]
      /\ NewTree(B).live = NewLive(B)
      /\ NewTree(B).aliases = NewAliases(B)
      /\ NewTree(B).continued = NewContinued(B)
  BY DEF NewTree
<1>2. QED
  BY <1>1, NewLiveType, NewAliasesType, NewContinuedType DEF IsTree

LEMMA ProposalsType ==
  ASSUME NEW B, IsBuild(B), Assigned(B)
  PROVE  Proposals(B) \subseteq Continuities
<1>1. SUFFICES ASSUME NEW id \in RetiredIds(B), KindOf(B, id) = "replaced"
               PROVE  [id   |-> id,
                       from |-> MatchSetHash(B.base.live[id]),
                       to   |-> MatchSetHash(NewLive(B)[CHOOSE t \in FreshTargets(B, id) : TRUE])]
                        \in Continuities
  BY DEF Proposals
<1>2. id \in Ids /\ B.base.live[id] \in Matches
  BY DEF RetiredIds, IsBuild, IsTree, IsPartial
<1>3. FreshTargets(B, id) # {}
  BY <1>1 DEF KindOf
<1>4. FreshTargets(B, id) \subseteq DOMAIN NewLive(B)
  BY DEF FreshTargets, NewIds
<1>5. NewLive(B)[CHOOSE t \in FreshTargets(B, id) : TRUE] \in Matches
  BY <1>3, <1>4, NewLiveType DEF IsPartial
<1>6. QED
  BY <1>2, <1>5, HashIsId DEF Continuities

-----------------------------------------------------------------------------
(* Squashing trees gives a tree.                                           *)

LEMMA MergeFilesType ==
  ASSUME NEW T, NEW base, NEW ours, NEW theirs, IsPartial(ours, Ids, T), IsPartial(theirs, Ids, T)
  PROVE  IsPartial(MergeFiles(base, ours, theirs), Ids, T)
<1> DEFINE Side(id) == IF At(theirs, id) = At(base, id) THEN ours ELSE theirs
           merged == MergeFiles(base, ours, theirs)
<1>1. merged = [id \in {i \in Ids : i \in DOMAIN Side(i)} |-> Side(id)[id]]
  BY DEF MergeFiles
<1>2. \A id \in DOMAIN merged : id \in Ids /\ id \in DOMAIN Side(id) /\ merged[id] = Side(id)[id]
  BY <1>1
<1>3. \A id \in DOMAIN merged : merged[id] \in T
  BY <1>2 DEF IsPartial
<1>4. merged = [id \in DOMAIN merged |-> merged[id]]
  BY <1>1
<1>5. QED
  BY <1>2, <1>3, <1>4 DEF IsPartial

LEMMA MergeTreeIsTree ==
  ASSUME NEW base, NEW ours, NEW theirs, IsTree(ours), IsTree(theirs)
  PROVE  IsTree(MergeTree(base, ours, theirs))
<1> DEFINE merged == MergeTree(base, ours, theirs)
<1>1. /\ merged = [live |-> merged.live, aliases |-> merged.aliases, continued |-> merged.continued]
      /\ merged.live = MergeFiles(base.live, ours.live, theirs.live)
      /\ merged.aliases = MergeFiles(base.aliases, ours.aliases, theirs.aliases)
      /\ merged.continued = MergeFiles(base.continued, ours.continued, theirs.continued)
  BY DEF MergeTree
<1>2. /\ IsPartial(merged.live, Ids, Matches)
      /\ IsPartial(merged.aliases, Ids, AliasEntries)
      /\ IsPartial(merged.continued, Ids, ContinuedEntries)
  BY <1>1, MergeFilesType DEF IsTree
<1>3. QED
  BY <1>1, <1>2 DEF IsTree

-----------------------------------------------------------------------------
(* The inductive invariant.                                                *)

WasCarried(B, m) ==
  /\ KeyOf[m] \notin LiveKeys(B.base)
  /\ B.assigned[m] \in Retiring(B.base, B.matches)
  /\ Takers(B.base, B.matches, B.assigned[m]) = {m}

WasKept(B, m) == KeepsLiveId(B, m) /\ B.assigned[m] = HolderOf(B.base, KeyOf[m])

AssignedSound(B) ==
  /\ B.issued \intersect Registry(B.base) = {}
  /\ \A m \in DOMAIN B.assigned :
       WasCarried(B, m) \/ WasKept(B, m) \/ B.assigned[m] \in B.issued
  /\ \A m, n \in DOMAIN B.assigned : B.assigned[m] = B.assigned[n] => m = n

WithdrawnSound(B) ==
  /\ \A m \in DOMAIN B.withdrawn :
       /\ m \in DOMAIN B.assigned
       /\ B.withdrawn[m] = B.assigned[m] \/ B.withdrawn[m] \in DOMAIN B.base.aliases
  /\ \A m, n \in DOMAIN B.withdrawn : B.withdrawn[m] = B.withdrawn[n] => m = n

Sound(B) ==
  /\ TreeValid(B.base)
  /\ B.owner = KeyOwner(B.base, B.matches)
  /\ AssignedSound(B)
  /\ WithdrawnSound(B)

IInv ==
  /\ TypeOK
  /\ TreeValid(main)
  /\ \A b \in Builders : build[b] = Idle \/ Sound(build[b])

LEMMA ExtendPartial ==
  ASSUME NEW S, NEW T, NEW f, IsPartial(f, S, T), NEW x \in S, NEW v \in T
  PROVE  /\ IsPartial(Extend(f, x, v), S, T)
         /\ DOMAIN Extend(f, x, v) = DOMAIN f \union {x}
         /\ \A y \in DOMAIN f \union {x} : Extend(f, x, v)[y] = IF y = x THEN v ELSE f[y]
<1>1. /\ DOMAIN Extend(f, x, v) = DOMAIN f \union {x}
      /\ \A y \in DOMAIN f \union {x} : Extend(f, x, v)[y] = IF y = x THEN v ELSE f[y]
  BY DEF Extend
<1>2. Extend(f, x, v) = [y \in DOMAIN f \union {x} |-> Extend(f, x, v)[y]]
  BY DEF Extend
<1>3. \A y \in DOMAIN f \union {x} : Extend(f, x, v)[y] \in T
  BY <1>1 DEF IsPartial
<1>4. QED
  BY <1>1, <1>2, <1>3 DEF IsPartial

(* Which IDs the live holder of a match set's SIMs can be.                 *)
LEMMA KeptIsHolder ==
  ASSUME NEW B, B.owner = KeyOwner(B.base, B.matches), NEW m, KeepsLiveId(B, m)
  PROVE  /\ HolderOf(B.base, KeyOf[m]) \in DOMAIN B.base.live
         /\ KeyOf[B.base.live[HolderOf(B.base, KeyOf[m])]] = KeyOf[m]
<1>1. KeyOf[m] \in LiveKeys(B.base)
  BY DEF KeepsLiveId, KeyOwner
<1>2. HoldersOf(B.base.live, KeyOf[m]) # {}
  BY <1>1 DEF LiveKeys, KeysOf, HoldersOf
<1>3. HolderOf(B.base, KeyOf[m]) \in HoldersOf(B.base.live, KeyOf[m])
  BY <1>2 DEF HolderOf
<1>4. QED
  BY <1>3 DEF HoldersOf

(* An assigned ID is live or new, never a retired one.                     *)
LEMMA AssignedNotRetired ==
  ASSUME NEW B, Sound(B), NEW m \in DOMAIN B.assigned
  PROVE  B.assigned[m] \notin DOMAIN B.base.aliases
<1>1. DOMAIN B.base.live \intersect DOMAIN B.base.aliases = {}
  BY DEF Sound, TreeValid, NoneLiveAndAliased
<1>2. CASE WasCarried(B, m)
  BY <1>1, <1>2 DEF WasCarried, Retiring
<1>3. CASE WasKept(B, m)
  BY <1>1, <1>3, KeptIsHolder DEF WasKept, Sound
<1>4. CASE B.assigned[m] \in B.issued
  BY <1>4 DEF Sound, AssignedSound, Registry
<1>5. QED
  BY <1>2, <1>3, <1>4 DEF Sound, AssignedSound

(* Soundness is about these fields only.                                   *)
LEMMA SoundFields ==
  ASSUME NEW B, NEW C, Sound(B),
         C.base = B.base, C.matches = B.matches, C.assigned = B.assigned,
         C.issued = B.issued, C.owner = B.owner,
         C.withdrawn = B.withdrawn
  PROVE  Sound(C)
<1>1. AssignedSound(C)
  <2>1. \A m : WasCarried(B, m) => WasCarried(C, m)
    BY DEF WasCarried
  <2>2. \A m : WasKept(B, m) => WasKept(C, m)
    BY DEF WasKept, KeepsLiveId
  <2>3. QED
    BY <2>1, <2>2 DEF Sound, AssignedSound
<1>2. WithdrawnSound(C)
  BY DEF Sound, WithdrawnSound
<1>3. QED
  BY <1>1, <1>2 DEF Sound

(* A step that changes one build keeps the others.                         *)
LEMMA OneBuildChanges ==
  ASSUME IInv, NEW b \in Builders, NEW B, build' = [build EXCEPT ![b] = B],
         IsBuild(B), B = Idle \/ Sound(B)
  PROVE  /\ DOMAIN build' = Builders
         /\ \A c \in Builders : IsBuild(build'[c])
         /\ \A c \in Builders : build'[c] = Idle \/ Sound(build'[c])
<1>1. DOMAIN build = Builders
  BY DEF IInv, TypeOK
<1>2. DOMAIN build' = Builders
  BY <1>1
<1>3. \A c \in Builders : build'[c] = IF c = b THEN B ELSE build[c]
  BY <1>1
<1>4. \A c \in Builders : IsBuild(build[c]) /\ (build[c] = Idle \/ Sound(build[c]))
  BY DEF IInv, TypeOK
<1>5. QED
  BY <1>2, <1>3, <1>4

-----------------------------------------------------------------------------
(* Each action preserves it.                                               *)

LEMMA InitIInv == Init => IInv
<1> SUFFICES ASSUME Init
             PROVE  IInv
  OBVIOUS
<1>1. IsTree(main) /\ TreeValid(main)
  BY StartsAssumption DEF Init
<1>2. landings \in 0..MaxLandings
  BY BoundsAssumption DEF Init
<1>3. DOMAIN build = Builders /\ \A b \in Builders : build[b] = Idle
  BY DEF Init
<1>4. accepted \subseteq Continuities
  BY DEF Init
<1>5. QED
  BY <1>1, <1>2, <1>3, <1>4, IdleIsBuild DEF IInv, TypeOK

(* The build that plan leaves behind.                                      *)
Planned(S) ==
  [Idle EXCEPT !.phase    = "assign",
               !.base     = main,
               !.matches  = S,
               !.assigned = Carried(main, S, accepted),
               !.owner    = KeyOwner(main, S),
               !.applied  = {Carried(main, S, accepted)[m] : m \in DOMAIN Carried(main, S, accepted)}]

LEMMA PlannedFields ==
  ASSUME NEW S
  PROVE  /\ DOMAIN Planned(S) = DOMAIN Idle
         /\ Planned(S).phase = "assign"
         /\ Planned(S).base = main
         /\ Planned(S).matches = S
         /\ Planned(S).assigned = Carried(main, S, accepted)
         /\ Planned(S).owner = KeyOwner(main, S)
         /\ Planned(S).applied =
              {Carried(main, S, accepted)[m] : m \in DOMAIN Carried(main, S, accepted)}
         /\ Planned(S).issued = {}
         /\ Planned(S).withdrawn = Empty
         /\ Planned(S).head = EmptyTree
         /\ Planned(S).proposals = {}
BY DEF Planned, Idle

LEMMA PlanIInv ==
  ASSUME IInv, NEW b \in Builders, Plan(b)
  PROVE  IInv'
<1>1. PICK S \in Yields : build' = [build EXCEPT ![b] = Planned(S)]
  BY DEF Plan, Planned
<1> DEFINE B == Planned(S)
           carried == Carried(main, S, accepted)
<1>2. S \in SUBSET Matches
  BY StartsAssumption
<1>3. IsTree(main) /\ TreeValid(main) /\ accepted \in SUBSET Continuities
  BY DEF IInv, TypeOK
<1>4. IsPartial(carried, S, Ids) /\ CarriedSound(main, S, carried)
  BY <1>2, <1>3, CarriedIsSound
<1>6. IsPartial(Empty, S, Ids) /\ DOMAIN Empty = {}
  BY DEF IsPartial, Empty
<1>7. \A m \in DOMAIN carried : carried[m] \in Ids
  BY <1>4 DEF IsPartial
<1>8. IsBuild(B)
  BY <1>2, <1>3, <1>4, <1>6, <1>7, PlannedFields, KeyOwnerType, EmptyTreeValid DEF IsBuild
<1>9. AssignedSound(B)
  <2>1. \A m \in DOMAIN carried : WasCarried(B, m)
    BY <1>4, PlannedFields DEF WasCarried, CarriedSound
  <2>2. \A m, n \in DOMAIN carried : carried[m] = carried[n] => m = n
    <3>1. \A m \in DOMAIN carried : Takers(main, S, carried[m]) = {m}
      BY <1>4 DEF CarriedSound
    <3>2. QED
      BY <3>1
  <2>3. QED
    BY <2>1, <2>2, PlannedFields DEF AssignedSound
<1>10. WithdrawnSound(B)
  BY <1>6, PlannedFields DEF WithdrawnSound
<1>11. Sound(B)
  BY <1>3, <1>9, <1>10, PlannedFields DEF Sound
<1>12. QED
  BY <1>1, <1>8, <1>11, OneBuildChanges DEF IInv, TypeOK, Plan

(* The build after assign gave id to m.                                    *)
AssignedTo(B, m, id) ==
  [B EXCEPT !.assigned = Extend(@, m, id),
            !.issued   = IF KeepsLiveId(B, m) THEN @ ELSE @ \union {id}]

LEMMA AssignedToFields ==
  ASSUME NEW B, DOMAIN B = DOMAIN Idle, NEW m, NEW id
  PROVE  LET C == AssignedTo(B, m, id)
         IN  /\ DOMAIN C = DOMAIN Idle
             /\ C.assigned = Extend(B.assigned, m, id)
             /\ C.issued = IF KeepsLiveId(B, m) THEN B.issued ELSE B.issued \union {id}
             /\ C.phase = B.phase /\ C.base = B.base /\ C.matches = B.matches
             /\ C.owner = B.owner /\ C.applied = B.applied
             /\ C.withdrawn = B.withdrawn /\ C.head = B.head /\ C.proposals = B.proposals
BY DEF AssignedTo, Idle

(* A new ID differs from every ID the build has assigned.                  *)
LEMMA AssignIsNew ==
  ASSUME NEW B, Sound(B), NEW m \in B.matches \ DOMAIN B.assigned,
         NEW id \in AssignedIds(B, m), NEW n \in DOMAIN B.assigned
  PROVE  B.assigned[n] # id
<1>1. ASSUME KeepsLiveId(B, m)
      PROVE  B.assigned[n] # id
  <2>1. id = HolderOf(B.base, KeyOf[m])
    BY <1>1 DEF AssignedIds
  <2>2. id \in DOMAIN B.base.live /\ KeyOf[B.base.live[id]] = KeyOf[m]
    BY <1>1, <2>1, KeptIsHolder DEF Sound
  <2>3. CASE WasCarried(B, n)
    <3>1. KeyOf[B.base.live[B.assigned[n]]] \notin KeysOf(B.matches)
      BY <2>3 DEF WasCarried, Retiring
    <3>2. KeyOf[m] \in KeysOf(B.matches)
      BY DEF KeysOf
    <3>3. QED
      BY <2>2, <3>1, <3>2
  <2>4. CASE WasKept(B, n)
    <3>1. KeyOf[B.base.live[B.assigned[n]]] = KeyOf[n] /\ B.owner[KeyOf[n]] = n
      BY <2>4, KeptIsHolder DEF WasKept, Sound, KeepsLiveId
    <3>2. B.owner[KeyOf[m]] = m
      BY <1>1 DEF KeepsLiveId
    <3>3. QED
      BY <2>2, <3>1, <3>2
  <2>5. CASE B.assigned[n] \in B.issued
    BY <2>2, <2>5 DEF Sound, AssignedSound, Registry
  <2>6. QED
    BY <2>3, <2>4, <2>5 DEF Sound, AssignedSound
<1>2. ASSUME ~KeepsLiveId(B, m)
      PROVE  B.assigned[n] # id
  <2>1. id \notin Taken(B)
    BY <1>2 DEF AssignedIds, FirstFree
  <2>2. B.assigned[n] \in DOMAIN B.base.live \/ B.assigned[n] \in B.issued
    BY KeptIsHolder DEF Sound, AssignedSound, WasCarried, WasKept, Retiring
  <2>3. QED
    BY <2>1, <2>2 DEF Taken, Registry
<1>3. QED
  BY <1>1, <1>2

LEMMA AssignKeepsSound ==
  ASSUME NEW B, IsBuild(B), Sound(B), NEW m \in B.matches \ DOMAIN B.assigned,
         NEW id \in AssignedIds(B, m)
  PROVE  IsBuild(AssignedTo(B, m, id)) /\ Sound(AssignedTo(B, m, id))
<1> DEFINE C == AssignedTo(B, m, id)
<1>1. /\ DOMAIN C = DOMAIN Idle
      /\ C.assigned = Extend(B.assigned, m, id)
      /\ C.issued = IF KeepsLiveId(B, m) THEN B.issued ELSE B.issued \union {id}
      /\ C.phase = B.phase /\ C.base = B.base /\ C.matches = B.matches
      /\ C.owner = B.owner /\ C.applied = B.applied
      /\ C.withdrawn = B.withdrawn /\ C.head = B.head /\ C.proposals = B.proposals
  BY AssignedToFields DEF IsBuild
<1>2. id \in Ids
  <2>1. CASE KeepsLiveId(B, m)
    BY <2>1, KeptIsHolder DEF AssignedIds, Sound, IsBuild, IsTree, IsPartial
  <2>2. CASE ~KeepsLiveId(B, m)
    <3>1. m \in Matches
      BY DEF IsBuild
    <3>2. QED
      BY <2>2, <3>1, HashAssumption DEF AssignedIds, FirstFree
  <2>3. QED
    BY <2>1, <2>2
<1>3. /\ IsPartial(C.assigned, B.matches, Ids)
      /\ DOMAIN C.assigned = DOMAIN B.assigned \union {m}
      /\ \A y \in DOMAIN B.assigned \union {m} :
           C.assigned[y] = IF y = m THEN id ELSE B.assigned[y]
  <2>1. IsPartial(B.assigned, B.matches, Ids) /\ m \in B.matches
    BY DEF IsBuild
  <2>2. /\ DOMAIN Extend(B.assigned, m, id) = DOMAIN B.assigned \union {m}
        /\ \A y \in DOMAIN B.assigned \union {m} :
             Extend(B.assigned, m, id)[y] = IF y = m THEN id ELSE B.assigned[y]
    BY DEF Extend
  <2>3. IsPartial(Extend(B.assigned, m, id), B.matches, Ids)
    BY <1>2, <2>1, ExtendPartial
  <2>4. QED
    BY <1>1, <2>2, <2>3
<1>4. IsBuild(C)
  BY <1>1, <1>2, <1>3 DEF IsBuild
<1>5. C.issued \intersect Registry(C.base) = {}
  <2>1. ~KeepsLiveId(B, m) => id \notin Registry(B.base)
    BY DEF AssignedIds, FirstFree, Taken
  <2>2. QED
    BY <1>1, <2>1 DEF Sound, AssignedSound
<1>6. ASSUME NEW y \in DOMAIN C.assigned
      PROVE  WasCarried(C, y) \/ WasKept(C, y) \/ C.assigned[y] \in C.issued
  <2>1. CASE y = m
    <3>1. C.assigned[y] = id
      BY <1>3, <2>1
    <3>2. CASE KeepsLiveId(B, m)
      BY <1>1, <2>1, <3>1, <3>2 DEF WasKept, AssignedIds, KeepsLiveId
    <3>3. CASE ~KeepsLiveId(B, m)
      BY <1>1, <3>1, <3>3
    <3>4. QED
      BY <3>2, <3>3
  <2>2. CASE y # m
    <3>1. y \in DOMAIN B.assigned /\ C.assigned[y] = B.assigned[y]
      BY <1>3, <2>2
    <3>2. WasCarried(B, y) \/ WasKept(B, y) \/ B.assigned[y] \in B.issued
      BY <3>1 DEF Sound, AssignedSound
    <3>3. QED
      BY <1>1, <3>1, <3>2 DEF WasCarried, WasKept, KeepsLiveId
  <2>3. QED
    BY <2>1, <2>2
<1>7. \A y, z \in DOMAIN C.assigned : C.assigned[y] = C.assigned[z] => y = z
  <2>1. \A n \in DOMAIN B.assigned : B.assigned[n] # id
    BY AssignIsNew
  <2>2. QED
    BY <1>3, <2>1 DEF Sound, AssignedSound
<1>8. WithdrawnSound(C)
  BY <1>1, <1>3 DEF Sound, WithdrawnSound
<1>9. QED
  BY <1>1, <1>4, <1>5, <1>6, <1>7, <1>8 DEF Sound, AssignedSound

LEMMA IdleOrSound ==
  ASSUME IInv, NEW b \in Builders
  PROVE  IsBuild(build[b]) /\ (build[b].phase # "idle" => Sound(build[b]))
<1>1. Idle.phase = "idle"
  BY DEF Idle
<1>2. QED
  BY <1>1 DEF IInv, TypeOK

LEMMA AssignIInv ==
  ASSUME IInv, NEW b \in Builders, Assign(b)
  PROVE  IInv'
<1> DEFINE B == build[b]
<1>0. PICK m \in B.matches \ DOMAIN B.assigned :
        \E id \in AssignedIds(B, m) : build' = [build EXCEPT ![b] = AssignedTo(B, m, id)]
  BY DEF Assign, AssignedTo
<1>1. PICK id \in AssignedIds(B, m) : build' = [build EXCEPT ![b] = AssignedTo(B, m, id)]
  BY <1>0
<1>2. IsBuild(B) /\ Sound(B)
  BY IdleOrSound DEF Assign
<1>3. IsBuild(AssignedTo(B, m, id)) /\ Sound(AssignedTo(B, m, id))
  BY <1>2, AssignKeepsSound
<1>4. QED
  BY <1>1, <1>3, OneBuildChanges DEF IInv, TypeOK, Assign

-----------------------------------------------------------------------------
WithdrawnAs(B, m, id) == [B EXCEPT !.withdrawn = Extend(@, m, id)]

LEMMA WithdrawnAsFields ==
  ASSUME NEW B, DOMAIN B = DOMAIN Idle, NEW m, NEW id
  PROVE  LET C == WithdrawnAs(B, m, id)
         IN  /\ DOMAIN C = DOMAIN Idle
             /\ C.withdrawn = Extend(B.withdrawn, m, id)
             /\ C.assigned = B.assigned /\ C.issued = B.issued
             /\ C.phase = B.phase /\ C.base = B.base /\ C.matches = B.matches
             /\ C.owner = B.owner /\ C.applied = B.applied
             /\ C.head = B.head /\ C.proposals = B.proposals
BY DEF WithdrawnAs, Idle

LEMMA WithdrawKeepsSound ==
  ASSUME NEW B, IsBuild(B), Sound(B), Assigned(B), NEW m \in Published(B),
         NEW id \in WithdrawnIds(B, m)
  PROVE  LET C == WithdrawnAs(B, m, id) IN IsBuild(C) /\ Sound(C)
<1> DEFINE C == WithdrawnAs(B, m, id)
<1>1. /\ DOMAIN C = DOMAIN Idle
      /\ C.withdrawn = Extend(B.withdrawn, m, id)
      /\ C.assigned = B.assigned /\ C.issued = B.issued
      /\ C.phase = B.phase /\ C.base = B.base /\ C.matches = B.matches
      /\ C.owner = B.owner /\ C.applied = B.applied
      /\ C.head = B.head /\ C.proposals = B.proposals
  BY WithdrawnAsFields DEF IsBuild
<1>2. m \in B.matches /\ m \in DOMAIN B.assigned /\ m \notin DOMAIN B.withdrawn
  BY DEF Published, Assigned
<1>3. id = B.assigned[m] \/ (/\ id \in DOMAIN B.base.aliases
                             /\ \A n \in DOMAIN B.withdrawn : B.withdrawn[n] # id)
  <2> DEFINE last == LastRetired(B.base, KeyOf[m])
  <2>1. last \subseteq DOMAIN B.base.aliases
    BY DEF LastRetired, RetiredOf
  <2>2. id = B.assigned[m] \/ (id \in last /\ ~ \E n \in DOMAIN B.withdrawn : B.withdrawn[n] \in last)
    <3> HIDE DEF last
    <3>1. QED
      BY DEF WithdrawnIds, last
  <2>3. QED
    BY <2>1, <2>2
<1>4. id \in Ids
  BY <1>2, <1>3 DEF IsBuild, IsPartial, IsTree
<1>5. /\ IsPartial(C.withdrawn, B.matches, Ids)
      /\ DOMAIN C.withdrawn = DOMAIN B.withdrawn \union {m}
      /\ \A y \in DOMAIN B.withdrawn \union {m} :
           C.withdrawn[y] = IF y = m THEN id ELSE B.withdrawn[y]
  <2>1. IsPartial(B.withdrawn, B.matches, Ids)
    BY DEF IsBuild
  <2>2. /\ DOMAIN Extend(B.withdrawn, m, id) = DOMAIN B.withdrawn \union {m}
        /\ \A y \in DOMAIN B.withdrawn \union {m} :
             Extend(B.withdrawn, m, id)[y] = IF y = m THEN id ELSE B.withdrawn[y]
    BY DEF Extend
  <2>3. IsPartial(Extend(B.withdrawn, m, id), B.matches, Ids)
    BY <1>2, <1>4, <2>1, ExtendPartial
  <2>4. QED
    BY <1>1, <2>2, <2>3
<1>6. IsBuild(C)
  BY <1>1, <1>5 DEF IsBuild
<1>7. AssignedSound(C)
  <2>1. \A y : WasCarried(B, y) => WasCarried(C, y)
    BY <1>1 DEF WasCarried
  <2>2. \A y : WasKept(B, y) => WasKept(C, y)
    BY <1>1 DEF WasKept, KeepsLiveId
  <2>3. QED
    BY <1>1, <2>1, <2>2 DEF Sound, AssignedSound
<1>8. \A n \in DOMAIN B.withdrawn : B.withdrawn[n] # id
  <2>1. SUFFICES ASSUME NEW n \in DOMAIN B.withdrawn, id = B.assigned[m]
                 PROVE  B.withdrawn[n] # id
    BY <1>3
  <2>2. n # m /\ n \in DOMAIN B.assigned
    BY <1>2 DEF Sound, WithdrawnSound
  <2>3. B.assigned[n] # B.assigned[m]
    BY <1>2, <2>2 DEF Sound, AssignedSound
  <2>4. B.assigned[m] \notin DOMAIN B.base.aliases
    BY <1>2, AssignedNotRetired
  <2>5. QED
    BY <2>1, <2>3, <2>4 DEF Sound, WithdrawnSound
<1>9. WithdrawnSound(C)
  <2>1. ASSUME NEW y \in DOMAIN C.withdrawn
        PROVE  /\ y \in DOMAIN C.assigned
               /\ C.withdrawn[y] = C.assigned[y] \/ C.withdrawn[y] \in DOMAIN C.base.aliases
    BY <1>1, <1>2, <1>3, <1>5 DEF Sound, WithdrawnSound
  <2>2. \A y, z \in DOMAIN C.withdrawn : C.withdrawn[y] = C.withdrawn[z] => y = z
    BY <1>5, <1>8 DEF Sound, WithdrawnSound
  <2>3. QED
    BY <2>1, <2>2 DEF WithdrawnSound
<1>10. QED
  BY <1>1, <1>6, <1>7, <1>9 DEF Sound

LEMMA WithdrawIInv ==
  ASSUME IInv, NEW b \in Builders, Withdraw(b)
  PROVE  IInv'
<1> DEFINE B == build[b]
<1>0. PICK m \in Published(B) :
        \E id \in WithdrawnIds(B, m) : build' = [build EXCEPT ![b] = WithdrawnAs(B, m, id)]
  BY DEF Withdraw, WithdrawnAs
<1>1. PICK id \in WithdrawnIds(B, m) : build' = [build EXCEPT ![b] = WithdrawnAs(B, m, id)]
  BY <1>0
<1>2. IsBuild(B) /\ Sound(B) /\ Assigned(B)
  BY IdleOrSound DEF Withdraw, Assigned
<1>3. IsBuild(WithdrawnAs(B, m, id)) /\ Sound(WithdrawnAs(B, m, id))
  BY <1>2, WithdrawKeepsSound
<1>4. QED
  BY <1>1, <1>3, OneBuildChanges DEF IInv, TypeOK, Withdraw

-----------------------------------------------------------------------------
LEMMA FinishIInv ==
  ASSUME IInv, NEW b \in Builders, Finish(b)
  PROVE  IInv'
<1> DEFINE B == build[b]
           C == [B EXCEPT !.phase = "open", !.head = NewTree(B), !.proposals = Proposals(B)]
<1>1. build' = [build EXCEPT ![b] = C]
  BY DEF Finish
<1>2. IsBuild(B) /\ Sound(B) /\ Assigned(B) /\ Finishes(B)
  BY IdleOrSound DEF Finish, Assigned
<1>3. /\ DOMAIN C = DOMAIN Idle
      /\ C.phase = "open" /\ C.head = NewTree(B) /\ C.proposals = Proposals(B)
      /\ C.assigned = B.assigned /\ C.issued = B.issued
      /\ C.base = B.base /\ C.matches = B.matches
      /\ C.owner = B.owner /\ C.applied = B.applied
      /\ C.withdrawn = B.withdrawn
  <2>1. DOMAIN B = DOMAIN Idle
    BY <1>2 DEF IsBuild
  <2>2. QED
    BY <2>1 DEF Idle
<1>4. landings \in Nat
  BY BoundsAssumption DEF IInv, TypeOK
<1>5. IsTree(NewTree(B)) /\ Proposals(B) \subseteq Continuities
  BY <1>2, <1>4, NewTreeIsTree, ProposalsType
<1>6. IsBuild(C)
  BY <1>2, <1>3, <1>5 DEF IsBuild
<1>7. Sound(C)
  BY <1>2, <1>3, SoundFields
<1>8. QED
  BY <1>1, <1>6, <1>7, OneBuildChanges DEF IInv, TypeOK, Finish

LEMMA LandIInv ==
  ASSUME IInv, NEW b \in Builders, Land(b)
  PROVE  IInv'
<1> DEFINE B == build[b]
           tree == MergeTree(B.base, main, B.head)
<1>1. build' = [build EXCEPT ![b] = Idle] /\ main' = tree /\ TreeValid(tree)
  BY DEF Land
<1>2. IsTree(tree)
  BY MergeTreeIsTree DEF IInv, TypeOK, IsBuild
<1>3. landings' \in 0..MaxLandings
  BY BoundsAssumption DEF IInv, TypeOK, Land
<1>4. QED
  BY <1>1, <1>2, <1>3, IdleIsBuild, OneBuildChanges DEF IInv, TypeOK, Land

LEMMA AcceptIInv ==
  ASSUME IInv, NEW b \in Builders, Accept(b)
  PROVE  IInv'
<1>1. PICK proposal \in build[b].proposals \ accepted : accepted' = accepted \union {proposal}
  BY DEF Accept
<1>2. proposal \in Continuities
  BY DEF IInv, TypeOK, IsBuild
<1>3. accepted' \subseteq Continuities
  BY <1>1, <1>2 DEF IInv, TypeOK
<1>4. QED
  BY <1>3 DEF IInv, TypeOK, Accept

LEMMA AbandonIInv ==
  ASSUME IInv, NEW b \in Builders, Abandon(b)
  PROVE  IInv'
BY IdleIsBuild, OneBuildChanges DEF IInv, TypeOK, Abandon

LEMMA NextIInv == IInv /\ [Next]_vars => IInv'
<1> SUFFICES ASSUME IInv, [Next]_vars
             PROVE  IInv'
  OBVIOUS
<1>1. CASE UNCHANGED vars
  BY <1>1 DEF vars, IInv, TypeOK
<1>2. ASSUME NEW b \in Builders,
             Plan(b) \/ Assign(b) \/ Withdraw(b) \/ Finish(b) \/ Accept(b) \/ Land(b) \/ Abandon(b)
      PROVE  IInv'
  BY <1>2, PlanIInv, AssignIInv, WithdrawIInv, FinishIInv, AcceptIInv, LandIInv, AbandonIInv
<1>3. QED
  BY <1>1, <1>2 DEF Next

LEMMA IInvHolds == Spec => []IInv
BY InitIInv, NextIInv, PTL DEF Spec

-----------------------------------------------------------------------------
(* main is a registry tree and every build is well formed.                 *)
THEOREM TypeCorrect == Spec => []TypeOK
<1>1. IInv => TypeOK
  BY DEF IInv
<1>2. QED
  BY <1>1, IInvHolds, PTL

(* One build never gives two match sets the same ID.                       *)
THEOREM IdsNotShared == Spec => []NoIdShared
<1>1. IInv => NoIdShared
  <2> SUFFICES ASSUME IInv, NEW b \in Builders,
                      NEW m \in DOMAIN build[b].assigned, NEW n \in DOMAIN build[b].assigned,
                      build[b].assigned[m] = build[b].assigned[n]
               PROVE  m = n
    BY DEF NoIdShared
  <2>1. CASE build[b] = Idle
    BY <2>1 DEF Idle, Empty
  <2>2. CASE Sound(build[b])
    BY <2>2 DEF Sound, AssignedSound
  <2>3. QED
    BY <2>1, <2>2 DEF IInv
<1>2. QED
  BY <1>1, IInvHolds, PTL

(* A withdrawn match set names an ID that nothing else in the build has.   *)
THEOREM WithdrawnIdsOwn == Spec => []WithdrawnNamesItsOwn
<1>1. IInv => WithdrawnNamesItsOwn
  <2> SUFFICES ASSUME IInv, NEW b \in Builders
               PROVE  LET B == build[b]
                      IN  /\ \A m, n \in DOMAIN B.withdrawn : B.withdrawn[m] = B.withdrawn[n] => m = n
                          /\ \A m \in DOMAIN B.withdrawn, n \in Published(B) \intersect DOMAIN B.assigned :
                               B.withdrawn[m] # B.assigned[n]
    BY DEF WithdrawnNamesItsOwn
  <2>1. CASE build[b] = Idle
    <3>1. DOMAIN build[b].withdrawn = {}
      BY <2>1 DEF Idle, Empty
    <3>2. QED
      BY <3>1
  <2>2. CASE Sound(build[b])
    <3> DEFINE B == build[b]
    <3>1. \A m, n \in DOMAIN B.withdrawn : B.withdrawn[m] = B.withdrawn[n] => m = n
      BY <2>2 DEF Sound, WithdrawnSound
    <3>2. ASSUME NEW m \in DOMAIN B.withdrawn, NEW n \in Published(B) \intersect DOMAIN B.assigned
          PROVE  B.withdrawn[m] # B.assigned[n]
      <4>1. m # n /\ m \in DOMAIN B.assigned
        BY <2>2 DEF Published, Sound, WithdrawnSound
      <4>2. B.assigned[m] # B.assigned[n]
        BY <2>2, <4>1 DEF Sound, AssignedSound
      <4>3. B.assigned[n] \notin DOMAIN B.base.aliases
        BY <2>2, AssignedNotRetired
      <4>4. QED
        BY <2>2, <4>2, <4>3 DEF Sound, WithdrawnSound
    <3>3. QED
      BY <3>1, <3>2
  <2>3. QED
    BY <2>1, <2>2 DEF IInv
<1>2. QED
  BY <1>1, IInvHolds, PTL

(* So no ID that a build writes, live or retired, stands for two things.   *)
THEOREM IdsApart == Spec => []IdsStayApart
  BY IdsNotShared, WithdrawnIdsOwn, PTL DEF IdsStayApart

(* Builds under way at once, each on the main it was loaded from, and a    *)
(* queue that lands them in any order on whatever main is by then: an ID   *)
(* is issued once, never comes back, and its SIMs keep it.                 *)
THEOREM BuildsKeepLedger == Spec => KeepsLedger
<1>1. Init => GateInit
  BY InitIInv DEF IInv, TypeOK, Init, GateInit
<1>2. IInv /\ IInv' /\ [Next]_vars => [GateLand]_main
  <2> SUFFICES ASSUME IInv, IInv', [Next]_vars, main' # main
               PROVE  GateLand
    OBVIOUS
  <2>1. PICK b \in Builders : Land(b)
    BY DEF Next, vars, Plan, Assign, Withdraw, Finish, Accept, Abandon
  <2>2. TreeValid(main') /\ BaseValid(main, main')
    BY <2>1 DEF Land
  <2>3. IsTree(main')
    BY DEF IInv, TypeOK
  <2>4. QED
    BY <2>2, <2>3 DEF GateLand
<1>3. Spec => GateSpec
  BY <1>1, <1>2, IInvHolds, PTL DEF Spec, GateSpec
<1>4. QED
  BY <1>3, GateKeepsLedger

-----------------------------------------------------------------------------
(* What the tree of an open pull request was written from: the second      *)
(* inductive invariant, Drafts, says how plan and assign chose each ID of  *)
(* a build, and what finish read off them.                                 *)

(* Every match set that may keep a live ID was given it.                   *)
LiveIdsKept(B) == \A m \in DOMAIN B.assigned : KeepsLiveId(B, m) => WasKept(B, m)

(* An ID that retires is assigned by a continuity entry only, to a match   *)
(* set that takes no other retiring profile's SIMs.                        *)
CarriedAlone(B) ==
  \A m \in DOMAIN B.assigned :
    B.assigned[m] \in Retiring(B.base, B.matches) =>
      /\ WasCarried(B, m)
      /\ B.assigned[m] \in B.applied
      /\ \A other \in Retiring(B.base, B.matches) \ {B.assigned[m]} :
           m \notin Takers(B.base, B.matches, other)

AppliedAreCarried(B) ==
  \A id \in B.applied :
    /\ id \in Retiring(B.base, B.matches)
    /\ \E m \in DOMAIN B.assigned : B.assigned[m] = id

(* A new ID is a hash of its match set, and each lower counter was taken   *)
(* on the base, or by another match set of the build.                      *)
IssuedInOrder(B) ==
  /\ \A id \in B.issued : \E m \in DOMAIN B.assigned : B.assigned[m] = id /\ IsIssued(id, m)
  /\ \A m \in DOMAIN B.assigned :
       B.assigned[m] \in B.issued =>
         \E c \in IssuedFor(B.assigned[m], m) :
           \A lower \in 0..(c - 1) :
             \/ Hash[m][lower] \in Registry(B.base)
             \/ \E n \in B.matches \ {m} : IsIssued(Hash[m][lower], n)

(* The tree and the proposals are the ones finish writes.                  *)
Written(B) ==
  /\ B.matches \subseteq DOMAIN B.assigned
  /\ Finishes(B)
  /\ B.head.live = NewLive(B)
  /\ B.head.continued = NewContinued(B)
  /\ DOMAIN B.head.aliases = RetiredIds(B) \union DOMAIN B.base.aliases
  /\ \A id \in RetiredIds(B) :
       B.head.aliases[id].kind = KindOf(B, id) /\ B.head.aliases[id].to = TargetsOf(B, id)
  /\ \A id \in DOMAIN B.base.aliases : B.head.aliases[id] = B.base.aliases[id]
  /\ B.proposals = Proposals(B)

Drafted(B) ==
  /\ Loadable(B.base)
  /\ IsFiniteSet(B.matches)
  /\ LiveIdsKept(B)
  /\ CarriedAlone(B)
  /\ AppliedAreCarried(B)
  /\ IssuedInOrder(B)
  /\ B.phase = "open" => Written(B)

Drafts == \A b \in Builders : Drafted(build[b])

LEMMA IdleIsDrafted == Drafted(Idle)
<1>1. /\ Idle.phase = "idle" /\ Idle.base = EmptyTree /\ Idle.matches = {}
      /\ Idle.assigned = Empty /\ Idle.issued = {} /\ Idle.applied = {}
  BY DEF Idle
<1>2. DOMAIN Empty = {}
  BY DEF Empty
<1>3. Loadable(Idle.base) /\ IsFiniteSet(Idle.matches)
  BY <1>1, EmptyTreeValid, FS_EmptySet
<1>4. /\ LiveIdsKept(Idle) /\ CarriedAlone(Idle)
      /\ AppliedAreCarried(Idle) /\ IssuedInOrder(Idle)
  BY <1>1, <1>2 DEF LiveIdsKept, CarriedAlone, AppliedAreCarried, IssuedInOrder
<1>5. QED
  BY <1>1, <1>3, <1>4 DEF Drafted

(* How the IDs were chosen is about these fields only.                     *)
LEMMA DraftFields ==
  ASSUME NEW B, NEW C, Drafted(B),
         C.base = B.base, C.matches = B.matches, C.assigned = B.assigned,
         C.issued = B.issued, C.owner = B.owner, C.applied = B.applied,
         C.phase = "open" => Written(C)
  PROVE  Drafted(C)
<1>1. \A m : /\ KeepsLiveId(B, m) <=> KeepsLiveId(C, m)
             /\ WasKept(B, m) <=> WasKept(C, m)
             /\ WasCarried(B, m) <=> WasCarried(C, m)
  BY DEF KeepsLiveId, WasKept, WasCarried
<1>2. LiveIdsKept(C)
  BY <1>1 DEF Drafted, LiveIdsKept
<1>3. CarriedAlone(C)
  BY <1>1 DEF Drafted, CarriedAlone
<1>4. AppliedAreCarried(C)
  BY DEF Drafted, AppliedAreCarried
<1>5. IssuedInOrder(C)
  BY DEF Drafted, IssuedInOrder
<1>6. QED
  BY <1>2, <1>3, <1>4, <1>5 DEF Drafted

LEMMA CarriedTakesAlone ==
  ASSUME NEW tree, NEW S \in SUBSET Matches, NEW entries \in SUBSET Continuities,
         NEW m \in DOMAIN Carried(tree, S, entries),
         NEW other \in Retiring(tree, S) \ {Carried(tree, S, entries)[m]}
  PROVE  m \notin Takers(tree, S, other)
<1> DEFINE entry == CHOOSE e \in entries : AppliesTo(tree, S, e, m)
<1>1. /\ AppliesTo(tree, S, entry, m)
      /\ Carried(tree, S, entries)[m] = entry.id
  BY DEF Carried
<1>2. QED
  BY <1>1 DEF AppliesTo

LEMMA PlannedIsDrafted ==
  ASSUME IInv, NEW S \in Yields, Loadable(main)
  PROVE  Drafted(Planned(S))
<1> DEFINE B == Planned(S)
           carried == Carried(main, S, accepted)
<1>1. S \in SUBSET Matches /\ IsFiniteSet(S)
  BY StartsAssumption
<1>2. accepted \in SUBSET Continuities
  BY DEF IInv, TypeOK
<1>3. CarriedSound(main, S, carried)
  BY <1>1, <1>2, CarriedIsSound
<1>4. /\ B.phase = "assign" /\ B.base = main /\ B.matches = S /\ B.assigned = carried
      /\ B.owner = KeyOwner(main, S) /\ B.issued = {}
      /\ B.applied = {carried[m] : m \in DOMAIN carried}
  BY PlannedFields
<1> HIDE DEF B, carried
<1>5. LiveIdsKept(B)
  <2>1. \A m \in DOMAIN carried : KeyOf[m] \notin DOMAIN KeyOwner(main, S)
    BY <1>3 DEF CarriedSound, KeyOwner
  <2>2. QED
    BY <1>4, <2>1 DEF LiveIdsKept, KeepsLiveId
<1>6. CarriedAlone(B)
  <2>1. ASSUME NEW m \in DOMAIN carried
        PROVE  /\ WasCarried(B, m)
               /\ carried[m] \in B.applied
               /\ \A other \in Retiring(main, S) \ {carried[m]} : m \notin Takers(main, S, other)
    <3>1. WasCarried(B, m)
      BY <1>3, <1>4 DEF WasCarried, CarriedSound
    <3>2. carried[m] \in B.applied
      BY <1>4
    <3>3. \A other \in Retiring(main, S) \ {carried[m]} : m \notin Takers(main, S, other)
      BY <1>1, <1>2, CarriedTakesAlone DEF carried
    <3>4. QED
      BY <3>1, <3>2, <3>3
  <2>2. QED
    BY <1>4, <2>1 DEF CarriedAlone
<1>7. AppliedAreCarried(B)
  BY <1>3, <1>4 DEF AppliedAreCarried, CarriedSound
<1>8. IssuedInOrder(B)
  BY <1>4 DEF IssuedInOrder
<1>9. Loadable(B.base) /\ IsFiniteSet(B.matches) /\ B.phase # "open"
  BY <1>1, <1>4
<1>10. Drafted(B)
  BY <1>5, <1>6, <1>7, <1>8, <1>9 DEF Drafted
<1>11. QED
  BY <1>10 DEF B

(* What assign gave m, which no match set of the build had before.         *)
LEMMA AssignKeepsDraft ==
  ASSUME NEW B, IsBuild(B), Sound(B), Drafted(B), B.phase = "assign",
         NEW m \in B.matches \ DOMAIN B.assigned, NEW id \in AssignedIds(B, m)
  PROVE  Drafted(AssignedTo(B, m, id))
<1> DEFINE C == AssignedTo(B, m, id)
<1>1. /\ C.assigned = Extend(B.assigned, m, id)
      /\ C.issued = IF KeepsLiveId(B, m) THEN B.issued ELSE B.issued \union {id}
      /\ C.phase = "assign" /\ C.base = B.base /\ C.matches = B.matches
      /\ C.owner = B.owner /\ C.applied = B.applied
  BY AssignedToFields DEF IsBuild
<1>2. /\ DOMAIN C.assigned = DOMAIN B.assigned \union {m}
      /\ C.assigned[m] = id
      /\ \A y \in DOMAIN B.assigned : C.assigned[y] = B.assigned[y] /\ y # m
  BY <1>1 DEF Extend
<1>3. \A y : KeepsLiveId(C, y) <=> KeepsLiveId(B, y)
  BY <1>1 DEF KeepsLiveId
<1>4. ASSUME KeepsLiveId(B, m)
      PROVE  /\ id = HolderOf(B.base, KeyOf[m])
             /\ id \in DOMAIN B.base.live
             /\ id \notin Retiring(B.base, B.matches)
  <2>1. id = HolderOf(B.base, KeyOf[m])
    BY <1>4 DEF AssignedIds
  <2>2. id \in DOMAIN B.base.live /\ KeyOf[B.base.live[id]] = KeyOf[m]
    BY <1>4, <2>1, KeptIsHolder DEF Sound
  <2>3. KeyOf[m] \in KeysOf(B.matches)
    BY DEF KeysOf
  <2>4. QED
    BY <2>1, <2>2, <2>3 DEF Retiring
<1>5. ASSUME ~KeepsLiveId(B, m)
      PROVE  \E c \in FirstFree(B, m) : id = Hash[m][c]
  BY <1>5 DEF AssignedIds
<1>6. id \notin Retiring(B.base, B.matches)
  <2>1. CASE KeepsLiveId(B, m)
    BY <1>4, <2>1
  <2>2. CASE ~KeepsLiveId(B, m)
    BY <1>5, <2>2 DEF FirstFree, Taken, Registry, Retiring
  <2>3. QED
    BY <2>1, <2>2
<1> HIDE DEF C
<1>7. LiveIdsKept(C)
  <2>1. SUFFICES ASSUME NEW y \in DOMAIN C.assigned, KeepsLiveId(B, y)
                 PROVE  C.assigned[y] = HolderOf(C.base, KeyOf[y])
    BY <1>3 DEF LiveIdsKept, WasKept
  <2>2. CASE y = m
    BY <1>1, <1>2, <1>4, <2>1, <2>2
  <2>3. CASE y # m
    BY <1>1, <1>2, <2>1, <2>3 DEF Drafted, LiveIdsKept, WasKept
  <2>4. QED
    BY <2>2, <2>3
<1>8. CarriedAlone(C)
  <2>1. SUFFICES ASSUME NEW y \in DOMAIN C.assigned,
                        C.assigned[y] \in Retiring(B.base, B.matches)
                 PROVE  /\ WasCarried(C, y)
                        /\ C.assigned[y] \in C.applied
                        /\ \A other \in Retiring(B.base, B.matches) \ {C.assigned[y]} :
                             y \notin Takers(B.base, B.matches, other)
    BY <1>1 DEF CarriedAlone
  <2>2. y \in DOMAIN B.assigned /\ C.assigned[y] = B.assigned[y]
    BY <1>2, <1>6, <2>1
  <2>3. WasCarried(B, y) /\ B.assigned[y] \in B.applied
    BY <2>1, <2>2 DEF Drafted, CarriedAlone
  <2>4. WasCarried(C, y)
    BY <1>1, <2>2, <2>3 DEF WasCarried
  <2>5. \A other \in Retiring(B.base, B.matches) \ {B.assigned[y]} :
          y \notin Takers(B.base, B.matches, other)
    BY <2>1, <2>2 DEF Drafted, CarriedAlone
  <2>6. QED
    BY <1>1, <2>2, <2>3, <2>4, <2>5
<1>9. AppliedAreCarried(C)
  <2>1. SUFFICES ASSUME NEW a \in B.applied
                 PROVE  /\ a \in Retiring(B.base, B.matches)
                        /\ \E y \in DOMAIN C.assigned : C.assigned[y] = a
    BY <1>1 DEF AppliedAreCarried
  <2>2. a \in Retiring(B.base, B.matches)
    BY DEF Drafted, AppliedAreCarried
  <2>3. PICK y \in DOMAIN B.assigned : B.assigned[y] = a
    BY DEF Drafted, AppliedAreCarried
  <2>4. QED
    BY <1>2, <2>2, <2>3
<1>10. ASSUME NEW a \in C.issued
       PROVE  \E y \in DOMAIN C.assigned : C.assigned[y] = a /\ IsIssued(a, y)
  <2>1. CASE a \in B.issued
    <3>1. PICK y \in DOMAIN B.assigned : B.assigned[y] = a /\ IsIssued(a, y)
      BY <2>1 DEF Drafted, IssuedInOrder
    <3>2. QED
      BY <1>2, <3>1
  <2>2. CASE a \notin B.issued
    <3>1. ~KeepsLiveId(B, m) /\ a = id
      BY <1>1, <2>2
    <3>2. IsIssued(id, m)
      BY <1>5, <3>1 DEF FirstFree, IsIssued, IssuedFor
    <3>3. QED
      BY <1>2, <3>1, <3>2
  <2>3. QED
    BY <2>1, <2>2
<1>11. ASSUME NEW y \in DOMAIN C.assigned, C.assigned[y] \in C.issued
       PROVE  \E c \in IssuedFor(C.assigned[y], y) :
                \A lower \in 0..(c - 1) :
                  \/ Hash[y][lower] \in Registry(B.base)
                  \/ \E n \in B.matches \ {y} : IsIssued(Hash[y][lower], n)
  <2>1. CASE y # m
    <3>1. y \in DOMAIN B.assigned /\ C.assigned[y] = B.assigned[y]
      BY <1>2, <2>1
    <3>2. B.assigned[y] \in B.issued
      <4>1. B.assigned[y] # id
        BY <3>1, AssignIsNew
      <4>2. QED
        BY <1>1, <1>11, <3>1, <4>1
    <3>3. QED
      BY <3>1, <3>2 DEF Drafted, IssuedInOrder
  <2>2. CASE y = m
    <3>1. ~KeepsLiveId(B, m)
      <4>1. ASSUME KeepsLiveId(B, m)
            PROVE  FALSE
        <5>1. id \in B.issued /\ id \in DOMAIN B.base.live
          BY <1>1, <1>2, <1>4, <1>11, <2>2, <4>1
        <5>2. QED
          BY <5>1 DEF Sound, AssignedSound, Registry
      <4>2. QED
        BY <4>1
    <3>2. PICK c \in FirstFree(B, m) : id = Hash[m][c]
      BY <1>5, <3>1
    <3>3. c \in IssuedFor(id, m)
      BY <3>2 DEF FirstFree, IssuedFor
    <3>4. ASSUME NEW lower \in 0..(c - 1), Hash[m][lower] \notin Registry(B.base)
          PROVE  \E n \in B.matches \ {m} : IsIssued(Hash[m][lower], n)
      <4>1. Hash[m][lower] \in B.issued
        BY <3>2, <3>4 DEF FirstFree, Taken
      <4>2. PICK n \in DOMAIN B.assigned : IsIssued(Hash[m][lower], n)
        BY <4>1 DEF Drafted, IssuedInOrder
      <4>3. n \in B.matches \ {m}
        BY DEF IsBuild, IsPartial
      <4>4. QED
        BY <4>2, <4>3
    <3>5. QED
      BY <1>2, <2>2, <3>3, <3>4
  <2>3. QED
    BY <2>1, <2>2
<1>12. IssuedInOrder(C)
  BY <1>1, <1>10, <1>11 DEF IssuedInOrder
<1>13. Loadable(C.base) /\ IsFiniteSet(C.matches) /\ C.phase # "open"
  BY <1>1 DEF Drafted
<1>14. Drafted(C)
  BY <1>7, <1>8, <1>9, <1>12, <1>13 DEF Drafted
<1>15. QED
  BY <1>14 DEF C

(* What finish computes is read off these fields only.                     *)
LEMMA FinishFields ==
  ASSUME NEW B, NEW C, C.base = B.base, C.matches = B.matches, C.assigned = B.assigned,
         C.withdrawn = B.withdrawn, C.applied = B.applied
  PROVE  /\ NewLive(C) = NewLive(B)
         /\ NewContinued(C) = NewContinued(B)
         /\ RetiredIds(C) = RetiredIds(B)
         /\ \A id : TargetsOf(C, id) = TargetsOf(B, id) /\ KindOf(C, id) = KindOf(B, id)
         /\ Proposals(C) = Proposals(B)
         /\ Finishes(C) = Finishes(B)
<1>1. Published(C) = Published(B)
  BY DEF Published
<1>2. NewLive(C) = NewLive(B)
  BY <1>1 DEF NewLive
<1>3. RetiredIds(C) = RetiredIds(B) /\ NewIds(C) = NewIds(B)
  BY <1>2 DEF RetiredIds, NewIds
<1>4. \A id : TargetsOf(C, id) = TargetsOf(B, id)
  BY <1>2 DEF TargetsOf
<1>5. \A id : FreshTargets(C, id) = FreshTargets(B, id)
  BY <1>3, <1>4 DEF FreshTargets
<1>6. \A id : KindOf(C, id) = KindOf(B, id)
  BY <1>3, <1>4, <1>5 DEF KindOf
<1>7. KeptChanged(C) = KeptChanged(B)
  BY <1>2 DEF KeptChanged
<1>8. StillContinued(C) = StillContinued(B)
  BY <1>2, <1>7 DEF StillContinued
<1>9. NewContinued(C) = NewContinued(B)
  BY <1>2, <1>7, <1>8 DEF NewContinued
<1>10. Proposals(C) = Proposals(B)
  BY <1>2, <1>3, <1>5, <1>6 DEF Proposals
<1>11. Finishes(C) = Finishes(B)
  BY <1>3, <1>8 DEF Finishes
<1>12. QED
  BY <1>2, <1>3, <1>4, <1>6, <1>9, <1>10, <1>11

LEMMA FinishWrites ==
  ASSUME NEW B, NEW C, Assigned(B), Finishes(B),
         C.base = B.base, C.matches = B.matches, C.assigned = B.assigned,
         C.withdrawn = B.withdrawn, C.applied = B.applied,
         C.head = NewTree(B), C.proposals = Proposals(B)
  PROVE  Written(C)
<1>1. /\ C.head.live = NewLive(B)
      /\ C.head.aliases = NewAliases(B)
      /\ C.head.continued = NewContinued(B)
  BY DEF NewTree
<1>2. /\ NewLive(C) = NewLive(B)
      /\ NewContinued(C) = NewContinued(B)
      /\ RetiredIds(C) = RetiredIds(B)
      /\ \A id : TargetsOf(C, id) = TargetsOf(B, id) /\ KindOf(C, id) = KindOf(B, id)
      /\ Proposals(C) = Proposals(B)
      /\ Finishes(C)
  BY FinishFields
<1>3. C.matches \subseteq DOMAIN C.assigned
  BY DEF Assigned
<1>4. DOMAIN C.head.aliases = RetiredIds(C) \union DOMAIN C.base.aliases
  BY <1>1, <1>2 DEF NewAliases
<1>5. ASSUME NEW id \in RetiredIds(B)
      PROVE  C.head.aliases[id].kind = KindOf(B, id) /\ C.head.aliases[id].to = TargetsOf(B, id)
  <2>1. C.head.aliases[id] = NewAlias(B, id)
    BY <1>1 DEF NewAliases
  <2>2. QED
    BY <2>1 DEF NewAlias
<1>6. ASSUME NEW id \in DOMAIN B.base.aliases
      PROVE  C.head.aliases[id] = B.base.aliases[id]
  <2>1. id \notin RetiredIds(B)
    BY DEF Finishes
  <2>2. QED
    BY <1>1, <2>1 DEF NewAliases
<1>7. QED
  BY <1>1, <1>2, <1>3, <1>4, <1>5, <1>6 DEF Written

LEMMA OneDraftChanges ==
  ASSUME IInv, Drafts, NEW b \in Builders, NEW B, build' = [build EXCEPT ![b] = B],
         Drafted(B)
  PROVE  \A c \in Builders : Drafted(build'[c])
BY DEF IInv, TypeOK, Drafts

LEMMA InitDrafts == Init => Drafts
  BY IdleIsDrafted DEF Init, Drafts

LEMMA PlanDrafts ==
  ASSUME IInv, Drafts, NEW b \in Builders, Plan(b)
  PROVE  Drafts'
<1>1. PICK S \in Yields : build' = [build EXCEPT ![b] = Planned(S)]
  BY DEF Plan, Planned
<1>2. Drafted(Planned(S))
  BY PlannedIsDrafted DEF Plan
<1>3. \A c \in Builders : Drafted(build'[c])
  BY <1>1, <1>2, OneDraftChanges
<1>4. QED
  BY <1>3 DEF Drafts

LEMMA AssignDrafts ==
  ASSUME IInv, Drafts, NEW b \in Builders, Assign(b)
  PROVE  Drafts'
<1> DEFINE B == build[b]
<1>0. PICK m \in B.matches \ DOMAIN B.assigned :
        \E id \in AssignedIds(B, m) : build' = [build EXCEPT ![b] = AssignedTo(B, m, id)]
  BY DEF Assign, AssignedTo
<1>1. PICK id \in AssignedIds(B, m) : build' = [build EXCEPT ![b] = AssignedTo(B, m, id)]
  BY <1>0
<1>2. IsBuild(B) /\ Sound(B) /\ B.phase = "assign" /\ Drafted(B)
  BY IdleOrSound DEF Assign, Drafts
<1>3. Drafted(AssignedTo(B, m, id))
  BY <1>2, AssignKeepsDraft
<1>4. \A c \in Builders : Drafted(build'[c])
  BY <1>1, <1>3, OneDraftChanges
<1>5. QED
  BY <1>4 DEF Drafts

LEMMA WithdrawDrafts ==
  ASSUME IInv, Drafts, NEW b \in Builders, Withdraw(b)
  PROVE  Drafts'
<1> DEFINE B == build[b]
<1>0. PICK m \in Published(B) :
        \E id \in WithdrawnIds(B, m) : build' = [build EXCEPT ![b] = WithdrawnAs(B, m, id)]
  BY DEF Withdraw, WithdrawnAs
<1>1. PICK id \in WithdrawnIds(B, m) : build' = [build EXCEPT ![b] = WithdrawnAs(B, m, id)]
  BY <1>0
<1>2. IsBuild(B) /\ B.phase = "assign" /\ Drafted(B)
  BY IdleOrSound DEF Withdraw, Assigned, Drafts
<1>3. Drafted(WithdrawnAs(B, m, id))
  <2> DEFINE C == WithdrawnAs(B, m, id)
  <2>1. /\ C.assigned = B.assigned /\ C.issued = B.issued
        /\ C.phase = "assign" /\ C.base = B.base /\ C.matches = B.matches
        /\ C.owner = B.owner /\ C.applied = B.applied
    BY <1>2, WithdrawnAsFields DEF IsBuild
  <2>2. QED
    BY <1>2, <2>1, DraftFields
<1>4. \A c \in Builders : Drafted(build'[c])
  BY <1>1, <1>3, OneDraftChanges
<1>5. QED
  BY <1>4 DEF Drafts

LEMMA FinishDrafts ==
  ASSUME IInv, Drafts, NEW b \in Builders, Finish(b)
  PROVE  Drafts'
<1> DEFINE B == build[b]
           C == [B EXCEPT !.phase = "open", !.head = NewTree(B), !.proposals = Proposals(B)]
<1>1. build' = [build EXCEPT ![b] = C]
  BY DEF Finish
<1>2. IsBuild(B) /\ Assigned(B) /\ Finishes(B) /\ Drafted(B)
  BY IdleOrSound DEF Finish, Drafts
<1>3. /\ C.head = NewTree(B) /\ C.proposals = Proposals(B)
      /\ C.assigned = B.assigned /\ C.issued = B.issued
      /\ C.base = B.base /\ C.matches = B.matches
      /\ C.owner = B.owner /\ C.applied = B.applied
      /\ C.withdrawn = B.withdrawn
  <2>1. DOMAIN B = DOMAIN Idle
    BY <1>2 DEF IsBuild
  <2>2. QED
    BY <2>1 DEF Idle
<1> HIDE DEF C
<1>4. Written(C)
  BY <1>2, <1>3, FinishWrites
<1>5. Drafted(C)
  BY <1>2, <1>3, <1>4, DraftFields
<1>6. \A c \in Builders : Drafted(build'[c])
  BY <1>1, <1>5, OneDraftChanges
<1>7. QED
  BY <1>6 DEF Drafts

LEMMA NextDrafts == IInv /\ Drafts /\ [Next]_vars => Drafts'
<1> SUFFICES ASSUME IInv, Drafts, [Next]_vars
             PROVE  Drafts'
  OBVIOUS
<1>1. CASE UNCHANGED vars
  BY <1>1 DEF vars, Drafts
<1>2. ASSUME NEW b \in Builders, build' = [build EXCEPT ![b] = Idle]
      PROVE  Drafts'
  <2>1. \A c \in Builders : Drafted(build'[c])
    BY <1>2, IdleIsDrafted, OneDraftChanges
  <2>2. QED
    BY <2>1 DEF Drafts
<1>3. ASSUME NEW b \in Builders, Land(b) \/ Abandon(b)
      PROVE  Drafts'
  BY <1>2, <1>3 DEF Land, Abandon
<1>4. ASSUME NEW b \in Builders, Accept(b)
      PROVE  Drafts'
  BY <1>4 DEF Accept, Drafts
<1>5. QED
  BY <1>1, <1>3, <1>4, PlanDrafts, AssignDrafts, WithdrawDrafts, FinishDrafts DEF Next

LEMMA DraftsHold == Spec => [](IInv /\ Drafts)
<1>1. Init => IInv /\ Drafts
  BY InitIInv, InitDrafts
<1>2. IInv /\ Drafts /\ [Next]_vars => IInv' /\ Drafts'
  BY NextIInv, NextDrafts
<1>3. QED
  BY <1>1, <1>2, PTL DEF Spec

-----------------------------------------------------------------------------
(* The tree of an open pull request passes the checks.                     *)

LEMMA LiveIsAssigned ==
  ASSUME NEW B, NEW id \in DOMAIN NewLive(B)
  PROVE  /\ NewLive(B)[id] \in Published(B)
         /\ B.assigned[NewLive(B)[id]] = id
<1>1. \E m \in Published(B) : B.assigned[m] = id
  BY DEF NewLive
<1>2. NewLive(B)[id] = CHOOSE m \in Published(B) : B.assigned[m] = id
  BY DEF NewLive
<1>3. QED
  BY <1>1, <1>2

LEMMA OpenAssigned ==
  ASSUME NEW B, Written(B), NEW id \in DOMAIN B.head.live
  PROVE  /\ B.head.live[id] \in B.matches
         /\ B.head.live[id] \in DOMAIN B.assigned
         /\ B.assigned[B.head.live[id]] = id
<1>1. B.head.live = NewLive(B) /\ B.matches \subseteq DOMAIN B.assigned
  BY DEF Written
<1>2. QED
  BY <1>1, LiveIsAssigned DEF Published

LEMMA WrittenTreeValid ==
  ASSUME NEW B, IsBuild(B), Sound(B), Written(B)
  PROVE  TreeValid(B.head)
<1> DEFINE live == B.head.live
           kept == B.base.live
<1>1. /\ live = NewLive(B)
      /\ B.head.continued = NewContinued(B)
      /\ DOMAIN B.head.aliases = RetiredIds(B) \union DOMAIN B.base.aliases
      /\ RetiredIds(B) = DOMAIN kept \ DOMAIN live
  BY DEF Written, RetiredIds
<1>2. NoneLiveAndAliased(B.head)
  <2>1. \A id \in DOMAIN live : id \notin DOMAIN B.base.aliases
    BY OpenAssigned, AssignedNotRetired
  <2>2. QED
    BY <1>1, <2>1 DEF NoneLiveAndAliased
<1>3. TargetsRegistered(B.head)
  <2>1. Registry(B.base) \subseteq Registry(B.head)
    BY <1>1 DEF Registry
  <2>2. ASSUME NEW id \in RetiredIds(B)
        PROVE  /\ B.head.aliases[id].to \subseteq DOMAIN live
               /\ B.head.aliases[id].kind \in {"replaced", "merge"} => B.head.aliases[id].to # {}
    <3>1. /\ B.head.aliases[id].to = TargetsOf(B, id)
          /\ B.head.aliases[id].kind = KindOf(B, id)
      BY DEF Written
    <3>2. TargetsOf(B, id) \subseteq DOMAIN live
      BY <1>1, TargetsAreNew DEF TargetsOf
    <3>3. KindOf(B, id) \in {"replaced", "merge"} => FreshTargets(B, id) # {}
      BY DEF KindOf
    <3>4. QED
      BY <3>1, <3>2, <3>3 DEF FreshTargets
  <2>3. ASSUME NEW id \in DOMAIN B.base.aliases
        PROVE  /\ B.head.aliases[id].to \subseteq Registry(B.base)
               /\ B.head.aliases[id].kind \in {"replaced", "merge"} => B.head.aliases[id].to # {}
    BY DEF Written, Sound, TreeValid, TargetsRegistered
  <2>4. DOMAIN live \subseteq Registry(B.head)
    BY DEF Registry
  <2>5. ASSUME NEW id \in DOMAIN B.head.aliases
        PROVE  /\ B.head.aliases[id].to \subseteq Registry(B.head)
               /\ B.head.aliases[id].kind \in {"replaced", "merge"} => B.head.aliases[id].to # {}
    <3>1. CASE id \in RetiredIds(B)
      BY <2>2, <2>4, <3>1
    <3>2. CASE id \in DOMAIN B.base.aliases
      BY <2>1, <2>3, <3>2
    <3>3. QED
      BY <1>1, <2>5, <3>1, <3>2
  <2>6. QED
    BY <2>5 DEF TargetsRegistered
<1>4. ASSUME NEW id \in DOMAIN B.head.continued
      PROVE  id \in DOMAIN live /\ B.head.continued[id].hash = MatchSetHash(live[id])
  <2>1. id \in KeptChanged(B) \union StillContinued(B)
    BY <1>1 DEF NewContinued
  <2>2. id \in DOMAIN live
    BY <1>1, <2>1 DEF KeptChanged, StillContinued
  <2>3. CASE id \in KeptChanged(B)
    <3>1. B.head.continued[id] =
            [basis |-> IF id \in B.applied THEN "continuity_entry" ELSE "same_sims",
             hash  |-> MatchSetHash(live[id]),
             from  |-> MatchSetHash(kept[id])]
      BY <1>1, <2>3 DEF NewContinued
    <3>2. QED
      BY <2>2, <3>1
  <2>4. CASE id \notin KeptChanged(B)
    <3>1. B.head.continued[id] = B.base.continued[id]
      BY <1>1, <2>1, <2>4 DEF NewContinued
    <3>2. id \in DOMAIN B.base.continued
      BY <2>1, <2>4 DEF Written, Finishes
    <3>3. id \in DOMAIN kept /\ B.base.continued[id].hash = MatchSetHash(kept[id])
      BY <3>2 DEF Sound, TreeValid, ContinuedCurrent
    <3>4. MatchSetHash(kept[id]) = MatchSetHash(live[id])
      BY <1>1, <2>2, <2>4, <3>3 DEF KeptChanged
    <3>5. QED
      BY <2>2, <3>1, <3>3, <3>4
  <2>5. QED
    BY <2>3, <2>4
<1>5. ContinuedCurrent(B.head)
  BY <1>4 DEF ContinuedCurrent
<1>6. LiveExplained(B.head)
  <2>1. SUFFICES ASSUME NEW id \in DOMAIN live, ~IsIssued(id, live[id])
                 PROVE  id \in DOMAIN B.head.continued
    BY DEF LiveExplained
  <2>2. id \in KeptChanged(B) \union StillContinued(B)
    BY <1>1, <2>1 DEF StillContinued
  <2>3. QED
    BY <1>1, <2>2 DEF NewContinued
<1>7. QED
  BY <1>2, <1>3, <1>5, <1>6 DEF TreeValid

(* A published match set of SIMs that have a live ID has that ID.          *)
LEMMA LiveSimsKeepId ==
  ASSUME NEW B, Sound(B), Drafted(B), NoTwins(B),
         NEW m \in DOMAIN B.assigned, m \in B.matches, KeyOf[m] \in LiveKeys(B.base)
  PROVE  WasKept(B, m)
<1> DEFINE key == KeyOf[m]
           group == {n \in B.matches : KeyOf[n] = key}
<1>1. group = {m}
  BY DEF NoTwins
<1>2. key \in DOMAIN B.owner
  BY DEF Sound, KeyOwner, KeysOf
<1>3. B.owner[key] \in group
  <2>1. B.owner[key] = IF B.base.live[HolderOf(B.base, key)] \in group
                       THEN B.base.live[HolderOf(B.base, key)]
                       ELSE CHOOSE n \in group : TRUE
    BY <1>2 DEF Sound, KeyOwner
  <2>2. (CHOOSE n \in group : TRUE) \in group
    BY <1>1
  <2>3. QED
    BY <2>1, <2>2
<1>4. KeepsLiveId(B, m)
  BY <1>1, <1>2, <1>3 DEF KeepsLiveId
<1>5. QED
  BY <1>4 DEF Drafted, LiveIdsKept

LEMMA WrittenKeepsIds ==
  ASSUME NEW B, IsBuild(B), Sound(B), Drafted(B), Written(B), NoTwins(B), HashesApart(B),
         NEW id \in DOMAIN B.head.live \intersect DOMAIN B.base.live,
         KeyOf[B.base.live[id]] # KeyOf[B.head.live[id]]
  PROVE  /\ id \in DOMAIN B.head.continued
         /\ B.head.continued[id].basis = "continuity_entry"
         /\ B.head.continued[id].hash = MatchSetHash(B.head.live[id])
<1> DEFINE m == B.head.live[id]
<1>1. m \in B.matches /\ m \in DOMAIN B.assigned /\ B.assigned[m] = id
  BY OpenAssigned
<1>2. ~WasKept(B, m)
  BY <1>1, KeptIsHolder DEF WasKept, Sound
<1>3. id \notin B.issued
  BY DEF Sound, AssignedSound, Registry
<1>4. id \in Retiring(B.base, B.matches)
  BY <1>1, <1>2, <1>3 DEF Sound, AssignedSound, WasCarried
<1>5. id \in B.applied
  BY <1>1, <1>4 DEF Drafted, CarriedAlone
<1>6. MatchSetHash(B.base.live[id]) # MatchSetHash(m)
  <2>1. B.base.live[id] # m
    OBVIOUS
  <2>2. 0 \in Counters
    BY HashAssumption DEF Counters
  <2>3. QED
    BY <1>1, <2>1, <2>2 DEF HashesApart, MatchSetHash
<1>7. id \in KeptChanged(B)
  BY <1>6 DEF KeptChanged, Written
<1>8. id \in DOMAIN NewContinued(B) /\ NewContinued(B)[id] =
        [basis |-> IF id \in B.applied THEN "continuity_entry" ELSE "same_sims",
         hash  |-> MatchSetHash(NewLive(B)[id]),
         from  |-> MatchSetHash(B.base.live[id])]
  BY <1>7 DEF NewContinued
<1>9. QED
  BY <1>5, <1>8 DEF Written

LEMMA WrittenNewIds ==
  ASSUME NEW B, IsBuild(B), Sound(B), Drafted(B), Written(B), HashesApart(B),
         NEW id \in DOMAIN B.head.live \ DOMAIN B.base.live
  PROVE  /\ id \notin DOMAIN B.base.aliases
         /\ \E c \in IssuedFor(id, B.head.live[id]) :
              \A lower \in 0..(c - 1) : Hash[B.head.live[id]][lower] \in Registry(B.base)
<1> DEFINE m == B.head.live[id]
<1>1. m \in B.matches /\ m \in DOMAIN B.assigned /\ B.assigned[m] = id
  BY OpenAssigned
<1>2. id \notin DOMAIN B.base.aliases
  BY <1>1, AssignedNotRetired
<1>3. ~WasKept(B, m)
  BY <1>1, KeptIsHolder DEF WasKept, Sound
<1>4. ~WasCarried(B, m)
  BY <1>1 DEF WasCarried, Retiring
<1>5. B.assigned[m] \in B.issued
  BY <1>1, <1>3, <1>4 DEF Sound, AssignedSound
<1>6. PICK c \in IssuedFor(id, m) :
        \A lower \in 0..(c - 1) :
          \/ Hash[m][lower] \in Registry(B.base)
          \/ \E n \in B.matches \ {m} : IsIssued(Hash[m][lower], n)
  BY <1>1, <1>5 DEF Drafted, IssuedInOrder
<1>7. ASSUME NEW lower \in 0..(c - 1), NEW n \in B.matches \ {m}, IsIssued(Hash[m][lower], n)
      PROVE  FALSE
  <2>1. PICK d \in Counters : Hash[n][d] = Hash[m][lower]
    BY <1>7 DEF IsIssued, IssuedFor
  <2>2. c \in Counters
    BY DEF IssuedFor
  <2>3. lower \in Counters
    BY <2>2, HashAssumption DEF Counters
  <2>4. QED
    BY <1>1, <2>1, <2>3 DEF HashesApart
<1>8. QED
  BY <1>2, <1>6, <1>7

LEMMA WrittenBaseValid ==
  ASSUME NEW B, IsBuild(B), Sound(B), Drafted(B), Written(B), NoTwins(B), HashesApart(B)
  PROVE  BaseValid(B.base, B.head)
<1>1. NoIdLost(B.base, B.head)
  BY DEF NoIdLost, Registry, Written, RetiredIds
<1>2. EntriesKept(B.base, B.head)
  BY DEF EntriesKept, Written
<1>3. SimsKeepId(B.base, B.head)
  <2>1. SUFFICES ASSUME NEW id \in DOMAIN B.head.live,
                        HoldersOf(B.base.live, KeyOf[B.head.live[id]]) # {}
                 PROVE  id = CHOOSE h \in HoldersOf(B.base.live, KeyOf[B.head.live[id]]) : TRUE
    BY DEF SimsKeepId
  <2> DEFINE m == B.head.live[id]
  <2>2. m \in B.matches /\ m \in DOMAIN B.assigned /\ B.assigned[m] = id
    BY OpenAssigned
  <2>3. KeyOf[m] \in LiveKeys(B.base)
    BY <2>1 DEF HoldersOf, LiveKeys, KeysOf
  <2>4. WasKept(B, m)
    BY <2>2, <2>3, LiveSimsKeepId
  <2>5. QED
    BY <2>2, <2>4 DEF WasKept, HolderOf
<1>4. IdKeepsSims(B.base, B.head)
  BY WrittenKeepsIds DEF IdKeepsSims
<1>5. NewIdsIssued(B.base, B.head)
  BY WrittenNewIds DEF NewIdsIssued
<1>6. QED
  BY <1>1, <1>2, <1>3, <1>4, <1>5 DEF BaseValid

LEMMA OpenFacts ==
  ASSUME IInv, Drafts, NEW b \in Builders, Open(b)
  PROVE  IsBuild(build[b]) /\ Sound(build[b]) /\ Drafted(build[b]) /\ Written(build[b])
<1>1. build[b].phase = "open"
  BY DEF Open
<1>2. IsBuild(build[b]) /\ Sound(build[b])
  BY <1>1, IdleOrSound
<1>3. Drafted(build[b])
  BY DEF Drafts
<1>4. QED
  BY <1>1, <1>2, <1>3 DEF Drafted

(* The writer meets the checker: what finish writes from a build without   *)
(* twins and without hash collisions passes alias_document_problems and    *)
(* base_problems, for any match sets, hashes, entries and earlier builds.  *)
THEOREM WriterAlwaysMeets == Spec => []WriterMeetsChecks
<1>1. IInv /\ Drafts => WriterMeetsChecks
  <2> SUFFICES ASSUME IInv, Drafts, NEW b \in Builders, Open(b),
                      NoTwins(build[b]), HashesApart(build[b])
               PROVE  TreeValid(build[b].head) /\ BaseValid(build[b].base, build[b].head)
    BY DEF WriterMeetsChecks
  <2>1. QED
    BY OpenFacts, WrittenTreeValid, WrittenBaseValid
<1>2. QED
  BY <1>1, DraftsHold, PTL

-----------------------------------------------------------------------------
(* finish and plan agree on which match sets take the SIMs of a profile.   *)

(* alias_targets looks at the match sets, not at their IDs.                *)
LEMMA TargetsByMatch ==
  ASSUME NEW old, NEW new, NEW S, S = {new[t] : t \in DOMAIN new},
         NEW t \in DOMAIN new
  PROVE  t \in AliasTargets(old, new) <=> new[t] \in AliasTargets(old, [m \in S |-> m])
<1> DEFINE same == [m \in S |-> m]
           covering == {u \in DOMAIN new : Meets[old][new[u]] /\ Covers[old][new[u]]}
           coveringS == {m \in S : Meets[old][m] /\ Covers[old][m]}
           Best(m) == \A u \in covering : SpecificityOf[new[u]] <= SpecificityOf[m]
           BestS(m) == \A n \in coveringS : SpecificityOf[n] <= SpecificityOf[m]
<1>1. t \in AliasTargets(old, new) <=>
        /\ Meets[old][new[t]]
        /\ IF Covers[old][new[t]] THEN Best(new[t])
           ELSE Covers[new[t]][old] \/ DimensionsOf[new[t]] = DimensionsOf[old]
  BY DEF AliasTargets
<1>2. DOMAIN same = S /\ \A m \in S : same[m] = m
  OBVIOUS
<1>3. new[t] \in S
  OBVIOUS
<1>4. new[t] \in AliasTargets(old, same) <=>
        /\ Meets[old][new[t]]
        /\ IF Covers[old][new[t]] THEN BestS(new[t])
           ELSE Covers[new[t]][old] \/ DimensionsOf[new[t]] = DimensionsOf[old]
  <2> HIDE DEF same
  <2>1. QED
    BY <1>2, <1>3 DEF AliasTargets
<1>5. coveringS = {new[u] : u \in covering}
  OBVIOUS
<1>6. Best(new[t]) <=> BestS(new[t])
  BY <1>5
<1>7. QED
  BY <1>1, <1>4, <1>6

(* The match sets of a build, as plan hands them to alias_targets.         *)
TakesSimsOf(B, m, id) == m \in AliasTargets(B.base.live[id], [n \in B.matches |-> n])

LEMMA WholeLive ==
  ASSUME NEW B, Sound(B), Written(B), PublishedWhole(B)
  PROVE  /\ Published(B) = B.matches
         /\ \A t \in DOMAIN NewLive(B) :
              NewLive(B)[t] \in B.matches /\ B.assigned[NewLive(B)[t]] = t
         /\ \A m \in B.matches :
              B.assigned[m] \in DOMAIN NewLive(B) /\ NewLive(B)[B.assigned[m]] = m
         /\ B.matches = {NewLive(B)[t] : t \in DOMAIN NewLive(B)}
<1>1. Published(B) = B.matches
  BY DEF PublishedWhole, Published, Empty
<1>2. DOMAIN NewLive(B) = {B.assigned[m] : m \in B.matches}
  BY <1>1 DEF NewLive
<1>3. ASSUME NEW m \in B.matches
      PROVE  NewLive(B)[B.assigned[m]] = m
  <2> DEFINE n == NewLive(B)[B.assigned[m]]
  <2>1. B.assigned[m] \in DOMAIN NewLive(B)
    BY <1>2
  <2>2. n \in B.matches /\ B.assigned[n] = B.assigned[m]
    BY <1>1, <2>1, LiveIsAssigned
  <2>3. QED
    BY <2>2 DEF Written, Sound, AssignedSound
<1>4. \A m \in B.matches : B.assigned[m] \in DOMAIN NewLive(B)
  BY <1>2
<1>5. \A t \in DOMAIN NewLive(B) : NewLive(B)[t] \in B.matches /\ B.assigned[NewLive(B)[t]] = t
  BY <1>1, LiveIsAssigned
<1>6. B.matches = {NewLive(B)[t] : t \in DOMAIN NewLive(B)}
  BY <1>3, <1>4, <1>5
<1>7. QED
  BY <1>1, <1>3, <1>4, <1>5, <1>6

LEMMA WholeTargets ==
  ASSUME NEW B, Sound(B), Written(B), PublishedWhole(B), NEW m \in B.matches, NEW id
  PROVE  B.assigned[m] \in TargetsOf(B, id) <=> TakesSimsOf(B, m, id)
<1>1. /\ B.assigned[m] \in DOMAIN NewLive(B)
      /\ NewLive(B)[B.assigned[m]] = m
      /\ B.matches = {NewLive(B)[t] : t \in DOMAIN NewLive(B)}
  BY WholeLive
<1> DEFINE old == B.base.live[id]
           new == NewLive(B)
<1> HIDE DEF old, new
<1>2. B.assigned[m] \in AliasTargets(old, new)
        <=> new[B.assigned[m]] \in AliasTargets(old, [n \in B.matches |-> n])
  BY <1>1, TargetsByMatch DEF new
<1>3. QED
  BY <1>1, <1>2 DEF TargetsOf, TakesSimsOf, old, new

(* A match set that plan did not count as new keeps a live ID.             *)
LEMMA NotFreshIsLive ==
  ASSUME NEW B, Sound(B), Drafted(B), Written(B), NoTwins(B),
         NEW m \in B.matches, m \notin Fresh(B.base, B.matches)
  PROVE  WasKept(B, m) /\ B.assigned[m] \in DOMAIN B.base.live
<1>1. m \in DOMAIN B.assigned
  BY DEF Written
<1>2. KeyOf[m] \in LiveKeys(B.base)
  BY DEF Fresh
<1>3. WasKept(B, m)
  BY <1>1, <1>2, LiveSimsKeepId
<1>4. QED
  BY <1>3, KeptIsHolder DEF WasKept, Sound

(* Of the match sets plan counted as new only a carried one has a live ID. *)
LEMMA FreshAndLiveIsCarried ==
  ASSUME NEW B, Sound(B), Drafted(B), Written(B), NEW m \in Fresh(B.base, B.matches),
         B.assigned[m] \in DOMAIN B.base.live
  PROVE  /\ WasCarried(B, m)
         /\ \A other \in Retiring(B.base, B.matches) \ {B.assigned[m]} :
              m \notin Takers(B.base, B.matches, other)
<1>1. m \in DOMAIN B.assigned /\ KeyOf[m] \notin LiveKeys(B.base)
  BY DEF Fresh, Written
<1>2. ~KeepsLiveId(B, m)
  BY <1>1 DEF KeepsLiveId, Sound, KeyOwner
<1>3. B.assigned[m] \notin B.issued
  BY DEF Sound, AssignedSound, Registry
<1>4. WasCarried(B, m)
  BY <1>1, <1>2, <1>3 DEF Sound, AssignedSound, WasKept
<1>5. B.assigned[m] \in Retiring(B.base, B.matches)
  BY <1>4 DEF WasCarried
<1>6. QED
  BY <1>1, <1>4, <1>5 DEF Drafted, CarriedAlone

(* An ID that finish retires was one of those plan saw retiring.           *)
LEMMA RetiredIsRetiring ==
  ASSUME NEW B, Sound(B), Drafted(B), Written(B), PublishedWhole(B), NEW id \in RetiredIds(B)
  PROVE  id \in Retiring(B.base, B.matches)
<1>1. id \in DOMAIN B.base.live /\ id \notin DOMAIN NewLive(B)
  BY DEF RetiredIds
<1>2. ASSUME NEW m \in B.matches, KeyOf[m] = KeyOf[B.base.live[id]]
      PROVE  FALSE
  <2>1. m \notin Fresh(B.base, B.matches)
    BY <1>1, <1>2 DEF Fresh, LiveKeys, KeysOf
  <2>2. WasKept(B, m) /\ B.assigned[m] \in DOMAIN B.base.live
    BY <2>1, NotFreshIsLive DEF PublishedWhole
  <2>3. KeyOf[B.base.live[B.assigned[m]]] = KeyOf[B.base.live[id]]
    BY <1>2, <2>2, KeptIsHolder DEF WasKept, Sound
  <2>4. B.assigned[m] = id
    BY <1>1, <2>2, <2>3 DEF Drafted, Loadable
  <2>5. QED
    BY <1>1, <2>4, WholeLive
<1>3. KeyOf[B.base.live[id]] \notin KeysOf(B.matches)
  BY <1>2 DEF KeysOf
<1>4. QED
  BY <1>1, <1>3 DEF Retiring

(* Hence finish's fresh targets are the IDs of plan's takers.              *)
LEMMA FreshTargetsAreTakers ==
  ASSUME NEW B, Sound(B), Drafted(B), Written(B), PublishedWhole(B), NEW id \in RetiredIds(B)
  PROVE  FreshTargets(B, id) = {B.assigned[m] : m \in Takers(B.base, B.matches, id)}
<1> DEFINE takers == Takers(B.base, B.matches, id)
<1>1. \A m : m \in takers <=> m \in Fresh(B.base, B.matches) /\ TakesSimsOf(B, m, id)
  BY DEF Takers, TakesSimsOf
<1>2. Fresh(B.base, B.matches) \subseteq B.matches
  BY DEF Fresh
<1> HIDE DEF takers
<1>3. ASSUME NEW t \in FreshTargets(B, id)
      PROVE  \E m \in takers : t = B.assigned[m]
  <2>1. t \in TargetsOf(B, id) /\ t \in DOMAIN NewLive(B) /\ t \notin DOMAIN B.base.live
    BY DEF FreshTargets, NewIds
  <2>2. PICK m \in B.matches : t = B.assigned[m]
    BY <2>1, WholeLive
  <2>3. m \in Fresh(B.base, B.matches)
    BY <2>1, <2>2, NotFreshIsLive DEF PublishedWhole
  <2>4. TakesSimsOf(B, m, id)
    BY <2>1, <2>2, WholeTargets
  <2>5. QED
    BY <1>1, <2>2, <2>3, <2>4
<1>4. ASSUME NEW m \in takers
      PROVE  B.assigned[m] \in FreshTargets(B, id)
  <2>1. m \in Fresh(B.base, B.matches) /\ m \in B.matches /\ TakesSimsOf(B, m, id)
    BY <1>1, <1>2
  <2>2. B.assigned[m] \in TargetsOf(B, id)
    BY <2>1, WholeTargets
  <2>3. B.assigned[m] \in DOMAIN NewLive(B)
    BY <2>1, WholeLive
  <2>4. B.assigned[m] \notin DOMAIN B.base.live
    <3>1. SUFFICES ASSUME B.assigned[m] \in DOMAIN B.base.live
                   PROVE  FALSE
      OBVIOUS
    <3>2. \A other \in Retiring(B.base, B.matches) \ {B.assigned[m]} :
            m \notin Takers(B.base, B.matches, other)
      BY <2>1, <3>1, FreshAndLiveIsCarried
    <3>3. id \in Retiring(B.base, B.matches) /\ id # B.assigned[m]
      BY <2>3, RetiredIsRetiring DEF RetiredIds
    <3>4. QED
      BY <3>2, <3>3 DEF takers
  <2>5. QED
    BY <2>2, <2>3, <2>4 DEF FreshTargets, NewIds
<1>5. FreshTargets(B, id) = {B.assigned[m] : m \in takers}
  BY <1>3, <1>4
<1>6. QED
  BY <1>5 DEF takers

LEMMA ReplacedHasOne ==
  ASSUME NEW B, Sound(B), Drafted(B), Written(B), PublishedWhole(B),
         NEW id \in RetiredIds(B), KindOf(B, id) = "replaced"
  PROVE  /\ \E t : FreshTargets(B, id) = {t}
         /\ \A t \in FreshTargets(B, id) :
              \A other \in RetiredIds(B) \ {id} : t \notin TargetsOf(B, other)
<1> DEFINE fresh == FreshTargets(B, id)
           takers == Takers(B.base, B.matches, id)
           Shared(t) == \E other \in RetiredIds(B) \ {id} : t \in TargetsOf(B, other)
<1>1. IsFiniteSet(fresh)
  <2>1. takers \subseteq B.matches
    BY DEF Takers, Fresh
  <2>2. IsFiniteSet(takers)
    BY <2>1, FS_Subset DEF Drafted
  <2>3. fresh = {B.assigned[m] : m \in takers}
    BY FreshTargetsAreTakers
  <2>4. [m \in takers |-> B.assigned[m]] \in Surjection(takers, fresh)
    BY <2>3 DEF Surjection
  <2>5. QED
    BY <2>2, <2>4, FS_Surjection
<1>2. KindOf(B, id) =
        CASE fresh = {} -> "withdrawn"
          [] Cardinality(fresh) > 1 -> "split"
          [] Cardinality(fresh) = 1 /\ (\E t \in fresh : Shared(t)) -> "merge"
          [] OTHER -> "replaced"
  BY DEF KindOf
<1>3. Cardinality(fresh) \in Nat /\ (Cardinality(fresh) = 0 <=> fresh = {})
  BY <1>1, FS_CardinalityType, FS_EmptySet
<1>4. fresh # {} /\ ~(Cardinality(fresh) > 1)
  <2> HIDE DEF fresh
  <2>1. fresh # {}
    BY <1>2
  <2>2. ASSUME Cardinality(fresh) > 1
        PROVE  FALSE
    <3>1. Cardinality(fresh) # 1
      BY <1>3, <2>2
    <3>2. QED
      BY <1>2, <2>1, <2>2, <3>1
  <2>3. QED
    BY <2>1, <2>2
<1>5. Cardinality(fresh) = 1
  BY <1>3, <1>4
<1>6. ~ \E t \in fresh : Shared(t)
  <2> HIDE DEF fresh, Shared
  <2>1. QED
    BY <1>2, <1>4, <1>5
<1>7. \E t : fresh = {t}
  BY <1>1, <1>5, FS_Singleton
<1>8. QED
  BY <1>6, <1>7

(* A proposal of finish, once accepted, applies when the same build comes  *)
(* again: plan finds the match set that finish meant, as long as the build *)
(* has no twins and withdraws nothing.                                     *)
THEOREM ProposalsAlwaysApply == Spec => []ProposalsApply
<1>1. IInv /\ Drafts => ProposalsApply
  <2> SUFFICES ASSUME IInv, Drafts, NEW b \in Builders, Open(b), PublishedWhole(build[b]),
                      NEW p \in build[b].proposals
               PROVE  \E m \in build[b].matches : AppliesTo(build[b].base, build[b].matches, p, m)
    BY DEF ProposalsApply
  <2> DEFINE B == build[b]
  <2>1. IsBuild(B) /\ Sound(B) /\ Drafted(B) /\ Written(B) /\ NoTwins(B)
    BY OpenFacts DEF PublishedWhole
  <2>2. PICK id \in RetiredIds(B) :
          /\ KindOf(B, id) = "replaced"
          /\ p = [id   |-> id,
                  from |-> MatchSetHash(B.base.live[id]),
                  to   |-> MatchSetHash(NewLive(B)[CHOOSE t \in FreshTargets(B, id) : TRUE])]
    BY <2>1 DEF Written, Proposals
  <2> HIDE DEF B
  <2>3. /\ \E t : FreshTargets(B, id) = {t}
        /\ \A t \in FreshTargets(B, id) :
             \A other \in RetiredIds(B) \ {id} : t \notin TargetsOf(B, other)
    BY <2>1, <2>2, ReplacedHasOne DEF B
  <2>4. FreshTargets(B, id) = {B.assigned[m] : m \in Takers(B.base, B.matches, id)}
    BY <2>1, FreshTargetsAreTakers DEF B
  <2>5. PICK m \in Takers(B.base, B.matches, id) : FreshTargets(B, id) = {B.assigned[m]}
    BY <2>3, <2>4
  <2>6. m \in Fresh(B.base, B.matches) /\ m \in B.matches
    BY DEF Takers, Fresh
  <2>7. Takers(B.base, B.matches, id) = {m}
    <3>1. ASSUME NEW n \in Takers(B.base, B.matches, id)
          PROVE  n = m
      <4>1. B.assigned[n] = B.assigned[m]
        BY <2>4, <2>5
      <4>2. n \in B.matches
        BY DEF Takers, Fresh
      <4>3. QED
        BY <2>1, <2>6, <4>1, <4>2 DEF Written, Sound, AssignedSound
    <3>2. QED
      BY <3>1
  <2>8. NewLive(B)[B.assigned[m]] = m
    BY <2>1, <2>6, WholeLive DEF B
  <2>9. p.id = id /\ p.from = MatchSetHash(B.base.live[id]) /\ p.to = MatchSetHash(m)
    <3>1. (CHOOSE t \in FreshTargets(B, id) : TRUE) = B.assigned[m]
      BY <2>5
    <3>2. QED
      BY <2>2, <2>8, <3>1
  <2>10. id \in Retiring(B.base, B.matches)
    BY <2>1, RetiredIsRetiring DEF B
  <2>11. ASSUME NEW other \in Retiring(B.base, B.matches) \ {id},
                m \in Takers(B.base, B.matches, other)
         PROVE  FALSE
    <3>1. CASE other \in RetiredIds(B)
      <4>1. TakesSimsOf(B, m, other)
        BY <2>11 DEF Takers, TakesSimsOf
      <4>2. B.assigned[m] \in TargetsOf(B, other)
        BY <2>1, <2>6, <4>1, WholeTargets DEF B
      <4>3. QED
        BY <2>3, <2>5, <3>1, <4>2
    <3>2. CASE other \notin RetiredIds(B)
      <4>1. other \in DOMAIN B.base.live /\ other \in DOMAIN NewLive(B)
        BY <3>2 DEF Retiring, RetiredIds
      <4>2. PICK n \in B.matches : B.assigned[n] = other
        BY <2>1, <4>1, WholeLive DEF B
      <4>3. WasCarried(B, n)
        BY <2>1, <4>2 DEF Drafted, CarriedAlone, Written
      <4>4. n = m
        BY <2>11, <4>2, <4>3 DEF WasCarried
      <4>5. B.assigned[m] \notin DOMAIN B.base.live
        BY <2>5 DEF FreshTargets, NewIds
      <4>6. QED
        BY <4>1, <4>2, <4>4, <4>5
    <3>3. QED
      BY <3>1, <3>2
  <2>12. AppliesTo(B.base, B.matches, p, m)
    BY <2>7, <2>9, <2>10, <2>11 DEF AppliesTo
  <2>13. QED
    BY <2>6, <2>12 DEF B
<1>2. QED
  BY <1>1, DraftsHold, PTL

(* A continuity entry never carries an ID through a split or a merge, in a *)
(* build without twins that withdraws nothing.                             *)
THEOREM MergesNeverCarry == Spec => []PublishedMergeNeverCarries
<1>1. IInv /\ Drafts => PublishedMergeNeverCarries
  <2> SUFFICES ASSUME IInv, Drafts, NEW b \in Builders, Open(b), PublishedWhole(build[b])
               PROVE  CarriesNoMerge(build[b])
    BY DEF PublishedMergeNeverCarries
  <2> DEFINE B == build[b]
  <2>1. IsBuild(B) /\ Sound(B) /\ Drafted(B) /\ Written(B) /\ NoTwins(B) /\ PublishedWhole(B)
    BY OpenFacts DEF PublishedWhole
  <2> HIDE DEF B
  <2>2. SUFFICES ASSUME NEW id \in B.applied \intersect DOMAIN B.head.live
                 PROVE  /\ AliasTargets(B.base.live[id], B.head.live) \subseteq DOMAIN B.base.live
                        /\ \A r \in DOMAIN B.head.aliases \ DOMAIN B.base.aliases :
                             id \notin B.head.aliases[r].to
    BY DEF CarriesNoMerge, B
  <2>3. B.head.live = NewLive(B)
    BY <2>1 DEF Written
  <2>4. PICK m \in B.matches : B.assigned[m] = id
    BY <2>1, <2>3, WholeLive
  <2>5. id \in Retiring(B.base, B.matches)
    BY <2>1 DEF Drafted, AppliedAreCarried
  <2>6. /\ WasCarried(B, m)
        /\ \A other \in Retiring(B.base, B.matches) \ {id} : m \notin Takers(B.base, B.matches, other)
    BY <2>1, <2>4, <2>5 DEF Drafted, CarriedAlone, Written
  <2>7. m \in Fresh(B.base, B.matches) /\ Takers(B.base, B.matches, id) = {m}
    BY <2>4, <2>6 DEF WasCarried, Fresh
  <2>8. ASSUME NEW t \in TargetsOf(B, id)
        PROVE  t \in DOMAIN B.base.live
    <3>1. t \in DOMAIN NewLive(B)
      BY TargetsAreNew DEF TargetsOf
    <3>2. PICK n \in B.matches : B.assigned[n] = t
      BY <2>1, <3>1, WholeLive
    <3>3. CASE n \in Fresh(B.base, B.matches)
      <4>1. TakesSimsOf(B, n, id)
        BY <2>1, <2>8, <3>2, WholeTargets
      <4>2. n \in Takers(B.base, B.matches, id)
        BY <3>3, <4>1 DEF Takers, TakesSimsOf
      <4>3. t = id
        BY <2>4, <2>7, <3>2, <4>2
      <4>4. QED
        BY <2>5, <4>3 DEF Retiring
    <3>4. CASE n \notin Fresh(B.base, B.matches)
      BY <2>1, <3>2, <3>4, NotFreshIsLive
    <3>5. QED
      BY <3>3, <3>4
  <2>9. ASSUME NEW r \in DOMAIN B.head.aliases \ DOMAIN B.base.aliases, id \in B.head.aliases[r].to
        PROVE  FALSE
    <3>1. r \in RetiredIds(B) /\ B.head.aliases[r].to = TargetsOf(B, r)
      BY <2>1 DEF Written
    <3>2. TakesSimsOf(B, m, r)
      BY <2>1, <2>4, <2>9, <3>1, WholeTargets
    <3>3. m \in Takers(B.base, B.matches, r)
      BY <2>7, <3>2 DEF Takers, TakesSimsOf
    <3>4. r \in Retiring(B.base, B.matches) /\ r # id
      BY <2>1, <2>3, <3>1, RetiredIsRetiring DEF RetiredIds
    <3>5. QED
      BY <2>6, <3>3, <3>4
  <2>10. QED
    BY <2>3, <2>8, <2>9 DEF TargetsOf
<1>2. QED
  BY <1>1, DraftsHold, PTL

-----------------------------------------------------------------------------
(* A pull request that was built on the main it lands on lands as written. *)
LEMMA MergeOnBase ==
  ASSUME NEW base, NEW theirs, DOMAIN theirs \subseteq Ids
  PROVE  LET merged == MergeFiles(base, base, theirs)
         IN  /\ DOMAIN merged = DOMAIN theirs
             /\ \A id \in DOMAIN theirs : merged[id] = theirs[id]
<1> DEFINE Side(id) == IF At(theirs, id) = At(base, id) THEN base ELSE theirs
           merged == MergeFiles(base, base, theirs)
<1>1. merged = [id \in {i \in Ids : i \in DOMAIN Side(i)} |-> Side(id)[id]]
  BY DEF MergeFiles
<1>2. ASSUME NEW id
      PROVE  /\ id \in DOMAIN Side(id) <=> id \in DOMAIN theirs
             /\ id \in DOMAIN theirs => Side(id)[id] = theirs[id]
  <2>1. CASE At(theirs, id) = At(base, id)
    BY <2>1 DEF At
  <2>2. CASE At(theirs, id) # At(base, id)
    BY <2>2
  <2>3. QED
    BY <2>1, <2>2
<1> HIDE DEF Side
<1>3. QED
  BY <1>1, <1>2

(* An alias entry that lands from a pull request built on the current main *)
(* points at live profiles of the new main.                                *)
THEOREM AliasesStayLive == Spec => FreshAliasesNameLive
<1>1. IInv /\ Drafts /\ [Next]_vars =>
        [(\A b \in Builders : Open(b) => build[b].base = main) => AliasesNameLive(main, main')]_main
  <2> SUFFICES ASSUME IInv, Drafts, [Next]_vars, main' # main,
                      \A b \in Builders : Open(b) => build[b].base = main
               PROVE  AliasesNameLive(main, main')
    OBVIOUS
  <2>1. PICK b \in Builders : Land(b)
    BY DEF Next, vars, Plan, Assign, Withdraw, Finish, Accept, Abandon
  <2> DEFINE B == build[b]
  <2>2. Open(b) /\ main' = MergeTree(B.base, main, B.head)
    BY <2>1 DEF Land, Open
  <2>3. IsBuild(B) /\ Written(B) /\ B.base = main
    BY <2>2, OpenFacts
  <2>4. /\ main'.live = MergeFiles(main.live, main.live, B.head.live)
        /\ main'.aliases = MergeFiles(main.aliases, main.aliases, B.head.aliases)
    BY <2>2, <2>3 DEF MergeTree
  <2>5. DOMAIN B.head.live \subseteq Ids /\ DOMAIN B.head.aliases \subseteq Ids
    BY <2>3 DEF IsBuild, IsTree, IsPartial
  <2>6. /\ DOMAIN main'.live = DOMAIN B.head.live
        /\ DOMAIN main'.aliases = DOMAIN B.head.aliases
        /\ \A id \in DOMAIN B.head.aliases : main'.aliases[id] = B.head.aliases[id]
    BY <2>4, <2>5, MergeOnBase
  <2>7. ASSUME NEW id \in DOMAIN main'.aliases \ DOMAIN main.aliases
        PROVE  main'.aliases[id].to \subseteq DOMAIN main'.live
    <3>1. id \in RetiredIds(B) /\ main'.aliases[id].to = TargetsOf(B, id)
      BY <2>3, <2>6 DEF Written
    <3>2. TargetsOf(B, id) \subseteq DOMAIN NewLive(B)
      BY TargetsAreNew DEF TargetsOf
    <3>3. QED
      BY <2>3, <2>6, <3>1, <3>2 DEF Written
  <2>8. QED
    BY <2>7 DEF AliasesNameLive
<1>2. QED
  BY <1>1, DraftsHold, PTL DEF Spec, FreshAliasesNameLive

=============================================================================
