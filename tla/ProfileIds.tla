----------------------------- MODULE ProfileIds -----------------------------
(***************************************************************************)
(* The writers of the profile ID registry.  A build loads the registry of  *)
(* main (Registry.load), plans which of its match sets keep IDs            *)
(* (Registry.plan), assigns an ID to each (Registry.assign), withdraws the *)
(* match sets that publish no fact (Registry.withdrawn_id), and writes the *)
(* tree of its pull request with one alias per ID that no profile keeps    *)
(* (Registry.finish).  The merge queue lands the pull request on whatever  *)
(* main is by then, through the gate of RegistryGate.                      *)
(*                                                                         *)
(* The sanitizer that calls these operations, the pull requests and the    *)
(* reviewer who accepts a continuity proposal are outside src/.            *)
(***************************************************************************)
EXTENDS RegistryGate

CONSTANTS
  Starts,       \* the trees main may start from
  Yields,       \* the sets of match sets that one build may have
  Builders,     \* builds under way at once, each with its pull request
  MaxLandings,  \* bound: pull requests landed in one behaviour
  LandingsADay  \* pull requests landed on one day; dates are landings apart

VARIABLES
  landings,  \* pull requests landed so far, which dates the builds
  accepted,  \* the accepted continuity entries, a private file
  build      \* the build of each builder

vars == <<main, landings, accepted, build>>

ASSUME BoundsAssumption == MaxLandings \in Nat /\ LandingsADay \in Nat \ {0}

ASSUME StartsAssumption ==
  /\ \A tree \in Starts : IsTree(tree) /\ TreeValid(tree)
  /\ Yields \subseteq SUBSET Matches
  /\ \A S \in Yields : IsFiniteSet(S)

Empty == [x \in {} |-> x]

Continuities == [id : Ids, from : Ids, to : Ids]

(* The build's date.                                                       *)
Today == landings \div LandingsADay

EmptyTree == [live |-> Empty, aliases |-> Empty, continued |-> Empty]

Idle ==
  [phase     |-> "idle",
   base      |-> EmptyTree,   \* the tree the registry was loaded from
   matches   |-> {},          \* the match sets of this build
   assigned  |-> Empty,       \* match set -> ID
   issued    |-> {},          \* the IDs this build issued
   owner     |-> Empty,       \* SIMs of a live ID -> the match set that keeps it
   applied   |-> {},          \* the IDs a continuity entry carried
   withdrawn |-> Empty,       \* match set -> the ID its withdrawn entry names
   head      |-> EmptyTree,   \* the tree written
   proposals |-> {}]          \* the continuity entries finish proposes

-----------------------------------------------------------------------------
(* Registry.plan on a loaded tree, for the match sets S of a build and the *)
(* accepted entries.                                                       *)

KeysOf(S) == {KeyOf[m] : m \in S}

LiveKeys(tree) == KeysOf({tree.live[id] : id \in DOMAIN tree.live})

HolderOf(tree, key) == CHOOSE id \in HoldersOf(tree.live, key) : TRUE

(* Of several spellings of a live profile's SIMs the published one keeps   *)
(* the ID, else the first in order.                                        *)
KeyOwner(tree, S) ==
  [key \in KeysOf(S) \intersect LiveKeys(tree) |->
     LET published == tree.live[HolderOf(tree, key)]
         group     == {m \in S : KeyOf[m] = key}
     IN  IF published \in group THEN published ELSE CHOOSE m \in group : TRUE]

Fresh(tree, S) == {m \in S : KeyOf[m] \notin LiveKeys(tree)}

Retiring(tree, S) == {id \in DOMAIN tree.live : KeyOf[tree.live[id]] \notin KeysOf(S)}

Takers(tree, S, id) ==
  AliasTargets(tree.live[id], [m \in S |-> m]) \intersect Fresh(tree, S)

(* Mutant: the hash of the new match set is compared with the wrong field. *)
AppliesFrom(tree, S, entry, m) ==
  /\ entry.id \in Retiring(tree, S)
  /\ Takers(tree, S, entry.id) = {m}
  /\ MatchSetHash(m) = entry.from

(* Mutant: an entry applies although the match set takes other SIMs too.   *)
AppliesToMerge(tree, S, entry, m) ==
  /\ entry.id \in Retiring(tree, S)
  /\ MatchSetHash(tree.live[entry.id]) = entry.from
  /\ Takers(tree, S, entry.id) = {m}
  /\ MatchSetHash(m) = entry.to

(* An entry applies to the one new match set that alone takes the SIMs of  *)
(* its retiring ID and takes those of no other.  No two entries of         *)
(* different IDs can then apply to one match set, so the order in which    *)
(* the loop of plan meets them does not matter.                            *)
AppliesTo(tree, S, entry, m) ==
  /\ entry.id \in Retiring(tree, S)
  /\ MatchSetHash(tree.live[entry.id]) = entry.from
  /\ Takers(tree, S, entry.id) = {m}
  /\ MatchSetHash(m) = entry.to
  /\ \A other \in Retiring(tree, S) \ {entry.id} : m \notin Takers(tree, S, other)

(* assigned as plan leaves it: match set -> carried ID.                    *)
Carried(tree, S, entries) ==
  [m \in {n \in S : \E e \in entries : AppliesTo(tree, S, e, n)} |->
     (CHOOSE e \in entries : AppliesTo(tree, S, e, m)).id]

-----------------------------------------------------------------------------
(* Registry.assign for a match set that plan gave no carried ID.           *)

(* Mutant: an ID that retired counts as free.                              *)
TakenLive(B) == DOMAIN B.base.live \union B.issued

Taken(B) == Registry(B.base) \union B.issued

FirstFree(B, m) ==
  {c \in Counters : /\ Hash[m][c] \notin Taken(B)
                    /\ \A lower \in 0..(c - 1) : Hash[m][lower] \in Taken(B)}

(* Mutant: every spelling of a live profile's SIMs gets its ID.            *)
KeepsSharedId(B, m) == KeyOf[m] \in DOMAIN B.owner

KeepsLiveId(B, m) == KeyOf[m] \in DOMAIN B.owner /\ B.owner[KeyOf[m]] = m

Extend(f, x, v) == [y \in DOMAIN f \union {x} |-> IF y = x THEN v ELSE f[y]]

(* The live ID of the same SIMs, or the hash of the first counter whose ID *)
(* is neither live, retired nor issued in this build.                      *)
AssignedIds(B, m) ==
  IF KeepsLiveId(B, m)
  THEN {HolderOf(B.base, KeyOf[m])}
  ELSE {Hash[m][c] : c \in FirstFree(B, m)}

(* retired_order: by day, and on one day by counter.  A tie is left to the *)
(* order of the IDs, so here any of the IDs may come last.                 *)
RetiredOrder(tree, id) ==
  LET entry   == tree.aliases[id]
      counter == IssuedFor(id, entry.match)
  IN  entry.day * (MaxCounter + 1) + (IF counter = {} THEN 0 ELSE Min(counter))

RetiredOf(tree, key) == {id \in DOMAIN tree.aliases : KeyOf[tree.aliases[id].match] = key}

(* retired_by_key: of the retired IDs of one set of SIMs the last one.     *)
LastRetired(tree, key) ==
  {id \in RetiredOf(tree, key) : \A other \in RetiredOf(tree, key) :
     RetiredOrder(tree, other) <= RetiredOrder(tree, id)}

(* Mutant: two spellings of the same SIMs name the same retired ID.        *)
WithdrawnIdsShared(B, m) ==
  LET last == LastRetired(B.base, KeyOf[m])
  IN  IF B.assigned[m] \in DOMAIN B.base.live \/ last = {} THEN {B.assigned[m]} ELSE last

(* Registry.withdrawn_id.  The first match set that names a retired ID     *)
(* owns it in this build.                                                  *)
WithdrawnIds(B, m) ==
  LET last == LastRetired(B.base, KeyOf[m])
  IN  IF \/ B.assigned[m] \in DOMAIN B.base.live
         \/ last = {}
         \/ \E n \in DOMAIN B.withdrawn : B.withdrawn[n] \in last
      THEN {B.assigned[m]}
      ELSE last

-----------------------------------------------------------------------------
(* Registry.finish: the tree of the profiles that publish a fact.          *)

Published(B) == B.matches \ DOMAIN B.withdrawn

NewLive(B) ==
  [id \in {B.assigned[m] : m \in Published(B)} |->
     CHOOSE m \in Published(B) : B.assigned[m] = id]

RetiredIds(B) == DOMAIN B.base.live \ DOMAIN NewLive(B)

NewIds(B) == DOMAIN NewLive(B) \ DOMAIN B.base.live

(* Mutant: the targets are sought among the profiles that were live.       *)
TargetsInBase(B, id) == AliasTargets(B.base.live[id], B.base.live)

TargetsOf(B, id) == AliasTargets(B.base.live[id], NewLive(B))

FreshTargets(B, id) == TargetsOf(B, id) \intersect NewIds(B)

KindOf(B, id) ==
  LET fresh == FreshTargets(B, id)
      Shared(t) == \E other \in RetiredIds(B) \ {id} : t \in TargetsOf(B, other)
  IN  CASE fresh = {} -> "withdrawn"
        [] Cardinality(fresh) > 1 -> "split"
        [] Cardinality(fresh) = 1 /\ (\E t \in fresh : Shared(t)) -> "merge"
        [] OTHER -> "replaced"

NewAlias(B, id) ==
  [kind |-> KindOf(B, id), to |-> TargetsOf(B, id),
   match |-> B.base.live[id], day |-> Today]

(* Kept IDs whose match set is written differently now, and those that an  *)
(* entry of an earlier build explains.                                     *)
KeptChanged(B) ==
  {id \in DOMAIN NewLive(B) \intersect DOMAIN B.base.live :
     MatchSetHash(B.base.live[id]) # MatchSetHash(NewLive(B)[id])}

(* Mutant: only the IDs that change in this build get a continued entry.   *)
NoneStillContinued(B) == {}

StillContinued(B) ==
  {id \in DOMAIN NewLive(B) \ KeptChanged(B) : ~IsIssued(id, NewLive(B)[id])}

NewContinued(B) ==
  [id \in KeptChanged(B) \union StillContinued(B) |->
     IF id \in KeptChanged(B)
     THEN [basis |-> IF id \in B.applied THEN "continuity_entry" ELSE "same_sims",
           hash  |-> MatchSetHash(NewLive(B)[id]),
           from  |-> MatchSetHash(B.base.live[id])]
     ELSE B.base.continued[id]]

NewAliases(B) ==
  [id \in RetiredIds(B) \union DOMAIN B.base.aliases |->
     IF id \in RetiredIds(B) THEN NewAlias(B, id) ELSE B.base.aliases[id]]

NewTree(B) ==
  [live |-> NewLive(B), aliases |-> NewAliases(B), continued |-> NewContinued(B)]

Proposals(B) ==
  {[id   |-> id,
    from |-> MatchSetHash(B.base.live[id]),
    to   |-> MatchSetHash(NewLive(B)[CHOOSE t \in FreshTargets(B, id) : TRUE])] :
   id \in {r \in RetiredIds(B) : KindOf(B, r) = "replaced"}}

(* The two errors finish raises: an ID retired twice, and a live ID that   *)
(* nothing explains.                                                       *)
Finishes(B) ==
  /\ RetiredIds(B) \intersect DOMAIN B.base.aliases = {}
  /\ StillContinued(B) \subseteq DOMAIN B.base.continued

-----------------------------------------------------------------------------
(* The merge queue squashes the pull request onto main: file by file, what *)
(* the pull request changed against its base, else what main holds.  The   *)
(* entries of aliases/ids.json merge as its lines do; git may refuse a     *)
(* merge of neighbouring lines that is done here.                          *)

At(f, id) == IF id \in DOMAIN f THEN {f[id]} ELSE {}

MergeFiles(base, ours, theirs) ==
  LET Side(id) == IF At(theirs, id) = At(base, id) THEN ours ELSE theirs
  IN  [id \in {i \in Ids : i \in DOMAIN Side(i)} |-> Side(id)[id]]

Conflict(base, ours, theirs) ==
  \E id \in Ids :
    /\ At(theirs, id) # At(base, id)
    /\ At(ours, id) # At(base, id)
    /\ At(theirs, id) # At(ours, id)

MergeTree(base, ours, theirs) ==
  [live      |-> MergeFiles(base.live, ours.live, theirs.live),
   aliases   |-> MergeFiles(base.aliases, ours.aliases, theirs.aliases),
   continued |-> MergeFiles(base.continued, ours.continued, theirs.continued)]

TreeConflict(base, ours, theirs) ==
  \/ Conflict(base.live, ours.live, theirs.live)
  \/ Conflict(base.aliases, ours.aliases, theirs.aliases)
  \/ Conflict(base.continued, ours.continued, theirs.continued)

-----------------------------------------------------------------------------
Init ==
  /\ main \in Starts
  /\ landings = 0
  /\ accepted = {}
  /\ build = [b \in Builders |-> Idle]

(* Registry.load and plan; a tree with two live IDs of the same SIMs does  *)
(* not load.                                                               *)
Plan(b) ==
  /\ build[b].phase = "idle"
  /\ Loadable(main)
  /\ \E S \in Yields :
       LET carried == Carried(main, S, accepted)
       IN  build' = [build EXCEPT ![b] =
             [Idle EXCEPT !.phase    = "assign",
                          !.base     = main,
                          !.matches  = S,
                          !.assigned = carried,
                          !.owner    = KeyOwner(main, S),
                          !.applied  = {carried[m] : m \in DOMAIN carried}]]
  /\ UNCHANGED <<main, landings, accepted>>

Assign(b) ==
  LET B == build[b]
  IN  /\ B.phase = "assign"
      /\ \E m \in B.matches \ DOMAIN B.assigned : \E id \in AssignedIds(B, m) :
           build' = [build EXCEPT ![b] =
             [B EXCEPT !.assigned = Extend(@, m, id),
                       !.issued   = IF KeepsLiveId(B, m) THEN @ ELSE @ \union {id}]]
      /\ UNCHANGED <<main, landings, accepted>>

Assigned(B) == B.phase = "assign" /\ B.matches \subseteq DOMAIN B.assigned

Withdraw(b) ==
  LET B == build[b]
  IN  /\ Assigned(B)
      /\ \E m \in Published(B) : \E id \in WithdrawnIds(B, m) :
           build' = [build EXCEPT ![b] = [B EXCEPT !.withdrawn = Extend(@, m, id)]]
      /\ UNCHANGED <<main, landings, accepted>>

Finish(b) ==
  LET B == build[b]
  IN  /\ Assigned(B)
      /\ Finishes(B)
      /\ build' = [build EXCEPT ![b] =
           [B EXCEPT !.phase     = "open",
                     !.head      = NewTree(B),
                     !.proposals = Proposals(B)]]
      /\ UNCHANGED <<main, landings, accepted>>

(* A reviewer accepts a proposal that an open pull request lists.          *)
Accept(b) ==
  /\ build[b].phase = "open"
  /\ \E proposal \in build[b].proposals \ accepted :
       accepted' = accepted \union {proposal}
  /\ UNCHANGED <<main, landings, build>>

(* Mutant: no merge queue; the checks ran on the branch against its base.  *)
LandUnqueued(b) ==
  LET B    == build[b]
      tree == MergeTree(B.base, main, B.head)
  IN  /\ B.phase = "open"
      /\ landings < MaxLandings
      /\ ~TreeConflict(B.base, main, B.head)
      /\ TreeValid(B.head)
      /\ BaseValid(B.base, B.head)
      /\ main' = tree
      /\ landings' = landings + 1
      /\ build' = [build EXCEPT ![b] = Idle]
      /\ UNCHANGED accepted

Land(b) ==
  LET B    == build[b]
      tree == MergeTree(B.base, main, B.head)
  IN  /\ B.phase = "open"
      /\ landings < MaxLandings
      /\ ~TreeConflict(B.base, main, B.head)
      /\ TreeValid(tree)
      /\ BaseValid(main, tree)
      /\ main' = tree
      /\ landings' = landings + 1
      /\ build' = [build EXCEPT ![b] = Idle]
      /\ UNCHANGED accepted

(* A build that fails or is cancelled leaves nothing; a pull request may   *)
(* be closed.                                                              *)
Abandon(b) ==
  /\ build[b].phase # "idle"
  /\ build' = [build EXCEPT ![b] = Idle]
  /\ UNCHANGED <<main, landings, accepted>>

Next ==
  \E b \in Builders :
    Plan(b) \/ Assign(b) \/ Withdraw(b) \/ Finish(b) \/ Accept(b) \/ Land(b) \/ Abandon(b)

Spec == Init /\ [][Next]_vars

-----------------------------------------------------------------------------
IsBuild(B) ==
  /\ DOMAIN B = DOMAIN Idle
  /\ B.phase \in {"idle", "assign", "open"}
  /\ IsTree(B.base)
  /\ B.matches \subseteq Matches
  /\ IsPartial(B.assigned, B.matches, Ids)
  /\ B.issued \subseteq Ids
  /\ IsPartial(B.owner, KeysOf(Matches), Matches)
  /\ B.applied \subseteq Ids
  /\ IsPartial(B.withdrawn, B.matches, Ids)
  /\ IsTree(B.head)
  /\ B.proposals \subseteq Continuities

(* main is a registry tree, and every build holds IDs, match sets and trees. *)
TypeOK ==
  /\ IsTree(main)
  /\ landings \in 0..MaxLandings
  /\ accepted \subseteq Continuities
  /\ DOMAIN build = Builders
  /\ \A b \in Builders : IsBuild(build[b])

Open(b) == build[b].phase = "open"

(* No two match sets of a build are one set of SIMs.  Where two are, plan  *)
(* keeps a live ID for one of them and does not count the other as new;    *)
(* assign gives the other a new ID, and finish counts it as new.           *)
NoTwins(B) == \A m, n \in B.matches : KeyOf[m] = KeyOf[n] => m = n

(* No ID is the hash of two match sets of a build or its base.  Where one  *)
(* is, assign looks for a counter that is free in the base and the build,  *)
(* and base_problems recomputes it from the base alone.                    *)
HashesApart(B) ==
  LET known == B.matches \union {B.base.live[id] : id \in DOMAIN B.base.live}
  IN  \A m, n \in known : \A c, d \in Counters : Hash[m][c] = Hash[n][d] => m = n

(* The writer and the checker agree: the tree that a build without twins   *)
(* and collisions writes passes both checks of profile_ids.py against the  *)
(* main it was built from.                                                 *)
WriterMeetsChecks ==
  \A b \in Builders :
    LET B == build[b]
    IN  Open(b) /\ NoTwins(B) /\ HashesApart(B)
          => TreeValid(B.head) /\ BaseValid(B.base, B.head)

(* No two match sets of a build ever get one ID, neither two new ones nor  *)
(* a new one and one whose live or carried ID is kept.                     *)
NoIdShared ==
  \A b \in Builders : \A m, n \in DOMAIN build[b].assigned :
    build[b].assigned[m] = build[b].assigned[n] => m = n

(* Withdrawn entries of a build name different IDs, and none that a        *)
(* profile of the written tree has.                                        *)
WithdrawnNamesItsOwn ==
  \A b \in Builders :
    LET B == build[b]
    IN  /\ \A m, n \in DOMAIN B.withdrawn : B.withdrawn[m] = B.withdrawn[n] => m = n
        /\ \A m \in DOMAIN B.withdrawn, n \in Published(B) \intersect DOMAIN B.assigned :
             B.withdrawn[m] # B.assigned[n]

(* No two of the IDs that a build writes, live or retired, are one ID.     *)
IdsStayApart == NoIdShared /\ WithdrawnNamesItsOwn

(* A build without twins whose match sets are all published.               *)
PublishedWhole(B) == B.withdrawn = Empty /\ NoTwins(B)

(* What finish proposes, plan carries out: once accepted, the proposal of  *)
(* a build that is published whole keeps the ID for the same build.        *)
ProposalsApply ==
  \A b \in Builders :
    LET B == build[b]
    IN  Open(b) /\ PublishedWhole(B) =>
          \A p \in B.proposals :
            \E m \in B.matches : AppliesTo(B.base, B.matches, p, m)

(* A carried ID's new match set took the SIMs of that ID alone, and no     *)
(* other new profile took them: a split or merge never carries an ID over. *)
CarriesNoMerge(B) ==
  \A id \in B.applied \intersect DOMAIN B.head.live :
    /\ AliasTargets(B.base.live[id], B.head.live) \subseteq DOMAIN B.base.live
    /\ \A r \in DOMAIN B.head.aliases \ DOMAIN B.base.aliases : id \notin B.head.aliases[r].to

(* It never does in a build that is published whole: withdrawn_id drops    *)
(* match sets after plan has decided, and finish sees only the others.     *)
PublishedMergeNeverCarries ==
  \A b \in Builders : Open(b) /\ PublishedWhole(build[b]) => CarriesNoMerge(build[b])

(* The next build can load what landed: no two live IDs cover one set of   *)
(* SIMs.                                                                   *)
MainLoads == Loadable(main)

AliasesNameLive(before, after) ==
  \A id \in DOMAIN after.aliases \ DOMAIN before.aliases :
    after.aliases[id].to \subseteq DOMAIN after.live

(* An alias entry points at profiles of the tree it lands in, when the pull *)
(* request was built on the main it lands on.                               *)
FreshAliasesNameLive ==
  [][(\A b \in Builders : Open(b) => build[b].base = main)
       => AliasesNameLive(main, main')]_main

=============================================================================
