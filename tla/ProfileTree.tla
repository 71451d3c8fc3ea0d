---------------------------- MODULE ProfileTree ----------------------------
(***************************************************************************)
(* The committed registry of carrier profile IDs (a "tree") and what       *)
(* tools/profile_ids.py checks about one tree, and about a tree against    *)
(* the base it lands on.  A tree is                                        *)
(*   live       profile ID -> match set, the files of carriers/open        *)
(*   aliases    retired ID -> its entry in aliases/ids.json                *)
(*   continued  live ID -> why its match set is not the issued one         *)
(*                                                                         *)
(* Match sets are named by the members of Matches; Rules gives each its    *)
(* match set.  Hash is hash_id: the ID that SHA-256 gives a match set and  *)
(* a counter.  It need not be injective.                                   *)
(***************************************************************************)
EXTENDS MatchRules

CONSTANTS
  Matches,     \* the match sets the sources may yield, by name
  Rules,       \* their match sets
  Ids,         \* profile IDs
  MaxCounter,  \* the last counter tried; MAX_COUNTER - 1 in the code
  Hash         \* [Matches -> [0..MaxCounter -> Ids]]

Counters == 0..MaxCounter

ASSUME HashAssumption ==
  /\ MaxCounter \in Nat
  /\ Hash \in [Matches -> [Counters -> Ids]]

(* The relations of MatchRules on names, as tables.                        *)
KeyOf == [m \in Matches |-> SameSimsKey(Rules[m])]

Covers == [a \in Matches |-> [b \in Matches |-> RuleImplies(Rules[a], Rules[b])]]

Meets == [a \in Matches |-> [b \in Matches |-> RulesOverlap(Rules[a], Rules[b])]]

DimensionsOf == [m \in Matches |-> Dimensions(Rules[m])]

SpecificityOf == [m \in Matches |-> Specificity(Rules[m])]

(* match_set_hash: the hash part of the ID that counter 0 gives.           *)
MatchSetHash(m) == Hash[m][0]

IssuedFor(id, m) == {c \in Counters : Hash[m][c] = id}

(* issued_counter(id, m) is not None.                                      *)
IsIssued(id, m) == IssuedFor(id, m) # {}

(* Mutant: every profile is compared, also one that shares no SIM.         *)
TargetsWithoutOverlap(old, new) ==
  {t \in DOMAIN new :
     Covers[old][new[t]] \/ Covers[new[t]][old] \/ DimensionsOf[new[t]] = DimensionsOf[old]}

(* Mutant: only profiles that take every SIM of the old rule count.        *)
TargetsCovering(old, new) ==
  {t \in DOMAIN new : Meets[old][new[t]] /\ Covers[old][new[t]]}

(* alias_targets: new is a function from IDs (or any names) to match sets. *)
AliasTargets(old, new) ==
  LET meeting  == {t \in DOMAIN new : Meets[old][new[t]]}
      covering == {t \in meeting : Covers[old][new[t]]}
      best     == {t \in covering : \A u \in covering :
                     SpecificityOf[new[u]] <= SpecificityOf[new[t]]}
      partial  == {t \in meeting \ covering :
                     \/ Covers[new[t]][old]
                     \/ DimensionsOf[new[t]] = DimensionsOf[old]}
  IN  best \union partial

-----------------------------------------------------------------------------
AliasKinds == {"replaced", "split", "merge", "withdrawn"}

ContinuedBases == {"same_sims", "continuity_entry"}

AliasEntries ==
  [kind : AliasKinds, to : SUBSET Ids, match : Matches, day : Nat]

ContinuedEntries == [basis : ContinuedBases, hash : Ids, from : Ids]

IsPartial(f, S, T) == DOMAIN f \subseteq S /\ f \in [DOMAIN f -> T]

IsTree(tree) ==
  /\ tree = [live |-> tree.live, aliases |-> tree.aliases, continued |-> tree.continued]
  /\ IsPartial(tree.live, Ids, Matches)
  /\ IsPartial(tree.aliases, Ids, AliasEntries)
  /\ IsPartial(tree.continued, Ids, ContinuedEntries)

Registry(tree) == DOMAIN tree.live \union DOMAIN tree.aliases

(* The live IDs of one set of SIMs.  A tree whose sets of SIMs each have   *)
(* at most one can be loaded: Registry.__init__ raises on any other.       *)
HoldersOf(live, key) == {id \in DOMAIN live : KeyOf[live[id]] = key}

Loadable(tree) ==
  \A a, b \in DOMAIN tree.live :
    KeyOf[tree.live[a]] = KeyOf[tree.live[b]] => a = b

-----------------------------------------------------------------------------
(* alias_document_problems: one tree.                                      *)

NoneLiveAndAliased(tree) == DOMAIN tree.live \intersect DOMAIN tree.aliases = {}

TargetsRegistered(tree) ==
  \A id \in DOMAIN tree.aliases :
    LET entry == tree.aliases[id]
    IN  /\ entry.to \subseteq Registry(tree)
        /\ entry.kind \in {"replaced", "merge"} => entry.to # {}

ContinuedCurrent(tree) ==
  \A id \in DOMAIN tree.continued :
    /\ id \in DOMAIN tree.live
    /\ tree.continued[id].hash = MatchSetHash(tree.live[id])

LiveExplained(tree) ==
  \A id \in DOMAIN tree.live :
    id \in DOMAIN tree.continued \/ IsIssued(id, tree.live[id])

TreeValid(tree) ==
  /\ NoneLiveAndAliased(tree)
  /\ TargetsRegistered(tree)
  /\ ContinuedCurrent(tree)
  /\ LiveExplained(tree)

-----------------------------------------------------------------------------
(* base_problems: the tree that lands against the tree it lands on.        *)

NoIdLost(base, head) == DOMAIN base.live \subseteq Registry(head)

EntriesKept(base, head) ==
  \A id \in DOMAIN base.aliases :
    id \in DOMAIN head.aliases /\ head.aliases[id] = base.aliases[id]

(* The same SIMs under the same ID (base_by_key keeps one ID for a key).   *)
SimsKeepId(base, head) ==
  \A id \in DOMAIN head.live :
    LET holders == HoldersOf(base.live, KeyOf[head.live[id]])
    IN  holders # {} => id = CHOOSE h \in holders : TRUE

(* Mutant: any continued entry lets an ID move to other SIMs.              *)
IdKeepsSimsOnAnyBasis(base, head) ==
  \A id \in DOMAIN head.live \intersect DOMAIN base.live :
    KeyOf[base.live[id]] = KeyOf[head.live[id]] \/ id \in DOMAIN head.continued

(* Other SIMs under a kept ID only by an accepted continuity entry.        *)
IdKeepsSims(base, head) ==
  \A id \in DOMAIN head.live \intersect DOMAIN base.live :
    \/ KeyOf[base.live[id]] = KeyOf[head.live[id]]
    \/ /\ id \in DOMAIN head.continued
       /\ head.continued[id].basis = "continuity_entry"
       /\ head.continued[id].hash = MatchSetHash(head.live[id])

(* A new ID is none that was retired, and the issued hash of its match set *)
(* with the first counter that was free on the base.                       *)
NewIdsIssued(base, head) ==
  \A id \in DOMAIN head.live \ DOMAIN base.live :
    /\ id \notin DOMAIN base.aliases
    /\ \E c \in IssuedFor(id, head.live[id]) :
         \A lower \in 0..(c - 1) : Hash[head.live[id]][lower] \in Registry(base)

BaseValid(base, head) ==
  /\ NoIdLost(base, head)
  /\ EntriesKept(base, head)
  /\ SimsKeepId(base, head)
  /\ IdKeepsSims(base, head)
  /\ NewIdsIssued(base, head)

=============================================================================
