------------------------------ MODULE F5Proofs ------------------------------
(***************************************************************************)
(* Proofs about the F5 chain.  The gate: for all rows, lines and rules,    *)
(* and for pull requests of any content, no consumer is ever stranded, and *)
(* every change of main has its read.  The pull requests: any number of    *)
(* them, built, refreshed, merged and landed in any order, keep the gate,  *)
(* so what is proved of the gate holds of main.                            *)
(***************************************************************************)
EXTENDS F5Publish, SequenceTheorems, FiniteSetTheorems, TLAPS

gateVars == <<main, history>>

-----------------------------------------------------------------------------
(* The walk of the chain.                                                  *)

(* The greatest member of a set of numbers is what Max picks.              *)
LEMMA MaxIs ==
  ASSUME NEW S, S \subseteq Int, NEW n \in S, \A k \in S : k <= n
  PROVE  Max(S) = n
<1>1. \A x \in S : (\A y \in S : x >= y) => x = n
  OBVIOUS
<1>2. \A y \in S : n >= y
  OBVIOUS
<1>3. QED
  BY <1>1, <1>2 DEF Max

(* A valid chain's last read leads to its rows, so every walk starts there. *)
LEMMA LastReadEnds ==
  ASSUME NEW doc \in Documents, NEW rows, NEW context,
         FileValid(doc, rows, context), doc.reads # <<>>
  PROVE  /\ Len(doc.reads) \in DOMAIN doc.reads
         /\ doc.reads[Len(doc.reads)].head = rows
         /\ EndsAt(doc, rows) \subseteq Int
         /\ Len(doc.reads) \in EndsAt(doc, rows)
         /\ Max(EndsAt(doc, rows)) = Len(doc.reads)
<1> DEFINE n == Len(doc.reads)
<1>1. doc.reads \in Seq(Reads)
  BY DEF Documents
<1>2. n \in Nat /\ n # 0 /\ DOMAIN doc.reads = 1..n
  BY <1>1
<1>3. n \in DOMAIN doc.reads
  BY <1>2
<1>4. doc.reads[n].head = rows
  <2>1. n + 1 # 1 /\ (n + 1) - 1 = n
    BY <1>2
  <2>2. StandsAt(doc, n + 1) = doc.reads[n].head
    BY <2>1 DEF StandsAt
  <2>3. QED
    BY <2>2 DEF FileValid
<1>5. n \in EndsAt(doc, rows) /\ EndsAt(doc, rows) \subseteq Int
      /\ \A k \in EndsAt(doc, rows) : k <= n
  BY <1>2, <1>3, <1>4 DEF EndsAt
<1>6. Max(EndsAt(doc, rows)) = n
  BY <1>5, MaxIs
<1>7. QED
  BY <1>3, <1>4, <1>5, <1>6

(* Rows the chain knows: its last ones, or those a read starts at.         *)
Known(doc, rows) ==
  rows = doc.rows \/ \E k \in DOMAIN doc.reads : doc.reads[k].base = rows

(* A chain without a held read takes a consumer from all rows it knows.    *)
LEMMA KnownIsTaken ==
  ASSUME NEW doc \in Documents, NEW rows, NEW context,
         FileValid(doc, rows, context), NoneHeld(doc), NEW start, Known(doc, start)
  PROVE  Takes(doc, start, rows)
<1> DEFINE n == Len(doc.reads)
           starts == StartsAt(doc, start, n)
<1>1. CASE start = rows
  BY <1>1 DEF Takes, HasPath, ChainPath
<1>2. CASE start # rows
  <2>1. PICK k \in DOMAIN doc.reads : doc.reads[k].base = start
    BY <1>2 DEF Known, FileValid
  <2>2. doc.reads \in Seq(Reads) /\ doc.reads # <<>>
    BY <2>1 DEF Documents
  <2>3. DOMAIN doc.reads = 1..n /\ n \in Nat
    BY <2>2
  <2>4. Max(EndsAt(doc, rows)) = n /\ EndsAt(doc, rows) # {}
    BY <2>2, LastReadEnds
  <2>5. k \in starts /\ starts \subseteq 1..n
    BY <2>1, <2>3 DEF StartsAt
  <2>6. HasPath(doc, start, rows)
    BY <2>4, <2>5 DEF HasPath
  <2>7. ChainPath(doc, start, rows) \subseteq DOMAIN doc.reads
    BY <1>2, <2>3, <2>4 DEF ChainPath
  <2>8. QED
    BY <2>6, <2>7 DEF Takes, NoneHeld
<1>3. QED
  BY <1>1, <1>2

(* A change of the rows is read by the chain's last read, and by it alone. *)
LEMMA LastReadIsTheChange ==
  ASSUME NEW base \in Trees, NEW head \in Trees,
         FileValid(head.doc, head.rows, head.context), base.rows # head.rows,
         ChangeRead(base, head)
  PROVE  LET n == Len(head.doc.reads)
             read == head.doc.reads[n]
         IN  /\ n \in DOMAIN head.doc.reads
             /\ read.base = base.rows /\ read.head = head.rows
             /\ read.lines = Lines[base.rows][head.rows]
             /\ read.method = "deterministic" => read.lines \intersect Held[head.context] = {}
<1> DEFINE doc == head.doc
           n == Len(doc.reads)
           read == doc.reads[n]
           starts == StartsAt(doc, base.rows, n)
           path == ChainPath(doc, base.rows, doc.rows)
           again == ReadFiles(base.rows, head.rows, head.context)
<1>1. doc \in Documents /\ doc.rows = head.rows
  BY DEF Trees, FileValid
<1>2. doc.reads \in Seq(Reads)
  BY <1>1 DEF Documents
<1>3. EndsAt(doc, doc.rows) # {} /\ StartsAt(doc, base.rows, Max(EndsAt(doc, doc.rows))) # {}
  BY <1>1 DEF ChangeRead, HasPath
<1>4. doc.reads # <<>>
  BY <1>2, <1>3 DEF EndsAt
<1>5. /\ n \in DOMAIN doc.reads /\ read.head = head.rows
      /\ Max(EndsAt(doc, doc.rows)) = n
  BY <1>1, <1>4, LastReadEnds
<1>6. DOMAIN doc.reads = 1..n /\ n \in Nat
  BY <1>2
<1>7. path = {i \in 1..n : \A k \in starts : k <= i}
  BY <1>1, <1>5 DEF ChainPath
<1>8. starts \subseteq 1..n /\ starts # {}
  BY <1>3, <1>5, <1>6 DEF StartsAt
<1>9. n \in path
  BY <1>5, <1>6, <1>7, <1>8
<1>10. /\ path = {n}
       /\ read.lines = again.lines
       /\ read.method = "deterministic" => read.held = again.held
       /\ read.verdict # "hold"
  BY <1>9 DEF ChangeRead
<1>11. n \in starts
  <2>1. SUFFICES ASSUME n \notin starts
                 PROVE  FALSE
    OBVIOUS
  <2>2. \A k \in starts : k <= n - 1
    BY <1>6, <1>8, <2>1
  <2>3. n - 1 \in 1..n
    BY <1>6, <1>8, <2>2
  <2>4. n - 1 \in path
    BY <1>7, <2>2, <2>3
  <2>5. QED
    BY <1>6, <1>10, <2>4
<1>12. read.base = base.rows
  BY <1>11 DEF StartsAt
<1>13. again.lines = Lines[base.rows][head.rows]
       /\ again.held = Lines[base.rows][head.rows] \intersect Held[head.context]
  BY DEF ReadFiles
<1>14. ASSUME read.method = "deterministic"
       PROVE  read.lines \intersect Held[head.context] = {}
  <2>1. read.verdict = VerdictOf(read.lines, read.held)
    BY <1>5, <1>14 DEF FileValid, ReadValid
  <2>2. read.held = read.lines \intersect Held[head.context]
    BY <1>10, <1>13, <1>14
  <2>3. QED
    BY <1>10, <2>1, <2>2 DEF VerdictOf
<1>15. QED
  BY <1>5, <1>10, <1>12, <1>13, <1>14

-----------------------------------------------------------------------------
(* A sequence that stands at the end of a longer one.                      *)
LEMMA StandsAtEnd ==
  ASSUME NEW S, NEW long \in Seq(S), NEW short, NEW more \in Nat, NEW n \in Nat,
         more + n = Len(long), SubSeq(long, more + 1, more + n) = short
  PROVE  \A k \in 1..n : more + k \in 1..(more + n) /\ long[more + k] = short[k]
<1> TAKE k \in 1..n
<1>1. more + k \in 1..(more + n)
  OBVIOUS
<1>2. k \in 1..((more + n) - (more + 1) + 1) /\ (more + 1) + k - 1 = more + k
  OBVIOUS
<1>3. \A i \in (more + 1)..(more + n) : long[i] \in S
  OBVIOUS
<1>4. SubSeq(long, more + 1, more + n)[k] = long[(more + 1) + k - 1]
  <2>1. more + 1 \in Int /\ more + n \in Int
    OBVIOUS
  <2>2. QED
    BY <1>2, <1>3, <2>1, SubSeqProperties
<1>5. QED
  BY <1>1, <1>2, <1>4

(* Reads on main stay, behind the reads a bridge puts in front.            *)
LEMMA ReadsStay ==
  ASSUME NEW base \in Documents, NEW head \in Documents, Extends(base, head) \/ IsBridge(base, head)
  PROVE  \E n \in Nat : \A k \in DOMAIN base.reads :
           n + k \in DOMAIN head.reads /\ head.reads[n + k] = base.reads[k]
<1>1. base.reads \in Seq(Reads) /\ head.reads \in Seq(Reads)
  BY DEF Documents
<1>2. /\ DOMAIN base.reads = 1..Len(base.reads) /\ Len(base.reads) \in Nat
      /\ DOMAIN head.reads = 1..Len(head.reads) /\ Len(head.reads) \in Nat
  BY <1>1
<1>3. CASE Extends(base, head)
  <2>1. IsPrefix(base.reads, head.reads)
    BY <1>3 DEF Extends
  <2>2. \A k \in DOMAIN base.reads : k \in DOMAIN head.reads /\ head.reads[k] = base.reads[k]
    BY <1>1, <1>2, <2>1 DEF IsPrefix
  <2>3. \A k \in DOMAIN base.reads :
          0 + k \in DOMAIN head.reads /\ head.reads[0 + k] = base.reads[k]
    BY <1>2, <2>2
  <2>4. QED
    BY <2>3
<1>4. ASSUME IsBridge(base, head)
      PROVE  \E n \in Nat : \A k \in DOMAIN base.reads :
               n + k \in DOMAIN head.reads /\ head.reads[n + k] = base.reads[k]
  <2> DEFINE more == Len(head.reads) - Len(base.reads)
  <2>1. more > 0 /\ SubSeq(head.reads, more + 1, Len(head.reads)) = base.reads
    BY <1>4 DEF IsBridge
  <2>2. more \in Int /\ more + Len(base.reads) = Len(head.reads)
    BY <1>2
  <2> HIDE DEF more
  <2>3. more \in Nat
    BY <2>1, <2>2
  <2>4. ASSUME NEW k \in 1..Len(base.reads)
        PROVE  more + k \in 1..Len(head.reads) /\ head.reads[more + k] = base.reads[k]
    <3>1. PICK n \in Nat : n = Len(base.reads)
      BY <1>2
    <3>2. more + n = Len(head.reads)
      BY <2>2, <3>1
    <3>3. SubSeq(head.reads, more + 1, more + n) = base.reads
      BY <2>1, <3>2
    <3>4. head.reads \in Seq(Reads)
      BY <1>1
    <3>5. \A i \in 1..n : more + i \in 1..(more + n) /\ head.reads[more + i] = base.reads[i]
      BY <2>3, <3>2, <3>3, <3>4, StandsAtEnd
    <3>6. QED
      BY <3>1, <3>2, <3>5
  <2>5. QED
    BY <1>2, <2>3, <2>4
<1>5. QED
  BY <1>3, <1>4

-----------------------------------------------------------------------------
(* The inductive invariant: main's chain is valid and passes, history ends *)
(* at main, and the chain knows all the rows main ever had.                *)
IndInv ==
  /\ GateTypeOK
  /\ FileValid(main.doc, main.rows, main.context)
  /\ NoneHeld(main.doc)
  /\ history # <<>> /\ history[Len(history)] = CommitOf(main)
  /\ \A i \in DOMAIN history : Known(main.doc, history[i].rows)
  /\ ChangesWereRead

LEMMA InitInv == GateInit => IndInv
<1> SUFFICES ASSUME GateInit
             PROVE  IndInv
  OBVIOUS
<1>1. CommitOf(main) \in Commits
  BY DEF GateInit, CommitOf, Trees, Commits
<1>2. GateTypeOK
  BY <1>1 DEF GateInit, GateTypeOK
<1>3. /\ history # <<>> /\ DOMAIN history = {1} /\ Len(history) = 1
      /\ history[1] = CommitOf(main)
  BY DEF GateInit
<1>4. NoneHeld(main.doc)
  BY DEF GateInit, NoneHeld
<1>5. Known(main.doc, main.rows)
  BY DEF GateInit, FileValid, Known
<1>6. ChangesWereRead
  BY <1>3 DEF ChangesWereRead
<1>7. QED
  BY <1>2, <1>3, <1>4, <1>5, <1>6 DEF IndInv, GateInit, CommitOf

(* What the chain of main knows, the chain that lands on it knows.         *)
LEMMA KnowsMore ==
  ASSUME GateTypeOK, FileValid(main.doc, main.rows, main.context), GateLand,
         NEW rows, Known(main.doc, rows)
  PROVE  Known(main'.doc, rows)
<1>1. /\ main \in Trees /\ main' \in Trees
      /\ main.doc \in Documents /\ main'.doc \in Documents
  BY DEF GateTypeOK, GateLand, Trees
<1>2. /\ FileValid(main'.doc, main'.rows, main'.context)
      /\ Extends(main.doc, main'.doc) \/ IsBridge(main.doc, main'.doc)
      /\ main.rows # main'.rows => ChangeRead(main, main')
  BY DEF GateLand, Check
<1>3. CASE rows = main.doc.rows
  <2>1. rows = main.rows /\ main'.doc.rows = main'.rows
    BY <1>2, <1>3 DEF FileValid
  <2>2. CASE main.rows = main'.rows
    BY <2>1, <2>2 DEF Known
  <2>3. CASE main.rows # main'.rows
    <3>1. /\ Len(main'.doc.reads) \in DOMAIN main'.doc.reads
          /\ main'.doc.reads[Len(main'.doc.reads)].base = main.rows
      BY <1>1, <1>2, <2>3, LastReadIsTheChange
    <3>2. QED
      BY <2>1, <3>1 DEF Known
  <2>4. QED
    BY <2>2, <2>3
<1>4. ASSUME NEW k \in DOMAIN main.doc.reads, main.doc.reads[k].base = rows
      PROVE  Known(main'.doc, rows)
  BY <1>1, <1>2, <1>4, ReadsStay DEF Known
<1>5. QED
  BY <1>3, <1>4 DEF Known

(* What main's changes were read as, the chain that lands still says.      *)
LEMMA ReadsOfChanges ==
  ASSUME IndInv, GateLand
  PROVE  ChangesWereRead'
<1>1. /\ main \in Trees /\ main' \in Trees
      /\ main.doc \in Documents /\ main'.doc \in Documents
      /\ main'.doc.reads \in Seq(Reads)
  BY DEF IndInv, GateTypeOK, GateLand, Trees, Documents
<1>2. /\ FileValid(main'.doc, main'.rows, main'.context)
      /\ Extends(main.doc, main'.doc) \/ IsBridge(main.doc, main'.doc)
      /\ main.rows # main'.rows => ChangeRead(main, main')
  BY DEF GateLand, Check
<1>3. /\ history \in Seq(Commits) /\ Len(history) \in Nat
      /\ history' = Append(history, CommitOf(main'))
  BY DEF IndInv, GateTypeOK, GateLand
<1>4. /\ Len(history') = Len(history) + 1
      /\ history'[Len(history) + 1] = CommitOf(main')
      /\ \A i \in 1..Len(history) : history'[i] = history[i]
  BY <1>3
<1>5. SUFFICES ASSUME NEW i \in 2..Len(history'),
                      history'[i - 1].rows # history'[i].rows
               PROVE  \E k \in DOMAIN main'.doc.reads :
                        LET read == main'.doc.reads[k]
                        IN  /\ read.base = history'[i - 1].rows
                            /\ read.head = history'[i].rows
                            /\ read.lines = Lines[history'[i - 1].rows][history'[i].rows]
                            /\ \/ read.method = "agent"
                               \/ read.lines \intersect Held[history'[i].context] = {}
  BY DEF ChangesWereRead
<1>6. CASE i \in 2..Len(history)
  <2>1. history'[i - 1] = history[i - 1] /\ history'[i] = history[i]
    BY <1>3, <1>4, <1>6
  <2>2. PICK k \in DOMAIN main.doc.reads :
          LET read == main.doc.reads[k]
          IN  /\ read.base = history'[i - 1].rows
              /\ read.head = history'[i].rows
              /\ read.lines = Lines[history'[i - 1].rows][history'[i].rows]
              /\ \/ read.method = "agent"
                 \/ read.lines \intersect Held[history'[i].context] = {}
    BY <1>5, <1>6, <2>1 DEF IndInv, ChangesWereRead
  <2>3. PICK n \in Nat : n + k \in DOMAIN main'.doc.reads
                         /\ main'.doc.reads[n + k] = main.doc.reads[k]
    BY <1>1, <1>2, ReadsStay
  <2>4. QED
    BY <2>2, <2>3
<1>7. CASE i = Len(history) + 1
  <2>1. /\ history'[i] = CommitOf(main')
        /\ i - 1 = Len(history) /\ Len(history) \in 1..Len(history)
        /\ history'[i - 1] = CommitOf(main)
    BY <1>3, <1>4, <1>7 DEF IndInv
  <2>2. /\ history'[i].rows = main'.rows /\ history'[i].context = main'.context
        /\ history'[i - 1].rows = main.rows
    BY <2>1 DEF CommitOf
  <2> DEFINE n == Len(main'.doc.reads)
  <2>3. LET read == main'.doc.reads[n]
        IN  /\ n \in DOMAIN main'.doc.reads
            /\ read.base = main.rows /\ read.head = main'.rows
            /\ read.lines = Lines[main.rows][main'.rows]
            /\ read.method = "deterministic" => read.lines \intersect Held[main'.context] = {}
    BY <1>1, <1>2, <1>5, <2>2, LastReadIsTheChange
  <2>4. main'.doc.reads[n].method \in {"deterministic", "agent"}
    <3>1. main'.doc.reads[n] \in Reads
      BY <1>1, <2>3
    <3>2. QED
      BY <3>1 DEF Reads, Methods
  <2>5. QED
    BY <2>2, <2>3, <2>4
<1>8. i \in 2..Len(history) \/ i = Len(history) + 1
  BY <1>3, <1>4
<1>9. QED
  BY <1>6, <1>7, <1>8

LEMMA LandInv == IndInv /\ GateLand => IndInv'
<1> SUFFICES ASSUME IndInv, GateLand
             PROVE  IndInv'
  OBVIOUS
<1>1. CommitOf(main') \in Commits
  BY DEF GateLand, CommitOf, Trees, Commits
<1>2. GateTypeOK'
  BY <1>1 DEF IndInv, GateTypeOK, GateLand
<1>3. FileValid(main'.doc, main'.rows, main'.context) /\ NoneHeld(main'.doc)
  BY DEF GateLand, Check
<1>4. /\ history \in Seq(Commits)
      /\ history' = Append(history, CommitOf(main'))
  BY DEF IndInv, GateTypeOK, GateLand
<1>5. history' # <<>> /\ history'[Len(history')] = CommitOf(main')
  BY <1>4
<1>6. ASSUME NEW i \in DOMAIN history'
      PROVE  Known(main'.doc, history'[i].rows)
  <2>1. \/ i \in DOMAIN history /\ history'[i] = history[i]
        \/ history'[i] = CommitOf(main')
    BY <1>4
  <2>2. CASE i \in DOMAIN history /\ history'[i] = history[i]
    BY <2>2, KnowsMore DEF IndInv
  <2>3. CASE history'[i] = CommitOf(main')
    BY <1>3, <2>3 DEF CommitOf, Known, FileValid
  <2>4. QED
    BY <2>1, <2>2, <2>3
<1>7. ChangesWereRead'
  BY ReadsOfChanges
<1>8. QED
  BY <1>2, <1>3, <1>5, <1>6, <1>7 DEF IndInv, CommitOf

LEMMA StepInv == IndInv /\ [GateLand]_gateVars => IndInv'
<1>1. IndInv /\ UNCHANGED gateVars => IndInv'
  <2> SUFFICES ASSUME IndInv, UNCHANGED gateVars
               PROVE  IndInv'
    OBVIOUS
  <2>1. main' = main /\ history' = history
    BY DEF gateVars
  <2>2. GateTypeOK' /\ ChangesWereRead'
    BY <2>1 DEF IndInv, GateTypeOK, ChangesWereRead
  <2>3. QED
    BY <2>1, <2>2 DEF IndInv
<1>2. QED
  BY <1>1, LandInv

LEMMA Invariant == GateSpec => []IndInv
<1>1. GateSpec => GateInit /\ [][GateLand]_gateVars
  BY DEF GateSpec, gateVars
<1>2. QED
  BY <1>1, InitInv, StepInv, PTL

-----------------------------------------------------------------------------
(* main is a tree of the model in every behaviour of the gate.             *)
THEOREM GateTypeCorrect == GateSpec => []GateTypeOK
<1>1. IndInv => GateTypeOK
  BY DEF IndInv
<1>2. QED
  BY <1>1, Invariant, PTL

(* Whatever lands, consumers of every commit of main can walk the chain to *)
(* main's rows and may take them.                                          *)
THEOREM NeverStrandedHolds == GateSpec => []NeverStranded
<1>1. IndInv => NeverStranded
  <2> SUFFICES ASSUME IndInv, NEW i \in DOMAIN history
               PROVE  Takes(main.doc, history[i].rows, main.rows)
    BY DEF NeverStranded
  <2>1. main.doc \in Documents
    BY DEF IndInv, GateTypeOK, Trees
  <2>2. QED
    BY <2>1, KnownIsTaken DEF IndInv
<1>2. QED
  BY <1>1, Invariant, PTL

(* Every change of main's rows has its own read on main's chain, of its    *)
(* lines, and an agent's where the rules of its commit hold one of them.   *)
THEOREM ChangesWereReadHolds == GateSpec => []ChangesWereRead
<1>1. IndInv => ChangesWereRead
  BY DEF IndInv
<1>2. QED
  BY <1>1, Invariant, PTL

(* The version of the rules can not change on main once they have read a   *)
(* change of it.                                                           *)
THEOREM RulesStayHolds == GateSpec => RulesStay
<1> DEFINE Reread == \E i \in DOMAIN main.doc.reads : main.doc.reads[i].method = "deterministic"
           Stay   == Reread => RulesOf[main'.context] = RulesOf[main.context]
<1>1. IndInv /\ GateLand => Stay
  <2> SUFFICES ASSUME IndInv, GateLand,
                      NEW i \in DOMAIN main.doc.reads,
                      main.doc.reads[i].method = "deterministic"
               PROVE  RulesOf[main'.context] = RulesOf[main.context]
    OBVIOUS
  <2>1. main.doc.reads[i].rules = RulesOf[main.context]
    BY DEF IndInv, FileValid, ReadValid
  <2>2. main.doc \in Documents /\ main'.doc \in Documents
    BY DEF IndInv, GateTypeOK, GateLand, Trees
  <2>3. PICK n \in Nat : n + i \in DOMAIN main'.doc.reads
                         /\ main'.doc.reads[n + i] = main.doc.reads[i]
    BY <2>2, ReadsStay DEF GateLand, Check
  <2>4. main'.doc.reads[n + i].rules = RulesOf[main'.context]
    BY <2>3 DEF GateLand, Check, FileValid, ReadValid
  <2>5. QED
    BY <2>1, <2>3, <2>4
<1>2. IndInv /\ [GateLand]_gateVars => [Stay]_gateVars
  BY <1>1
<1>3. GateSpec => [][GateLand]_gateVars
  BY DEF GateSpec, gateVars
<1>4. GateSpec => [][Stay]_gateVars
  BY <1>2, <1>3, Invariant, PTL
<1>5. QED
  BY <1>4 DEF RulesStay, gateVars

-----------------------------------------------------------------------------
(* The pull requests.                                                      *)

PullRequests == [open : BOOLEAN, base : Trees, tree : Trees]

-----------------------------------------------------------------------------
(* The operations of the publisher build documents.                        *)

LEMMA ReadType ==
  ASSUME NEW base \in Rows, NEW head \in Rows, NEW context \in Contexts, NEW passed
  PROVE  WithAgentRead(ReadFiles(base, head, context), passed) \in Reads
<1> DEFINE read == ReadFiles(base, head, context)
<1>1. Lines[base][head] \in SUBSET AllLines /\ RulesOf[context] \in Nat
  BY LinesAssumption
<1>2. \A lines, held : VerdictOf(lines, held) \in Verdicts
  BY DEF VerdictOf, Verdicts
<1>3. read \in Reads
  <2>1. read.verdict \in Verdicts /\ read.lines \in SUBSET AllLines /\ read.held \in SUBSET AllLines
    BY <1>1, <1>2 DEF ReadFiles
  <2>2. QED
    BY <1>1, <1>2, <2>1 DEF ReadFiles, Reads, Methods
<1>4. [read EXCEPT !.method = "agent", !.verdict = "proceed"] \in Reads
  BY <1>3 DEF Reads, Methods, Verdicts
<1>5. QED
  BY <1>3, <1>4 DEF WithAgentRead

LEMMA AppendType ==
  ASSUME NEW doc \in Documents, NEW read \in Reads
  PROVE  AppendRead(doc, read) \in Documents
<1>1. Append(doc.reads, read) \in Seq(Reads) /\ read.head \in Rows
  BY DEF Documents, Reads
<1>2. QED
  BY <1>1 DEF AppendRead, Documents

LEMMA PublishedType ==
  ASSUME NEW tree \in Trees, NEW rows \in Rows, NEW chain \in Documents, NEW passed,
         NEW doc \in Published(tree, rows, chain, passed)
  PROVE  doc \in Documents
<1> DEFINE read == WithAgentRead(ReadFiles(rows, tree.rows, tree.context), passed)
<1>1. read \in Reads
  BY ReadType DEF Trees
<1> HIDE DEF read
<1>2. AppendRead(chain, read) \in Documents
  BY <1>1, AppendType
<1>3. doc = chain \/ doc = AppendRead(chain, read)
  BY DEF Published, read
<1>4. QED
  BY <1>2, <1>3

LEMMA BridgedType ==
  ASSUME NEW chain \in Documents, NEW passed, Older # <<>>
  PROVE  Bridged(Backfill(Older, passed), chain) \in Documents
<1> DEFINE bridge == Backfill(Older, passed)
           Change(i) == ReadFiles(Older[i].rows, Older[i + 1].rows, Older[i + 1].context)
<1>1. Older \in Seq(Commits) /\ Len(Older) \in Nat /\ Len(Older) >= 1
  BY PublishAssumption
<1>2. \A i \in 1..Len(Older) : Older[i].rows \in Rows /\ Older[i].context \in Contexts
  <2>1. \A i \in 1..Len(Older) : Older[i] \in Commits
    BY <1>1
  <2>2. QED
    BY <2>1 DEF Commits
<1>3. ASSUME NEW i \in 1..(Len(Older) - 1)
      PROVE  WithAgentRead(Change(i), passed) \in Reads
  <2>1. i \in 1..Len(Older) /\ i + 1 \in 1..Len(Older)
    BY <1>1
  <2>2. QED
    BY <1>2, <2>1, ReadType
<1> HIDE DEF Change
<1>4. [i \in 1..(Len(Older) - 1) |-> WithAgentRead(Change(i), passed)] \in Seq(Reads)
  <2>1. Len(Older) - 1 \in Nat
    BY <1>1
  <2>2. [i \in 1..(Len(Older) - 1) |-> WithAgentRead(Change(i), passed)]
          \in [1..(Len(Older) - 1) -> Reads]
    BY <1>3
  <2>3. QED
    BY <2>1, <2>2, SeqDef
<1>5. bridge.reads \in Seq(Reads) /\ bridge.since \in [named : BOOLEAN, rows : Rows]
  BY <1>1, <1>2, <1>4 DEF Backfill, Change
<1> HIDE DEF bridge
<1>6. bridge.reads \o chain.reads \in Seq(Reads)
  BY <1>5 DEF Documents
<1>7. QED
  BY <1>5, <1>6 DEF Bridged, Documents, bridge

-----------------------------------------------------------------------------
(* The types are inductive.                                                *)

LEMMA InitTypeOK == Init => TypeOK
<1> SUFFICES ASSUME Init
             PROVE  TypeOK
  OBVIOUS
<1>1. Start \in Trees /\ CommitOf(Start) \in Commits
  BY PublishAssumption DEF CommitOf, Trees, Commits
<1>2. GateTypeOK
  BY <1>1 DEF Init, GateTypeOK
<1>3. QED
  BY <1>1, <1>2 DEF Init, TypeOK, Closed

LEMMA SetTreeType ==
  ASSUME TypeOK, NEW b \in Branches, NEW base \in Trees, NEW tree \in Trees,
         SetTree(b, base, tree), UNCHANGED <<main, history, agents>>
  PROVE  TypeOK'
<1>1. branch' \in [Branches -> PullRequests]
  BY DEF TypeOK, SetTree, PullRequests
<1>2. QED
  BY <1>1 DEF TypeOK, GateTypeOK, PullRequests

LEMMA LandTypeOK ==
  ASSUME TypeOK, NEW b \in Branches, Land(b)
  PROVE  TypeOK' /\ main' \in Trees
<1> DEFINE B == branch[b]
<1>1. main \in Trees /\ B \in PullRequests /\ Start \in Trees
  BY PublishAssumption DEF TypeOK, GateTypeOK, PullRequests
<1>2. main' \in Trees
  <2>1. main' = MergeTrees(B.base, main, B.tree)
    BY DEF Land
  <2>2. QED
    BY <1>1, <2>1 DEF MergeTrees, Merged, Trees, PullRequests
<1>3. history' \in Seq(Commits)
  <2>1. CommitOf(main') \in Commits
    BY <1>2 DEF CommitOf, Commits, Trees
  <2>2. history' = Append(history, CommitOf(main'))
    BY DEF Land
  <2>3. QED
    BY <2>1, <2>2 DEF TypeOK, GateTypeOK
<1>4. branch' \in [Branches -> PullRequests] /\ agents' = agents
  BY <1>1 DEF Land, TypeOK, Closed, PullRequests
<1>5. QED
  BY <1>2, <1>3, <1>4 DEF TypeOK, GateTypeOK, PullRequests

LEMMA NextTypeOK == TypeOK /\ [Next]_vars => TypeOK'
<1> SUFFICES ASSUME TypeOK, [Next]_vars
             PROVE  TypeOK'
  OBVIOUS
<1>1. CASE UNCHANGED vars
  BY <1>1 DEF vars, TypeOK, GateTypeOK
<1>2. ASSUME NEW b \in Branches, Edit(b)
      PROVE  TypeOK'
  <2> DEFINE fork == IF IsOpen(b) THEN branch[b] ELSE [base |-> main, tree |-> main]
  <2>1. PICK rows \in Rows, context \in Contexts :
          SetTree(b, fork.base, [fork.tree EXCEPT !.rows = rows, !.context = context])
    BY <1>2 DEF Edit
  <2>2. fork.base \in Trees /\ fork.tree \in Trees
    BY DEF TypeOK, GateTypeOK
  <2> HIDE DEF fork
  <2>3. [fork.tree EXCEPT !.rows = rows, !.context = context] \in Trees
    BY <2>2 DEF Trees
  <2>4. QED
    BY <1>2, <2>1, <2>2, <2>3, SetTreeType DEF Edit
<1>3. ASSUME NEW b \in Branches, Publish(b)
      PROVE  TypeOK'
  <2> DEFINE tree == branch[b].tree
  <2>1. tree \in Trees /\ branch[b].base \in Trees /\ main \in Trees
    BY DEF TypeOK, GateTypeOK
  <2>2. PICK chain \in {tree.doc, main.doc} :
          \E doc \in Published(tree, main.rows, chain, agents) :
            SetTree(b, branch[b].base, [tree EXCEPT !.doc = doc])
    BY <1>3 DEF Publish
  <2>3. PICK doc \in Published(tree, main.rows, chain, agents) :
          SetTree(b, branch[b].base, [tree EXCEPT !.doc = doc])
    BY <2>2
  <2>4. chain \in Documents /\ main.rows \in Rows
    BY <2>1 DEF Trees
  <2>5. doc \in Documents
    BY <2>1, <2>3, <2>4, PublishedType
  <2>6. [tree EXCEPT !.doc = doc] \in Trees
    BY <2>1, <2>5 DEF Trees
  <2>7. QED
    BY <1>3, <2>1, <2>3, <2>6, SetTreeType DEF Publish
<1>4. ASSUME NEW b \in Branches, AgentReads(b)
      PROVE  TypeOK'
  <2> DEFINE reads == branch[b].tree.doc.reads
  <2>1. reads \in Seq(Reads)
    BY DEF TypeOK, Trees, Documents
  <2>2. reads # <<>>
    BY <1>4 DEF AgentReads, HoldsLast
  <2>3. Last(reads) \in Reads
    BY <2>1, <2>2 DEF Last
  <2>4. Last(reads).lines \in SUBSET AllLines
    BY <2>3 DEF Reads
  <2>5. QED
    BY <1>4, <2>4 DEF AgentReads, TypeOK, GateTypeOK
<1>5. ASSUME NEW b \in Branches, Refresh(b)
      PROVE  TypeOK'
  <2> DEFINE Fresh(rows, context) == [rows |-> rows, context |-> context, doc |-> main.doc]
  <2>1. main \in Trees /\ branch[b].tree \in Trees
    BY DEF TypeOK, GateTypeOK
  <2>2. PICK rows \in Rows, context \in {main.context, branch[b].tree.context} :
          \E doc \in Published(Fresh(rows, context), main.rows, main.doc, {}) :
            SetTree(b, main, [Fresh(rows, context) EXCEPT !.doc = doc])
    BY <1>5 DEF Refresh
  <2>3. PICK doc \in Published(Fresh(rows, context), main.rows, main.doc, {}) :
          SetTree(b, main, [Fresh(rows, context) EXCEPT !.doc = doc])
    BY <2>2
  <2>4. Fresh(rows, context) \in Trees /\ main.rows \in Rows /\ main.doc \in Documents
    BY <2>1, <2>2 DEF Trees
  <2> HIDE DEF Fresh
  <2>5. doc \in Documents
    BY <2>3, <2>4, PublishedType
  <2>6. [Fresh(rows, context) EXCEPT !.doc = doc] \in Trees
    BY <2>4, <2>5 DEF Trees
  <2>7. QED
    BY <1>5, <2>1, <2>3, <2>6, SetTreeType DEF Refresh
<1>6. ASSUME NEW b \in Branches, MergeMain(b)
      PROVE  TypeOK'
  <2>1. main \in Trees /\ branch[b].tree \in Trees
    BY DEF TypeOK, GateTypeOK
  <2>2. PICK rows \in Rows, context \in {main.context, branch[b].tree.context},
             doc \in {main.doc, branch[b].tree.doc} :
          SetTree(b, main, [rows |-> rows, context |-> context, doc |-> doc])
    BY <1>6 DEF MergeMain
  <2>3. [rows |-> rows, context |-> context, doc |-> doc] \in Trees
    BY <2>1, <2>2 DEF Trees
  <2>4. QED
    BY <1>6, <2>1, <2>2, <2>3, SetTreeType DEF MergeMain
<1>7. ASSUME NEW b \in Branches, Bridge(b)
      PROVE  TypeOK'
  <2> DEFINE doc == Bridged(Backfill(Older, agents), main.doc)
  <2>1. main \in Trees
    BY DEF TypeOK, GateTypeOK
  <2>2. doc \in Documents
    BY <1>7, <2>1, BridgedType DEF Bridge, Trees
  <2>3. SetTree(b, main, [main EXCEPT !.doc = doc])
    BY <1>7 DEF Bridge
  <2> HIDE DEF doc
  <2>4. [main EXCEPT !.doc = doc] \in Trees
    BY <2>1, <2>2 DEF Trees
  <2>5. QED
    BY <1>7, <2>1, <2>3, <2>4, SetTreeType DEF Bridge
<1>8. ASSUME NEW b \in Branches, Land(b)
      PROVE  TypeOK'
  BY <1>8, LandTypeOK
<1>9. ASSUME NEW b \in Branches, Close(b)
      PROVE  TypeOK'
  <2>1. branch' \in [Branches -> PullRequests]
    BY <1>9, PublishAssumption DEF Close, TypeOK, Closed, PullRequests
  <2>2. QED
    BY <1>9, <2>1 DEF Close, TypeOK, GateTypeOK, PullRequests
<1>10. QED
  BY <1>1, <1>2, <1>3, <1>4, <1>5, <1>6, <1>7, <1>8, <1>9 DEF Next

-----------------------------------------------------------------------------
(* main, its history and every pull request hold trees and commits.        *)
THEOREM PublishTypeCorrect == Spec => []TypeOK
<1>1. QED
  BY InitTypeOK, NextTypeOK, PTL DEF Spec

(* Whatever builds, refreshes and merges, main changes only by what check  *)
(* passes against the main it lands on: pull requests implement the gate.  *)
LEMMA PublishByGate == Spec => GateSpec
<1>1. Init => GateInit
  BY PublishAssumption DEF Init, GateInit
<1>2. TypeOK /\ [Next]_vars => [GateLand]_gateVars
  <2> SUFFICES ASSUME TypeOK, [Next]_vars
               PROVE  [GateLand]_gateVars
    OBVIOUS
  <2>1. ASSUME NEW b \in Branches, Land(b)
        PROVE  GateLand
    BY <2>1, LandTypeOK DEF Land, GateLand
  <2>2. QED
    BY <2>1 DEF Next, vars, gateVars, Edit, Publish, AgentReads, Refresh, MergeMain, Bridge, Close
<1>3. Spec => GateInit /\ [][GateLand]_gateVars
  BY <1>1, <1>2, PublishTypeCorrect, PTL DEF Spec
<1>4. QED
  BY <1>3 DEF GateSpec, gateVars

(* Among pull requests of any number, no consumer is ever stranded.        *)
THEOREM PublishNeverStrands == Spec => []NeverStranded
  BY PublishByGate, NeverStrandedHolds, PTL

(* Among pull requests of any number, every change of main was read.       *)
THEOREM PublishReadsChanges == Spec => []ChangesWereRead
  BY PublishByGate, ChangesWereReadHolds, PTL

-----------------------------------------------------------------------------
(* The chain and the history.  A bridge puts reads of older changes in     *)
(* front; what is left of a chain is its own.                              *)

(* The rows that the chain began at come up once among the older ones, at  *)
(* their end.  bridged compares only these rows: where they come up        *)
(* before, a bridge can be put in front twice.                             *)
OlderMeetsOnce == \A i \in 1..(Len(Older) - 1) : Older[i].rows # Older[Len(Older)].rows

OlderReads == IF Older = <<>> THEN 0 ELSE Len(Older) - 1

(* The reads a bridge put in front of a chain.                             *)
Lead(doc) == IF doc.since.rows = Start.rows THEN 0 ELSE OlderReads

OwnReads(doc) == Len(doc.reads) - Lead(doc)

(* A chain begins where main's did, or a bridge leads there.               *)
Begins(doc) ==
  doc.since.rows # Start.rows =>
    /\ Older # <<>>
    /\ doc.since.rows = Older[1].rows
    /\ Older[Len(Older)].rows = Start.rows
    /\ Len(doc.reads) >= OlderReads
    /\ \A i \in 1..OlderReads :
         doc.reads[i].base = Older[i].rows /\ doc.reads[i].head = Older[i + 1].rows

(* A read is appended to a chain only while it stands at main's rows, so   *)
(* no pull request's chain has more reads of its own than main's, or one   *)
(* more and other rows.                                                    *)
KeepsPace(doc, trunk) ==
  OwnReads(doc) <= OwnReads(trunk.doc) + (IF doc.rows = trunk.rows THEN 0 ELSE 1)

TracksMain(doc) == Begins(doc) /\ KeepsPace(doc, main)

(* The chain of main against the changes of commits.                       *)
ReadsAll(doc, commits) ==
  /\ OwnReads(doc) = ChangesUpTo(commits, Len(commits))
  /\ AreReadAfter(doc.reads, Lead(doc), commits)

ChainInv ==
  /\ Begins(main.doc)
  /\ ReadsAll(main.doc, history)
  /\ \A b \in Branches : TracksMain(branch[b].tree.doc)

-----------------------------------------------------------------------------
(* Counting changes.                                                       *)

ChangesIn(commits, n) == {i \in 2..n : commits[i - 1].rows # commits[i].rows}

LEMMA ChangesFinite ==
  ASSUME NEW commits, NEW n \in Nat
  PROVE  /\ IsFiniteSet(ChangesIn(commits, n))
         /\ ChangesUpTo(commits, n) = Cardinality(ChangesIn(commits, n))
         /\ ChangesUpTo(commits, n) \in Nat
<1>1. IsFiniteSet(2..n)
  BY FS_Interval
<1>2. ChangesIn(commits, n) \subseteq 2..n
  BY DEF ChangesIn
<1>3. IsFiniteSet(ChangesIn(commits, n))
  BY <1>1, <1>2, FS_Subset
<1>4. ChangesUpTo(commits, n) = Cardinality(ChangesIn(commits, n))
  BY DEF ChangesUpTo, ChangesIn
<1>5. QED
  BY <1>3, <1>4, FS_CardinalityType

(* A change is counted, and with all the changes after it.                 *)
LEMMA ChangeIsCounted ==
  ASSUME NEW commits, NEW n \in Nat, NEW i \in 2..n, commits[i - 1].rows # commits[i].rows
  PROVE  ChangesUpTo(commits, i) \in 1..ChangesUpTo(commits, n)
<1>1. i \in Nat
  OBVIOUS
<1>2. ChangesIn(commits, i) \subseteq ChangesIn(commits, n)
  BY DEF ChangesIn
<1>3. i \in ChangesIn(commits, i)
  BY DEF ChangesIn
<1>4. /\ IsFiniteSet(ChangesIn(commits, i)) /\ IsFiniteSet(ChangesIn(commits, n))
      /\ ChangesUpTo(commits, i) = Cardinality(ChangesIn(commits, i))
      /\ ChangesUpTo(commits, n) = Cardinality(ChangesIn(commits, n))
      /\ ChangesUpTo(commits, i) \in Nat /\ ChangesUpTo(commits, n) \in Nat
  BY <1>1, ChangesFinite
<1>5. Cardinality(ChangesIn(commits, i)) <= Cardinality(ChangesIn(commits, n))
  BY <1>2, <1>4, FS_Subset
<1>6. Cardinality(ChangesIn(commits, i)) # 0
  BY <1>3, <1>4, FS_EmptySet
<1>7. QED
  BY <1>4, <1>5, <1>6

LEMMA ChangesAppend ==
  ASSUME NEW commits \in Seq(Commits), NEW c \in Commits, Len(commits) >= 1
  PROVE  LET longer == Append(commits, c)
             n == Len(commits)
         IN  /\ Len(longer) = n + 1
             /\ \A i \in 1..n : longer[i] = commits[i] /\ ChangesUpTo(longer, i) = ChangesUpTo(commits, i)
             /\ longer[n + 1] = c
             /\ ChangesUpTo(longer, n + 1) =
                  ChangesUpTo(commits, n) + (IF commits[n].rows = c.rows THEN 0 ELSE 1)
<1> DEFINE longer == Append(commits, c)
           n == Len(commits)
<1>1. n \in Nat /\ n >= 1
  OBVIOUS
<1>2. Len(longer) = n + 1 /\ longer[n + 1] = c /\ \A i \in 1..n : longer[i] = commits[i]
  OBVIOUS
<1> HIDE DEF longer, n
<1>3. ASSUME NEW i \in 1..n
      PROVE  ChangesIn(longer, i) = ChangesIn(commits, i)
  <2>1. ASSUME NEW j \in 2..i
        PROVE  longer[j] = commits[j] /\ longer[j - 1] = commits[j - 1]
    <3>1. j \in 1..n /\ j - 1 \in 1..n
      BY <1>1
    <3>2. QED
      BY <1>2, <3>1
  <2>2. QED
    BY <2>1 DEF ChangesIn
<1>4. ASSUME NEW i \in 1..n
      PROVE  ChangesUpTo(longer, i) = ChangesUpTo(commits, i)
  <2>1. i \in Nat
    BY <1>1
  <2>2. QED
    BY <1>3, <2>1, ChangesFinite
<1>5. ChangesUpTo(longer, n + 1) =
        ChangesUpTo(commits, n) + (IF commits[n].rows = c.rows THEN 0 ELSE 1)
  <2>1. n \in 1..n /\ n + 1 \in Nat /\ (n + 1) - 1 = n
    BY <1>1
  <2>2. longer[n] = commits[n] /\ longer[n + 1] = c
    BY <1>2, <2>1
  <2>3. ChangesIn(longer, n) = ChangesIn(commits, n)
    BY <1>3, <2>1
  <2>4. 2..(n + 1) = (2..n) \union {n + 1}
    BY <1>1
  <2>5. /\ IsFiniteSet(ChangesIn(longer, n))
        /\ ChangesUpTo(longer, n + 1) = Cardinality(ChangesIn(longer, n + 1))
        /\ ChangesUpTo(commits, n) = Cardinality(ChangesIn(commits, n))
        /\ ChangesUpTo(commits, n) \in Nat
    BY <1>1, <2>1, ChangesFinite
  <2>6. CASE commits[n].rows = c.rows
    <3>1. ChangesIn(longer, n + 1) = ChangesIn(longer, n)
      BY <2>1, <2>2, <2>4, <2>6 DEF ChangesIn
    <3>2. QED
      BY <2>3, <2>5, <2>6, <3>1
  <2>7. CASE commits[n].rows # c.rows
    <3>1. ChangesIn(longer, n + 1) = ChangesIn(longer, n) \union {n + 1}
      BY <2>1, <2>2, <2>4, <2>7 DEF ChangesIn
    <3>2. n + 1 \notin ChangesIn(longer, n)
      BY <1>1 DEF ChangesIn
    <3>3. Cardinality(ChangesIn(longer, n) \union {n + 1}) = Cardinality(ChangesIn(longer, n)) + 1
      BY <2>5, <3>2, FS_AddElement
    <3>4. QED
      BY <2>3, <2>5, <2>7, <3>1, <3>3
  <2>8. QED
    BY <2>6, <2>7
<1>6. QED
  BY <1>2, <1>4, <1>5 DEF longer, n

(* Older keeps no commit that left the rows as they were.                  *)
LEMMA OlderCounts ==
  ASSUME NEW n \in 1..Len(Older)
  PROVE  ChangesUpTo(Older, n) = n - 1
<1>1. n \in Nat /\ n >= 1 /\ Older \in Seq(Commits) /\ Len(Older) \in Nat
  BY PublishAssumption
<1>2. ChangesIn(Older, n) = 2..n
  BY <1>1, PublishAssumption DEF ChangesIn
<1>3. Cardinality(2..n) = n - 1
  BY <1>1, FS_Interval
<1>4. QED
  BY <1>1, <1>2, <1>3, ChangesFinite

-----------------------------------------------------------------------------
(* The chains of pull requests keep pace with main's.                      *)

LEMMA StartChain ==
  /\ Start \in Trees /\ Start.doc \in Documents
  /\ Start.doc.since.rows = Start.rows /\ Start.doc.rows = Start.rows
  /\ Len(Start.doc.reads) = 0 /\ Lead(Start.doc) = 0 /\ OwnReads(Start.doc) = 0
<1>1. Start \in Trees /\ Start.doc \in Documents /\ Len(Start.doc.reads) = 0
  BY PublishAssumption DEF Trees
<1>2. StandsAt(Start.doc, Len(Start.doc.reads) + 1) = Start.doc.since.rows
  BY <1>1 DEF StandsAt
<1>3. Start.doc.since.rows = Start.rows /\ Start.doc.rows = Start.rows
  BY <1>2, PublishAssumption DEF FileValid
<1>4. QED
  BY <1>1, <1>3 DEF Lead, OwnReads

LEMMA LeadType == OlderReads \in Nat /\ \A doc : Lead(doc) \in Nat
<1>1. Len(Older) \in Nat /\ (Older # <<>> => Len(Older) >= 1)
  BY PublishAssumption
<1>2. QED
  BY <1>1 DEF OlderReads, Lead

LEMMA DocumentType ==
  ASSUME NEW doc \in Documents
  PROVE  /\ doc.reads \in Seq(Reads) /\ Len(doc.reads) \in Nat
         /\ DOMAIN doc.reads = 1..Len(doc.reads)
         /\ OwnReads(doc) \in Int
<1>1. doc.reads \in Seq(Reads) /\ Len(doc.reads) \in Nat /\ DOMAIN doc.reads = 1..Len(doc.reads)
  BY DEF Documents
<1>2. QED
  BY <1>1, LeadType DEF OwnReads

LEMMA MainTracks ==
  ASSUME main \in Trees, Begins(main.doc), main.doc.rows = main.rows
  PROVE  TracksMain(main.doc)
<1>1. OwnReads(main.doc) \in Int
  BY DocumentType DEF Trees
<1>2. QED
  BY <1>1 DEF TracksMain, KeepsPace

(* A read that publish appends is of a change of main's rows.              *)
LEMMA AppendTracks ==
  ASSUME main \in Trees, NEW doc \in Documents, NEW read \in Reads,
         TracksMain(doc), Appends(doc, read), read.base = main.rows, read.head # main.rows
  PROVE  TracksMain(AppendRead(doc, read))
<1> DEFINE longer == AppendRead(doc, read)
<1>1. /\ doc.reads \in Seq(Reads) /\ Len(doc.reads) \in Nat
      /\ OwnReads(doc) \in Int /\ OwnReads(main.doc) \in Int
  BY DocumentType DEF Trees
<1>2. longer.since = doc.since /\ longer.reads = Append(doc.reads, read) /\ longer.rows = read.head
  BY DEF AppendRead, Documents
<1>3. /\ Len(longer.reads) = Len(doc.reads) + 1
      /\ \A i \in 1..Len(doc.reads) : longer.reads[i] = doc.reads[i]
  BY <1>1, <1>2
<1> HIDE DEF longer
<1>4. OwnReads(longer) = OwnReads(doc) + 1
  BY <1>1, <1>2, <1>3, LeadType DEF OwnReads, Lead
<1>5. OwnReads(doc) <= OwnReads(main.doc)
  BY <1>1 DEF TracksMain, KeepsPace, Appends
<1>6. KeepsPace(longer, main)
  BY <1>1, <1>2, <1>4, <1>5 DEF KeepsPace
<1>7. Begins(longer)
  <2>1. SUFFICES ASSUME doc.since.rows # Start.rows
                 PROVE  /\ Len(longer.reads) >= OlderReads
                        /\ \A i \in 1..OlderReads :
                             longer.reads[i].base = Older[i].rows /\ longer.reads[i].head = Older[i + 1].rows
    BY <1>2 DEF TracksMain, Begins
  <2>2. /\ Len(doc.reads) >= OlderReads
        /\ \A i \in 1..OlderReads :
             doc.reads[i].base = Older[i].rows /\ doc.reads[i].head = Older[i + 1].rows
    BY <2>1 DEF TracksMain, Begins
  <2>3. \A i \in 1..OlderReads : i \in 1..Len(doc.reads)
    BY <1>1, <2>2, LeadType
  <2>4. Len(longer.reads) >= OlderReads
    BY <1>1, <1>3, <2>2, LeadType
  <2>5. ASSUME NEW i \in 1..OlderReads
        PROVE  longer.reads[i].base = Older[i].rows /\ longer.reads[i].head = Older[i + 1].rows
    <3>1. longer.reads[i] = doc.reads[i]
      BY <1>3, <2>3
    <3>2. QED
      BY <2>2, <3>1
  <2>6. QED
    BY <2>4, <2>5
<1>8. QED
  BY <1>6, <1>7 DEF TracksMain, longer

LEMMA ReadOfChange ==
  ASSUME NEW base, NEW head, NEW context, NEW passed
  PROVE  LET read == WithAgentRead(ReadFiles(base, head, context), passed)
         IN  read.base = base /\ read.head = head
BY DEF WithAgentRead, ReadFiles

LEMMA PublishedTracks ==
  ASSUME main \in Trees, NEW tree \in Trees, NEW chain \in Documents, TracksMain(chain), NEW passed,
         NEW doc \in Published(tree, main.rows, chain, passed)
  PROVE  TracksMain(doc)
<1> DEFINE read == WithAgentRead(ReadFiles(main.rows, tree.rows, tree.context), passed)
<1>1. read \in Reads
  BY ReadType DEF Trees
<1>2. read.base = main.rows /\ read.head = tree.rows
  BY ReadOfChange
<1> HIDE DEF read
<1>3. CASE tree.rows = main.rows
  BY <1>3 DEF Published
<1>4. CASE tree.rows # main.rows
  <2>1. doc = AppendRead(chain, read) /\ Appends(chain, read)
    BY <1>4 DEF Published, read
  <2>2. QED
    BY <1>1, <1>2, <1>4, <2>1, AppendTracks
<1>5. QED
  BY <1>3, <1>4

(* The bridge itself.                                                      *)
LEMMA BackfillIs ==
  ASSUME NEW passed, Older # <<>>
  PROVE  LET bridge == Backfill(Older, passed)
         IN  /\ bridge.since.rows = Older[1].rows
             /\ bridge.rows = Older[Len(Older)].rows
             /\ bridge.reads \in Seq(Reads)
             /\ Len(bridge.reads) = OlderReads
             /\ \A i \in 1..OlderReads :
                  bridge.reads[i].base = Older[i].rows /\ bridge.reads[i].head = Older[i + 1].rows
<1> DEFINE bridge == Backfill(Older, passed)
           Change(i) == WithAgentRead(ReadFiles(Older[i].rows, Older[i + 1].rows, Older[i + 1].context), passed)
<1>1. Older \in Seq(Commits) /\ Len(Older) \in Nat /\ Len(Older) >= 1
  BY PublishAssumption
<1>2. OlderReads = Len(Older) - 1 /\ OlderReads \in Nat
  BY <1>1 DEF OlderReads
<1>3. /\ bridge.since.rows = Older[1].rows
      /\ bridge.rows = Older[Len(Older)].rows
      /\ bridge.reads = [i \in 1..OlderReads |-> Change(i)]
  BY <1>2 DEF Backfill
<1>4. \A i \in 1..OlderReads : Change(i).base = Older[i].rows /\ Change(i).head = Older[i + 1].rows
  BY ReadOfChange
<1>5. ASSUME NEW i \in 1..OlderReads
      PROVE  Change(i) \in Reads
  <2>1. i \in 1..Len(Older) /\ i + 1 \in 1..Len(Older)
    BY <1>1, <1>2
  <2>2. Older[i] \in Commits /\ Older[i + 1] \in Commits
    BY <1>1, <2>1
  <2>3. QED
    BY <2>2, ReadType DEF Commits
<1> HIDE DEF Change, bridge
<1>6. bridge.reads \in [1..OlderReads -> Reads]
  BY <1>3, <1>5
<1>7. bridge.reads \in Seq(Reads) /\ Len(bridge.reads) = OlderReads
  <2>1. bridge.reads \in Seq(Reads)
    BY <1>2, <1>6, SeqDef
  <2>2. DOMAIN bridge.reads = 1..OlderReads
    BY <1>6
  <2>3. QED
    BY <1>2, <2>1, <2>2
<1>8. \A i \in 1..OlderReads :
        bridge.reads[i].base = Older[i].rows /\ bridge.reads[i].head = Older[i + 1].rows
  BY <1>3, <1>4
<1>9. QED
  BY <1>3, <1>7, <1>8 DEF bridge

LEMMA BridgedTracks ==
  ASSUME OlderMeetsOnce, main \in Trees, Begins(main.doc), main.doc.rows = main.rows,
         Older # <<>>, NEW passed, Bridges(Backfill(Older, passed), main.doc)
  PROVE  TracksMain(Bridged(Backfill(Older, passed), main.doc))
<1> DEFINE bridge == Backfill(Older, passed)
           doc == Bridged(bridge, main.doc)
<1>1. /\ bridge.since.rows = Older[1].rows
      /\ bridge.rows = Older[Len(Older)].rows
      /\ bridge.reads \in Seq(Reads)
      /\ Len(bridge.reads) = OlderReads
      /\ \A i \in 1..OlderReads :
           bridge.reads[i].base = Older[i].rows /\ bridge.reads[i].head = Older[i + 1].rows
  BY BackfillIs
<1>2. /\ main.doc \in Documents
      /\ main.doc.reads \in Seq(Reads) /\ Len(main.doc.reads) \in Nat
      /\ OwnReads(main.doc) \in Int
  BY DocumentType DEF Trees
<1>3. /\ doc.since = bridge.since /\ doc.rows = main.rows
      /\ doc.reads = bridge.reads \o main.doc.reads
  BY <1>2 DEF Bridged, Documents
<1>4. bridge.rows = main.doc.since.rows
  BY DEF Bridges
<1> HIDE DEF bridge, doc
<1>5. /\ Len(doc.reads) = OlderReads + Len(main.doc.reads)
      /\ \A i \in 1..OlderReads : doc.reads[i] = bridge.reads[i]
  <2>1. \A i \in 1..OlderReads : i \in 1..Len(bridge.reads)
    BY <1>1
  <2> DEFINE front == bridge.reads
             chain == main.doc.reads
  <2>5. front \in Seq(Reads) /\ chain \in Seq(Reads)
    BY <1>1, <1>2
  <2> HIDE DEF front, chain
  <2>6. /\ Len(front \o chain) = Len(front) + Len(chain)
        /\ \A i \in 1..Len(front) : (front \o chain)[i] = front[i]
    BY <2>5
  <2>2. Len(bridge.reads \o main.doc.reads) = Len(bridge.reads) + Len(main.doc.reads)
    BY <2>6 DEF front, chain
  <2>3. \A i \in 1..Len(bridge.reads) : (bridge.reads \o main.doc.reads)[i] = bridge.reads[i]
    BY <2>6 DEF front, chain
  <2>4. QED
    BY <1>1, <1>3, <2>1, <2>2, <2>3
<1>6. Len(Older) \in Nat /\ Len(Older) >= 1 /\ OlderReads = Len(Older) - 1
  BY PublishAssumption DEF OlderReads
<1>7. main.doc.since.rows = Start.rows
  <2>1. SUFFICES ASSUME main.doc.since.rows # Start.rows
                 PROVE  FALSE
    OBVIOUS
  <2>2. Older[1].rows = Older[Len(Older)].rows /\ Older[Len(Older)].rows = Start.rows
    BY <1>1, <1>4, <2>1 DEF Begins
  <2>3. QED
    BY <1>1, <1>4, <2>1, <2>2
<1>8. Begins(doc)
  <2>1. Len(doc.reads) >= OlderReads
    BY <1>2, <1>5, <1>6
  <2>2. \A i \in 1..OlderReads :
          doc.reads[i].base = Older[i].rows /\ doc.reads[i].head = Older[i + 1].rows
    BY <1>1, <1>5
  <2>3. doc.since.rows = Older[1].rows /\ Older[Len(Older)].rows = Start.rows
    BY <1>1, <1>3, <1>4, <1>7
  <2>4. QED
    BY <2>1, <2>2, <2>3 DEF Begins
<1>9. OwnReads(doc) = OwnReads(main.doc)
  <2>1. Lead(doc) = OlderReads
    <3>1. CASE Len(Older) = 1
      BY <1>1, <1>3, <1>4, <1>6, <1>7, <3>1 DEF Lead
    <3>2. CASE Len(Older) # 1
      <4>1. 1 \in 1..(Len(Older) - 1)
        BY <1>6, <3>2
      <4>2. doc.since.rows # Start.rows
        BY <1>1, <1>3, <1>4, <1>7, <4>1 DEF OlderMeetsOnce
      <4>3. QED
        BY <4>2 DEF Lead
    <3>3. QED
      BY <3>1, <3>2
  <2>2. Lead(main.doc) = 0
    BY <1>7 DEF Lead
  <2>3. QED
    BY <1>2, <1>5, <1>6, <2>1, <2>2 DEF OwnReads
<1>10. KeepsPace(doc, main)
  BY <1>2, <1>3, <1>9 DEF KeepsPace
<1>11. QED
  BY <1>8, <1>10 DEF TracksMain, doc, bridge

-----------------------------------------------------------------------------
(* Nothing but a landing touches main, and whatever a pull request holds   *)
(* tracks it.                                                              *)
LEMMA TreeTracks ==
  ASSUME TypeOK, ChainInv, NEW b \in Branches, NEW base, NEW tree, SetTree(b, base, tree),
         TracksMain(tree.doc), main' = main, history' = history
  PROVE  ChainInv'
<1>1. ASSUME NEW c \in Branches
      PROVE  TracksMain(branch'[c].tree.doc)
  <2>1. branch' = [branch EXCEPT ![b] = [open |-> TRUE, base |-> base, tree |-> tree]]
    BY DEF SetTree
  <2>2. branch'[c].tree = IF c = b THEN tree ELSE branch[c].tree
    BY <2>1 DEF TypeOK
  <2>3. QED
    BY <2>2 DEF ChainInv
<1>2. Begins(main'.doc) /\ ReadsAll(main'.doc, history')
  BY DEF ChainInv
<1>3. \A c \in Branches : Begins(branch'[c].tree.doc) /\ KeepsPace(branch'[c].tree.doc, main')
  BY <1>1 DEF TracksMain
<1>4. QED
  BY <1>2, <1>3 DEF ChainInv, TracksMain

LEMMA MainFacts ==
  ASSUME TypeOK, IndInv, ChainInv
  PROVE  /\ main \in Trees /\ main.doc \in Documents /\ main.doc.rows = main.rows
         /\ FileValid(main.doc, main.rows, main.context)
         /\ Begins(main.doc) /\ TracksMain(main.doc)
         /\ \A b \in Branches : /\ branch[b].tree \in Trees /\ branch[b].tree.doc \in Documents
                                /\ TracksMain(branch[b].tree.doc)
<1>1. main \in Trees /\ FileValid(main.doc, main.rows, main.context)
  BY DEF IndInv, GateTypeOK
<1>2. main.doc \in Documents /\ main.doc.rows = main.rows
  BY <1>1 DEF Trees, FileValid
<1>3. Begins(main.doc) /\ \A b \in Branches : TracksMain(branch[b].tree.doc)
  BY DEF ChainInv
<1>4. \A b \in Branches : branch[b].tree \in Trees /\ branch[b].tree.doc \in Documents
  BY DEF TypeOK, Trees
<1>5. QED
  BY <1>1, <1>2, <1>3, <1>4, MainTracks

(* A prefix, and a bridge, as indices.                                     *)
LEMMA PrefixStays ==
  ASSUME NEW s \in Seq(Reads), NEW t \in Seq(Reads), IsPrefix(s, t)
  PROVE  Len(s) <= Len(t) /\ \A i \in 1..Len(s) : t[i] = s[i]
BY DEF IsPrefix

(* What lands has main's own reads, and one more where the rows changed.   *)
LEMMA LandedReads ==
  ASSUME OlderMeetsOnce, NEW base \in Trees, NEW head \in Trees,
         FileValid(base.doc, base.rows, base.context), Check(base, head),
         Begins(base.doc), Begins(head.doc), KeepsPace(head.doc, base)
  PROVE  LET added == IF base.rows = head.rows THEN 0 ELSE 1
             before == base.doc.reads
             after == head.doc.reads
         IN  /\ OwnReads(head.doc) = OwnReads(base.doc) + added
             /\ \A k \in 1..OwnReads(base.doc) :
                  after[Lead(head.doc) + k] = before[Lead(base.doc) + k]
             /\ base.rows # head.rows =>
                  /\ after[Lead(head.doc) + OwnReads(head.doc)].base = base.rows
                  /\ after[Lead(head.doc) + OwnReads(head.doc)].head = head.rows
<1> DEFINE before == base.doc.reads
           after  == head.doc.reads
           m == Len(before)
           n == Len(after)
<1>1. /\ base.doc \in Documents /\ head.doc \in Documents
      /\ before \in Seq(Reads) /\ after \in Seq(Reads)
      /\ m \in Nat /\ n \in Nat /\ DOMAIN before = 1..m /\ DOMAIN after = 1..n
      /\ OwnReads(base.doc) = m - Lead(base.doc)
      /\ OwnReads(head.doc) = n - Lead(head.doc)
      /\ Lead(base.doc) \in Nat /\ Lead(head.doc) \in Nat
  <2>1. base.doc \in Documents /\ head.doc \in Documents
    BY DEF Trees
  <2>2. QED
    BY <2>1, DocumentType, LeadType DEF OwnReads
<1>2. /\ FileValid(head.doc, head.rows, head.context)
      /\ Extends(base.doc, head.doc) \/ IsBridge(base.doc, head.doc)
      /\ base.rows # head.rows => ChangeRead(base, head)
  BY DEF Check
<1>3. base.doc.rows = base.rows /\ head.doc.rows = head.rows
  BY <1>2 DEF FileValid
<1>4. OwnReads(head.doc) <= OwnReads(base.doc) + (IF head.rows = base.rows THEN 0 ELSE 1)
  BY <1>3 DEF KeepsPace
<1>5. m # 0 => before[m].head = base.rows
  BY <1>1, LastReadEnds
<1>6. base.rows # head.rows => n \in 1..n /\ after[n].base = base.rows /\ after[n].head = head.rows
  BY <1>1, <1>2, LastReadIsTheChange
<1>7. CASE Extends(base.doc, head.doc)
  <2>1. Lead(head.doc) = Lead(base.doc)
    BY <1>7 DEF Extends, Lead
  <2>2. m <= n /\ \A i \in 1..m : after[i] = before[i]
    BY <1>1, <1>7, PrefixStays DEF Extends
  <2> HIDE DEF before, after, m, n
  <2>3. ASSUME base.rows # head.rows
        PROVE  n # m
    <3>1. SUFFICES ASSUME n = m
                   PROVE  FALSE
      OBVIOUS
    <3>2. n \in 1..m /\ m # 0
      BY <1>1, <1>6, <2>3, <3>1
    <3>3. after[n] = before[m]
      BY <2>2, <3>1, <3>2
    <3>4. QED
      BY <1>5, <1>6, <2>3, <3>2, <3>3
  <2>4. OwnReads(head.doc) = OwnReads(base.doc) + (IF base.rows = head.rows THEN 0 ELSE 1)
    BY <1>1, <1>4, <2>1, <2>2, <2>3
  <2>5. ASSUME NEW k \in 1..OwnReads(base.doc)
        PROVE  after[Lead(head.doc) + k] = before[Lead(base.doc) + k]
    <3>1. Lead(base.doc) + k \in 1..m
      BY <1>1
    <3>2. QED
      BY <2>1, <2>2, <3>1
  <2>6. Lead(head.doc) + OwnReads(head.doc) = n
    BY <1>1
  <2>7. QED
    BY <1>6, <2>4, <2>5, <2>6 DEF before, after
<1>8. CASE IsBridge(base.doc, head.doc)
  <2> DEFINE added == n - m
  <2>1. added > 0 /\ m # 0 /\ SubSeq(after, added + 1, n) = before
    <3>1. added > 0 /\ before # <<>> /\ SubSeq(after, added + 1, n) = before
      BY <1>8 DEF IsBridge
    <3> HIDE DEF before, after, n
    <3>2. QED
      BY <1>1, <3>1
  <2> HIDE DEF before, after, m, n
  <2>2. \A k \in 1..m : after[added + k] = before[k]
    <3>1. \A k \in 1..m : SubSeq(after, added + 1, n)[k] = after[added + k]
      BY <1>1, <2>1 DEF m, n
    <3>2. QED
      BY <2>1, <3>1
  <2>3. base.rows = head.rows
    <3>1. SUFFICES ASSUME base.rows # head.rows
                   PROVE  FALSE
      OBVIOUS
    <3>2. m \in 1..m /\ added + m = n
      BY <1>1, <2>1
    <3>3. QED
      BY <1>5, <1>6, <2>1, <2>2, <3>1, <3>2
  <2>4. added \in Nat /\ added <= Lead(head.doc) - Lead(base.doc)
    BY <1>1, <1>4, <2>1, <2>3
  <2>5. /\ Lead(base.doc) = 0 /\ base.doc.since.rows = Start.rows
        /\ Lead(head.doc) = OlderReads /\ head.doc.since.rows # Start.rows
        /\ OlderReads \in Nat
    BY <1>1, <2>1, <2>4, LeadType DEF Lead
  <2>6. added = OlderReads
    <3>1. SUFFICES ASSUME added < OlderReads
                   PROVE  FALSE
      BY <2>4, <2>5
    <3>2. /\ Older # <<>> /\ Older[Len(Older)].rows = Start.rows
          /\ \A i \in 1..OlderReads : after[i].base = Older[i].rows
      BY <2>5 DEF Begins, after
    <3>3. added + 1 \in 1..OlderReads /\ OlderReads = Len(Older) - 1
      BY <2>4, <2>5, <3>1, <3>2 DEF OlderReads
    <3>4. after[added + 1].base = Older[added + 1].rows
      BY <3>2, <3>3
    <3>5. 1 \in DOMAIN before /\ 1 \in 1..m
      BY <1>1, <2>1
    <3>6. before[1].base = Start.rows
      BY <2>5, <3>5 DEF FileValid, StandsAt, before
    <3>7. after[added + 1] = before[1]
      BY <2>2, <3>5
    <3>8. QED
      BY <3>2, <3>3, <3>4, <3>6, <3>7 DEF OlderMeetsOnce
  <2>7. OwnReads(head.doc) = OwnReads(base.doc)
    BY <1>1, <2>5, <2>6
  <2>8. ASSUME NEW k \in 1..OwnReads(base.doc)
        PROVE  after[Lead(head.doc) + k] = before[Lead(base.doc) + k]
    <3>1. k \in 1..m /\ Lead(base.doc) + k = k
      BY <1>1, <2>5
    <3>2. QED
      BY <2>2, <2>5, <2>6, <3>1
  <2>9. OwnReads(head.doc) = OwnReads(base.doc) + (IF base.rows = head.rows THEN 0 ELSE 1)
    BY <1>1, <2>3, <2>7
  <2>10. QED
    BY <2>3, <2>8, <2>9 DEF before, after
<1>9. QED
  BY <1>2, <1>7, <1>8

(* With the commit that landed, the chain holds all changes again.         *)
LEMMA LandedReadsAll ==
  ASSUME OlderMeetsOnce, NEW base \in Trees, NEW head \in Trees,
         FileValid(base.doc, base.rows, base.context), Check(base, head),
         Begins(base.doc), Begins(head.doc), KeepsPace(head.doc, base),
         NEW commits \in Seq(Commits), commits # <<>>,
         commits[Len(commits)] = CommitOf(base), ReadsAll(base.doc, commits)
  PROVE  /\ ReadsAll(head.doc, Append(commits, CommitOf(head)))
         /\ OwnReads(head.doc) = OwnReads(base.doc) + (IF base.rows = head.rows THEN 0 ELSE 1)
<1> DEFINE longer == Append(commits, CommitOf(head))
           n == Len(commits)
           reads == head.doc.reads
           lead == Lead(head.doc)
           own == OwnReads(base.doc)
           added == IF base.rows = head.rows THEN 0 ELSE 1
<1>1. CommitOf(head) \in Commits /\ n \in Nat /\ n >= 1
  BY DEF CommitOf, Commits, Trees
<1>2. CommitOf(base).rows = base.rows /\ CommitOf(head).rows = head.rows
  BY DEF CommitOf
<1>3. /\ Len(longer) = n + 1
      /\ \A i \in 1..n : longer[i] = commits[i] /\ ChangesUpTo(longer, i) = ChangesUpTo(commits, i)
      /\ longer[n + 1] = CommitOf(head)
      /\ ChangesUpTo(longer, n + 1) = ChangesUpTo(commits, n) + added
  BY <1>1, <1>2, ChangesAppend
<1>4. /\ OwnReads(head.doc) = own + added
      /\ \A k \in 1..own : reads[lead + k] = base.doc.reads[Lead(base.doc) + k]
      /\ base.rows # head.rows =>
           reads[lead + OwnReads(head.doc)].base = base.rows
           /\ reads[lead + OwnReads(head.doc)].head = head.rows
  BY LandedReads
<1>5. own = ChangesUpTo(commits, n) /\ own \in Nat
  BY <1>1, ChangesFinite DEF ReadsAll
<1> HIDE DEF longer, n, reads, lead, own, added
<1>6. ASSUME NEW i \in 2..(n + 1), longer[i - 1].rows # longer[i].rows
      PROVE  /\ reads[lead + ChangesUpTo(longer, i)].base = longer[i - 1].rows
             /\ reads[lead + ChangesUpTo(longer, i)].head = longer[i].rows
  <2>1. CASE i \in 2..n
    <3>1. i \in 1..n /\ i - 1 \in 1..n
      BY <1>1, <2>1
    <3>2. longer[i] = commits[i] /\ longer[i - 1] = commits[i - 1]
          /\ ChangesUpTo(longer, i) = ChangesUpTo(commits, i)
      BY <1>3, <3>1
    <3>3. ChangesUpTo(commits, i) \in 1..own
      BY <1>1, <1>5, <1>6, <2>1, <3>2, ChangeIsCounted
    <3>4. reads[lead + ChangesUpTo(longer, i)] = base.doc.reads[Lead(base.doc) + ChangesUpTo(commits, i)]
      BY <1>4, <3>2, <3>3
    <3>5. /\ base.doc.reads[Lead(base.doc) + ChangesUpTo(commits, i)].base = commits[i - 1].rows
          /\ base.doc.reads[Lead(base.doc) + ChangesUpTo(commits, i)].head = commits[i].rows
      BY <1>6, <2>1, <3>2 DEF ReadsAll, AreReadAfter, n
    <3>6. QED
      BY <3>2, <3>4, <3>5
  <2>2. CASE i = n + 1
    <3>1. i - 1 = n /\ n \in 1..n
      BY <1>1, <2>2
    <3>2. longer[i] = CommitOf(head) /\ longer[i - 1] = CommitOf(base)
      BY <1>3, <2>2, <3>1 DEF n
    <3>3. base.rows # head.rows
      BY <1>2, <1>6, <3>2
    <3>4. ChangesUpTo(longer, i) = OwnReads(head.doc)
      BY <1>3, <1>4, <1>5, <2>2
    <3>5. QED
      BY <1>2, <1>4, <3>2, <3>3, <3>4
  <2>3. QED
    BY <1>1, <2>1, <2>2
<1>7. AreReadAfter(reads, lead, longer)
  BY <1>3, <1>6 DEF AreReadAfter
<1>8. OwnReads(head.doc) = ChangesUpTo(longer, Len(longer))
  BY <1>3, <1>4, <1>5
<1>9. QED
  BY <1>4, <1>7, <1>8 DEF ReadsAll, longer, reads, lead, own, added

LEMMA LandTracks ==
  ASSUME OlderMeetsOnce, TypeOK, IndInv, ChainInv, NEW b \in Branches, Land(b)
  PROVE  ChainInv'
<1> DEFINE B == branch[b]
<1>1. /\ main \in Trees /\ main.doc \in Documents
      /\ FileValid(main.doc, main.rows, main.context) /\ TracksMain(main.doc)
      /\ Begins(main.doc) /\ ReadsAll(main.doc, history)
      /\ \A c \in Branches : /\ branch[c].tree.doc \in Documents
                             /\ TracksMain(branch[c].tree.doc)
  BY MainFacts DEF ChainInv
<1>2. main' \in Trees /\ Check(main, main') /\ history' = Append(history, CommitOf(main'))
  BY LandTypeOK DEF Land
<1>3. Begins(main'.doc) /\ KeepsPace(main'.doc, main)
  <2>1. main'.doc = main.doc \/ main'.doc = B.tree.doc
    BY DEF Land, MergeTrees, Merged
  <2>2. QED
    BY <1>1, <2>1 DEF TracksMain
<1>4. history \in Seq(Commits) /\ history # <<>> /\ history[Len(history)] = CommitOf(main)
  BY DEF IndInv, GateTypeOK
<1>5. /\ ReadsAll(main'.doc, history')
      /\ OwnReads(main'.doc) = OwnReads(main.doc) + (IF main.rows = main'.rows THEN 0 ELSE 1)
  BY <1>1, <1>2, <1>3, <1>4, LandedReadsAll
<1>6. main'.doc.rows = main'.rows /\ OwnReads(main'.doc) \in Int /\ OwnReads(main.doc) \in Int
  <2>1. main'.doc \in Documents
    BY <1>2 DEF Trees
  <2>2. QED
    BY <1>1, <1>2, <2>1, DocumentType DEF Check, FileValid
<1>7. ASSUME NEW doc \in Documents, KeepsPace(doc, main)
      PROVE  KeepsPace(doc, main')
  <2>1. OwnReads(doc) \in Int
    BY DocumentType
  <2>2. QED
    BY <1>5, <1>6, <1>7, <2>1 DEF KeepsPace
<1>8. ASSUME NEW c \in Branches
      PROVE  Begins(branch'[c].tree.doc) /\ KeepsPace(branch'[c].tree.doc, main')
  <2>1. branch'[c] = IF c = b THEN Closed ELSE branch[c]
    BY DEF Land, TypeOK
  <2>2. CASE c # b
    BY <1>1, <1>7, <2>1, <2>2 DEF TracksMain
  <2>3. CASE c = b
    <3>1. branch'[c].tree.doc = Start.doc
      BY <2>1, <2>3 DEF Closed
    <3>2. 0 <= OwnReads(main'.doc)
      <4>1. OwnReads(main.doc) = ChangesUpTo(history, Len(history)) /\ Len(history) \in Nat
        BY <1>1, <1>4 DEF ReadsAll
      <4>2. OwnReads(main.doc) \in Nat
        BY <4>1, ChangesFinite
      <4>3. QED
        BY <1>5, <4>2
    <3>3. QED
      BY <1>6, <3>1, <3>2, StartChain DEF Begins, KeepsPace
  <2>4. QED
    BY <2>2, <2>3
<1>9. QED
  BY <1>3, <1>5, <1>8 DEF ChainInv, TracksMain

LEMMA StartTracks ==
  ASSUME TypeOK, IndInv, ChainInv
  PROVE  TracksMain(Start.doc)
<1>1. ReadsAll(main.doc, history) /\ Len(history) \in Nat /\ main.doc \in Documents
  BY MainFacts DEF ChainInv, IndInv, GateTypeOK
<1>2. OwnReads(main.doc) \in Nat
  BY <1>1, ChangesFinite DEF ReadsAll
<1>3. QED
  BY <1>2, StartChain DEF TracksMain, Begins, KeepsPace

LEMMA ChainStep == OlderMeetsOnce /\ TypeOK /\ IndInv /\ ChainInv /\ [Next]_vars => ChainInv'
<1> SUFFICES ASSUME OlderMeetsOnce, TypeOK, IndInv, ChainInv, [Next]_vars
             PROVE  ChainInv'
  OBVIOUS
<1>1. /\ main \in Trees /\ main.doc \in Documents /\ main.doc.rows = main.rows
      /\ Begins(main.doc) /\ TracksMain(main.doc)
      /\ \A b \in Branches : /\ branch[b].tree \in Trees /\ branch[b].tree.doc \in Documents
                             /\ TracksMain(branch[b].tree.doc)
  BY MainFacts
<1>2. ASSUME main' = main, history' = history, branch' = branch
      PROVE  ChainInv'
  BY <1>2 DEF ChainInv, TracksMain
<1>3. CASE UNCHANGED vars
  BY <1>2, <1>3 DEF vars
<1>4. ASSUME NEW b \in Branches, Edit(b)
      PROVE  ChainInv'
  <2> DEFINE fork == IF IsOpen(b) THEN branch[b] ELSE [base |-> main, tree |-> main]
             Edited(rows, context) == [fork.tree EXCEPT !.rows = rows, !.context = context]
  <2>1. PICK rows \in Rows, context \in Contexts : SetTree(b, fork.base, Edited(rows, context))
    BY <1>4 DEF Edit
  <2>2. fork.tree \in Trees /\ TracksMain(fork.tree.doc)
    BY <1>1
  <2>3. Edited(rows, context).doc = fork.tree.doc
    BY <2>2 DEF Trees
  <2> HIDE DEF fork, Edited
  <2>4. QED
    BY <1>4, <2>1, <2>2, <2>3, TreeTracks DEF Edit
<1>5. ASSUME NEW b \in Branches, Publish(b)
      PROVE  ChainInv'
  <2> DEFINE tree == branch[b].tree
  <2>1. PICK chain \in {tree.doc, main.doc} :
          \E doc \in Published(tree, main.rows, chain, agents) :
            SetTree(b, branch[b].base, [tree EXCEPT !.doc = doc])
    BY <1>5 DEF Publish
  <2>2. PICK doc \in Published(tree, main.rows, chain, agents) :
          SetTree(b, branch[b].base, [tree EXCEPT !.doc = doc])
    BY <2>1
  <2>3. chain \in Documents /\ TracksMain(chain)
    BY <1>1
  <2>4. TracksMain(doc)
    BY <1>1, <2>2, <2>3, PublishedTracks
  <2>5. [tree EXCEPT !.doc = doc].doc = doc
    BY <1>1 DEF Trees
  <2>6. QED
    BY <1>5, <2>2, <2>4, <2>5, TreeTracks DEF Publish
<1>6. ASSUME NEW b \in Branches, AgentReads(b)
      PROVE  ChainInv'
  BY <1>2, <1>6 DEF AgentReads
<1>7. ASSUME NEW b \in Branches, Refresh(b)
      PROVE  ChainInv'
  <2> DEFINE Fresh(rows, context) == [rows |-> rows, context |-> context, doc |-> main.doc]
  <2>1. PICK rows \in Rows, context \in {main.context, branch[b].tree.context} :
          \E doc \in Published(Fresh(rows, context), main.rows, main.doc, {}) :
            SetTree(b, main, [Fresh(rows, context) EXCEPT !.doc = doc])
    BY <1>7 DEF Refresh
  <2>2. PICK doc \in Published(Fresh(rows, context), main.rows, main.doc, {}) :
          SetTree(b, main, [Fresh(rows, context) EXCEPT !.doc = doc])
    BY <2>1
  <2>3. Fresh(rows, context) \in Trees
    BY <1>1, <2>1 DEF Trees
  <2>4. [Fresh(rows, context) EXCEPT !.doc = doc].doc = doc
    OBVIOUS
  <2> HIDE DEF Fresh
  <2>5. TracksMain(doc)
    BY <1>1, <2>2, <2>3, PublishedTracks
  <2>6. QED
    BY <1>7, <2>2, <2>4, <2>5, TreeTracks DEF Refresh
<1>8. ASSUME NEW b \in Branches, MergeMain(b)
      PROVE  ChainInv'
  <2>1. PICK rows \in Rows, context \in {main.context, branch[b].tree.context},
             doc \in {main.doc, branch[b].tree.doc} :
          SetTree(b, main, [rows |-> rows, context |-> context, doc |-> doc])
    BY <1>8 DEF MergeMain
  <2>2. TracksMain(doc)
    BY <1>1
  <2>3. QED
    BY <1>8, <2>1, <2>2, TreeTracks DEF MergeMain
<1>9. ASSUME NEW b \in Branches, Bridge(b)
      PROVE  ChainInv'
  <2> DEFINE doc == Bridged(Backfill(Older, agents), main.doc)
  <2>1. TracksMain(doc)
    BY <1>1, <1>9, BridgedTracks DEF Bridge
  <2>2. SetTree(b, main, [main EXCEPT !.doc = doc])
    BY <1>9 DEF Bridge
  <2> HIDE DEF doc
  <2>3. [main EXCEPT !.doc = doc].doc = doc
    BY <1>1 DEF Trees
  <2>4. QED
    BY <1>9, <2>1, <2>2, <2>3, TreeTracks DEF Bridge
<1>10. ASSUME NEW b \in Branches, Land(b)
       PROVE  ChainInv'
  BY <1>10, LandTracks
<1>11. ASSUME NEW b \in Branches, Close(b)
       PROVE  ChainInv'
  <2>1. branch' = [branch EXCEPT ![b] = Closed] /\ main' = main /\ history' = history
    BY <1>11 DEF Close
  <2>2. TracksMain(Start.doc)
    BY StartTracks
  <2>3. ASSUME NEW c \in Branches
        PROVE  Begins(branch'[c].tree.doc) /\ KeepsPace(branch'[c].tree.doc, main)
    <3>1. branch'[c].tree = IF c = b THEN Start ELSE branch[c].tree
      BY <2>1 DEF TypeOK, Closed
    <3>2. QED
      BY <1>1, <2>2, <3>1 DEF TracksMain
  <2>4. QED
    BY <2>1, <2>3 DEF ChainInv, TracksMain
<1>12. QED
  BY <1>3, <1>4, <1>5, <1>6, <1>7, <1>8, <1>9, <1>10, <1>11 DEF Next

LEMMA ChainInit == Init => ChainInv
<1> SUFFICES ASSUME Init
             PROVE  ChainInv
  OBVIOUS
<1>1. main = Start /\ Len(history) = 1
  BY DEF Init
<1>2. ChangesUpTo(history, 1) = 0
  <2>1. ChangesIn(history, 1) = {}
    BY DEF ChangesIn
  <2>2. QED
    BY <2>1, ChangesFinite, FS_EmptySet
<1>3. ReadsAll(Start.doc, history)
  BY <1>1, <1>2, StartChain DEF ReadsAll, AreReadAfter
<1>4. TracksMain(Start.doc)
  BY <1>1, StartChain DEF TracksMain, Begins, KeepsPace
<1>5. \A b \in Branches : branch[b].tree.doc = Start.doc
  BY DEF Init, Closed
<1>6. QED
  BY <1>1, <1>3, <1>4, <1>5 DEF ChainInv, TracksMain

LEMMA ChainIs == TypeOK /\ IndInv /\ ChainInv => ChainIsHistory
<1> SUFFICES ASSUME TypeOK, IndInv, ChainInv
             PROVE  ChainIsHistory
  OBVIOUS
<1> DEFINE reads == main.doc.reads
           older == ChangesUpTo(Older, Len(Older))
           since == ChangesUpTo(history, Len(history))
<1>1. Len(reads) \in Nat /\ Lead(main.doc) \in Nat /\ OwnReads(main.doc) = Len(reads) - Lead(main.doc)
  BY MainFacts, DocumentType, LeadType DEF OwnReads
<1>2. OwnReads(main.doc) = since /\ AreReadAfter(reads, Lead(main.doc), history) /\ Begins(main.doc)
  BY DEF ChainInv, ReadsAll
<1>3. since \in Nat
  BY ChangesFinite DEF IndInv, GateTypeOK
<1> HIDE DEF since
<1>4. CASE main.doc.since.rows = Start.rows
  <2>1. Lead(main.doc) = 0
    BY <1>4 DEF Lead
  <2>2. Len(reads) = since /\ AreReadAfter(reads, 0, history)
    BY <1>1, <1>2, <1>3, <2>1
  <2>3. QED
    BY <2>2 DEF ChainIsHistory, since
<1>5. CASE main.doc.since.rows # Start.rows
  <2>1. /\ Older # <<>> /\ Lead(main.doc) = OlderReads
        /\ \A i \in 1..OlderReads : reads[i].base = Older[i].rows /\ reads[i].head = Older[i + 1].rows
    BY <1>2, <1>5 DEF Begins, Lead
  <2>2. /\ Len(Older) \in Nat /\ Len(Older) \in 1..Len(Older)
        /\ OlderReads = Len(Older) - 1 /\ OlderReads \in Nat
    BY <2>1, PublishAssumption DEF OlderReads
  <2>3. older = OlderReads
    BY <2>2, OlderCounts
  <2> HIDE DEF older, reads
  <2>4. Len(reads) = older + since
    BY <1>1, <1>2, <1>3, <2>1, <2>2, <2>3
  <2>5. ASSUME NEW i \in 2..Len(Older)
        PROVE  /\ reads[0 + ChangesUpTo(Older, i)].base = Older[i - 1].rows
               /\ reads[0 + ChangesUpTo(Older, i)].head = Older[i].rows
    <3>1. i \in 1..Len(Older) /\ i - 1 \in 1..OlderReads /\ (i - 1) + 1 = i
      BY <2>2
    <3>2. 0 + ChangesUpTo(Older, i) = i - 1
      BY <3>1, OlderCounts
    <3>3. QED
      BY <2>1, <3>1, <3>2
  <2>6. AreReadAfter(reads, 0, Older)
    BY <2>5 DEF AreReadAfter
  <2>7. AreReadAfter(reads, older, history)
    BY <1>2, <2>1, <2>3 DEF reads
  <2>8. QED
    BY <2>4, <2>6, <2>7 DEF ChainIsHistory, older, since, reads
<1>6. QED
  BY <1>4, <1>5

(* Among pull requests of any number, built, refreshed, bridged and landed *)
(* in any order, main's chain holds one read for each change of the rows,  *)
(* in order, after those a bridge put in front: the history of the rows    *)
(* can be read off the chain.  Where Older comes back to its last rows,    *)
(* bridged can put it in front twice, and this fails.                      *)
THEOREM ChainTellsHistory ==
  ASSUME OlderMeetsOnce
  PROVE  Spec => []ChainIsHistory
<1>1. Init => ChainInv
  BY ChainInit
<1>2. TypeOK /\ IndInv /\ ChainInv /\ [Next]_vars => ChainInv'
  BY ChainStep
<1>3. Spec => []IndInv
  BY PublishByGate, Invariant, PTL
<1>4. Spec => []ChainInv
  BY <1>1, <1>2, <1>3, PublishTypeCorrect, PTL DEF Spec
<1>5. QED
  BY <1>3, <1>4, PublishTypeCorrect, ChainIs, PTL

=============================================================================
