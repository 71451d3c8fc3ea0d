------------------------------- MODULE F5Reads -------------------------------
(***************************************************************************)
(* The F5 reads of emergency-line changes and the chain that publishes     *)
(* them, generated/ocd-dataset/f5-reads.json, with the rules of            *)
(* tools/f5_read.py about both.                                            *)
(*                                                                         *)
(* Rows stands for the SHA-256 of an APN file's rows.  Lines gives the     *)
(* emergency lines between two files; it is the phone-level comparison of  *)
(* check_phone_guard.py, of which only the outcome matters here.  A        *)
(* context is what the rules read besides the rows: the carrier list, the  *)
(* stated rows, and the tool itself, whose RULES_VERSION RulesOf gives.    *)
(* Held are the lines that its rules hold.                                 *)
(***************************************************************************)
EXTENDS Integers, Sequences, FiniteSets, FiniteSetsExt, SequencesExt

CONSTANTS
  Rows,      \* APN rows, by their SHA-256
  AllLines,  \* emergency lines
  Lines,     \* [Rows -> [Rows -> SUBSET AllLines]]
  Contexts,  \* checkouts the rules may read
  Held,      \* [Contexts -> SUBSET AllLines]
  RulesOf    \* [Contexts -> Nat]

ASSUME LinesAssumption ==
  /\ Lines \in [Rows -> [Rows -> SUBSET AllLines]]
  /\ \A r \in Rows : Lines[r][r] = {}
  /\ Held \in [Contexts -> SUBSET AllLines]
  /\ RulesOf \in [Contexts -> Nat]

Verdicts == {"proceed", "hold", "no_lines"}

Methods == {"deterministic", "agent"}

(* A read; its findings are the lines it holds.                            *)
Reads ==
  [base : Rows, head : Rows, lines : SUBSET AllLines, held : SUBSET AllLines,
   verdict : Verdicts, method : Methods, rules : Nat]

(* since names the rows the chain starts at, and whether it names a commit.*)
Documents ==
  [since : [named : BOOLEAN, rows : Rows], rows : Rows, reads : Seq(Reads)]

Trees == [rows : Rows, context : Contexts, doc : Documents]

-----------------------------------------------------------------------------
(* read_files: the read of a change, with the head's checkout.             *)

VerdictOf(lines, held) ==
  CASE lines = {}               -> "no_lines"
    [] lines # {} /\ held = {}  -> "proceed"
    [] OTHER                    -> "hold"

ReadFiles(base, head, context) ==
  LET lines == Lines[base][head]
      held  == lines \intersect Held[context]
  IN  [base |-> base, head |-> head, lines |-> lines, held |-> held,
       verdict |-> VerdictOf(lines, held), method |-> "deterministic",
       rules |-> RulesOf[context]]

Passes(read) == read.verdict \in {"proceed", "no_lines"}

(* with_agent_read: an agent's proceed read of exactly these lines stands  *)
(* in for a held read; agents are the sets of lines agents have passed.    *)
WithAgentRead(read, agents) ==
  IF read.verdict = "hold" /\ read.lines \in agents
  THEN [read EXCEPT !.method = "agent", !.verdict = "proceed"]
  ELSE read

-----------------------------------------------------------------------------
(* read_problems and file_problems: the chain's own rules, with the        *)
(* checkout's tool.                                                        *)

(* Mutant: a read of another version of the rules stays valid.             *)
ReadValidUnversioned(read, context) ==
  /\ read.verdict = "no_lines" <=> read.lines = {}
  /\ read.method = "deterministic" =>
       /\ read.held \subseteq read.lines
       /\ read.verdict = VerdictOf(read.lines, read.held)

ReadValid(read, context) ==
  /\ read.verdict = "no_lines" <=> read.lines = {}
  /\ read.method = "deterministic" =>
       /\ read.held \subseteq read.lines
       /\ read.verdict = VerdictOf(read.lines, read.held)
       /\ read.rules = RulesOf[context]

(* The rows before read i.                                                 *)
StandsAt(doc, i) == IF i = 1 THEN doc.since.rows ELSE doc.reads[i - 1].head

(* Mutant: the chain may end at other rows than the checkout's.            *)
FileValidUntied(doc, rows, context) ==
  /\ \A i \in DOMAIN doc.reads :
       /\ ReadValid(doc.reads[i], context)
       /\ doc.reads[i].base = StandsAt(doc, i)
       /\ doc.reads[i].base # doc.reads[i].head
  /\ doc.rows = StandsAt(doc, Len(doc.reads) + 1)

FileValid(doc, rows, context) ==
  /\ \A i \in DOMAIN doc.reads :
       /\ ReadValid(doc.reads[i], context)
       /\ doc.reads[i].base = StandsAt(doc, i)
       /\ doc.reads[i].base # doc.reads[i].head
  /\ doc.rows = StandsAt(doc, Len(doc.reads) + 1)
  /\ doc.rows = rows

-----------------------------------------------------------------------------
(* chain_path: back from the last read that leads to END to the next read  *)
(* that starts at START, as the indices of the reads on the way.           *)

EndsAt(doc, end) == {i \in DOMAIN doc.reads : doc.reads[i].head = end}

StartsAt(doc, start, last) ==
  {i \in DOMAIN doc.reads : doc.reads[i].base = start /\ i <= last}

HasPath(doc, start, end) ==
  \/ start = end
  \/ /\ EndsAt(doc, end) # {}
     /\ StartsAt(doc, start, Max(EndsAt(doc, end))) # {}

ChainPath(doc, start, end) ==
  IF start = end THEN {}
  ELSE LET last == Max(EndsAt(doc, end))
       IN  {i \in 1..last : \A k \in StartsAt(doc, start, last) : k <= i}

(* path_verdict with the full gate.                                        *)
Takes(doc, start, end) ==
  /\ HasPath(doc, start, end)
  /\ \A i \in ChainPath(doc, start, end) : Passes(doc.reads[i])

-----------------------------------------------------------------------------
(* append_read, and bridged: the reads of older changes in front.          *)

Appends(doc, read) == doc.rows = read.base

AppendRead(doc, read) ==
  [doc EXCEPT !.reads = Append(@, read), !.rows = read.head]

Bridges(bridge, chain) == bridge.rows = chain.since.rows

Bridged(bridge, chain) ==
  [chain EXCEPT !.since = bridge.since, !.reads = bridge.reads \o @]

(* bridge_problems: the base's reads stand unchanged at the end.           *)
IsBridge(base, head) ==
  LET added == Len(head.reads) - Len(base.reads)
  IN  /\ added > 0
      /\ base.reads # <<>>
      /\ SubSeq(head.reads, added + 1, Len(head.reads)) = base.reads
      /\ head.since.named
      /\ \A i \in 1..added : Passes(head.reads[i])

(* Mutant: a chain that starts where the base's does counts as its         *)
(* extension.                                                              *)
ExtendsStart(base, head) == head.since = base.since

Extends(base, head) ==
  /\ head.since = base.since
  /\ IsPrefix(base.reads, head.reads)

-----------------------------------------------------------------------------
(* check: the tree that lands against the tree it lands on.                *)

(* Mutant: the published verdict is taken as it is.                        *)
TakesPublished(base, head) ==
  LET path == ChainPath(head.doc, base.rows, head.doc.rows)
  IN  /\ HasPath(head.doc, base.rows, head.doc.rows)
      /\ \E i \in path : path = {i} /\ Passes(head.doc.reads[i])

(* A change of the rows has exactly one read, and rereading gives it.      *)
ChangeRead(base, head) ==
  LET path  == ChainPath(head.doc, base.rows, head.doc.rows)
      again == ReadFiles(base.rows, head.rows, head.context)
  IN  /\ HasPath(head.doc, base.rows, head.doc.rows)
      /\ \E i \in path :
           LET read == head.doc.reads[i]
           IN  /\ path = {i}
               /\ read.lines = again.lines
               /\ read.method = "deterministic" => read.held = again.held
               /\ read.verdict # "hold"

(* The unit tests that validate runs on the tree that lands: no read of    *)
(* the chain is held.                                                      *)
NoneHeld(doc) == \A i \in DOMAIN doc.reads : Passes(doc.reads[i])

Check(base, head) ==
  /\ FileValid(head.doc, head.rows, head.context)
  /\ NoneHeld(head.doc)
  /\ Extends(base.doc, head.doc) \/ IsBridge(base.doc, head.doc)
  /\ base.rows # head.rows => ChangeRead(base, head)

=============================================================================
