---------------------------- MODULE CodexRollout ----------------------------
(***************************************************************************)
(* The rollout the Codex CLI keeps of a thread, and the parser that takes  *)
(* from it which model and effort a turn ran with (codex_client.py:        *)
(* parse_codex_rollout_selection).  A rollout is a sequence of lines; a    *)
(* line is what the parser tells apart, and a line refused for what it is  *)
(* (malformed, of an unknown kind, an aborted turn, a rolled back thread,  *)
(* forbidden instructions) is one value.  Model and effort are handled     *)
(* alike, so a selection is one value that stands for the two.             *)
(***************************************************************************)
EXTENDS Integers, Sequences

CONSTANTS Thread, Turn, Selection,
          None          \* Python's None

ASSUME NoneAssumption == None \notin Thread \cup Turn \cup Selection

Meta(th) == [kind |-> "meta", thread |-> th]
Started(t) == [kind |-> "started", turn |-> t]
Context(t, sel) == [kind |-> "context", turn |-> t, sel |-> sel]
Complete(t) == [kind |-> "complete", turn |-> t]
Other == [kind |-> "other"]
Rejected == [kind |-> "rejected"]

Line ==
  {Meta(th) : th \in Thread} \cup {Started(t) : t \in Turn} \cup {Complete(t) : t \in Turn}
    \cup {Context(t, sel) : t \in Turn, sel \in Selection} \cup {Other, Rejected}

LastOf(s) == s[Len(s)]
StartsWith(s, p) == Len(p) <= Len(s) /\ SubSeq(s, 1, Len(p)) = p

------------------------------------------------------------------------------
(***************************************************************************)
(* The parser: what it knows after some lines, and what each line adds.    *)
(***************************************************************************)
Nothing ==
  [opened |-> FALSE, sel |-> [t \in Turn |-> None], distinct |-> <<>>, completed |-> <<>>,
   started |-> {}, active |-> None, contexts |-> 0]

Knowledge ==
  [opened : BOOLEAN, sel : [Turn -> Selection \cup {None}], distinct : Seq(Turn),
   completed : Seq(Turn), started : SUBSET Turn, active : Turn \cup {None}, contexts : Nat]

ASSUME KnowledgeAssumption == None \notin Knowledge

\* Mutant: a task may start while another is active.
RefusesNestedTurn(thread, known, line) ==
  \/ line.kind = "rejected"
  \/ ~known.opened /\ line # Meta(thread)
  \/ known.opened /\ line.kind = "meta"
  \/ line.kind = "started" /\ line.turn \in known.started
  \/ line.kind = "complete" /\ (known.active # line.turn \/ known.contexts = 0)
  \/ /\ line.kind = "context"
     /\ \/ known.active # line.turn
        \/ known.sel[line.turn] \notin {None, line.sel}

Refuses(thread, known, line) ==
  \/ line.kind = "rejected"
  \/ ~known.opened /\ line # Meta(thread)
  \/ known.opened /\ line.kind = "meta"
  \/ line.kind = "started" /\ (known.active # None \/ line.turn \in known.started)
  \/ line.kind = "complete" /\ (known.active # line.turn \/ known.contexts = 0)
  \/ /\ line.kind = "context"
     /\ \/ known.active # line.turn
        \/ known.sel[line.turn] \notin {None, line.sel}
        \/ /\ known.sel[line.turn] # None
           /\ known.distinct = <<>> \/ LastOf(known.distinct) # line.turn

Learn(known, line) ==
  CASE line.kind = "meta" -> [known EXCEPT !.opened = TRUE]
    [] line.kind = "started" ->
         [known EXCEPT !.active = line.turn, !.contexts = 0, !.started = @ \cup {line.turn}]
    [] line.kind = "complete" ->
         [known EXCEPT !.active = None, !.contexts = 0, !.completed = Append(@, line.turn)]
    [] line.kind = "context" /\ known.sel[line.turn] = None ->
         [known EXCEPT !.contexts = @ + 1, !.sel[line.turn] = line.sel,
                       !.distinct = Append(@, line.turn)]
    [] line.kind = "context" /\ known.sel[line.turn] # None ->
         [known EXCEPT !.contexts = @ + 1]
    [] OTHER -> known

\* None once a line was refused.
Scan(thread, lines) ==
  LET known[i \in 0 .. Len(lines)] ==
        IF i = 0 THEN Nothing
        ELSE LET before == known[i - 1]
             IN IF before = None \/ Refuses(thread, before, lines[i]) THEN None
                ELSE Learn(before, lines[i])
  IN known[Len(lines)]

\* A rollout a scan is satisfied with: whole turns, and at least one.
Finished(known) ==
  /\ known # None
  /\ known.opened /\ known.active = None
  /\ known.distinct # <<>> /\ known.distinct = known.completed

\* Mutant: only the turn identifiers are compared.
PreservesIds(witness, lines) == Len(lines) > Len(witness.lines)

\* What the parser is given of the accepted past: the turns and the bytes (whose length
\* and SHA-256 stand for them), none of either before the first turn.
Preserves(witness, lines) ==
  Len(lines) > Len(witness.lines) /\ StartsWith(lines, witness.lines)

Advances(witness, turns) ==
  Len(turns) = Len(witness.turns) + 1 /\ StartsWith(turns, witness.turns)

\* The parser takes these bytes; "torn" says that they do not end in a newline.
Accepts(thread, witness, lines, torn) ==
  /\ ~torn
  /\ Preserves(witness, lines)
  /\ LET known == Scan(thread, lines)
     IN Finished(known) /\ Advances(witness, known.distinct)

Evidence(thread, lines) ==
  LET known == Scan(thread, lines)
  IN [turns |-> known.distinct, sel |-> known.sel[LastOf(known.distinct)], lines |-> lines]

------------------------------------------------------------------------------
(***************************************************************************)
(* What a rollout of whole turns is, said without a parser.                *)
(***************************************************************************)
\* The turns, in the order they start.
TurnsOf(lines) ==
  LET told[i \in 0 .. Len(lines)] ==
        IF i = 0 THEN <<>>
        ELSE IF lines[i].kind = "started" THEN Append(told[i - 1], lines[i].turn)
        ELSE told[i - 1]
  IN told[Len(lines)]

\* A turn from line j to line k: no other starts or ends within, and a context does.
RunsFrom(lines, j, k) ==
  /\ j < k /\ lines[j].kind = "started" /\ lines[k] = Complete(lines[j].turn)
  /\ \A i \in j + 1 .. k - 1 : lines[i].kind \notin {"started", "complete"}
  /\ \E i \in j + 1 .. k - 1 : lines[i].kind = "context"

ContextsOf(lines, t) ==
  {i \in 1 .. Len(lines) : lines[i].kind = "context" /\ lines[i].turn = t}

\* Every line is one the pinned CLI writes of this thread, the turns follow one another
\* and are different, and every turn ran with one selection, told within it.
Whole(thread, lines) ==
  LET At == 1 .. Len(lines) IN
  /\ lines # <<>> /\ lines[1] = Meta(thread)
  /\ \A i \in At \ {1} : lines[i].kind \notin {"meta", "rejected"}
  /\ \E j \in At : lines[j].kind = "started"
  /\ \A j \in At : lines[j].kind = "started" =>
       /\ \A i \in At : lines[i] = lines[j] => i = j
       /\ \E k \in At : RunsFrom(lines, j, k)
  /\ \A k \in At : lines[k].kind = "complete" => \E j \in At : RunsFrom(lines, j, k)
  /\ \A i \in At : lines[i].kind = "context" =>
       /\ \E j, k \in At : RunsFrom(lines, j, k) /\ j < i /\ i < k /\ lines[i].turn = lines[j].turn
       /\ \A l \in ContextsOf(lines, lines[i].turn) : lines[l].sel = lines[i].sel

\* The selection a turn of a whole rollout ran with.
SelectionOf(lines, t) == lines[CHOOSE i \in ContextsOf(lines, t) : TRUE].sel
=============================================================================
