---------------------------- MODULE AuthorThread ----------------------------
(***************************************************************************)
(* The author's turns over one Codex thread (runtime_adapters.py:          *)
(* SandboxedCodexAuthorAdapter.turn): the first turn starts a thread, every*)
(* later one resumes it; after each, the adapter reads from the rollout    *)
(* the CLI left which turn that was and with which selection it ran,       *)
(* reconciles the credential the CLI may have refreshed, learns every      *)
(* generation before the attempt is retained, and only then lets an error  *)
(* or the turn out.                                                        *)
(*                                                                         *)
(* The CLI writes its rollout line by line, may rewrite what it wrote      *)
(* before, may fork the thread, leave other files beside the rollout,      *)
(* refresh its credential, stop in the middle of a line, and say on stdout *)
(* anything CodexStream lets through.                                      *)
(***************************************************************************)
EXTENDS CodexRollout, FiniteSets, AgentTurn

CONSTANTS Requested, \* the selection every turn is asked to run with
          Attest,    \* is a selection requested at all?
          MayFail,   \* bound: the calls of the adapter that may fail
          Beside,    \* bound: what the CLI may leave beside a rollout
          MaxTurn,   \* bound: turns asked for
          MaxLine,   \* bound: lines of the rollouts, together
          MaxGen,    \* bound: credential generations issued
          MaxEvent   \* max_events, the events of one turn on stdout

ASSUME RequestedAssumption == Requested \in Selection
ASSUME AttestAssumption == Attest \in BOOLEAN
ASSUME BoundAssumption ==
  /\ MayFail \subseteq {"refresh", "reconcile", "sink", "client", "persist"}
  /\ Beside \subseteq {"twin", "compressed", "foreign"}
  /\ MaxTurn \in Nat \ {0} /\ MaxLine \in Nat \ {0} /\ MaxGen \in Nat /\ MaxEvent \in Nat \ {0}

VARIABLES
  memory,    \* _rollout_thread_id, _rollout_turn_ids, _rollout_prefix_witness
  asked,     \* request.thread_id
  rollout,   \* the rollout of each thread in CODEX_HOME/sessions
  torn,      \* the CLI's last line is not finished
  beside,    \* what else lies in sessions
  cli,       \* the thread the CLI works on
  said,      \* result: what the client made of the CLI's stdout
  evidence,  \* rollout_turn_ids and rollout_prefix_witness of this turn
  captured,  \* the executor returned
  held,      \* the errors held back until everything was tried
  returned   \* history: the turns given to the loop

session == <<rollout, torn, beside, cli>>
turn == <<asked, said, evidence, captured, held>>
vars == <<pc, memory, turn, session, credential, retained, returned, outcome>>

Errors == {"refresh", "reconcile", "sink", "client"}
Fresh == [thread |-> None, turns |-> <<>>, prefix |-> None]
Result == [thread : Thread, sel : Selection \cup {None}]
NoEvidence == [turns |-> <<>>, sel |-> None, lines |-> None]
Proof == [turns : Seq(Turn), sel : Selection \cup {None}, lines : Seq(Line) \cup {None}]

TypeOK ==
  /\ pc \in {"idle", "launch", "run", "attach", "reconcile", "refresh", "sink", "decide", "over"}
  /\ memory \in [thread : Thread \cup {None}, turns : Seq(Turn), prefix : Seq(Line) \cup {None}]
  /\ asked \in Thread \cup {None}
  /\ rollout \in [Thread -> Seq(Line) \cup {None}]
  /\ torn \in BOOLEAN
  /\ beside \subseteq Beside
  /\ cli \in Thread \cup {None}
  /\ said \in Result \cup {None}
  /\ evidence \in Proof
  /\ captured \in BOOLEAN
  /\ held \subseteq Errors
  /\ gen \in 0 .. MaxGen /\ settled \in 0 .. MaxGen /\ known \in 0 .. MaxGen
  /\ retained \in BOOLEAN
  /\ returned \in Seq(Result)
  /\ outcome \in {"none", "inconsistent", "author_timeout"} \cup Errors \cup {"persist"}

Init ==
  /\ pc = "idle" /\ memory = Fresh
  /\ asked = None /\ said = None /\ evidence = NoEvidence /\ captured = FALSE /\ held = {}
  /\ rollout = [th \in Thread |-> None] /\ torn = FALSE /\ beside = {} /\ cli = None
  /\ gen = 0 /\ settled = 0 /\ known = 0
  /\ retained = FALSE /\ returned = <<>> /\ outcome = "none"

------------------------------------------------------------------------------
Fail(why) == pc' = "over" /\ outcome' = why

\* The loop resumes the thread its last turn told it.
Wanted == IF returned = <<>> THEN None ELSE LastOf(returned).thread

Consistent(thread) ==
  Attest => IF thread = None THEN memory = Fresh
            ELSE memory.thread = thread /\ memory.turns # <<>> /\ memory.prefix # None

Ask ==
  /\ pc = "idle" /\ Len(returned) < MaxTurn
  /\ asked' = Wanted
  /\ said' = None /\ evidence' = NoEvidence /\ captured' = FALSE /\ held' = {}
  /\ retained' = FALSE
  /\ \/ Consistent(Wanted) /\ pc' = "launch" /\ UNCHANGED outcome
     \/ ~Consistent(Wanted) /\ Fail("inconsistent")
  /\ UNCHANGED <<memory, session, credential, returned>>

\* The ledger learns the generation the CLI is about to be given; then the deadline is
\* looked at, the command line is built, and the CLI starts: a first turn on a thread
\* of its own choice, a resumed one on the thread it was told, unless it forks.
Launch ==
  /\ pc = "launch"
  /\ \/ /\ "refresh" \in MayFail /\ Fail("refresh")
        /\ UNCHANGED <<cli, known, held>>
     \/ /\ "client" \in MayFail
        /\ known' = gen
        /\ Fail("author_timeout")
        /\ UNCHANGED <<cli, held>>
     \/ /\ "client" \in MayFail
        /\ known' = gen
        /\ held' = {"client"} /\ pc' = "decide"
        /\ UNCHANGED <<cli, outcome>>
     \/ /\ known' = gen
        /\ cli' \in {th \in Thread : rollout[th] = None \/ th = asked}
        /\ pc' = "run"
        /\ UNCHANGED <<held, outcome>>
  /\ UNCHANGED <<memory, asked, said, evidence, captured, rollout, torn, beside, gen, settled,
                 retained, returned>>

------------------------------------------------------------------------------
\* The CLI, while it runs.
LinesOf(th) == IF rollout[th] = None THEN <<>> ELSE rollout[th]
Written == LinesOf(cli)
Elsewhere(th) == \A other \in Thread \ {th} : Len(LinesOf(other)) + Len(Written) < MaxLine

Running ==
  /\ pc = "run"
  /\ UNCHANGED <<pc, memory, turn, cli, settled, known, retained, returned, outcome>>

\* A line more.  What follows a line that is refused is never read.
WriteLine ==
  /\ Running /\ ~torn
  /\ Len(Written) < MaxLine /\ Elsewhere(cli)
  /\ Scan(cli, Written) # None
  /\ \E line \in Line : rollout' = [rollout EXCEPT ![cli] = Append(Written, line)]
  /\ UNCHANGED <<torn, beside, gen>>

\* A line of which only the beginning reaches the file.
TearLine ==
  /\ Running /\ ~torn /\ Written # <<>>
  /\ torn' = TRUE
  /\ UNCHANGED <<rollout, beside, gen>>

\* The accepted lines are rewritten: one of them is gone.
Rewrite ==
  /\ Running /\ ~torn
  /\ rollout[cli] # None /\ cli = memory.thread /\ rollout[cli] = memory.prefix
  /\ \E i \in 1 .. Len(Written) :
       rollout' = [rollout EXCEPT ![cli] = SubSeq(@, 1, i - 1) \o SubSeq(@, i + 1, Len(@))]
  /\ UNCHANGED <<torn, beside, gen>>

LeaveBeside ==
  /\ Running /\ beside = {}
  /\ \E entry \in Beside : beside' = {entry}
  /\ UNCHANGED <<rollout, torn, gen>>

Rotate ==
  /\ Running /\ gen < MaxGen
  /\ gen' = gen + 1
  /\ UNCHANGED <<rollout, torn, beside>>

CliStep == WriteLine \/ TearLine \/ Rewrite \/ LeaveBeside \/ Rotate

Stream == INSTANCE CodexStream WITH Fact <- Selection

\* The CLI is over.  The client refuses what it said, or another thread than the one
\* it resumed, or has a result.
CliEnds ==
  /\ pc = "run"
  /\ \/ /\ "client" \in MayFail
        /\ captured' \in BOOLEAN
        /\ held' = {"client"} /\ pc' = "reconcile"
        /\ UNCHANGED said
     \/ /\ captured' = TRUE
        /\ \E result \in Result :
             /\ asked # None => result.thread = asked
             /\ said' = result
        /\ pc' = IF Attest THEN "attach" ELSE "reconcile"
        /\ UNCHANGED held
  /\ UNCHANGED <<memory, asked, evidence, session, credential, retained, returned, outcome>>

------------------------------------------------------------------------------
\* Exactly one rollout of this thread, nothing unknown beside it; a compressed one is
\* looked at and left alone.
Found(thread) == rollout[thread] # None /\ beside \cap {"twin", "foreign"} = {}

Torn(thread) == torn /\ thread = cli

Witness ==
  IF asked = None THEN [turns |-> <<>>, lines |-> <<>>]
  ELSE [turns |-> memory.turns, lines |-> memory.prefix]

\* Mutant: the selection of the rollout is recorded, not compared with the request.
AttestedUnasked(result) ==
  LET lines == rollout[result.thread] IN
  /\ Found(result.thread)
  /\ Accepts(result.thread, Witness, lines, Torn(result.thread))
  /\ result.sel \in {None, Evidence(result.thread, lines).sel}

\* attach_codex_rollout_selection: the rollout, stdout and the request agree.
Attested(result) ==
  LET lines == rollout[result.thread] IN
  /\ Found(result.thread)
  /\ Accepts(result.thread, Witness, lines, Torn(result.thread))
  /\ Evidence(result.thread, lines).sel = Requested
  /\ result.sel \in {None, Requested}

\* A result that is refused is not looked at again.
Attach ==
  /\ pc = "attach" /\ pc' = "reconcile"
  /\ \/ /\ Attested(said)
        /\ evidence' = Evidence(said.thread, rollout[said.thread])
        /\ said' = [said EXCEPT !.sel = Requested]
        /\ UNCHANGED held
     \/ /\ ~Attested(said)
        /\ held' = held \cup {"client"}
        /\ said' = None /\ UNCHANGED evidence
  /\ UNCHANGED <<memory, asked, captured, session, credential, retained, returned, outcome>>

\* Mutant: the attempt is retained first.
ReconcileLate ==
  /\ pc = "reconcile" /\ pc' = "refresh"
  /\ gen' \in {g \in gen .. gen + 1 : g <= MaxGen}
  /\ \/ settled' = gen' /\ UNCHANGED held
     \/ "reconcile" \in MayFail /\ held' = held \cup {"reconcile"} /\ UNCHANGED settled
  /\ retained' = captured
  /\ UNCHANGED <<memory, asked, said, evidence, captured, session, known, returned, outcome>>

\* reconcile_after_turn: its status probe may refresh the credential once more.
Reconcile ==
  /\ pc = "reconcile" /\ pc' = "refresh"
  /\ gen' \in {g \in gen .. gen + 1 : g <= MaxGen}
  /\ \/ settled' = gen' /\ UNCHANGED held
     \/ "reconcile" \in MayFail /\ held' = held \cup {"reconcile"} /\ UNCHANGED settled
  /\ UNCHANGED <<memory, asked, said, evidence, captured, session, known, retained, returned,
                 outcome>>

Refresh ==
  /\ pc = "refresh" /\ pc' = "sink"
  /\ \/ known' = gen /\ UNCHANGED held
     \/ "refresh" \in MayFail /\ held' = held \cup {"refresh"} /\ UNCHANGED known
  /\ UNCHANGED <<memory, asked, said, evidence, captured, session, gen, settled, retained,
                 returned, outcome>>

\* The sink asks the ledger once more before it screens and writes.
Sink ==
  /\ pc = "sink" /\ pc' = "decide"
  /\ \/ /\ captured /\ "refresh" \notin held
        /\ \/ known' = gen /\ retained' = TRUE /\ UNCHANGED held
           \/ "sink" \in MayFail /\ held' = held \cup {"sink"} /\ UNCHANGED <<known, retained>>
     \/ /\ ~captured \/ "refresh" \in held
        /\ UNCHANGED <<known, retained, held>>
  /\ UNCHANGED <<memory, asked, said, evidence, captured, session, gen, settled, returned,
                 outcome>>

FirstOf(errors) ==
  IF "refresh" \in errors THEN "refresh" ELSE IF "reconcile" \in errors THEN "reconcile"
  ELSE IF "sink" \in errors THEN "sink" ELSE "client"

Raise ==
  /\ pc = "decide" /\ held # {}
  /\ Fail(FirstOf(held))
  /\ UNCHANGED <<memory, turn, session, credential, retained, returned>>

\* Mutant: the result is remembered in the place of its thread.
RememberResult ==
  memory' = IF evidence = NoEvidence THEN memory
            ELSE [thread |-> said, turns |-> evidence.turns, prefix |-> evidence.lines]

Remember ==
  memory' = IF evidence = NoEvidence THEN memory
            ELSE [thread |-> said.thread, turns |-> evidence.turns, prefix |-> evidence.lines]

\* The exported blobs are kept, and the turn is the loop's.
Return ==
  /\ pc = "decide" /\ held = {}
  /\ \/ /\ Remember
        /\ returned' = Append(returned, said)
        /\ pc' = "idle" /\ UNCHANGED outcome
     \/ "persist" \in MayFail /\ Fail("persist") /\ UNCHANGED <<memory, returned>>
  /\ UNCHANGED <<turn, session, credential, retained>>

\* The loop asks for no further turn: after a failure, or at the bound.
Over ==
  /\ pc = "over" \/ (pc = "idle" /\ Len(returned) = MaxTurn)
  /\ UNCHANGED vars

Step == Ask \/ Launch \/ CliEnds \/ Attach \/ Reconcile \/ Refresh \/ Sink \/ Raise \/ Return
Next == Step \/ CliStep \/ Over

Spec == Init /\ [][Next]_vars

------------------------------------------------------------------------------
(***************************************************************************)
(* Properties.                                                             *)
(***************************************************************************)
\* parse_codex_rollout_selection takes a rollout exactly if it is one of whole turns,
\* all of them in one piece, that keeps the accepted bytes and tells one turn more; and
\* what it reports is that turn and its selection.
TakesExactly(thread, lines) ==
  LET turns == TurnsOf(lines)
      earlier == Witness.turns
  IN /\ Accepts(thread, Witness, lines, Torn(thread)) <=>
          /\ ~Torn(thread)
          /\ StartsWith(lines, Witness.lines)
          /\ Whole(thread, lines)
          /\ Len(turns) = Len(earlier) + 1 /\ StartsWith(turns, earlier)
     /\ Accepts(thread, Witness, lines, Torn(thread)) =>
          /\ Evidence(thread, lines).turns = turns
          /\ Evidence(thread, lines).sel = SelectionOf(lines, LastOf(turns))

\* And a rollout that is cut off at the end of a line is never taken for a turn that the
\* whole of it does not tell as well: what is reported does not depend on how much of
\* the closing lines has reached the file.
CutNeverCounts(thread, lines) ==
  \A k \in 1 .. Len(lines) - 1 :
    LET cut == SubSeq(lines, 1, k) IN
    Accepts(thread, Witness, lines, FALSE) /\ Accepts(thread, Witness, cut, FALSE) =>
      /\ Evidence(thread, cut).turns = Evidence(thread, lines).turns
      /\ Evidence(thread, cut).sel = Evidence(thread, lines).sel

RolloutExact ==
  pc = "attach" /\ rollout[said.thread] # None =>
    /\ TakesExactly(said.thread, rollout[said.thread])
    /\ CutNeverCounts(said.thread, rollout[said.thread])

\* Every turn the loop was given is a whole turn of the one thread's rollout, in order,
\* and ran with the requested selection.
EveryTurnAttested ==
  Attest =>
    /\ Len(returned) = Len(memory.turns)
    /\ \A i \in 1 .. Len(returned) : returned[i] = [thread |-> memory.thread, sel |-> Requested]
    /\ returned # <<>> =>
         /\ Whole(memory.thread, memory.prefix)
         /\ TurnsOf(memory.prefix) = memory.turns
         /\ \A i \in 1 .. Len(memory.turns) :
              SelectionOf(memory.prefix, memory.turns[i]) = Requested

\* The accepted past is only ever extended, by one turn at a time, on the same thread.
PastIsKept ==
  [][memory' # memory =>
       /\ Len(memory'.turns) = Len(memory.turns) + 1
       /\ StartsWith(memory'.turns, memory.turns)
       /\ memory # Fresh => /\ memory'.thread = memory.thread
                            /\ StartsWith(memory'.prefix, memory.prefix)]_vars

\* A thread that was accepted can always be resumed: the adapter's own memory never
\* contradicts the request the loop makes of it.
ResumeIsConsistent == outcome # "inconsistent"

\* The adapter retains an attempt only when every generation of the credential that exists
\* by the end of the turn was known, those of the status probe included; and a turn the
\* loop gets left none behind that was not reconciled, and its attempt is on disk.
RetainedKnowsAll == retained => known = gen
ReturnedIsSettled ==
  pc = "idle" /\ returned # <<>> => settled = gen /\ known = gen /\ retained
TurnsAreSettled == RetainedKnowsAll /\ ReturnedIsSettled

\* What happened to the credential is never hidden behind what the CLI did.
CredentialSpeaksFirst ==
  pc = "over" /\ held \cap {"refresh", "reconcile"} # {} => outcome \in {"refresh", "reconcile"}

\* The client's two parsers of stdout are exact, agree, and let failures speak; and CliEnds
\* offers the adapter what they can return, no more and no less.
StreamExact ==
  pc = "idle" /\ returned = <<>> =>
    LET streams == Stream!Streams IN
    /\ Stream!Exact(streams)
    /\ \A wanted \in Thread \cup {None} :
         Stream!Results(streams, wanted) =
           {result \in Result : wanted # None => result.thread = wanted}
=============================================================================
