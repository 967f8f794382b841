---------------------------- MODULE CodexStream -----------------------------
(***************************************************************************)
(* What the Codex CLI says on stdout, one JSON event a line, and what the  *)
(* client makes of it once the process is over (codex_client.py:           *)
(* parse_codex_jsonl, _nonzero_codex_jsonl_facts,                          *)
(* classify_codex_process_result).  Two parsers read the same lines: the   *)
(* one of a process that exited with zero, and the lenient one of a process*)
(* that failed, which only says whether the vendor ended the session.      *)
(*                                                                         *)
(* An event is what one of the two tells apart; "misframed" is a line that *)
(* is none (empty, too long, or with a carriage return within), "malformed"*)
(* one neither of them can read, "refused" one that only the first refuses *)
(* for what it is (a reroute, an invalid message, a turn without usage).   *)
(* AuthorThread takes what the client can make of a stream from here.      *)
(***************************************************************************)
EXTENDS Integers, Sequences

CONSTANTS Thread,
          Fact,     \* a model (or an effort) the CLI may report
          None,     \* Python's None
          MaxEvent  \* max_events

Told == Fact \cup {None}
Event ==
  [kind : {"thread"}, thread : Thread, fact : Told]
    \cup [kind : {"started", "completed"}, fact : Told]
    \cup [kind : {"message", "sandbox", "refused", "other", "malformed", "misframed"}]
    \cup [kind : {"failed"}, cause : {"ended", "plain", "unframed"}]
    \cup [kind : {"error"}, cause : {"plain", "unframed"}]

\* How the process ended.
Statuses == {"zero", "nonzero", "timed_out", "limited"}

OfKind(lines, kind) == {i \in 1 .. Len(lines) : lines[i].kind = kind}

\* Both parsers split the output into lines, and count and measure all of them, before
\* they read the first event.
Lined(lines) == Len(lines) <= MaxEvent /\ OfKind(lines, "misframed") = {}

------------------------------------------------------------------------------
(***************************************************************************)
(* The parser of a process that exited with zero.                          *)
(***************************************************************************)
Nothing == [thread |-> None, final |-> 0, done |-> FALSE, fact |-> None, fault |-> "none"]

Telling == {"thread", "started", "completed"}

Contradicts(known, event) ==
  event.kind \in Telling /\ event.fact # None /\ known.fact \notin {None, event.fact}

\* Mutant: a second turn.completed replaces the first.
RefusesOneTurn(known, event) ==
  \/ event.kind \in {"malformed", "refused", "failed", "error"}
  \/ known.thread = None /\ event.kind # "thread"
  \/ event.kind = "thread" /\ known.thread # None
  \/ Contradicts(known, event)

Refuses(known, event) ==
  \/ event.kind \in {"malformed", "refused", "failed", "error"}
  \/ known.thread = None /\ event.kind # "thread"
  \/ event.kind = "thread" /\ known.thread # None
  \/ event.kind = "completed" /\ known.done
  \/ Contradicts(known, event)

\* Of lines that are lines, the first event that is not accepted decides.
Fault(known, event) ==
  IF known.fault # "none" THEN known.fault
  ELSE IF Refuses(known, event) THEN "author_process_failure"
  ELSE IF event.kind = "sandbox" THEN "sandbox_setup_failure"
  ELSE "none"

Learn(known, event, i) ==
  [thread |-> IF event.kind = "thread" THEN event.thread ELSE known.thread,
   final |-> IF event.kind = "message" THEN i ELSE known.final,
   done |-> known.done \/ event.kind = "completed",
   fact |-> IF event.kind \in Telling /\ event.fact # None THEN event.fact ELSE known.fact,
   fault |-> Fault(known, event)]

Scan(lines) ==
  LET known[i \in 0 .. Len(lines)] ==
        IF i = 0 THEN Nothing
        ELSE LET before == known[i - 1] IN Learn(before, lines[i], i)
  IN known[Len(lines)]

Parse(lines, wanted) ==
  LET known == Scan(lines)
      whole == /\ lines # <<>>
               /\ wanted # None => known.thread = wanted
               /\ known.thread # None /\ known.final > 0 /\ known.done
  IN IF Lined(lines) /\ known.fault # "none" THEN [known EXCEPT !.done = FALSE]
     ELSE IF Lined(lines) /\ whole THEN known
     ELSE [known EXCEPT !.fault = "author_process_failure", !.done = FALSE]

------------------------------------------------------------------------------
(***************************************************************************)
(* The parser of a process that failed.                                    *)
(***************************************************************************)
Unverified == [protocol |-> "invalid", terminal |-> "unverified", ended |-> FALSE]

Framed(lines, wanted) ==
  /\ Lined(lines)
  /\ OfKind(lines, "malformed") = {}
  /\ OfKind(lines, "thread") = {1}
  /\ wanted # None => lines[1].thread = wanted
  /\ \A i \in OfKind(lines, "failed") \cup OfKind(lines, "error") : lines[i].cause # "unframed"

FailureIsLast(lines) == OfKind(lines, "failed") \subseteq {Len(lines)}

NonzeroFacts(lines, wanted) ==
  IF lines = <<>> THEN [protocol |-> "empty", terminal |-> "none", ended |-> FALSE]
  ELSE IF ~Framed(lines, wanted) \/ ~FailureIsLast(lines) THEN Unverified
  ELSE LET last == lines[Len(lines)] IN
       [protocol |-> "valid",
        terminal |-> IF last.kind \in {"failed", "error"} THEN last.kind ELSE "none",
        ended |-> \E i \in OfKind(lines, "failed") : lines[i].cause = "ended"]

\* classify_codex_process_result, the reason; "none" is a turn.
Classify(status, lines, wanted) ==
  CASE status = "limited" -> "agent_output_limit"
    [] status = "timed_out" -> "author_timeout"
    [] status = "nonzero" ->
         IF NonzeroFacts(lines, wanted).ended THEN "credential_refresh_failure"
         ELSE "author_process_failure"
    [] OTHER -> Parse(lines, wanted).fault

------------------------------------------------------------------------------
(***************************************************************************)
(* What the two parsers should compute, over every stream of at most       *)
(* MaxEvent events and those with one message too many.  Once neither      *)
(* parser reads on, a stream is only extended by a line that is none.      *)
(***************************************************************************)
Open(lines) == lines = <<>> \/ (OfKind(lines, "malformed") = {} /\ OfKind(lines, "thread") = {1})

Further(lines) ==
  IF ~Lined(lines) \/ (~Open(lines) /\ Len(lines) = MaxEvent) THEN {}
  ELSE IF ~Open(lines) THEN {[kind |-> "misframed"]}
  ELSE IF Len(lines) = MaxEvent THEN {[kind |-> "message"]}
  ELSE Event

Streams ==
  LET upTo[n \in 0 .. MaxEvent + 1] ==
        IF n = 0 THEN {<<>>}
        ELSE LET before == upTo[n - 1]
                 longest == {lines \in before : Len(lines) = n - 1}
             IN before \cup UNION {{Append(lines, event) : event \in Further(lines)} : lines \in longest}
  IN upTo[MaxEvent + 1]

\* A stream of one turn, said without a parser.
OneTurn(lines, wanted) ==
  /\ Len(lines) \in 1 .. MaxEvent
  /\ OfKind(lines, "thread") = {1}
  /\ wanted # None => lines[1].thread = wanted
  /\ \A kind \in {"misframed", "malformed", "refused", "sandbox", "failed", "error"} :
       OfKind(lines, kind) = {}
  /\ \E i \in 1 .. Len(lines) : OfKind(lines, "completed") = {i}
  /\ OfKind(lines, "message") # {}
  /\ \A i, j \in 1 .. Len(lines) :
       {lines[i].kind, lines[j].kind} \subseteq Telling =>
         lines[i].fact = lines[j].fact \/ None \in {lines[i].fact, lines[j].fact}

\* parse_codex_jsonl returns a result exactly for the stream of one turn; it reports its
\* thread, its last message and the model it was told, if any.
TurnExact(lines, wanted) ==
  LET result == Parse(lines, wanted) IN
  /\ result.fault = "none" <=> OneTurn(lines, wanted)
  /\ result.fault = "none" =>
       /\ result.thread = lines[1].thread
       /\ lines[result.final].kind = "message"
       /\ \A i \in OfKind(lines, "message") : i <= result.final
       /\ result.fact # None <=>
            \E i \in 1 .. Len(lines) : lines[i].kind \in Telling /\ lines[i].fact # None

\* A command sandbox that could not start is the reason the turn failed, whatever events
\* come after it: prose, a completed turn, a failed one, a malformed one
\* (test_command_sandbox_setup_failure_dominates_completion_prose).  Only what keeps the
\* output from being lines, or too many of them, comes before it.
SandboxFailureDominates(lines, wanted) ==
  Lined(lines) =>
    \A k \in OfKind(lines, "sandbox") :
      Scan(SubSeq(lines, 1, k - 1)).fault = "none" /\ k > 1 =>
        Parse(lines, wanted).fault = "sandbox_setup_failure"

\* The two parsers never contradict each other: a stream that tells a whole turn is
\* valid and holds no failure, and one that says the vendor ended the session is no turn;
\* it says so last, on the thread the CLI was told to work on.
ParsersAgree(lines, wanted) ==
  LET facts == NonzeroFacts(lines, wanted) IN
  /\ OneTurn(lines, wanted) =>
       facts = [protocol |-> "valid", terminal |-> "none", ended |-> FALSE]
  /\ facts.ended =>
       /\ facts.terminal = "failed" /\ Parse(lines, wanted).fault # "none"
       /\ lines[Len(lines)] = [kind |-> "failed", cause |-> "ended"]
       /\ wanted # None => lines[1].thread = wanted

Exact(streams) ==
  \A lines \in streams, wanted \in Thread \cup {None} :
    /\ TurnExact(lines, wanted)
    /\ SandboxFailureDominates(lines, wanted)
    /\ ParsersAgree(lines, wanted)

\* The thread and the selection of each turn the client may take from a process.
Results(streams, wanted) ==
  {[thread |-> Parse(lines, wanted).thread, sel |-> Parse(lines, wanted).fact] :
     lines \in {known \in streams :
                \E status \in Statuses : Classify(status, known, wanted) = "none"}}
=============================================================================
