------------------------------ MODULE RunLoop ------------------------------
(***************************************************************************)
(* One run: LoopRunner.run (runner.py) with its decision table             *)
(* (state_machine.py) and stall detector (progress.py), the authoritative  *)
(* subject guard and the end of execute_run (workflow.py).                 *)
(*                                                                         *)
(* The author CLI proposes a tree, the guard publishes it on disk, the     *)
(* validator and the critic CLI judge it, and the loop stops or starts     *)
(* another round.  The CLIs refresh their credentials while they run; the  *)
(* secret provider adopts each new generation before their output is       *)
(* retained.  After the loop the run is finalized, which may still turn    *)
(* its result into a failure.                                              *)
(*                                                                         *)
(* Any step may be hit by Ctrl-C, a write may fail, time passes in every   *)
(* turn, and the tree on disk may be changed behind the runner's back.     *)
(* The durable side of the credentials is CredentialPair, that of the      *)
(* evidence ArtifactWithholding; here a credential generation is a number, *)
(* and evidence is the set of generations whose bytes occur in it.         *)
(***************************************************************************)
EXTENDS Integers, FiniteSets

CONSTANTS Tree,       \* subjects the author can propose
          Base,       \* the committed subject
          Thread,     \* author threads the CLI can report
          None,       \* no tree on disk, no thread yet, no progress yet
          MaxRounds,  \* --max-rounds
          Deadline,   \* the monotonic deadline
          MaxGen,     \* bound: credential generations
          MaxFault    \* bound: interrupts, failed calls and outside changes

ASSUME TreeAssumption == Base \in Tree /\ None \notin Tree \cup Thread
ASSUME NumberAssumption ==
  MaxRounds \in Nat \ {0} /\ Deadline \in Nat /\ MaxGen \in Nat /\ MaxFault \in Nat

Late    == Deadline + 1  \* any time after the deadline
Time    == 0 .. Late
Gen     == 0 .. MaxGen
Check   == {"pass", "fail"}
Verdict == {"LGTM", "BLOCKED", "REVISE same", "REVISE other"}

\* StopReason, as far as the end of the run tells them apart.
Reason == {"converged", "cap", "stalled", "blocked", "deadline", "turn", "thread",
           "contradiction", "out of band", "credential", "interrupt", "error"}

\* LoopResult, and what run.json says.
Result   == [reason : Reason, subject : Tree, rounds : 0 .. MaxRounds]
NoResult == [reason |-> "none", subject |-> Base, rounds |-> 0]

\* ProgressState.
Progress == Tree \X Check \X Verdict

VARIABLES
  pc,        \* the step the run is at
  round, rounds, \* the current round; rounds completed
  current,   \* the runner's subject
  witness,   \* the subject guard's
  disk,      \* subjects/current
  thread,    \* the author thread
  checks,    \* the validation outcome of current
  prev,      \* StallDetector.previous_fingerprint
  recent,    \* history: the progress states of the last two rounds
  judged,    \* history: <<subject validated, subject reviewed, verdict, completed at>>
  now,       \* monotonic time
  cand,      \* the generation in the private homes
  known,     \* generations in the secret ledger
  evid,      \* generations that occur in retained evidence
  withheld,  \* the withholding latch
  result,    \* the result so far
  journaled, \* the result run.json holds
  secondary, \* secondary_errors
  handed,    \* history: what the final check of the tree saw
  safe,      \* finalization_safe
  finalized, \* has the transaction been finalized?
  faults     \* interrupts, failures and outside changes so far

work     == <<round, rounds, current, witness, thread, checks, prev, recent, judged>>
secrets  == <<cand, known, evid, withheld>>
closing  == <<journaled, secondary, handed, safe, finalized>>
vars     == <<pc, work, disk, now, secrets, result, closing, faults>>

InLoop  == {"round", "author", "publish", "swap", "published", "validate", "review", "critic"}
Handler == {"finish", "stopping", "refinish", "outfinish"}
Ending  == {"materialize", "reconcile", "snapshot", "complete", "close"}

TypeControl ==
  /\ pc \in InLoop \cup Handler \cup Ending \cup {"exited"}
  /\ disk \in Tree \cup {None} /\ now \in Time /\ faults \in 0 .. MaxFault

TypeWork ==
  /\ round \in 1 .. MaxRounds /\ rounds \in 0 .. MaxRounds
  /\ current \in Tree /\ witness \in Tree
  /\ thread \in Thread \cup {None}
  /\ checks \in Check
  /\ prev \in Progress \cup {None}
  /\ recent \in (Progress \cup {None}) \X (Progress \cup {None})
  /\ judged \in (Tree \X Tree \X Verdict \X Time) \cup {None}

TypeSecrets ==
  /\ cand \in Gen
  /\ known \in SUBSET Gen /\ evid \in SUBSET Gen /\ withheld \in BOOLEAN

TypeClosing ==
  /\ result \in Result \cup {NoResult} /\ journaled \in Result \cup {NoResult}
  /\ secondary \in SUBSET Reason
  /\ handed \in Tree \cup {None}
  /\ safe \in BOOLEAN /\ finalized \in BOOLEAN

TypeOK == TypeControl /\ TypeWork /\ TypeSecrets /\ TypeClosing

-----------------------------------------------------------------------------
\* Helpers.

Fault == faults < MaxFault /\ faults' = faults + 1
Outcome(reason, done) == [reason |-> reason, subject |-> current, rounds |-> done]
Stop(reason) == result' = Outcome(reason, rounds)

\* The first of a sequence of checks that fails decides; with none the run
\* goes on to the next step.
Judge(failures, next) ==
  LET failing == {i \in DOMAIN failures : failures[i][1]}
      first   == CHOOSE i \in failing : \A j \in failing : i <= j
  IN IF failing = {} THEN pc' = next /\ UNCHANGED result
                     ELSE pc' = "stopping" /\ Stop(failures[first][2])

Failing(reason) == pc' = "stopping" /\ Stop(reason)

\* _AuthoritativeSubjectGuard.verify, as one of a sequence of failures.
Withheld(w)   == <<w, "credential">>
Diverged(s)   == <<disk # s, "out of band">>
Expired       == <<now' > Deadline, "deadline">>

\* The secret provider: refuses once content is withheld; reconciles the
\* credentials, and its failure to do so withholds everything; learns the
\* current generation.  A collision of that generation with evidence is found
\* by the transaction's own evidence barrier, which withholds everything and
\* says nothing: the provider answers as if all was well.
ProviderFails ==
  /\ \/ withheld /\ UNCHANGED faults
     \/ ~withheld /\ Fault
  /\ withheld' = TRUE /\ evid' = {} /\ UNCHANGED known

\* Output is searched for the generations known by now before it is kept or used.
Clean(c) == c \cap known' = {}

\* The journal keeps output c unless it holds a generation known by now or
\* everything is withheld.
Retain(c) ==
  evid' = IF withheld' THEN {} ELSE IF Clean(c) THEN evid \cup c ELSE evid

\* It answers with generation g and output c is retained.
ProviderAnswers(g, c) ==
  /\ ~withheld
  /\ known' = known \cup {g}
  /\ withheld' = (g \in evid)
  /\ Retain(c)
  /\ UNCHANGED faults

\* What output may happen to contain.
Bytes == {{}} \cup {{g} : g \in Gen}

\* A CLI turn takes time and may refresh its credential.
Takes == now' \in now .. Late
Refreshes(g) == g \in {cand, cand + 1} \cap Gen /\ cand' = g

\* The turn fails of itself: a timeout, a dead process, bad output.
TurnFails ==
  /\ \E g \in Gen : Refreshes(g)
  /\ Takes
  /\ UNCHANGED <<known, evid, withheld, faults>>
  /\ Failing("turn")

-----------------------------------------------------------------------------
\* The loop.

\* Deadline, guard, and the check that the prompt holds no credential.
RoundStart ==
  /\ pc = "round"
  /\ UNCHANGED <<work, disk, now, cand, closing>>
  /\ \/ /\ now > Deadline \/ withheld \/ disk # current
        /\ Judge(<<Expired, Withheld(withheld), Diverged(current)>>, "author")
        /\ UNCHANGED <<known, evid, withheld, faults>>
     \/ /\ now <= Deadline /\ ~withheld /\ disk = current
        /\ \/ ProviderFails /\ Failing("credential")
           \/ ProviderAnswers(cand, {}) /\ pc' = "author" /\ UNCHANGED result

\* The author turn and what follows up to the new subject.
AuthorTurn ==
  /\ pc = "author"
  /\ UNCHANGED <<round, rounds, witness, checks, prev, recent, judged, disk, closing>>
  /\ \/ TurnFails /\ UNCHANGED <<current, thread>>
     \/ /\ Takes /\ \E g \in Gen : Refreshes(g)
        /\ ProviderFails /\ Failing("credential") /\ UNCHANGED <<current, thread>>
     \/ /\ Takes
        /\ \E g \in Gen, t \in Tree, th \in Thread, c \in Bytes :
             /\ Refreshes(g) /\ ProviderAnswers(g, c)
             /\ Judge(<< <<~Clean(c), "credential">>,
                         <<thread # None /\ th # thread, "thread">>, Expired >>, "publish")
             /\ thread' = IF Clean(c) /\ thread = None THEN th ELSE thread
             /\ current' = IF pc' = "publish" THEN t ELSE current

\* publish: the old witness is verified, then moved to the history ...
Publish ==
  /\ pc = "publish"
  /\ Judge(<<Withheld(withheld), Diverged(witness)>>, "swap")
  /\ disk' = IF pc' = "swap" THEN None ELSE disk
  /\ UNCHANGED <<work, now, secrets, closing, faults>>

\* ... and the staged tree takes its place.
Swap ==
  /\ pc = "swap" /\ ~withheld
  /\ disk' = current /\ witness' = current
  /\ pc' = "published"
  /\ UNCHANGED <<round, rounds, current, thread, checks, prev, recent, judged>>
  /\ UNCHANGED <<now, secrets, result, closing, faults>>

SwapFails ==
  /\ pc = "swap" /\ Fault
  /\ Failing("out of band")
  /\ UNCHANGED <<work, disk, now, secrets, closing>>

\* publish verifies the new tree, run's guard does so again.
Published ==
  /\ pc = "published"
  /\ Judge(<<Withheld(withheld), Diverged(current)>>, "validate")
  /\ UNCHANGED <<work, disk, now, secrets, closing, faults>>

\* One validation of the subject; its raw log is dropped if it holds a secret.
Validate ==
  /\ pc = "validate"
  /\ UNCHANGED <<round, rounds, current, witness, thread, prev, recent, disk, cand, closing>>
  /\ Takes
  /\ \/ ProviderFails /\ Failing("credential") /\ UNCHANGED <<checks, judged>>
     \/ \E outcome \in Check \cup {"broken"}, c \in Bytes :
          /\ ProviderAnswers(cand, c)
          /\ Judge(<<Withheld(withheld'), Diverged(current),
                     <<outcome = "broken", "turn">>, Expired>>, "review")
          /\ checks' = IF pc' = "review" THEN outcome ELSE checks
          /\ judged' = IF pc' = "review" THEN <<current, current, "BLOCKED", Late>> ELSE judged

\* The bundle for the critic is built with the secrets known now.
Bundle ==
  /\ pc = "review"
  /\ UNCHANGED <<work, disk, now, cand, closing>>
  /\ \/ ProviderFails /\ Failing("credential")
     \/ ProviderAnswers(cand, {}) /\ pc' = "critic" /\ UNCHANGED result

\* Mutant: an approval counts after the deadline too.
DecideLateIsFine(verdict, completed, repeated) ==
  IF verdict = "LGTM" /\ checks = "pass" THEN "converged"
  ELSE IF completed > Deadline THEN "deadline"
  ELSE IF verdict = "BLOCKED" THEN "blocked"
  ELSE IF round >= MaxRounds THEN "cap"
  ELSE IF repeated THEN "stalled" ELSE "continue"

\* decide: fatal, success, BLOCKED, cap, stall, in this order.
Decide(verdict, completed, repeated) ==
  IF completed > Deadline THEN "deadline"
  ELSE IF verdict = "LGTM" THEN IF checks = "pass" THEN "converged" ELSE "contradiction"
  ELSE IF verdict = "BLOCKED" THEN "blocked"
  ELSE IF round >= MaxRounds THEN "cap"
  ELSE IF repeated THEN "stalled" ELSE "continue"

\* Mutant: the first fingerprint is kept.
ObserveFirst(progress) == prev' = IF prev = None THEN progress ELSE prev

\* StallDetector.observe.
Observe(progress) == prev' = progress

\* The critic turn, its checks, and the decision about the round.
CriticTurn ==
  /\ pc = "critic"
  /\ UNCHANGED <<current, witness, thread, checks, disk, closing>>
  /\ \/ TurnFails /\ UNCHANGED <<round, rounds, prev, recent, judged>>
     \/ /\ Takes /\ \E g \in Gen : Refreshes(g)
        /\ ProviderFails /\ Failing("credential")
        /\ UNCHANGED <<round, rounds, prev, recent, judged>>
     \/ /\ Takes
        /\ \E g \in Gen, verdict \in Verdict, c \in Bytes :
             /\ Refreshes(g) /\ ProviderAnswers(g, c)
             /\ \/ /\ ~Clean(c) \/ withheld' \/ disk # current
                      \/ (verdict = "LGTM" /\ checks # "pass")
                   /\ Judge(<< <<~Clean(c), "credential">>, Withheld(withheld'),
                               Diverged(current),
                               <<verdict = "LGTM" /\ checks # "pass", "contradiction">> >>, "critic")
                   /\ UNCHANGED <<round, rounds, prev, recent, judged>>
                \/ /\ Clean(c) /\ ~withheld' /\ disk = current
                   /\ verdict = "LGTM" => checks = "pass"
                   /\ rounds' = round
                   /\ judged' = <<judged[1], current, verdict, now'>>
                   /\ LET progress == <<current, checks, verdict>>
                          outcome  == Decide(verdict, now', prev = progress)
                      IN /\ Observe(progress) /\ recent' = <<recent[2], progress>>
                         /\ IF outcome = "continue"
                            THEN pc' = "round" /\ round' = round + 1 /\ UNCHANGED result
                            ELSE /\ pc' = "finish" /\ UNCHANGED round
                                 /\ result' = Outcome(outcome, round)

-----------------------------------------------------------------------------
\* The end of run(): stop() journals the result; the exception handlers call
\* it again, and what escapes from them is classified by execute_run, which
\* knows neither the rounds nor the subject any more.

\* run.json, as long as nothing is withheld.
Journal(r) == journaled' = IF withheld THEN journaled ELSE r

EscapeReason == {"interrupt", "error"}
Escaped(reason) == [reason |-> reason, subject |-> Base, rounds |-> 0]

\* The detail of a typed failure is checked with the provider first.
Stopping ==
  /\ pc = "stopping"
  /\ pc' = "refinish"
  /\ \/ ProviderFails /\ result' = [result EXCEPT !.reason = "credential"]
     \/ ProviderAnswers(cand, {}) /\ UNCHANGED result
  /\ UNCHANGED <<work, disk, now, cand, closing>>

Finish ==
  /\ pc \in {"finish", "refinish", "outfinish"}
  /\ Journal(result)
  /\ pc' = "materialize"
  /\ UNCHANGED <<work, disk, now, secrets, result, secondary, handed, safe, finalized, faults>>

\* Journaling fails or is interrupted: inside run()'s try its handlers take
\* over, inside a handler execute_run's, and after that nobody has a result.
FinishFails ==
  /\ Fault
  /\ \E reason \in EscapeReason :
       \/ /\ pc = "finish" /\ Stop(reason)
          /\ pc' \in IF reason = "error" THEN {"stopping", "refinish"} ELSE {"refinish"}
       \/ /\ pc \in {"stopping", "refinish"}
          /\ pc' = "outfinish" /\ result' = Escaped(reason)
       \/ /\ pc = "outfinish" /\ pc' = "close" /\ result' = NoResult
  /\ UNCHANGED journaled \/ (pc # "stopping" /\ Journal(result))
  /\ UNCHANGED <<work, disk, now, secrets, secondary, handed, safe, finalized>>

\* Ctrl-C, or an exception without a type, inside the loop.
Interrupt ==
  /\ pc \in InLoop /\ Fault
  /\ pc' = "refinish" /\ \E reason \in EscapeReason : Stop(reason)
  /\ UNCHANGED <<work, disk, now, secrets, closing>>

-----------------------------------------------------------------------------
\* The end of execute_run.

\* Mutant: any failure replaces the result.
PostFailureReplaces(reason) ==
  /\ result' = [result EXCEPT !.reason = reason]
  /\ journaled' = IF withheld' THEN journaled ELSE result'
  /\ UNCHANGED secondary

\* Mutant: the replaced result is not journaled.
PostFailureUnjournaled(reason) ==
  IF reason = "credential" \/ result.reason = "converged"
  THEN result' = [result EXCEPT !.reason = reason] /\ UNCHANGED <<journaled, secondary>>
  ELSE secondary' = secondary \cup {reason} /\ UNCHANGED <<result, journaled>>

\* _post_result_failure: a credential failure replaces any result, another
\* failure replaces a success only; otherwise it is a secondary error.
PostFailure(reason) ==
  IF reason = "credential" \/ result.reason = "converged"
  THEN /\ result' = [result EXCEPT !.reason = reason]
       /\ journaled' = IF withheld' THEN journaled ELSE result'
       /\ UNCHANGED secondary
  ELSE secondary' = secondary \cup {reason} /\ UNCHANGED <<result, journaled>>

\* _materialize_final compares the tree on disk with the result's subject.
Materialize ==
  /\ pc = "materialize"
  /\ handed' = IF withheld THEN None ELSE disk
  /\ UNCHANGED withheld
  /\ IF withheld THEN PostFailure("credential")
     ELSE IF disk # result.subject THEN PostFailure("out of band")
     ELSE UNCHANGED <<result, journaled, secondary>>
  /\ pc' = "reconcile"
  /\ UNCHANGED <<work, disk, now, cand, known, evid, safe, finalized, faults>>

\* reconcile_after_turn: its evidence barrier may withhold everything.
FinalReconcile ==
  /\ pc = "reconcile"
  /\ pc' = "snapshot"
  /\ withheld' = (withheld \/ cand \in evid)
  /\ evid' = IF withheld' THEN {} ELSE evid
  /\ UNCHANGED <<work, disk, now, cand, known, result, closing, faults>>

FinalReconcileFails ==
  /\ pc = "reconcile" /\ Fault
  /\ pc' = "snapshot" /\ safe' = FALSE
  /\ UNCHANGED withheld
  /\ \E reason \in {"credential", "interrupt", "error"} : PostFailure(reason)
  /\ UNCHANGED <<work, disk, now, cand, known, evid, handed, finalized>>

\* Mutant: the provider is not asked again.
SnapshotUnasked ==
  /\ pc = "snapshot"
  /\ pc' = "complete"
  /\ UNCHANGED <<work, disk, now, secrets, result, closing, faults>>

\* The provider is asked for the last time and the whole tree is scanned for
\* every generation it knows.
Snapshot ==
  /\ pc = "snapshot" /\ ~withheld
  /\ cand \notin evid
  /\ pc' = "complete"
  /\ known' = known \cup {cand}
  /\ UNCHANGED <<work, disk, now, cand, evid, withheld, result, closing, faults>>

\* It refuses, cannot classify, collides or is interrupted: everything is
\* withheld and nothing is finalized.
SnapshotFails ==
  /\ pc = "snapshot"
  /\ \/ (withheld \/ cand \in evid) /\ UNCHANGED faults
     \/ ~withheld /\ cand \notin evid /\ Fault
  /\ withheld' = TRUE /\ evid' = {}
  /\ known' \in {known, known \cup {cand}}
  /\ safe' = FALSE
  /\ PostFailure("credential")
  /\ pc' = "complete"
  /\ UNCHANGED <<work, disk, now, cand, handed, finalized>>

\* finalize_reconciled removes the transaction, if that is safe.
Complete ==
  /\ pc = "complete"
  /\ finalized' = safe
  /\ pc' = "close"
  /\ UNCHANGED <<work, disk, now, secrets, result, journaled, secondary, handed, safe, faults>>

CompleteFails ==
  /\ pc = "complete" /\ safe /\ Fault
  /\ UNCHANGED withheld
  /\ \E reason \in EscapeReason : PostFailure(reason)
  /\ pc' = "close"
  /\ UNCHANGED <<work, disk, now, cand, known, evid, handed, safe, finalized>>

\* Ctrl-C between two of these steps, or a failure that cannot be recorded
\* either: no result is reported.
EndingAborted ==
  /\ pc \in Ending \ {"close"} /\ Fault
  /\ result' = NoResult /\ pc' = "close"
  /\ UNCHANGED <<work, disk, now, secrets, closing>>

\* Transaction, source lock and artifacts are closed; the result is printed.
Exit ==
  /\ pc = "close"
  /\ pc' = "exited"
  /\ UNCHANGED <<work, disk, now, secrets, result, closing, faults>>

ExitFails ==
  /\ pc = "close" /\ result # NoResult /\ Fault
  /\ UNCHANGED withheld
  /\ \E reason \in EscapeReason : PostFailure(reason)
  /\ pc' = "exited"
  /\ UNCHANGED <<work, disk, now, cand, known, evid, handed, safe, finalized>>

-----------------------------------------------------------------------------
\* Somebody changes or removes the private tree.
OutOfBand ==
  /\ pc # "exited" /\ Fault
  /\ disk' \in (Tree \cup {None}) \ {disk}
  /\ UNCHANGED <<pc, work, now, secrets, result, closing>>

Init ==
  /\ pc = "round" /\ round = 1 /\ rounds = 0
  /\ current = Base /\ witness = Base /\ disk = Base
  /\ thread = None /\ checks = "fail" /\ prev = None /\ recent = <<None, None>>
  /\ judged = None
  /\ now \in Time
  /\ cand = 0 /\ known = {0} /\ evid \in SUBSET (Gen \ {0}) /\ withheld = FALSE
  /\ result = NoResult /\ journaled = NoResult /\ secondary = {} /\ handed = None
  /\ safe = TRUE /\ finalized = FALSE
  /\ faults = 0

Loop == \/ RoundStart \/ AuthorTurn \/ Publish \/ Swap \/ SwapFails \/ Published
        \/ Validate \/ Bundle \/ CriticTurn
Stops == Stopping \/ Finish \/ FinishFails \/ Interrupt
Finalize == \/ Materialize \/ FinalReconcile \/ FinalReconcileFails
            \/ Snapshot \/ SnapshotFails \/ Complete \/ CompleteFails
            \/ EndingAborted \/ Exit \/ ExitFails

\* What the process does next.
Step == Loop \/ Stops \/ Finalize
Done == pc = "exited" /\ UNCHANGED vars
Next == Step \/ OutOfBand \/ Done

Spec == Init /\ [][Next]_vars

-----------------------------------------------------------------------------
\* Properties.

Exited == pc = "exited"

\* Exit code 0 means that one tree was published, validated with every check
\* passing, approved by the critic before the deadline and found on disk at
\* the end, that no evidence was withheld and that the credentials were
\* finalized, whatever interrupts, failures and outside changes there were.
SuccessIsEarned ==
  Exited /\ result.reason = "converged" =>
    /\ checks = "pass" /\ ~withheld /\ finalized
    /\ judged[1] = result.subject /\ judged[2] = result.subject
    /\ judged[3] = "LGTM" /\ judged[4] <= Deadline
    /\ handed = result.subject

\* Even a run that is torn down in its ending and reports nothing leaves a
\* run.json that says success only if the critic approved that very subject in
\* time after all its checks had passed, and nothing was done to it since.
JournaledIsEarned ==
  journaled.reason = "converged" =>
    /\ judged = <<journaled.subject, journaled.subject, "LGTM", judged[4]>>
    /\ judged[4] <= Deadline /\ checks = "pass"
    /\ current = journaled.subject /\ rounds = journaled.rounds
    /\ pc \notin InLoop

\* Credentials are finalized only when the last generation is known and no
\* retained evidence holds a known one.
FinalizedClean ==
  finalized => ~withheld /\ cand \in known /\ evid \cap known = {}

\* What the process reports at its exit is what happened: a run that gave up its
\* evidence reports a credential failure, also when the evidence barrier withheld
\* it silently, and otherwise run.json has ended up with the reported result.
ReportIsHonest ==
  Exited /\ result # NoResult =>
    IF withheld THEN result.reason = "credential" ELSE journaled = result

\* What a run leaves behind as its result is true: at its exit, and in run.json
\* at any time.
ReportsAreTrue == ReportIsHonest /\ JournaledIsEarned

\* No round follows two adjacent rounds with the same subject, validation
\* outcome and critic verdict, and only such rounds are reported as stalled.
StallExact ==
  /\ pc \in InLoop /\ recent[2] # None => recent[1] # recent[2]
  /\ result.reason = "stalled" => recent[1] = recent[2] /\ rounds < MaxRounds

\* After the loop the first failure stays: it can only become a credential
\* failure, or be lost together with the result.
ResultKept == result' \in {result, NoResult, [result EXCEPT !.reason = "credential"]}
FirstFailureKept ==
  [][result.reason \notin {"converged", "none"} /\ pc \in Ending => ResultKept]_vars
=============================================================================
