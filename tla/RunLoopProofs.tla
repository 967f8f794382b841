---------------------------- MODULE RunLoopProofs ----------------------------
(***************************************************************************)
(* Proofs about one run, for any trees, threads, number of rounds, deadline*)
(* and credential generations, and any number of interrupts, failures and  *)
(* outside changes: exit code 0 and run.json tell the truth, a stall is    *)
(* exact, and credentials are finalized only over clean evidence.          *)
(***************************************************************************)
EXTENDS RunLoop, TLAPS

USE TreeAssumption, NumberAssumption

\* Why a run stops other than by a decision about a round.
Failure == Reason \ {"converged", "stalled", "blocked", "cap"}

\* Steps of the ending that have seen the tree, and the last credentials.
AfterTree    == {"reconcile", "snapshot", "complete", "close", "exited"}
AfterSecrets == {"complete", "close", "exited"}

\* The critic approved this very subject in time, with its checks passed.
Earned(r) ==
  /\ judged = <<r.subject, r.subject, "LGTM", judged[4]>>
  /\ judged[4] <= Deadline /\ checks = "pass"
  /\ current = r.subject /\ rounds = r.rounds

\* A run in its loop has no result yet and has finalized nothing.
LoopInv == pc \in InLoop => result = NoResult /\ journaled = NoResult /\ safe /\ ~finalized

\* What is reviewed is what was validated.
ValidatedInv == pc \in {"review", "critic"} => judged[1] = current

\* The fingerprint is that of the last round.
StallInv == prev = recent[2] /\ StallExact

\* Success is only ever decided, never the result of a failure.
EarnedInv ==
  /\ result.reason = "converged" => pc \notin Handler \ {"finish"} /\ Earned(result)
  /\ journaled.reason = "converged" => Earned(journaled)

\* Evidence never holds what is known, and what is finalized is clean.
CleanInv ==
  /\ evid \cap known = {}
  /\ finalized => pc \in {"close", "exited"}
  /\ finalized \/ (pc = "complete" /\ safe) => ~withheld /\ cand \in known

\* The ending turns a success into a failure unless every step succeeds.
EndingInv ==
  /\ pc \in Ending \cup {"exited"} /\ ~withheld => result = NoResult \/ journaled = result
  /\ pc \in AfterSecrets /\ withheld => result = NoResult \/ result.reason = "credential"
  /\ result.reason = "converged" =>
       /\ safe
       /\ pc \in AfterTree => handed = result.subject
       /\ pc \in {"close", "exited"} => finalized

IInv == TypeOK /\ LoopInv /\ ValidatedInv /\ StallInv /\ EarnedInv /\ CleanInv /\ EndingInv

------------------------------------------------------------------------------
\* Of a sequence of checks that may fail, the first one that fails decides.
LEMMA FirstFails ==
  ASSUME NEW F \in SUBSET (1 .. 4), F # {}
  PROVE  \E i \in F : \A j \in F : i <= j
<1>1. CASE 1 \in F
  BY <1>1
<1>2. CASE 1 \notin F /\ 2 \in F
  BY <1>2
<1>3. CASE 1 \notin F /\ 2 \notin F /\ 3 \in F
  BY <1>3
<1>4. CASE 1 \notin F /\ 2 \notin F /\ 3 \notin F
  <2>1. \A i \in F : i = 4
    BY <1>4
  <2>2. 4 \in F
    BY <2>1
  <2> QED
    BY <2>1, <2>2
<1> QED
  BY <1>1, <1>2, <1>3, <1>4

\* The run goes on as it is, or stops with one of the reasons offered.
Goes(next) == pc' = next /\ result' = result
StopsWith(reasons) == pc' \in {"stopping", "refinish"} /\ \E r \in reasons : result' = Outcome(r, rounds)

LEMMA JudgeOutcome ==
  ASSUME NEW failures, DOMAIN failures \in SUBSET (1 .. 4),
         \A i \in DOMAIN failures : failures[i][2] \in Failure,
         NEW next, Judge(failures, next)
  PROVE  \/ Goes(next) /\ \A i \in DOMAIN failures : ~failures[i][1]
         \/ StopsWith(Failure) /\ \E i \in DOMAIN failures : failures[i][1]
<1> DEFINE failing == {i \in DOMAIN failures : failures[i][1]}
           first   == CHOOSE i \in failing : \A j \in failing : i <= j
<1>1. CASE failing = {}
  BY <1>1 DEF Judge, Goes
<1>2. CASE failing # {}
  <2>1. failing \in SUBSET (1 .. 4)
    OBVIOUS
  <2>2. \E i \in failing : \A j \in failing : i <= j
    BY <1>2, <2>1, FirstFails
  <2>3. first \in failing
    BY <2>2
  <2>4. failures[first][2] \in Failure
    BY <2>3
  <2>5. pc' = "stopping" /\ result' = Outcome(failures[first][2], rounds)
    BY <1>2 DEF Judge, Stop
  <2> QED
    BY <1>2, <2>4, <2>5 DEF StopsWith
<1> QED
  BY <1>1, <1>2


\* What the provider does keeps the evidence clean.
LEMMA Provided ==
  ASSUME TypeSecrets, CleanInv, NEW g \in Gen, NEW c \in Bytes,
         ProviderFails \/ ProviderAnswers(g, c)
  PROVE  /\ known' \in SUBSET Gen /\ evid' \in SUBSET Gen /\ withheld' \in BOOLEAN
         /\ evid' \cap known' = {}
<1>1. c \in SUBSET Gen
  BY DEF Bytes
<1>2. CASE ProviderFails
  BY <1>2 DEF ProviderFails, TypeSecrets
<1>3. CASE ProviderAnswers(g, c)
  <2>1. known' = known \cup {g} /\ withheld' = (g \in evid)
    BY <1>3 DEF ProviderAnswers
  <2>2. evid' = IF withheld' THEN {} ELSE IF c \cap known' = {} THEN evid \cup c ELSE evid
    BY <1>3 DEF ProviderAnswers, Retain, Clean
  <2>3. evid \cap known = {}
    BY DEF CleanInv
  <2>4. evid' \cap known' = {}
    BY <2>1, <2>2, <2>3
  <2> QED
    BY <1>1, <2>1, <2>2, <2>4 DEF TypeSecrets
<1> QED
  BY <1>2, <1>3

\* Failures keep the count.
LEMMA FaultType ==
  ASSUME TypeControl
  PROVE  /\ Fault => faults' \in 0 .. MaxFault
         /\ ProviderFails => faults' \in 0 .. MaxFault
         /\ \A g, c : ProviderAnswers(g, c) => faults' \in 0 .. MaxFault
BY DEF TypeControl, Fault, ProviderFails, ProviderAnswers

LEMMA PassedTime == ASSUME TypeControl, Takes PROVE now' \in Time
BY DEF TypeControl, Takes, Time, Late

LEMMA Refreshed ==
  ASSUME TypeSecrets, NEW g, Refreshes(g)
  PROVE  g \in Gen /\ cand' \in Gen
BY DEF Refreshes

LEMMA OutcomeType ==
  ASSUME TypeWork, NEW r \in Reason, NEW n \in 0 .. MaxRounds
  PROVE  Outcome(r, n) \in Result
BY DEF Outcome, TypeWork, Result

\* How a step of the loop proper leaves the run, a decision about a round
\* apart: it goes on or stops, and does nothing to what the run ends with.
LoopStep(next) ==
  /\ Goes(next) \/ StopsWith(Failure)
  /\ UNCHANGED <<rounds, prev, recent, closing>>
  /\ evid' \cap known' = {}

LEMMA StopType ==
  ASSUME TypeOK, NEW next \in InLoop, LoopStep(next)
  PROVE  /\ pc' \in InLoop \cup {"stopping", "refinish"} /\ result' \in Result \cup {NoResult}
         /\ TypeClosing'
<1>1. CASE Goes(next)
  BY <1>1 DEF LoopStep, Goes, closing, TypeOK, TypeClosing
<1>2. CASE StopsWith(Failure)
  <2>1. PICK r \in Failure : pc' \in {"stopping", "refinish"} /\ result' = Outcome(r, rounds)
    BY <1>2 DEF StopsWith
  <2>2. result' \in Result
    BY <2>1, OutcomeType DEF Failure, TypeOK, TypeWork
  <2> QED
    BY <2>1, <2>2 DEF LoopStep, closing, TypeOK, TypeClosing
<1> QED
  BY <1>1, <1>2 DEF LoopStep

\* Such a step keeps the invariants of the run.
LEMMA LoopStepInv ==
  ASSUME IInv, pc \in InLoop, NEW next \in InLoop, LoopStep(next)
  PROVE  LoopInv' /\ StallInv' /\ EarnedInv' /\ CleanInv' /\ EndingInv'
<1>1. result = NoResult /\ journaled = NoResult /\ safe /\ ~finalized
  BY DEF IInv, LoopInv
<1>2. journaled' = NoResult /\ safe' /\ ~finalized' /\ handed' = handed
  BY <1>1 DEF LoopStep, closing
<1>3. rounds' = rounds /\ prev' = prev /\ recent' = recent /\ evid' \cap known' = {}
  BY DEF LoopStep
<1>4. NoResult.reason = "none"
  BY DEF NoResult
<1>5. CASE Goes(next)
  <2>1. pc' \in InLoop /\ result' = NoResult
    BY <1>1, <1>5 DEF Goes
  <2>2. LoopInv'
    BY <1>2, <2>1 DEF LoopInv
  <2>3. StallInv'
    BY <1>3, <1>4, <2>1 DEF StallInv, StallExact, IInv
  <2>4. EarnedInv'
    BY <1>2, <1>4, <2>1 DEF EarnedInv
  <2>5. CleanInv'
    BY <1>2, <1>3, <2>1 DEF CleanInv, InLoop
  <2>6. EndingInv'
    BY <1>2, <1>4, <2>1 DEF EndingInv, InLoop, Ending, AfterSecrets
  <2> QED
    BY <2>2, <2>3, <2>4, <2>5, <2>6
<1>6. CASE StopsWith(Failure)
  <2>1. PICK r \in Failure : pc' \in {"stopping", "refinish"} /\ result' = Outcome(r, rounds)
    BY <1>6 DEF StopsWith
  <2>2. result'.reason \notin {"converged", "stalled"}
    BY <2>1 DEF Outcome, Failure
  <2>3. LoopInv'
    BY <2>1 DEF LoopInv, InLoop
  <2>4. StallInv'
    BY <1>3, <2>1, <2>2 DEF StallInv, StallExact, IInv, InLoop
  <2>5. EarnedInv'
    BY <1>2, <1>4, <2>2 DEF EarnedInv
  <2>6. CleanInv'
    BY <1>2, <1>3, <2>1 DEF CleanInv
  <2>7. EndingInv'
    BY <2>1, <2>2 DEF EndingInv, Ending, AfterSecrets
  <2> QED
    BY <2>3, <2>4, <2>5, <2>6, <2>7
<1> QED
  BY <1>5, <1>6 DEF LoopStep

\* A step that only goes on to the next.
LEMMA GoesOn == ASSUME NEW next, pc' = next, UNCHANGED result PROVE Goes(next)
BY DEF Goes

LEMMA Failed == ASSUME NEW r \in Failure, Failing(r) PROVE StopsWith(Failure)
BY DEF Failing, Stop, StopsWith

\* What is reviewed is what was validated, as long as neither changes.
LEMMA StaysValidated ==
  ASSUME ValidatedInv, UNCHANGED <<current, judged>>,
         pc' \in {"review", "critic"} => pc \in {"review", "critic"}
  PROVE  ValidatedInv'
BY DEF ValidatedInv

------------------------------------------------------------------------------
\* The steps of the loop.  Each is a step of the kind above, keeps its part of
\* the state well typed, and what it hands on to review is what was validated.

LEMMA LoopPc ==
  ASSUME NEW next \in InLoop, LoopStep(next)
  PROVE  pc' \in InLoop \cup Handler \cup Ending \cup {"exited"}
BY DEF LoopStep, Goes, StopsWith, Handler

Kept(next) == LoopStep(next) /\ TypeControl' /\ TypeWork' /\ TypeSecrets' /\ ValidatedInv'

LEMMA RoundStartKept == ASSUME IInv, RoundStart PROVE Kept("author")
<1> DEFINE next == "author"
<1>1. UNCHANGED <<work, disk, now, cand, closing>> /\ pc = "round"
  BY DEF RoundStart
<1>2. (Goes(next) \/ StopsWith(Failure)) /\ TypeSecrets' /\ evid' \cap known' = {}
      /\ faults' \in 0 .. MaxFault
  <2>1. CASE /\ Judge(<<Expired, Withheld(withheld), Diverged(current)>>, "author")
             /\ UNCHANGED <<known, evid, withheld, faults>>
    <3> DEFINE F == <<Expired, Withheld(withheld), Diverged(current)>>
    <3>0. F[1][2] = "deadline" /\ F[2][2] = "credential" /\ F[3][2] = "out of band"
      BY DEF Expired, Withheld, Diverged
    <3>1. DOMAIN F = 1 .. 3
      OBVIOUS
    <3>r. \A i \in 1 .. 3 : F[i][2] \in Failure
      <4>1. F[1][2] \in Failure /\ F[2][2] \in Failure /\ F[3][2] \in Failure
        BY <3>0 DEF Failure, Reason
      <4> HIDE DEF F
      <4>2. \A i \in 1 .. 3 : i = 1 \/ i = 2 \/ i = 3
        OBVIOUS
      <4> QED
        BY <4>1, <4>2, Zenon
    <3>2. Goes(next) \/ StopsWith(Failure)
      BY <2>1, <3>1, <3>r, JudgeOutcome
    <3> QED
      BY <1>1, <2>1, <3>2 DEF IInv, TypeOK, TypeSecrets, TypeControl, CleanInv
  <2>2. CASE ProviderFails /\ Failing("credential")
    <3>1. StopsWith(Failure)
      BY <2>2, Failed DEF Failure, Reason
    <3> QED
      BY <1>1, <2>2, <3>1, Provided, FaultType DEF IInv, TypeOK, TypeSecrets, Bytes, Gen
  <2>3. CASE ProviderAnswers(cand, {}) /\ pc' = "author" /\ UNCHANGED result
    <3>1. Goes(next)
      BY <2>3 DEF Goes
    <3>2. cand \in Gen /\ {} \in Bytes
      BY DEF IInv, TypeOK, TypeSecrets, Bytes
    <3> QED
      BY <1>1, <2>3, <3>1, <3>2, Provided, FaultType DEF IInv, TypeOK, TypeSecrets
  <2> QED
    BY <2>1, <2>2, <2>3 DEF RoundStart
<1>3. LoopStep(next)
  BY <1>1, <1>2 DEF LoopStep, work
<1>4. TypeControl'
  BY <1>1, <1>2, <1>3, LoopPc DEF IInv, TypeOK, TypeControl, InLoop
<1>5. TypeWork'
  BY <1>1 DEF IInv, TypeOK, TypeWork, work
<1>6. ValidatedInv'
  BY <1>1, <1>2, StaysValidated DEF IInv, work, Goes, StopsWith
<1> QED
  BY <1>2, <1>3, <1>4, <1>5, <1>6 DEF Kept

LEMMA AuthorTurnKept == ASSUME IInv, AuthorTurn PROVE Kept("publish")
<1> DEFINE next == "publish"
<1>1. /\ UNCHANGED <<round, rounds, witness, checks, prev, recent, judged, disk, closing>>
      /\ pc = "author"
  BY DEF AuthorTurn
<1>2. /\ Goes(next) \/ StopsWith(Failure)
      /\ TypeSecrets' /\ evid' \cap known' = {}
      /\ faults' \in 0 .. MaxFault /\ now' \in Time
      /\ current' \in Tree /\ thread' \in Thread \cup {None}
  <2>1. CASE TurnFails /\ UNCHANGED <<current, thread>>
    <3>1. StopsWith(Failure)
      BY <2>1, Failed DEF TurnFails, Failure, Reason
    <3>2. now' \in Time
      BY <2>1, PassedTime DEF TurnFails, IInv, TypeOK
    <3>3. cand' \in Gen
      BY <2>1, Refreshed DEF TurnFails, IInv, TypeOK
    <3> QED
      BY <2>1, <3>1, <3>2, <3>3
         DEF TurnFails, IInv, TypeOK, TypeSecrets, TypeControl, TypeWork, CleanInv
  <2>2. CASE /\ Takes /\ \E g \in Gen : Refreshes(g)
             /\ ProviderFails /\ Failing("credential") /\ UNCHANGED <<current, thread>>
    <3>1. StopsWith(Failure)
      BY <2>2, Failed DEF Failure, Reason
    <3>2. now' \in Time
      BY <2>2, PassedTime DEF IInv, TypeOK
    <3>3. cand' \in Gen
      BY <2>2, Refreshed DEF IInv, TypeOK
    <3>4. 0 \in Gen /\ {} \in Bytes
      BY DEF Gen, Bytes
    <3>5. evid' \cap known' = {} /\ known' \in SUBSET Gen /\ evid' \in SUBSET Gen
          /\ withheld' \in BOOLEAN
      BY <2>2, <3>4, Provided DEF IInv, TypeOK
    <3>6. faults' \in 0 .. MaxFault
      BY <2>2, FaultType DEF IInv, TypeOK
    <3> QED
      BY <2>2, <3>1, <3>2, <3>3, <3>5, <3>6 DEF IInv, TypeOK, TypeSecrets, TypeWork
  <2>3. ASSUME Takes, NEW g \in Gen, NEW t \in Tree, NEW th \in Thread, NEW c \in Bytes,
               Refreshes(g), ProviderAnswers(g, c),
               Judge(<< <<~Clean(c), "credential">>,
                        <<thread # None /\ th # thread, "thread">>, Expired >>, "publish"),
               thread' = IF Clean(c) /\ thread = None THEN th ELSE thread,
               current' = IF pc' = "publish" THEN t ELSE current
        PROVE  /\ Goes(next) \/ StopsWith(Failure)
               /\ TypeSecrets' /\ evid' \cap known' = {}
               /\ faults' \in 0 .. MaxFault /\ now' \in Time
               /\ current' \in Tree /\ thread' \in Thread \cup {None}
    <3> DEFINE F == << <<~Clean(c), "credential">>,
                       <<thread # None /\ th # thread, "thread">>, Expired >>
    <3>0. F[1][2] = "credential" /\ F[2][2] = "thread" /\ F[3][2] = "deadline"
      BY DEF Expired
    <3>1. DOMAIN F = 1 .. 3
      OBVIOUS
    <3>r. \A i \in 1 .. 3 : F[i][2] \in Failure
      <4>1. F[1][2] \in Failure /\ F[2][2] \in Failure /\ F[3][2] \in Failure
        BY <3>0 DEF Failure, Reason
      <4> HIDE DEF F
      <4>2. \A i \in 1 .. 3 : i = 1 \/ i = 2 \/ i = 3
        OBVIOUS
      <4> QED
        BY <4>1, <4>2, Zenon
    <3>2. Goes(next) \/ StopsWith(Failure)
      BY <2>3, <3>1, <3>r, JudgeOutcome
    <3>3. now' \in Time
      BY <2>3, PassedTime DEF IInv, TypeOK
    <3>4. cand' \in Gen
      BY <2>3, Refreshed DEF IInv, TypeOK
    <3>5. evid' \cap known' = {} /\ known' \in SUBSET Gen /\ evid' \in SUBSET Gen
          /\ withheld' \in BOOLEAN
      BY <2>3, Provided DEF IInv, TypeOK
    <3>6. faults' \in 0 .. MaxFault
      BY <2>3, FaultType DEF IInv, TypeOK
    <3>7. current' \in Tree /\ thread' \in Thread \cup {None}
      BY <2>3 DEF IInv, TypeOK, TypeWork
    <3> QED
      BY <3>2, <3>3, <3>4, <3>5, <3>6, <3>7 DEF TypeSecrets
  <2> QED
    BY <2>1, <2>2, <2>3 DEF AuthorTurn
<1>3. LoopStep(next)
  BY <1>1, <1>2 DEF LoopStep
<1>4. TypeControl'
  BY <1>1, <1>2, <1>3, LoopPc DEF IInv, TypeOK, TypeControl, InLoop
<1>5. TypeWork'
  BY <1>1, <1>2 DEF IInv, TypeOK, TypeWork
<1>6. ValidatedInv'
  BY <1>2 DEF ValidatedInv, Goes, StopsWith
<1> QED
  BY <1>2, <1>3, <1>4, <1>5, <1>6 DEF Kept

LEMMA PublishKept == ASSUME IInv, Publish PROVE Kept("swap")
<1>1. /\ UNCHANGED <<work, now, secrets, closing, faults>> /\ pc = "publish"
      /\ disk' \in Tree \cup {None}
  BY DEF Publish, IInv, TypeOK, TypeControl
<1>2. Goes("swap") \/ StopsWith(Failure)
  <2> DEFINE F == <<Withheld(withheld), Diverged(witness)>>
  <2>0. F[1][2] = "credential" /\ F[2][2] = "out of band"
    BY DEF Withheld, Diverged
  <2>1. DOMAIN F = 1 .. 2
    OBVIOUS
  <2>r. \A i \in 1 .. 2 : F[i][2] \in Failure
    <3>1. F[1][2] \in Failure /\ F[2][2] \in Failure
      BY <2>0 DEF Failure, Reason
    <3> HIDE DEF F
    <3>2. \A i \in 1 .. 2 : i = 1 \/ i = 2
      OBVIOUS
    <3> QED
      BY <3>1, <3>2, Zenon
  <2> QED
    BY <2>1, <2>r, JudgeOutcome DEF Publish
<1>3. LoopStep("swap")
  BY <1>1, <1>2 DEF LoopStep, work, secrets, IInv, CleanInv
<1>4. TypeControl'
  BY <1>1, <1>3, LoopPc DEF IInv, TypeOK, TypeControl, InLoop
<1>5. TypeWork' /\ TypeSecrets'
  BY <1>1 DEF IInv, TypeOK, TypeWork, TypeSecrets, work, secrets
<1>6. ValidatedInv'
  BY <1>2 DEF ValidatedInv, Goes, StopsWith
<1> QED
  BY <1>3, <1>4, <1>5, <1>6 DEF Kept

LEMMA SwapKept == ASSUME IInv, Swap PROVE Kept("published")
<1>1. /\ UNCHANGED <<round, rounds, current, thread, checks, prev, recent, judged>>
      /\ UNCHANGED <<now, secrets, result, closing, faults>>
      /\ disk' = current /\ witness' = current /\ pc' = "published"
  BY DEF Swap
<1>2. LoopStep("published")
  BY <1>1 DEF LoopStep, Goes, secrets, IInv, CleanInv
<1>3. TypeControl'
  BY <1>1 DEF IInv, TypeOK, TypeControl, TypeWork, InLoop
<1>4. TypeWork' /\ TypeSecrets'
  BY <1>1 DEF IInv, TypeOK, TypeWork, TypeSecrets, secrets
<1>5. ValidatedInv'
  BY <1>1 DEF ValidatedInv
<1> QED
  BY <1>2, <1>3, <1>4, <1>5 DEF Kept

LEMMA SwapFailsKept == ASSUME IInv, SwapFails PROVE Kept("published")
<1>1. UNCHANGED <<work, disk, now, secrets, closing>> /\ Fault /\ Failing("out of band")
  BY DEF SwapFails
<1>2. StopsWith(Failure)
  BY <1>1, Failed DEF Failure, Reason
<1>3. LoopStep("published")
  BY <1>1, <1>2 DEF LoopStep, work, secrets, IInv, CleanInv
<1>4. TypeControl'
  BY <1>1, <1>3, LoopPc, FaultType DEF IInv, TypeOK, TypeControl, InLoop
<1>5. TypeWork' /\ TypeSecrets'
  BY <1>1 DEF IInv, TypeOK, TypeWork, TypeSecrets, work, secrets
<1>6. ValidatedInv'
  BY <1>2 DEF ValidatedInv, StopsWith
<1> QED
  BY <1>3, <1>4, <1>5, <1>6 DEF Kept

LEMMA PublishedKept == ASSUME IInv, Published PROVE Kept("validate")
<1>1. UNCHANGED <<work, disk, now, secrets, closing, faults>> /\ pc = "published"
  BY DEF Published
<1>2. Goes("validate") \/ StopsWith(Failure)
  <2> DEFINE F == <<Withheld(withheld), Diverged(current)>>
  <2>0. F[1][2] = "credential" /\ F[2][2] = "out of band"
    BY DEF Withheld, Diverged
  <2>1. DOMAIN F = 1 .. 2
    OBVIOUS
  <2>r. \A i \in 1 .. 2 : F[i][2] \in Failure
    <3>1. F[1][2] \in Failure /\ F[2][2] \in Failure
      BY <2>0 DEF Failure, Reason
    <3> HIDE DEF F
    <3>2. \A i \in 1 .. 2 : i = 1 \/ i = 2
      OBVIOUS
    <3> QED
      BY <3>1, <3>2, Zenon
  <2> QED
    BY <2>1, <2>r, JudgeOutcome DEF Published
<1>3. LoopStep("validate")
  BY <1>1, <1>2 DEF LoopStep, work, secrets, IInv, CleanInv
<1>4. TypeControl'
  BY <1>1, <1>3, LoopPc DEF IInv, TypeOK, TypeControl, InLoop
<1>5. TypeWork' /\ TypeSecrets'
  BY <1>1 DEF IInv, TypeOK, TypeWork, TypeSecrets, work, secrets
<1>6. ValidatedInv'
  BY <1>2 DEF ValidatedInv, Goes, StopsWith
<1> QED
  BY <1>3, <1>4, <1>5, <1>6 DEF Kept

LEMMA ValidateKept == ASSUME IInv, Validate PROVE Kept("review")
<1>1. /\ UNCHANGED <<round, rounds, current, witness, thread, prev, recent, disk, cand, closing>>
      /\ Takes /\ pc = "validate"
  BY DEF Validate
<1>2. now' \in Time
  BY <1>1, PassedTime DEF IInv, TypeOK
<1>3. cand \in Gen /\ {} \in Bytes
  BY DEF IInv, TypeOK, TypeSecrets, Bytes
<1>4. /\ \/ Goes("review") /\ judged' = <<current, current, "BLOCKED", Late>> /\ checks' \in Check
         \/ StopsWith(Failure) /\ UNCHANGED <<checks, judged>>
      /\ \E c \in Bytes : ProviderFails \/ ProviderAnswers(cand, c)
  <2>1. CASE ProviderFails /\ Failing("credential") /\ UNCHANGED <<checks, judged>>
    BY <1>3, <2>1, Failed DEF Failure, Reason
  <2>2. ASSUME NEW outcome \in Check \cup {"broken"}, NEW c \in Bytes,
               ProviderAnswers(cand, c),
               Judge(<<Withheld(withheld'), Diverged(current),
                       <<outcome = "broken", "turn">>, Expired>>, "review"),
               checks' = IF pc' = "review" THEN outcome ELSE checks,
               judged' = IF pc' = "review" THEN <<current, current, "BLOCKED", Late>> ELSE judged
        PROVE  /\ \/ /\ Goes("review") /\ judged' = <<current, current, "BLOCKED", Late>>
                     /\ checks' \in Check
                  \/ StopsWith(Failure) /\ UNCHANGED <<checks, judged>>
               /\ \E d \in Bytes : ProviderFails \/ ProviderAnswers(cand, d)
    <3> DEFINE F == <<Withheld(withheld'), Diverged(current),
                      <<outcome = "broken", "turn">>, Expired>>
    <3>0. F[1][2] = "credential" /\ F[2][2] = "out of band" /\ F[3][2] = "turn" /\ F[4][2] = "deadline"
      BY DEF Withheld, Diverged, Expired
    <3>1. DOMAIN F = 1 .. 4
      OBVIOUS
    <3>r. \A i \in 1 .. 4 : F[i][2] \in Failure
      <4>1. F[1][2] \in Failure /\ F[2][2] \in Failure /\ F[3][2] \in Failure /\ F[4][2] \in Failure
        BY <3>0 DEF Failure, Reason
      <4> HIDE DEF F
      <4>2. \A i \in 1 .. 4 : i = 1 \/ i = 2 \/ i = 3 \/ i = 4
        OBVIOUS
      <4> QED
        BY <4>1, <4>2, Zenon
    <3>2. CASE Goes("review") /\ \A i \in DOMAIN F : ~F[i][1]
      <4>1. 3 \in DOMAIN F
        BY <3>1
      <4>2. ~F[3][1]
        BY <3>2, <4>1
      <4>3. F[3][1] = (outcome = "broken")
        OBVIOUS
      <4>4. outcome # "broken"
        BY <4>2, <4>3
      <4> QED
        BY <2>2, <3>2, <4>4 DEF Goes
    <3>3. CASE StopsWith(Failure)
      BY <2>2, <3>3 DEF StopsWith
    <3> QED
      BY <2>2, <3>1, <3>r, <3>2, <3>3, JudgeOutcome
  <2> QED
    BY <2>1, <2>2, Zenon DEF Validate
<1>5. PICK c \in Bytes : ProviderFails \/ ProviderAnswers(cand, c)
  BY <1>4
<1>6. /\ known' \in SUBSET Gen /\ evid' \in SUBSET Gen /\ withheld' \in BOOLEAN
      /\ evid' \cap known' = {}
  BY <1>3, <1>5, Provided DEF IInv, TypeOK
<1>7. LoopStep("review")
  BY <1>1, <1>4, <1>6 DEF LoopStep
<1>8. TypeControl'
  BY <1>1, <1>2, <1>5, <1>7, LoopPc, FaultType DEF IInv, TypeOK, TypeControl, InLoop
<1>9. TypeWork'
  <2>1. <<current, current, "BLOCKED", Late>> \in Tree \X Tree \X Verdict \X Time
    <3>1. Late \in Time /\ "BLOCKED" \in Verdict
      BY DEF Time, Late, Verdict
    <3>2. current \in Tree
      BY DEF IInv, TypeOK, TypeWork
    <3> QED
      BY <3>1, <3>2
  <2>2. judged' \in (Tree \X Tree \X Verdict \X Time) \cup {None} /\ checks' \in Check
    BY <1>4, <2>1 DEF IInv, TypeOK, TypeWork
  <2> QED
    BY <1>1, <2>2 DEF IInv, TypeOK, TypeWork
<1>10. TypeSecrets'
  BY <1>1, <1>6 DEF IInv, TypeOK, TypeSecrets
<1>11. ValidatedInv'
  BY <1>1, <1>4 DEF ValidatedInv, Goes, StopsWith
<1> QED
  BY <1>7, <1>8, <1>9, <1>10, <1>11 DEF Kept

LEMMA BundleKept == ASSUME IInv, Bundle PROVE Kept("critic")
<1>1. UNCHANGED <<work, disk, now, cand, closing>> /\ pc = "review"
  BY DEF Bundle
<1>2. cand \in Gen /\ {} \in Bytes
  BY DEF IInv, TypeOK, TypeSecrets, Bytes
<1>3. Goes("critic") \/ StopsWith(Failure)
  BY Failed DEF Bundle, Goes, Failure, Reason
<1>4. ProviderFails \/ ProviderAnswers(cand, {})
  BY DEF Bundle
<1>5. /\ known' \in SUBSET Gen /\ evid' \in SUBSET Gen /\ withheld' \in BOOLEAN
      /\ evid' \cap known' = {} /\ faults' \in 0 .. MaxFault
  BY <1>2, <1>4, Provided, FaultType DEF IInv, TypeOK
<1>6. LoopStep("critic")
  BY <1>1, <1>3, <1>5 DEF LoopStep, work
<1>7. TypeControl'
  BY <1>1, <1>5, <1>6, LoopPc DEF IInv, TypeOK, TypeControl, InLoop
<1>8. TypeWork' /\ TypeSecrets'
  BY <1>1, <1>5 DEF IInv, TypeOK, TypeWork, TypeSecrets, work
<1>9. ValidatedInv'
  BY <1>1, StaysValidated DEF IInv, work
<1> QED
  BY <1>6, <1>7, <1>8, <1>9 DEF Kept

\* Ctrl-C stops a run as a failure does.
LEMMA InterruptKept == ASSUME IInv, Interrupt PROVE Kept("round")
<1>1. /\ UNCHANGED <<work, disk, now, secrets, closing>> /\ Fault
      /\ pc' = "refinish" /\ \E reason \in EscapeReason : Stop(reason)
  BY DEF Interrupt
<1>2. StopsWith(Failure)
  BY <1>1 DEF StopsWith, Stop, EscapeReason, Failure, Reason
<1>3. LoopStep("round")
  BY <1>1, <1>2 DEF LoopStep, work, secrets, IInv, CleanInv
<1>4. TypeControl'
  BY <1>1, <1>3, LoopPc, FaultType DEF IInv, TypeOK, TypeControl, InLoop
<1>5. TypeWork' /\ TypeSecrets'
  BY <1>1 DEF IInv, TypeOK, TypeWork, TypeSecrets, work, secrets
<1>6. ValidatedInv'
  BY <1>1 DEF ValidatedInv
<1> QED
  BY <1>3, <1>4, <1>5, <1>6 DEF Kept

\* Whatever is kept so keeps the whole strengthening.
LEMMA KeptInv ==
  ASSUME IInv, pc \in InLoop, NEW next \in InLoop, Kept(next)
  PROVE  IInv'
<1>1. TypeClosing'
  BY StopType DEF Kept, IInv
<1> QED
  BY <1>1, LoopStepInv DEF Kept, IInv, TypeOK

------------------------------------------------------------------------------
\* The critic turn.  What deciding about a round does.
Decides(verdict, progress, outcome) ==
  /\ progress = <<current, checks, verdict>>
  /\ outcome = Decide(verdict, now', prev = progress)
  /\ verdict = "LGTM" => checks = "pass"
  /\ rounds' = round /\ judged' = <<judged[1], current, verdict, now'>>
  /\ prev' = progress /\ recent' = <<recent[2], progress>>
  /\ IF outcome = "continue"
     THEN pc' = "round" /\ round' = round + 1 /\ UNCHANGED result
     ELSE /\ pc' = "finish" /\ UNCHANGED round
          /\ result' = Outcome(outcome, round)

\* A turn either stops the run, or the round is decided.
LEMMA CriticForms ==
  ASSUME IInv, CriticTurn
  PROVE  /\ UNCHANGED <<current, witness, thread, checks, disk, closing>> /\ pc = "critic"
         /\ TypeSecrets' /\ evid' \cap known' = {} /\ now' \in Time /\ faults' \in 0 .. MaxFault
         /\ \/ StopsWith(Failure) /\ UNCHANGED <<round, rounds, prev, recent, judged>>
            \/ \E verdict \in Verdict : \E progress, outcome : Decides(verdict, progress, outcome)
<1>1. UNCHANGED <<current, witness, thread, checks, disk, closing>> /\ pc = "critic"
  BY DEF CriticTurn
<1>2. CASE TurnFails /\ UNCHANGED <<round, rounds, prev, recent, judged>>
  <2>1. StopsWith(Failure)
    BY <1>2, Failed DEF TurnFails, Failure, Reason
  <2>2. now' \in Time
    BY <1>2, PassedTime DEF TurnFails, IInv, TypeOK
  <2>3. cand' \in Gen
    BY <1>2, Refreshed DEF TurnFails, IInv, TypeOK
  <2> QED
    BY <1>1, <1>2, <2>1, <2>2, <2>3
       DEF TurnFails, IInv, TypeOK, TypeSecrets, TypeControl, CleanInv
<1>3. CASE /\ Takes /\ \E g \in Gen : Refreshes(g)
           /\ ProviderFails /\ Failing("credential")
           /\ UNCHANGED <<round, rounds, prev, recent, judged>>
  <2>1. StopsWith(Failure)
    BY <1>3, Failed DEF Failure, Reason
  <2>2. now' \in Time
    BY <1>3, PassedTime DEF IInv, TypeOK
  <2>3. cand' \in Gen
    BY <1>3, Refreshed DEF IInv, TypeOK
  <2>4. 0 \in Gen /\ {} \in Bytes
    BY DEF Gen, Bytes
  <2>5. evid' \cap known' = {} /\ known' \in SUBSET Gen /\ evid' \in SUBSET Gen
        /\ withheld' \in BOOLEAN
    BY <1>3, <2>4, Provided DEF IInv, TypeOK
  <2>6. faults' \in 0 .. MaxFault
    BY <1>3, FaultType DEF IInv, TypeOK
  <2> QED
    BY <1>1, <1>3, <2>1, <2>2, <2>3, <2>5, <2>6 DEF TypeSecrets
<1>4. ASSUME Takes, NEW g \in Gen, NEW verdict \in Verdict, NEW c \in Bytes,
             Refreshes(g), ProviderAnswers(g, c),
             \/ /\ ~Clean(c) \/ withheld' \/ disk # current
                   \/ (verdict = "LGTM" /\ checks # "pass")
                /\ Judge(<< <<~Clean(c), "credential">>, Withheld(withheld'),
                            Diverged(current),
                            <<verdict = "LGTM" /\ checks # "pass", "contradiction">> >>, "critic")
                /\ UNCHANGED <<round, rounds, prev, recent, judged>>
             \/ /\ Clean(c) /\ ~withheld' /\ disk = current
                /\ verdict = "LGTM" => checks = "pass"
                /\ rounds' = round
                /\ judged' = <<judged[1], current, verdict, now'>>
                /\ LET progress == <<current, checks, verdict>>
                       outcome  == Decide(verdict, now', prev = progress)
                   IN /\ Observe(progress) /\ recent' = <<recent[2], progress>>
                      /\ IF outcome = "continue"
                         THEN pc' = "round" /\ round' = round + 1 /\ UNCHANGED result
                         ELSE /\ pc' = "finish" /\ UNCHANGED round
                              /\ result' = Outcome(outcome, round)
      PROVE  /\ TypeSecrets' /\ evid' \cap known' = {} /\ now' \in Time
             /\ faults' \in 0 .. MaxFault
             /\ \/ StopsWith(Failure) /\ UNCHANGED <<round, rounds, prev, recent, judged>>
                \/ \E v \in Verdict : \E progress, outcome : Decides(v, progress, outcome)
  <2>1. now' \in Time /\ cand' \in Gen /\ faults' \in 0 .. MaxFault
    BY <1>4, PassedTime, Refreshed, FaultType DEF IInv, TypeOK
  <2>2. evid' \cap known' = {} /\ known' \in SUBSET Gen /\ evid' \in SUBSET Gen
        /\ withheld' \in BOOLEAN
    BY <1>4, Provided DEF IInv, TypeOK
  <2> DEFINE F == << <<~Clean(c), "credential">>, Withheld(withheld'), Diverged(current),
                     <<verdict = "LGTM" /\ checks # "pass", "contradiction">> >>
  <2>3. CASE /\ ~Clean(c) \/ withheld' \/ disk # current
                   \/ (verdict = "LGTM" /\ checks # "pass")
             /\ Judge(F, "critic")
             /\ UNCHANGED <<round, rounds, prev, recent, judged>>
    <3>0. F[1][2] = "credential" /\ F[2][2] = "credential" /\ F[3][2] = "out of band" /\ F[4][2] = "contradiction"
      BY DEF Withheld, Diverged
    <3>1. DOMAIN F = 1 .. 4
      OBVIOUS
    <3>r. \A i \in 1 .. 4 : F[i][2] \in Failure
      <4>1. F[1][2] \in Failure /\ F[2][2] \in Failure /\ F[3][2] \in Failure /\ F[4][2] \in Failure
        BY <3>0 DEF Failure, Reason
      <4> HIDE DEF F
      <4>2. \A i \in 1 .. 4 : i = 1 \/ i = 2 \/ i = 3 \/ i = 4
        OBVIOUS
      <4> QED
        BY <4>1, <4>2, Zenon
    <3>2. ~(\A i \in DOMAIN F : ~F[i][1])
      <4>1. /\ F[1][1] = ~Clean(c) /\ F[2][1] = withheld' /\ F[3][1] = (disk # current)
            /\ F[4][1] = (verdict = "LGTM" /\ checks # "pass")
        BY DEF Withheld, Diverged
      <4>2. 1 \in DOMAIN F /\ 2 \in DOMAIN F /\ 3 \in DOMAIN F /\ 4 \in DOMAIN F
        BY <3>1
      <4> QED
        BY <2>3, <4>1, <4>2
    <3>3. StopsWith(Failure)
      BY <2>3, <3>1, <3>r, <3>2, JudgeOutcome
    <3> QED
      BY <2>1, <2>2, <2>3, <3>3 DEF TypeSecrets
  <2>4. CASE /\ Clean(c) /\ ~withheld' /\ disk = current
             /\ verdict = "LGTM" => checks = "pass"
             /\ rounds' = round
             /\ judged' = <<judged[1], current, verdict, now'>>
             /\ LET progress == <<current, checks, verdict>>
                    outcome  == Decide(verdict, now', prev = progress)
                IN /\ Observe(progress) /\ recent' = <<recent[2], progress>>
                   /\ IF outcome = "continue"
                      THEN pc' = "round" /\ round' = round + 1 /\ UNCHANGED result
                      ELSE /\ pc' = "finish" /\ UNCHANGED round
                           /\ result' = Outcome(outcome, round)
    <3> DEFINE progress == <<current, checks, verdict>>
               outcome  == Decide(verdict, now', prev = progress)
    <3>1. Decides(verdict, progress, outcome)
      BY <2>4 DEF Decides, Observe
    <3> QED
      BY <2>1, <2>2, <3>1 DEF TypeSecrets
  <2> QED
    BY <1>4, <2>3, <2>4
<1> QED
  BY <1>1, <1>2, <1>3, <1>4, ZenonT(60) DEF CriticTurn

\* A decided round: a success is earned, a stall is one, and otherwise the next
\* round does not repeat the last one.
LEMMA DecisionInv ==
  ASSUME IInv, pc = "critic",
         UNCHANGED <<current, witness, thread, checks, disk, closing>>,
         TypeSecrets', evid' \cap known' = {}, now' \in Time, faults' \in 0 .. MaxFault,
         NEW verdict \in Verdict, NEW progress, NEW outcome,
         Decides(verdict, progress, outcome)
  PROVE  IInv'
<1>1. result = NoResult /\ journaled = NoResult /\ safe /\ ~finalized /\ NoResult.reason = "none"
  BY DEF IInv, LoopInv, InLoop, NoResult
<1>2. journaled' = NoResult /\ safe' /\ ~finalized' /\ handed' = handed
  BY <1>1 DEF closing
<1>3. judged[1] = current /\ prev = recent[2]
  BY DEF IInv, ValidatedInv, StallInv
<1>4. /\ round \in 1 .. MaxRounds /\ current \in Tree /\ checks \in Check
      /\ recent \in (Progress \cup {None}) \X (Progress \cup {None})
  BY DEF IInv, TypeOK, TypeWork
<1>5. progress = <<current, checks, verdict>> /\ progress \in Progress
  BY <1>4 DEF Decides, Progress
<1>6. judged' = <<current, current, verdict, now'>>
  BY <1>3 DEF Decides
<1>7. prev' = progress /\ recent' = <<prev, progress>> /\ rounds' = round
  BY <1>3 DEF Decides
<1>8. prev' = recent'[2]
  BY <1>7
<1>9. outcome = Decide(verdict, now', prev = progress)
  BY DEF Decides
<1>10. CASE outcome = "continue"
  <2>1. pc' = "round" /\ round' = round + 1 /\ result' = NoResult
    BY <1>1, <1>10 DEF Decides
  <2>2. round < MaxRounds /\ prev # progress
    BY <1>4, <1>9, <1>10 DEF Decide
  <2>3. TypeControl'
    BY <2>1 DEF IInv, TypeOK, TypeControl, InLoop
  <2>4. TypeWork'
    BY <1>4, <1>5, <1>6, <1>7, <2>1, <2>2 DEF IInv, TypeOK, TypeWork
  <2>5. TypeClosing'
    BY <2>1 DEF IInv, TypeOK, TypeClosing, closing
  <2>6. LoopInv' /\ ValidatedInv'
    BY <1>2, <2>1 DEF LoopInv, ValidatedInv
  <2>7. StallInv'
    BY <1>1, <1>7, <1>8, <2>1, <2>2 DEF StallInv, StallExact
  <2>8. EarnedInv'
    BY <1>1, <1>2, <2>1 DEF EarnedInv
  <2>9. CleanInv'
    BY <1>2, <2>1 DEF CleanInv
  <2>10. EndingInv'
    BY <1>1, <2>1 DEF EndingInv, Ending, AfterSecrets
  <2> QED
    BY <2>3, <2>4, <2>5, <2>6, <2>7, <2>8, <2>9, <2>10 DEF IInv, TypeOK
<1>11. CASE outcome # "continue"
  <2>1. pc' = "finish" /\ round' = round /\ result' = Outcome(outcome, round)
    BY <1>11 DEF Decides
  <2>2. outcome \in Reason
    BY <1>9, <1>11 DEF Decide, Reason
  <2>3. result' = [reason |-> outcome, subject |-> current, rounds |-> round]
    BY <2>1 DEF Outcome
  <2>4. TypeControl'
    BY <2>1 DEF IInv, TypeOK, TypeControl, Handler
  <2>5. TypeWork'
    BY <1>4, <1>5, <1>6, <1>7, <2>1 DEF IInv, TypeOK, TypeWork
  <2>6. result' \in Result
    BY <1>4, <2>2, <2>3 DEF Result
  <2>7. TypeClosing'
    BY <2>6 DEF IInv, TypeOK, TypeClosing, closing
  <2>8. LoopInv' /\ ValidatedInv'
    BY <2>1 DEF LoopInv, ValidatedInv, InLoop
  <2>9. StallInv'
    <3>1. outcome = "stalled" => prev = progress /\ round < MaxRounds
      BY <1>4, <1>9 DEF Decide
    <3> QED
      BY <1>7, <1>8, <2>1, <2>3, <3>1 DEF StallInv, StallExact, InLoop
  <2>10. EarnedInv'
    <3>1. outcome = "converged" => verdict = "LGTM" /\ checks = "pass" /\ now' <= Deadline
      <4>1. now' \in Int /\ Deadline \in Int
        BY DEF Time, Late
      <4> QED
        BY <1>9, <4>1 DEF Decide
    <3>2. outcome = "converged" => Earned(result)'
      BY <1>6, <1>7, <2>3, <3>1 DEF Earned
    <3> QED
      BY <1>1, <1>2, <2>1, <2>3, <3>2 DEF EarnedInv
  <2>11. CleanInv'
    BY <1>2, <2>1 DEF CleanInv
  <2>12. EndingInv'
    BY <1>2, <2>1 DEF EndingInv, Ending, AfterSecrets, AfterTree
  <2> QED
    BY <2>4, <2>5, <2>7, <2>8, <2>9, <2>10, <2>11, <2>12 DEF IInv, TypeOK
<1> QED
  BY <1>10, <1>11

LEMMA CriticTurnInv == ASSUME IInv, CriticTurn PROVE IInv'
<1>1. /\ UNCHANGED <<current, witness, thread, checks, disk, closing>> /\ pc = "critic"
      /\ TypeSecrets' /\ evid' \cap known' = {} /\ now' \in Time /\ faults' \in 0 .. MaxFault
  BY CriticForms
<1>2. CASE StopsWith(Failure) /\ UNCHANGED <<round, rounds, prev, recent, judged>>
  <2>1. LoopStep("critic")
    BY <1>1, <1>2 DEF LoopStep
  <2>2. TypeControl'
    BY <1>1, <2>1, LoopPc DEF IInv, TypeOK, TypeControl, InLoop
  <2>3. TypeWork'
    BY <1>1, <1>2 DEF IInv, TypeOK, TypeWork
  <2>4. ValidatedInv'
    BY <1>2 DEF ValidatedInv, StopsWith
  <2>5. pc \in InLoop /\ "critic" \in InLoop
    BY <1>1 DEF InLoop
  <2> QED
    BY <1>1, <2>1, <2>2, <2>3, <2>4, <2>5, KeptInv DEF Kept
<1>3. CASE \E verdict \in Verdict : \E progress, outcome : Decides(verdict, progress, outcome)
  BY <1>1, <1>3, DecisionInv
<1> QED
  BY <1>2, <1>3, CriticForms

------------------------------------------------------------------------------
\* After the loop.  A result is kept, lost, or becomes a failure, and run.json
\* says one of these results.
Keeps ==
  /\ result' = result \/ result' = NoResult \/ result'.reason \in Failure
  /\ journaled' \in {journaled, result, result'}

LEMMA AfterLoop ==
  ASSUME IInv, UNCHANGED work, pc' \notin InLoop, Keeps,
         result'.reason = "converged" => pc' \notin Handler \ {"finish"}
  PROVE  TypeWork' /\ LoopInv' /\ ValidatedInv' /\ StallInv' /\ EarnedInv'
<1>1. TypeWork' /\ LoopInv' /\ ValidatedInv'
  BY DEF IInv, TypeOK, TypeWork, work, LoopInv, ValidatedInv, InLoop
<1>2. NoResult.reason = "none"
  BY DEF NoResult
<1>3. result'.reason \in {"converged", "stalled"} => result' = result
  BY <1>2 DEF Keeps, Failure
<1>4. StallInv'
  BY <1>3 DEF StallInv, StallExact, IInv, work
<1>5. journaled'.reason = "converged" => Earned(journaled)'
  <2> SUFFICES ASSUME journaled'.reason = "converged" PROVE Earned(journaled)'
    OBVIOUS
  <2>1. journaled' = journaled \/ journaled' = result
    BY <1>3 DEF Keeps
  <2>2. \/ journaled' = journaled /\ Earned(journaled)
        \/ journaled' = result /\ Earned(result)
    BY <2>1 DEF IInv, EarnedInv
  <2>3. CASE journaled' = journaled /\ Earned(journaled)
    BY <2>3 DEF Earned, work
  <2>4. CASE journaled' = result /\ Earned(result)
    BY <2>4 DEF Earned, work
  <2> QED
    BY <2>2, <2>3, <2>4
<1>6. result'.reason = "converged" => Earned(result)'
  BY <1>3 DEF IInv, EarnedInv, Earned, work
<1> QED
  BY <1>1, <1>4, <1>5, <1>6 DEF EarnedInv

\* _post_result_failure keeps a failure, and a success only in appearance.
LEMMA PostFailureForms ==
  ASSUME TypeClosing, NEW reason \in Failure, PostFailure(reason)
  PROVE  /\ \/ result' = result /\ journaled' = journaled /\ reason # "credential"
               /\ result.reason # "converged"
            \/ result' = [result EXCEPT !.reason = reason] /\ result'.reason = reason
               /\ journaled' = IF withheld' THEN journaled ELSE result'
         /\ result' \in Result \cup {NoResult} /\ journaled' \in Result \cup {NoResult}
         /\ secondary' \in SUBSET Reason
         /\ Keeps
<1>1. reason \in Reason
  BY DEF Failure
<1>2. [result EXCEPT !.reason = reason] \in Result /\ [result EXCEPT !.reason = reason].reason = reason
  BY <1>1 DEF TypeClosing, Result, NoResult
<1> QED
  BY <1>1, <1>2 DEF PostFailure, TypeClosing, Keeps

\* The handlers of the loop.
LEMMA StoppingInv == ASSUME IInv, Stopping PROVE IInv'
<1>1. /\ UNCHANGED <<work, disk, now, cand, closing>> /\ pc = "stopping" /\ pc' = "refinish"
      /\ result' = [result EXCEPT !.reason = "credential"] \/ result' = result
      /\ ProviderFails \/ ProviderAnswers(cand, {})
  BY DEF Stopping
<1>2. cand \in Gen /\ {} \in Bytes
  BY DEF IInv, TypeOK, TypeSecrets, Bytes
<1>3. TypeSecrets' /\ evid' \cap known' = {}
  BY <1>1, <1>2, Provided DEF IInv, TypeOK, TypeSecrets
<1>4. TypeControl'
  BY <1>1, FaultType DEF IInv, TypeOK, TypeControl, Handler
<1>5. [result EXCEPT !.reason = "credential"] \in Result
      /\ [result EXCEPT !.reason = "credential"].reason = "credential"
  <2>1. "credential" \in Reason
    BY DEF Reason
  <2> QED
    BY <2>1 DEF IInv, TypeOK, TypeClosing, Result, NoResult
<1>6. TypeClosing'
  BY <1>1, <1>5 DEF IInv, TypeOK, TypeClosing, closing
<1>7. Keeps /\ pc' \notin InLoop /\ UNCHANGED work
  BY <1>1, <1>5 DEF Keeps, closing, Failure, Reason, InLoop
<1>8. result'.reason # "converged"
  BY <1>1, <1>5 DEF IInv, EarnedInv, Handler
<1>9. TypeWork' /\ LoopInv' /\ ValidatedInv' /\ StallInv' /\ EarnedInv'
  BY <1>7, <1>8, AfterLoop
<1>10. CleanInv'
  BY <1>1, <1>3 DEF IInv, CleanInv, closing
<1>11. EndingInv'
  BY <1>1, <1>8 DEF EndingInv, Ending, AfterSecrets
<1> QED
  BY <1>3, <1>4, <1>6, <1>9, <1>10, <1>11 DEF IInv, TypeOK

LEMMA FinishInv == ASSUME IInv, Finish PROVE IInv'
<1>1. /\ pc \in {"finish", "refinish", "outfinish"} /\ pc' = "materialize"
      /\ journaled' = IF withheld THEN journaled ELSE result
      /\ UNCHANGED <<work, disk, now, secrets, result, secondary, handed, safe, finalized, faults>>
  BY DEF Finish, Journal
<1>2. TypeControl' /\ TypeSecrets' /\ TypeClosing'
  BY <1>1 DEF IInv, TypeOK, TypeControl, TypeSecrets, TypeClosing, Ending, secrets
<1>3. Keeps /\ pc' \notin InLoop \cup Handler
  BY <1>1 DEF Keeps, InLoop, Handler
<1>4. TypeWork' /\ LoopInv' /\ ValidatedInv' /\ StallInv' /\ EarnedInv'
  BY <1>1, <1>3, AfterLoop
<1>5. CleanInv'
  BY <1>1 DEF IInv, CleanInv, secrets
<1>6. EndingInv'
  BY <1>1 DEF IInv, EndingInv, AfterSecrets, AfterTree, secrets
<1> QED
  BY <1>2, <1>4, <1>5, <1>6 DEF IInv, TypeOK

LEMMA FinishFailsInv == ASSUME IInv, FinishFails PROVE IInv'
<1>1. /\ UNCHANGED <<work, disk, now, secrets, secondary, handed, safe, finalized>>
      /\ journaled' \in {journaled, result} /\ Fault
  BY DEF FinishFails, Journal
<1>2. PICK reason \in EscapeReason :
       \/ /\ pc = "finish" /\ Stop(reason)
          /\ pc' \in {"stopping", "refinish"}
       \/ /\ pc \in {"stopping", "refinish"}
          /\ pc' = "outfinish" /\ result' = Escaped(reason)
       \/ pc = "outfinish" /\ pc' = "close" /\ result' = NoResult
  BY DEF FinishFails
<1>3. /\ result' \in Result \cup {NoResult}
      /\ result'.reason \in Failure \cup {"none"} /\ (result' = NoResult \/ result'.reason \in Failure)
      /\ pc' = "close" => result' = NoResult
  <2>1. Outcome(reason, rounds) \in Result /\ Outcome(reason, rounds).reason = reason
    BY OutcomeType DEF IInv, TypeOK, TypeWork, EscapeReason, Reason, Outcome
  <2>2. Escaped(reason) \in Result /\ Escaped(reason).reason = reason
    <3>1. reason \in Reason
      BY DEF EscapeReason, Reason
    <3>2. 0 \in 0 .. MaxRounds
      OBVIOUS
    <3> QED
      BY <3>1, <3>2 DEF Escaped, Result
  <2>3. reason \in Failure /\ NoResult.reason = "none"
    BY DEF EscapeReason, Failure, Reason, NoResult
  <2> QED
    BY <1>2, <2>1, <2>2, <2>3 DEF Stop
<1>4. pc' \in {"stopping", "refinish", "outfinish", "close"}
  BY <1>2
<1>5. TypeControl' /\ TypeSecrets'
  BY <1>1, <1>4, FaultType DEF IInv, TypeOK, TypeControl, TypeSecrets, Handler, Ending, secrets
<1>6. TypeClosing'
  BY <1>1, <1>3 DEF IInv, TypeOK, TypeClosing
<1>7. Keeps /\ pc' \notin InLoop /\ result'.reason # "converged"
  BY <1>1, <1>3, <1>4 DEF Keeps, InLoop, Failure
<1>8. TypeWork' /\ LoopInv' /\ ValidatedInv' /\ StallInv' /\ EarnedInv'
  BY <1>1, <1>7, AfterLoop
<1>9. CleanInv'
  BY <1>1, <1>2 DEF IInv, CleanInv, secrets
<1>10. EndingInv'
  BY <1>3, <1>4, <1>7 DEF EndingInv, Ending, AfterSecrets
<1> QED
  BY <1>5, <1>6, <1>8, <1>9, <1>10 DEF IInv, TypeOK

------------------------------------------------------------------------------
\* The ending of execute_run.  What a step of it makes of the result, with or
\* without a failure to record.
Handled ==
  /\ result' \in Result \cup {NoResult} /\ journaled' \in Result \cup {NoResult}
  /\ secondary' \in SUBSET Reason
  /\ Keeps
  /\ \/ journaled' = journaled /\ result' \in {result, NoResult}
     \/ journaled' = IF withheld' THEN journaled ELSE result'

LEMMA PostFailureHandled ==
  ASSUME TypeClosing, NEW reason \in {"credential", "out of band", "interrupt", "error"},
         PostFailure(reason)
  PROVE  /\ Handled
         /\ result'.reason # "converged"
         /\ result'.reason = reason \/ (result' = result /\ reason # "credential")
<1>1. reason \in Failure
  BY DEF Failure, Reason
<1>2. reason # "converged"
  OBVIOUS
<1> QED
  BY <1>1, <1>2, PostFailureForms DEF Handled

LEMMA NothingHandled == ASSUME TypeClosing, UNCHANGED <<result, journaled, secondary>> PROVE Handled
BY DEF Handled, Keeps, TypeClosing

\* What is left to show of a step of the ending.
LEMMA EndingStep ==
  ASSUME IInv, pc \in Ending, pc' \in Ending \cup {"exited"}, UNCHANGED work,
         Handled, withheld => withheld',
         pc' \in AfterSecrets /\ withheld' => result' = NoResult \/ result'.reason = "credential",
         result'.reason = "converged" =>
           /\ safe'
           /\ pc' \in AfterTree => handed' = result'.subject
           /\ pc' \in {"close", "exited"} => finalized'
  PROVE  TypeWork' /\ LoopInv' /\ ValidatedInv' /\ StallInv' /\ EarnedInv' /\ EndingInv'
<1>1. Keeps /\ pc' \notin InLoop /\ pc' \notin Handler
  BY DEF Handled, InLoop, Handler, Ending
<1>2. TypeWork' /\ LoopInv' /\ ValidatedInv' /\ StallInv' /\ EarnedInv'
  BY <1>1, AfterLoop
<1>3. ~withheld' => result' = NoResult \/ journaled' = result'
  <2> SUFFICES ASSUME ~withheld' PROVE result' = NoResult \/ journaled' = result'
    OBVIOUS
  <2>1. result = NoResult \/ journaled = result
    BY DEF IInv, EndingInv
  <2> QED
    BY <2>1 DEF Handled
<1>4. EndingInv'
  BY <1>3 DEF EndingInv
<1> QED
  BY <1>2, <1>4

LEMMA MaterializeInv == ASSUME IInv, Materialize PROVE IInv'
<1>1. /\ pc = "materialize" /\ pc' = "reconcile"
      /\ handed' = IF withheld THEN None ELSE disk
      /\ UNCHANGED <<work, disk, now, cand, known, evid, withheld, safe, finalized, faults>>
  BY DEF Materialize
<1>2. TypeClosing
  BY DEF IInv, TypeOK
<1>3. Handled /\ (result'.reason = "converged" =>
                    result' = result /\ ~withheld /\ disk = result.subject)
  <2>1. CASE PostFailure("credential") \/ PostFailure("out of band")
    BY <1>2, <2>1, PostFailureHandled
  <2>2. CASE UNCHANGED <<result, journaled, secondary>> /\ ~withheld /\ disk = result.subject
    BY <1>2, <2>2, NothingHandled
  <2> QED
    BY <2>1, <2>2 DEF Materialize
<1>4. TypeControl' /\ TypeSecrets'
  BY <1>1 DEF IInv, TypeOK, TypeControl, TypeSecrets, Ending
<1>5. TypeClosing'
  BY <1>1, <1>2, <1>3 DEF TypeClosing, Handled, IInv, TypeOK, TypeControl
<1>6. CleanInv'
  BY <1>1 DEF IInv, CleanInv
<1>7. result'.reason = "converged" => safe' /\ handed' = result'.subject
  BY <1>1, <1>3 DEF IInv, EndingInv
<1>8. pc \in Ending /\ pc' \in Ending \cup {"exited"} /\ pc' \notin AfterSecrets
      /\ pc' \notin {"close", "exited"}
  BY <1>1 DEF Ending, AfterSecrets
<1>9. TypeWork' /\ LoopInv' /\ ValidatedInv' /\ StallInv' /\ EarnedInv' /\ EndingInv'
  BY <1>1, <1>3, <1>7, <1>8, EndingStep
<1> QED
  BY <1>4, <1>5, <1>6, <1>9 DEF IInv, TypeOK

LEMMA FinalReconcileInv == ASSUME IInv, FinalReconcile PROVE IInv'
<1>1. /\ pc = "reconcile" /\ pc' = "snapshot"
      /\ withheld' = (withheld \/ cand \in evid)
      /\ evid' = IF withheld' THEN {} ELSE evid
      /\ UNCHANGED <<work, disk, now, cand, known, faults>>
      /\ UNCHANGED <<result, journaled, secondary, handed, safe, finalized>>
  BY DEF FinalReconcile, closing
<1>2. TypeClosing /\ Handled
  BY <1>1, NothingHandled DEF IInv, TypeOK
<1>3. TypeControl' /\ TypeSecrets' /\ TypeClosing'
  BY <1>1 DEF IInv, TypeOK, TypeControl, TypeSecrets, TypeClosing, Ending
<1>4. CleanInv'
  BY <1>1 DEF IInv, CleanInv
<1>5. result'.reason = "converged" => safe' /\ handed' = result'.subject
  BY <1>1 DEF IInv, EndingInv, AfterTree
<1>6. pc \in Ending /\ pc' \in Ending \cup {"exited"} /\ pc' \notin AfterSecrets
      /\ pc' \notin {"close", "exited"}
  BY <1>1 DEF Ending, AfterSecrets
<1>7. TypeWork' /\ LoopInv' /\ ValidatedInv' /\ StallInv' /\ EarnedInv' /\ EndingInv'
  BY <1>1, <1>2, <1>5, <1>6, EndingStep
<1> QED
  BY <1>3, <1>4, <1>7 DEF IInv, TypeOK

LEMMA FinalReconcileFailsInv == ASSUME IInv, FinalReconcileFails PROVE IInv'
<1>1. /\ pc = "reconcile" /\ pc' = "snapshot" /\ safe' = FALSE /\ Fault
      /\ UNCHANGED <<work, disk, now, cand, known, evid, withheld, handed, finalized>>
  BY DEF FinalReconcileFails
<1>2. TypeClosing
  BY DEF IInv, TypeOK
<1>3. Handled /\ result'.reason # "converged"
  BY <1>2, PostFailureHandled DEF FinalReconcileFails
<1>4. TypeControl' /\ TypeSecrets' /\ TypeClosing'
  BY <1>1, <1>3, FaultType
     DEF IInv, TypeOK, TypeControl, TypeSecrets, TypeClosing, Ending, Handled
<1>5. CleanInv'
  BY <1>1 DEF IInv, CleanInv
<1>6. pc \in Ending /\ pc' \in Ending \cup {"exited"} /\ pc' \notin AfterSecrets
  BY <1>1 DEF Ending, AfterSecrets
<1>7. TypeWork' /\ LoopInv' /\ ValidatedInv' /\ StallInv' /\ EarnedInv' /\ EndingInv'
  BY <1>1, <1>3, <1>6, EndingStep
<1> QED
  BY <1>4, <1>5, <1>7 DEF IInv, TypeOK

LEMMA SnapshotInv == ASSUME IInv, Snapshot PROVE IInv'
<1>1. /\ pc = "snapshot" /\ pc' = "complete" /\ ~withheld /\ cand \notin evid
      /\ known' = known \cup {cand}
      /\ UNCHANGED <<work, disk, now, cand, evid, withheld, faults>>
      /\ UNCHANGED <<result, journaled, secondary, handed, safe, finalized>>
  BY DEF Snapshot, closing
<1>2. Handled
  BY <1>1, NothingHandled DEF IInv, TypeOK
<1>3. TypeControl' /\ TypeSecrets' /\ TypeClosing'
  BY <1>1 DEF IInv, TypeOK, TypeControl, TypeSecrets, TypeClosing, Ending
<1>4. CleanInv'
  BY <1>1 DEF IInv, CleanInv
<1>5. result'.reason = "converged" => safe' /\ handed' = result'.subject
  BY <1>1 DEF IInv, EndingInv, AfterTree
<1>6. pc \in Ending /\ pc' \in Ending \cup {"exited"} /\ pc' \notin {"close", "exited"}
  BY <1>1 DEF Ending
<1>7. TypeWork' /\ LoopInv' /\ ValidatedInv' /\ StallInv' /\ EarnedInv' /\ EndingInv'
  BY <1>1, <1>2, <1>5, <1>6, EndingStep
<1> QED
  BY <1>3, <1>4, <1>7 DEF IInv, TypeOK

LEMMA SnapshotFailsInv == ASSUME IInv, SnapshotFails PROVE IInv'
<1>1. /\ pc = "snapshot" /\ pc' = "complete" /\ withheld' = TRUE /\ evid' = {} /\ safe' = FALSE
      /\ known' \in {known, known \cup {cand}} /\ PostFailure("credential")
      /\ UNCHANGED <<work, disk, now, cand, handed, finalized>>
      /\ faults' = faults \/ Fault
  BY DEF SnapshotFails
<1>2. Handled /\ result'.reason = "credential"
  BY <1>1, PostFailureHandled DEF IInv, TypeOK
<1>3. TypeControl' /\ TypeSecrets' /\ TypeClosing'
  BY <1>1, <1>2, FaultType
     DEF IInv, TypeOK, TypeControl, TypeSecrets, TypeClosing, Ending, Handled
<1>4. CleanInv'
  BY <1>1 DEF IInv, CleanInv
<1>5. pc \in Ending /\ pc' \in Ending \cup {"exited"}
  BY <1>1 DEF Ending
<1>6. TypeWork' /\ LoopInv' /\ ValidatedInv' /\ StallInv' /\ EarnedInv' /\ EndingInv'
  BY <1>1, <1>2, <1>5, EndingStep
<1> QED
  BY <1>3, <1>4, <1>6 DEF IInv, TypeOK

LEMMA CompleteInv == ASSUME IInv, Complete PROVE IInv'
<1>1. /\ pc = "complete" /\ pc' = "close" /\ finalized' = safe
      /\ UNCHANGED <<work, disk, now, cand, known, evid, withheld, faults>>
      /\ UNCHANGED <<result, journaled, secondary, handed, safe>>
  BY DEF Complete, secrets
<1>2. Handled
  BY <1>1, NothingHandled DEF IInv, TypeOK
<1>3. TypeControl' /\ TypeSecrets' /\ TypeClosing'
  BY <1>1 DEF IInv, TypeOK, TypeControl, TypeSecrets, TypeClosing, Ending
<1>4. CleanInv'
  BY <1>1 DEF IInv, CleanInv
<1>5. result'.reason = "converged" => safe' /\ finalized' /\ handed' = result'.subject
  BY <1>1 DEF IInv, EndingInv, AfterTree
<1>6. pc \in Ending /\ pc' \in Ending \cup {"exited"} /\ pc \in AfterSecrets
  BY <1>1 DEF Ending, AfterSecrets
<1>7. withheld => result = NoResult \/ result.reason = "credential"
  BY <1>6 DEF IInv, EndingInv
<1>8. TypeWork' /\ LoopInv' /\ ValidatedInv' /\ StallInv' /\ EarnedInv' /\ EndingInv'
  BY <1>1, <1>2, <1>5, <1>6, <1>7, EndingStep
<1> QED
  BY <1>3, <1>4, <1>8 DEF IInv, TypeOK

\* A failure that is recorded after the last credentials were seen.
LEMMA LateFailure ==
  ASSUME IInv, pc \in {"complete", "close"}, pc' \in {"close", "exited"}, Fault,
         UNCHANGED <<work, disk, now, cand, known, evid, withheld, handed, safe, finalized>>,
         NEW reason \in EscapeReason, PostFailure(reason)
  PROVE  IInv'
<1>1. /\ Handled /\ result'.reason # "converged"
      /\ result'.reason = reason \/ result' = result
      /\ withheld' => result'.reason # reason
  <2>1. reason \in {"interrupt", "error"}
    BY DEF EscapeReason
  <2>2. Handled /\ result'.reason # "converged" /\ (result'.reason = reason \/ result' = result)
    BY <2>1, PostFailureHandled DEF IInv, TypeOK
  <2>3. withheld => result.reason \in {"none", "credential"}
    BY DEF IInv, EndingInv, AfterSecrets, NoResult
  <2>4. withheld => result' = result
    BY <2>1, <2>3 DEF PostFailure
  <2> QED
    BY <2>1, <2>2, <2>3, <2>4
<1>2. withheld => result' = NoResult \/ result'.reason = "credential"
  BY <1>1 DEF IInv, EndingInv, AfterSecrets
<1>3. TypeControl' /\ TypeSecrets' /\ TypeClosing'
  BY <1>1, FaultType
     DEF IInv, TypeOK, TypeControl, TypeSecrets, TypeClosing, Ending, Handled
<1>4. CleanInv'
  BY DEF IInv, CleanInv
<1>5. pc \in Ending /\ pc' \in Ending \cup {"exited"}
  BY DEF Ending
<1>6. TypeWork' /\ LoopInv' /\ ValidatedInv' /\ StallInv' /\ EarnedInv' /\ EndingInv'
  BY <1>1, <1>2, <1>5, EndingStep
<1> QED
  BY <1>3, <1>4, <1>6 DEF IInv, TypeOK

LEMMA EndingAbortedInv == ASSUME IInv, EndingAborted PROVE IInv'
<1>1. /\ pc \in Ending \ {"close"} /\ pc' = "close" /\ result' = NoResult /\ Fault
      /\ UNCHANGED <<work, disk, now, cand, known, evid, withheld>>
      /\ UNCHANGED <<journaled, secondary, handed, safe, finalized>>
  BY DEF EndingAborted, secrets, closing
<1>2. Handled /\ result'.reason = "none"
  BY <1>1 DEF Handled, Keeps, NoResult, IInv, TypeOK, TypeClosing
<1>3. TypeControl' /\ TypeSecrets' /\ TypeClosing'
  BY <1>1, FaultType DEF IInv, TypeOK, TypeControl, TypeSecrets, TypeClosing, Ending
<1>4. CleanInv'
  BY <1>1 DEF IInv, CleanInv
<1>5. pc \in Ending /\ pc' \in Ending \cup {"exited"}
  BY <1>1 DEF Ending
<1>6. TypeWork' /\ LoopInv' /\ ValidatedInv' /\ StallInv' /\ EarnedInv' /\ EndingInv'
  BY <1>1, <1>2, <1>5, EndingStep
<1> QED
  BY <1>3, <1>4, <1>6 DEF IInv, TypeOK

LEMMA ExitInv == ASSUME IInv, Exit PROVE IInv'
<1>1. /\ pc = "close" /\ pc' = "exited"
      /\ UNCHANGED <<work, disk, now, cand, known, evid, withheld, faults>>
      /\ UNCHANGED <<result, journaled, secondary, handed, safe, finalized>>
  BY DEF Exit, secrets, closing
<1>2. Handled
  BY <1>1, NothingHandled DEF IInv, TypeOK
<1>3. TypeControl' /\ TypeSecrets' /\ TypeClosing'
  BY <1>1 DEF IInv, TypeOK, TypeControl, TypeSecrets, TypeClosing
<1>4. CleanInv'
  BY <1>1 DEF IInv, CleanInv
<1>5. result'.reason = "converged" => safe' /\ finalized' /\ handed' = result'.subject
  BY <1>1 DEF IInv, EndingInv, AfterTree
<1>6. withheld => result = NoResult \/ result.reason = "credential"
  BY <1>1 DEF IInv, EndingInv, AfterSecrets
<1>7. pc \in Ending /\ pc' \in Ending \cup {"exited"}
  BY <1>1 DEF Ending
<1>8. TypeWork' /\ LoopInv' /\ ValidatedInv' /\ StallInv' /\ EarnedInv' /\ EndingInv'
  BY <1>1, <1>2, <1>5, <1>6, <1>7, EndingStep
<1> QED
  BY <1>3, <1>4, <1>8 DEF IInv, TypeOK

\* A tree changed from outside concerns no invariant: only the checks see it.
LEMMA OutOfBandInv == ASSUME IInv, OutOfBand PROVE IInv'
<1>1. /\ disk' \in Tree \cup {None} /\ Fault /\ pc' = pc
      /\ UNCHANGED <<work, now, cand, known, evid, withheld, result>>
      /\ UNCHANGED <<journaled, secondary, handed, safe, finalized>>
  BY DEF OutOfBand, secrets, closing
<1>2. TypeControl' /\ TypeSecrets' /\ TypeClosing' /\ TypeWork'
  BY <1>1, FaultType
     DEF IInv, TypeOK, TypeControl, TypeSecrets, TypeClosing, TypeWork, work
<1>3. LoopInv' /\ ValidatedInv' /\ StallInv'
  BY <1>1 DEF IInv, LoopInv, ValidatedInv, StallInv, StallExact, work
<1>4. EarnedInv' /\ CleanInv' /\ EndingInv'
  BY <1>1 DEF IInv, EarnedInv, Earned, CleanInv, EndingInv, work
<1> QED
  BY <1>2, <1>3, <1>4 DEF IInv, TypeOK

------------------------------------------------------------------------------
LEMMA InitInv == ASSUME Init PROVE IInv
<1>1. TypeControl
  BY DEF Init, TypeControl, InLoop
<1>2. TypeWork
  BY DEF Init, TypeWork, Check
<1>3. TypeSecrets
  <2>1. 0 \in Gen
    BY DEF Gen
  <2> QED
    BY <2>1 DEF Init, TypeSecrets
<1>4. TypeClosing
  BY DEF Init, TypeClosing
<1>5. NoResult.reason = "none"
  BY DEF NoResult
<1>6. LoopInv /\ ValidatedInv
  BY DEF Init, LoopInv, ValidatedInv
<1>7. StallInv
  BY <1>5 DEF Init, StallInv, StallExact
<1>8. EarnedInv /\ CleanInv /\ EndingInv
  BY <1>5 DEF Init, EarnedInv, CleanInv, EndingInv, Ending, AfterSecrets
<1> QED
  BY <1>1, <1>2, <1>3, <1>4, <1>6, <1>7, <1>8 DEF IInv, TypeOK

LEMMA LoopInvariant == ASSUME IInv, Loop \/ Interrupt PROVE IInv'
<1>1. {"author", "publish", "swap", "published", "validate", "review", "critic", "round"}
        \subseteq InLoop
  BY DEF InLoop
<1>2. ASSUME NEW next \in InLoop, pc \in InLoop, Kept(next) PROVE IInv'
  BY <1>2, KeptInv
<1>3. CASE RoundStart
  BY <1>1, <1>2, <1>3, RoundStartKept DEF RoundStart
<1>4. CASE AuthorTurn
  BY <1>1, <1>2, <1>4, AuthorTurnKept DEF AuthorTurn
<1>5. CASE Publish
  BY <1>1, <1>2, <1>5, PublishKept DEF Publish
<1>6. CASE Swap
  BY <1>1, <1>2, <1>6, SwapKept DEF Swap
<1>7. CASE SwapFails
  BY <1>1, <1>2, <1>7, SwapFailsKept DEF SwapFails
<1>8. CASE Published
  BY <1>1, <1>2, <1>8, PublishedKept DEF Published
<1>9. CASE Validate
  BY <1>1, <1>2, <1>9, ValidateKept DEF Validate
<1>10. CASE Bundle
  BY <1>1, <1>2, <1>10, BundleKept DEF Bundle
<1>11. CASE CriticTurn
  BY <1>11, CriticTurnInv
<1>12. CASE Interrupt
  BY <1>1, <1>2, <1>12, InterruptKept DEF Interrupt
<1> QED
  BY <1>3, <1>4, <1>5, <1>6, <1>7, <1>8, <1>9, <1>10, <1>11, <1>12 DEF Loop

LEMMA EndingInvariant == ASSUME IInv, Finalize PROVE IInv'
<1>1. CASE CompleteFails
  BY <1>1, LateFailure DEF CompleteFails
<1>2. CASE ExitFails
  BY <1>2, LateFailure DEF ExitFails
<1> QED
  BY <1>1, <1>2, MaterializeInv, FinalReconcileInv, FinalReconcileFailsInv, SnapshotInv,
     SnapshotFailsInv, CompleteInv, EndingAbortedInv, ExitInv
     DEF Finalize

LEMMA StutterInv == ASSUME IInv, UNCHANGED vars PROVE IInv'
<1>1. /\ UNCHANGED <<pc, work, disk, now, cand, known, evid, withheld, result, faults>>
      /\ UNCHANGED <<journaled, secondary, handed, safe, finalized>>
  BY DEF vars, secrets, closing
<1>2. TypeControl' /\ TypeSecrets' /\ TypeClosing' /\ TypeWork'
  BY <1>1 DEF IInv, TypeOK, TypeControl, TypeSecrets, TypeClosing, TypeWork, work
<1>3. LoopInv' /\ ValidatedInv' /\ StallInv'
  BY <1>1 DEF IInv, LoopInv, ValidatedInv, StallInv, StallExact, work
<1>4. EarnedInv' /\ CleanInv' /\ EndingInv'
  BY <1>1 DEF IInv, EarnedInv, Earned, CleanInv, EndingInv, work
<1> QED
  BY <1>2, <1>3, <1>4 DEF IInv, TypeOK

LEMMA NextInv == ASSUME IInv, [Next]_vars PROVE IInv'
<1>1. CASE Stops
  BY <1>1, StoppingInv, FinishInv, FinishFailsInv, LoopInvariant DEF Stops
<1>2. CASE Done \/ UNCHANGED vars
  BY <1>2, StutterInv DEF Done
<1> QED
  BY <1>1, <1>2, LoopInvariant, EndingInvariant, OutOfBandInv DEF Next, Step

LEMMA Invariant == Spec => []IInv
<1>1. Init => IInv
  BY InitInv
<1>2. IInv /\ [Next]_vars => IInv'
  BY NextInv
<1> QED
  BY <1>1, <1>2, PTL DEF Spec

------------------------------------------------------------------------------
\* Every reachable state of a run is well typed (the variables of runner.py and
\* of the ending of execute_run), whatever the bounds.
THEOREM TypeCorrect == Spec => []TypeOK
<1>1. IInv => TypeOK
  BY DEF IInv
<1> QED
  BY <1>1, Invariant, PTL

\* Exit code 0 (LoopRunner.run, execute_run) is only given to a subject that was
\* published, validated, approved in time and found on disk at the end, for any
\* number of rounds, interrupts, failed calls and outside changes.
THEOREM SuccessAlwaysEarned == Spec => []SuccessIsEarned
<1>1. IInv => SuccessIsEarned
  <2> SUFFICES ASSUME IInv, Exited, result.reason = "converged"
               PROVE  /\ checks = "pass" /\ ~withheld /\ finalized
                      /\ judged[1] = result.subject /\ judged[2] = result.subject
                      /\ judged[3] = "LGTM" /\ judged[4] <= Deadline
                      /\ handed = result.subject
    BY DEF SuccessIsEarned
  <2>1. Earned(result) /\ finalized /\ handed = result.subject
    BY DEF IInv, EarnedInv, EndingInv, Exited, AfterTree
  <2>2. ~withheld
    BY DEF IInv, EndingInv, Exited, AfterSecrets, NoResult
  <2> QED
    BY <2>1, <2>2 DEF Earned
<1> QED
  BY <1>1, Invariant, PTL

\* What the process reports at its exit, and what run.json says at any time
\* (ArtifactRunJournal.finish), is what happened.
THEOREM ReportsAlwaysTrue == Spec => []ReportsAreTrue
<1>1. IInv => ReportIsHonest
  <2> SUFFICES ASSUME IInv, Exited, result # NoResult
               PROVE  IF withheld THEN result.reason = "credential" ELSE journaled = result
    BY DEF ReportIsHonest
  <2> QED
    BY DEF IInv, EndingInv, Exited, AfterSecrets
<1>2. IInv => JournaledIsEarned
  <2> SUFFICES ASSUME IInv, journaled.reason = "converged" PROVE JournaledIsEarned
    BY DEF JournaledIsEarned
  <2>1. Earned(journaled)
    BY DEF IInv, EarnedInv
  <2>2. pc \notin InLoop
    BY DEF IInv, LoopInv, NoResult
  <2> QED
    BY <2>1, <2>2 DEF Earned, JournaledIsEarned
<1> QED
  BY <1>1, <1>2, Invariant, PTL DEF ReportsAreTrue

\* The credential transaction is finalized (finalize_reconciled) only when the
\* last generation is known and no retained evidence holds a known one.
THEOREM FinalizedAlwaysClean == Spec => []FinalizedClean
<1>1. IInv => FinalizedClean
  BY DEF IInv, CleanInv, FinalizedClean
<1> QED
  BY <1>1, Invariant, PTL

\* StallDetector stops a run exactly at two adjacent rounds with the same
\* subject, validation outcome and verdict.
THEOREM StallAlwaysExact == Spec => []StallExact
<1>1. IInv => StallExact
  BY DEF IInv, StallInv
<1> QED
  BY <1>1, Invariant, PTL

\* A recorded failure only becomes a credential failure, or is lost together
\* with the result.
LEMMA PostFailureKeeps ==
  ASSUME result.reason # "converged", NEW reason, PostFailure(reason)
  PROVE  ResultKept
BY DEF PostFailure, ResultKept

\* After the loop the first failure stays the result (_post_result_failure),
\* whatever else fails.
THEOREM FirstFailureAlwaysKept == Spec => FirstFailureKept
<1>1. ASSUME [Next]_vars, result.reason \notin {"converged", "none"}, pc \in Ending
      PROVE  ResultKept
  <2>1. pc \notin InLoop /\ pc \notin Handler
    BY <1>1 DEF Ending, InLoop, Handler
  <2>2. CASE Loop \/ Stops
    BY <1>1, <2>1, <2>2
       DEF Loop, Stops, RoundStart, AuthorTurn, Publish, Swap, SwapFails, Published, Validate,
           Bundle, CriticTurn, Stopping, Finish, FinishFails, Interrupt, InLoop, Handler
  <2>3. CASE Materialize
    BY <1>1, <2>3, PostFailureKeeps DEF Materialize, ResultKept
  <2>4. CASE FinalReconcileFails \/ SnapshotFails \/ CompleteFails \/ ExitFails
    BY <1>1, <2>4, PostFailureKeeps DEF FinalReconcileFails, SnapshotFails, CompleteFails, ExitFails
  <2>5. CASE FinalReconcile \/ Snapshot \/ Complete \/ Exit \/ EndingAborted \/ OutOfBand
    BY <2>5 DEF FinalReconcile, Snapshot, Complete, Exit, EndingAborted, OutOfBand, ResultKept
  <2>6. CASE Done \/ UNCHANGED vars
    BY <2>6 DEF Done, vars, ResultKept
  <2> QED
    BY <1>1, <2>2, <2>3, <2>4, <2>5, <2>6 DEF Next, Step, Finalize
<1>2. [Next]_vars => [result.reason \notin {"converged", "none"} /\ pc \in Ending => ResultKept]_vars
  BY <1>1
<1> QED
  BY <1>2, PTL DEF Spec, FirstFailureKept

=============================================================================
