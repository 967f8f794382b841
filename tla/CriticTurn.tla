----------------------------- MODULE CriticTurn -----------------------------
(***************************************************************************)
(* One review by a fresh Claude process (SandboxedClaudeCriticAdapter.     *)
(* review of runtime_adapters.py, and ClaudeClient of claude_client.py):   *)
(* the bundle is screened before it is sent, the process may refresh the   *)
(* login while it runs, what it leaves is screened again with what the     *)
(* ledger knows by then, and only after that is its answer looked at: how  *)
(* it ended, what the envelope says, and which model and effort its        *)
(* requests used (_parse_api_request_selection).                           *)
(***************************************************************************)
EXTENDS Integers, Sequences, FiniteSets, AgentTurn

CONSTANTS Model, Effort,
          Unset,      \* Python's None
          MaxRequest, \* _MAX_API_REQUEST_DETAILS
          MaxLogin    \* bound: generations of the login

ASSUME UnsetAssumption == Unset \notin Model \cup Effort
ASSUME LimitAssumption == MaxRequest \in Nat \ {0} /\ MaxLogin \in Nat \ {0}

VARIABLES
  login,    \* an account login, which is refreshed; else a fixed token
  chosen,   \* the model and the effort asked for, each may be None
  shown,    \* a generation the bundle contains, 0 for none
  requests, \* the API request details on stderr
  left,     \* what the process left: its candidate and a generation it let out
  answer,   \* how the process ended and what its envelope is
  observed  \* observed_model and observed_effort

reviewVars ==
  <<pc, login, chosen, credential, shown, requests, left, answer, retained, observed, outcome>>

Request ==
  [model : Model, effort : Effort \cup {Unset}, format : {"schema", "absent", "other"}]
Malformed == [model |-> Unset, effort |-> Unset, format |-> "malformed"]

Endings == {"limited", "timed_out", "nonzero", "zero"}
Envelopes == {"empty", "unreadable", "max_turns", "retries", "session_ended", "error",
              "invalid", "review"}
Selections == [model : Model \cup {Unset}, effort : Effort \cup {Unset}]

Reasons ==
  {"none", "review", "critic_timeout", "credential_refresh_failure", "review_content_withheld",
   "executor_failure", "out_of_band_change", "sink_failure", "agent_output_limit",
   "critic_max_turns_exhausted", "structured_output_retries", "critic_process_failure",
   "invalid_structured_output", "sandbox_setup_failure"}

ReviewTypeOK ==
  /\ pc \in {"ask", "run", "left", "refresh", "screen", "sink", "classify", "select", "over"}
  /\ login \in BOOLEAN
  /\ chosen \in Selections
  /\ gen \in 1 .. MaxLogin /\ settled \in 1 .. MaxLogin /\ known \in 1 .. MaxLogin
  /\ shown \in 0 .. MaxLogin
  /\ requests \in Seq(Request \cup {Malformed})
  /\ left \in [candidate : {"empty", "changed"}, leak : 0 .. MaxLogin]
  /\ answer \in [ending : Endings, envelope : Envelopes]
  /\ retained \in BOOLEAN
  /\ observed \in Selections
  /\ outcome \in Reasons

NoAnswer == [ending |-> "zero", envelope |-> "empty"]

ReviewInit ==
  /\ pc = "ask"
  /\ login \in BOOLEAN
  /\ chosen \in Selections
  /\ gen = 1 /\ settled = 1 /\ known = 1
  /\ shown \in 0 .. 1
  /\ requests = <<>>
  /\ left = [candidate |-> "empty", leak |-> 0]
  /\ answer = NoAnswer
  /\ retained = FALSE
  /\ observed = [model |-> Unset, effort |-> Unset]
  /\ outcome = "none"

Finish(why) == pc' = "over" /\ outcome' = why
Goto(step) == pc' = step /\ UNCHANGED outcome

------------------------------------------------------------------------------
\* Mutant: what the process let out is screened with what was known before it ran.
LearnedBefore ==
  IF login /\ pc = "ask"
  THEN /\ gen' \in {g \in gen .. gen + 1 : g <= MaxLogin}
       /\ settled' = gen' /\ known' = gen'
  ELSE settled' = gen /\ UNCHANGED <<gen, known>>

\* current_secrets of the workflow: the transaction is reconciled, whose status probe
\* may refresh the login, and the ledger learns every generation.
Learned ==
  IF login
  THEN /\ gen' \in {g \in gen .. gen + 1 : g <= MaxLogin}
       /\ settled' = gen' /\ known' = gen'
  ELSE UNCHANGED credential

\* The remaining time must exceed the API timeout, the ledger learns the login's current
\* generation, and a bundle that contains one is not sent.
SendBundle ==
  /\ pc = "ask"
  /\ \/ Finish("critic_timeout") /\ UNCHANGED credential
     \/ login /\ Finish("credential_refresh_failure") /\ UNCHANGED credential
     \/ /\ Learned
        /\ \/ shown \in 1 .. known' /\ Finish("review_content_withheld")
           \/ shown \notin 1 .. known' /\ Goto("run")
  /\ UNCHANGED <<login, chosen, shown, requests, left, answer, retained, observed>>

\* The process asks the API, possibly again and again; nothing is read behind a detail
\* that is malformed.
AskApi ==
  /\ pc = "run" /\ Len(requests) <= MaxRequest
  /\ Malformed \notin {requests[i] : i \in 1 .. Len(requests)}
  /\ \E request \in Request \cup {Malformed} : requests' = Append(requests, request)
  /\ UNCHANGED <<pc, login, chosen, credential, shown, left, answer, retained, observed, outcome>>

\* It refreshes the login.
RotateLogin ==
  /\ pc = "run" /\ login /\ gen < MaxLogin
  /\ gen' = gen + 1
  /\ UNCHANGED <<pc, login, chosen, settled, known, shown, requests, left, answer, retained, observed,
                 outcome>>

\* It is over, or the executor gives it up; it may have let a generation out.
End ==
  /\ pc = "run"
  /\ left' \in [candidate : {"empty", "changed"}, leak : 0 .. gen]
  /\ Goto("left") \/ Finish("executor_failure")
  /\ UNCHANGED <<login, chosen, credential, shown, requests, answer, retained, observed>>

------------------------------------------------------------------------------
\* A process without tools cannot have changed its empty subject.
CheckCandidate ==
  /\ pc = "left"
  /\ \/ left.candidate = "empty" /\ Goto("refresh")
     \/ left.candidate # "empty" /\ Finish("out_of_band_change")
  /\ UNCHANGED <<login, chosen, credential, shown, requests, left, answer, retained, observed>>

RefreshLogin ==
  /\ pc = "refresh"
  /\ \/ Learned /\ Goto("screen")
     \/ login /\ Finish("credential_refresh_failure") /\ UNCHANGED credential
  /\ UNCHANGED <<login, chosen, shown, requests, left, answer, retained, observed>>

Screen ==
  /\ pc = "screen"
  /\ \/ left.leak \in 1 .. known /\ Finish("credential_refresh_failure")
     \/ left.leak \notin 1 .. known /\ Goto("sink")
  /\ UNCHANGED <<login, chosen, credential, shown, requests, left, answer, retained, observed>>

SinkReview ==
  /\ pc = "sink"
  /\ \/ retained' = TRUE /\ Goto("classify")
     \/ Finish("sink_failure") /\ UNCHANGED retained
  /\ UNCHANGED <<login, chosen, credential, shown, requests, left, answer, observed>>

------------------------------------------------------------------------------
\* ClaudeClient.review, before the diagnostics: "none" goes on to them.
Verdict(ending, envelope) ==
  CASE ending = "limited" -> "agent_output_limit"
    [] ending = "timed_out" -> "critic_timeout"
    [] ending \in {"zero", "nonzero"} ->
         CASE envelope = "unreadable" -> "invalid_structured_output"
           [] envelope = "max_turns" -> "critic_max_turns_exhausted"
           [] envelope = "retries" -> "structured_output_retries"
           [] envelope = "session_ended" -> "credential_refresh_failure"
           [] envelope = "error" -> "critic_process_failure"
           [] envelope \in {"empty", "invalid", "review"} ->
                IF ending = "nonzero" THEN "critic_process_failure"
                ELSE IF envelope = "review" THEN "none" ELSE "invalid_structured_output"

Classify ==
  /\ pc = "classify"
  /\ answer' \in [ending : Endings, envelope : Envelopes]
  /\ LET why == Verdict(answer'.ending, answer'.envelope)
     IN IF why = "none" THEN Goto("select") ELSE Finish(why)
  /\ UNCHANGED <<login, chosen, credential, shown, requests, left, retained, observed>>

\* Mutant: a retry may use another effort.
FitsAnyEffort(request, before, count) ==
  /\ request.format \in {"schema", "absent"}
  /\ chosen.model \in {Unset, request.model}
  /\ before.model \in {Unset, request.model}
  /\ count < MaxRequest

\* _parse_api_request_selection, one detail after another.
Fits(request, before, count) ==
  /\ request.format \in {"schema", "absent"}
  /\ chosen.model \in {Unset, request.model}
  /\ chosen.effort \in {Unset, request.effort}
  /\ before.model \in {Unset, request.model}
  /\ count > 0 => request.effort = before.effort
  /\ count < MaxRequest

ScanRequests ==
  LET observing[i \in 0 .. Len(requests)] ==
        IF i = 0 THEN [ok |-> TRUE, model |-> Unset, effort |-> Unset]
        ELSE LET before == observing[i - 1]
             IN [ok |-> before.ok /\ Fits(requests[i], before, i - 1),
                 model |-> requests[i].model, effort |-> requests[i].effort]
  IN observing[Len(requests)]

Diagnosed ==
  ScanRequests.ok /\ (chosen.model # Unset \/ chosen.effort # Unset => requests # <<>>)

\* The model of the envelope and the models of its usage agree with the requests'.
Agrees(model, usage) ==
  /\ ScanRequests.model # Unset /\ model # Unset => model = ScanRequests.model
  /\ usage # {} => /\ Cardinality(usage) = 1
                   /\ \A used \in usage :
                        /\ ScanRequests.model # Unset => used = ScanRequests.model
                        /\ model # Unset => used = model

\* Mutant: all of them are recorded.
SoleSet(models) == models

Sole(models) == IF models = {} THEN Unset ELSE CHOOSE m \in models : TRUE

Select ==
  /\ pc = "select"
  /\ \E model \in Model \cup {Unset}, usage \in SUBSET Model :
       \/ /\ Diagnosed /\ Agrees(model, usage)
          /\ observed' = [model |-> Sole(({ScanRequests.model, model} \cup usage) \ {Unset}),
                          effort |-> ScanRequests.effort]
          /\ Finish("review")
       \/ /\ ~Diagnosed \/ ~Agrees(model, usage)
          /\ Finish("sandbox_setup_failure")
          /\ UNCHANGED observed
  /\ UNCHANGED <<login, chosen, credential, shown, requests, left, answer, retained>>

Reviewed == pc = "over" /\ UNCHANGED reviewVars

ReviewStep ==
  \/ SendBundle \/ End \/ CheckCandidate \/ RefreshLogin \/ Screen \/ SinkReview
  \/ Classify \/ Select
ReviewNext == ReviewStep \/ AskApi \/ RotateLogin \/ Reviewed

ReviewSpec == ReviewInit /\ [][ReviewNext]_reviewVars

------------------------------------------------------------------------------
(***************************************************************************)
(* Properties.                                                             *)
(***************************************************************************)
\* Nothing that holds a credential leaves for the API or stays in the adapter's attempt: not
\* a generation the bundle picked up, not one the process itself created and let out.
NothingLeaks ==
  /\ pc = "run" => shown \notin 1 .. settled
  /\ retained => left = [candidate |-> "empty", leak |-> 0]

\* "After every critic exit, any valid refreshed candidate is reconciled before the
\* review is accepted" (PLAN.md:445), and the attempt it rests on is on disk.
SettledBeforeAccepted == outcome = "review" => settled = gen /\ known = gen /\ retained

\* The model a review reports is the one every request used, and so is the effort; where
\* one was asked for it is that one, and at least one request says so.
ReviewAsRequested ==
  outcome = "review" =>
    /\ \A i \in 1 .. Len(requests) :
         requests[i].model = observed.model /\ requests[i].effort = observed.effort
    /\ chosen.model \in {Unset, observed.model} /\ chosen.effort \in {Unset, observed.effort}
    /\ chosen # [model |-> Unset, effort |-> Unset] => requests # <<>>
    /\ Len(requests) <= MaxRequest

\* A review comes from a process that ended by itself, with zero, within its limits, and
\* whose envelope is no error; the operator is asked to log in only for an answer that
\* came in time.
OutcomeIsEarned ==
  /\ outcome = "review" => answer = [ending |-> "zero", envelope |-> "review"]
  /\ retained /\ outcome = "credential_refresh_failure" =>
       answer.ending \in {"zero", "nonzero"} /\ answer.envelope = "session_ended"

\* A review the loop is given was earned in every one of these ways.
ReviewIsEarned == SettledBeforeAccepted /\ ReviewAsRequested /\ OutcomeIsEarned
=============================================================================
