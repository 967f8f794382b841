--------------------------- MODULE SandboxService ---------------------------
(***************************************************************************)
(* One sandboxed execution seen from outside: SandboxExecutor.execute has  *)
(* a transient user unit started whose first process is the supervisor,    *)
(* inspects it, sends the request, collects the response and proves that   *)
(* the unit is gone (runtime_adapters.py, service.py).  The inside is      *)
(* Supervisor.                                                             *)
(***************************************************************************)
EXTENDS Supervisor, SequencesExt

VARIABLES
  client,     \* where execute is
  launcher,   \* systemd-run: "none", "up", "success" or "failure"
  asked,      \* the user manager has the job
  started,    \* the unit has been started
  verified,   \* its limits were inspected and are the ones asked for
  group,      \* its control group is known
  fed,        \* the whole request was written
  cut,        \* the launcher was stopped for time, output or an error
  overdue     \* the deadline of the present wait has passed

outside == <<client, launcher, asked, started, verified, group, fed, cut, overdue>>
vars    == <<inside, outside>>

Running == started /\ ~Over
Finished == client \in {"accepted", "failed", "dead"}

Goto(where) == client' = where

-----------------------------------------------------------------------------
\* The launch.

\* The package, the mounts and their snapshots are what was reviewed, their
\* descriptors are held, and the request passes the supervisor's own parser.
Prepare ==
  /\ client = "prepare"
  /\ Goto("inspect") /\ launcher' = "up" /\ overdue' = FALSE
  /\ UNCHANGED <<inside, asked, started, verified, group, fed, cut>>

PrepareFails ==
  /\ client = "prepare"
  /\ Goto("failed")
  /\ UNCHANGED <<inside, launcher, asked, started, verified, group, fed, cut, overdue>>

\* systemd-run hands the job to the user manager, which starts the unit even
\* if systemd-run is stopped meanwhile.
Ask ==
  /\ launcher = "up" /\ ~asked
  /\ asked' = TRUE
  /\ UNCHANGED <<inside, client, launcher, started, verified, group, fed, cut, overdue>>

UnitStarts ==
  /\ asked /\ ~started
  /\ started' = TRUE
  /\ UNCHANGED <<inside, client, launcher, asked, verified, group, fed, cut, overdue>>

\* systemd-run --wait reports how the unit has ended.
LauncherEnds ==
  /\ launcher = "up" /\ started /\ Over
  /\ launcher' = IF pc = "exited" /\ outcome = "result" THEN "success" ELSE "failure"
  /\ UNCHANGED <<inside, client, asked, started, verified, group, fed, cut, overdue>>

\* systemd-run itself fails, before or after the unit was started.
LauncherFails ==
  /\ launcher = "up" /\ Elsewhere
  /\ launcher' = "failure"
  /\ UNCHANGED <<client, asked, started, verified, group, fed, cut, overdue>>

\* inspect_live runs before anything is written to the unit.
Inspect ==
  /\ client = "inspect" /\ Running
  /\ group' = TRUE
  /\ \/ verified' = TRUE /\ Goto("stream")
     \/ UNCHANGED verified /\ Goto("abort")
  /\ overdue' = FALSE
  /\ UNCHANGED <<inside, launcher, asked, started, fed, cut>>

InspectFails ==
  /\ client = "inspect" /\ overdue
  /\ Goto("abort")
  /\ UNCHANGED <<inside, launcher, asked, started, verified, group, fed, cut, overdue>>

-----------------------------------------------------------------------------
\* run_bounded_process.

Feed ==
  /\ client = "stream" /\ ~fed /\ Running
  /\ fed' = TRUE
  /\ UNCHANGED <<inside, client, launcher, asked, started, verified, group, cut, overdue>>

\* The launcher has exited and its pipes, which the unit shares, are at their end.
StreamEnds ==
  /\ client = "stream" /\ launcher # "up" /\ Over
  /\ Goto("kill")
  /\ UNCHANGED <<inside, launcher, asked, started, verified, group, fed, cut, overdue>>

StreamCut ==
  /\ client = "stream"
  /\ Goto("abort")
  /\ UNCHANGED <<inside, launcher, asked, started, verified, group, fed, cut, overdue>>

\* Too much output, an interrupt or any other error, at any point.
StreamFails ==
  /\ client \in {"inspect", "stream"} /\ Elsewhere
  /\ Goto("abort")
  /\ UNCHANGED <<launcher, asked, started, verified, group, fed, cut, overdue>>

\* systemctl kill reaches a unit that is there; its exit status is not looked at.
KillUnit ==
  \/ Running /\ NamespaceDies
  \/ ~Running /\ UNCHANGED inside
  \/ Running /\ Elsewhere

\* abort kills the unit and the launcher's group.
Abort ==
  /\ client = "abort"
  /\ KillUnit
  /\ cut' = TRUE
  /\ launcher' = IF launcher = "up" THEN "failure" ELSE launcher
  /\ Goto("kill")
  /\ UNCHANGED <<asked, started, verified, group, fed, overdue>>

-----------------------------------------------------------------------------
\* The end of TransientServiceRunner.run, whatever happened before.

FinalKill ==
  /\ client = "kill"
  /\ KillUnit
  /\ Goto("find")
  /\ UNCHANGED <<launcher, asked, started, verified, group, fed, cut, overdue>>

\* A control group that was never seen is looked up now, if the unit is loaded.
FindGroup ==
  /\ client = "find"
  /\ \/ group /\ UNCHANGED group
     \/ ~group /\ group' = Running
     \/ ~group /\ UNCHANGED group
  /\ Goto("await") /\ overdue' = FALSE
  /\ UNCHANGED <<inside, launcher, asked, started, verified, fed, cut>>

\* The control group is empty or collected.
GroupEmpty ==
  /\ client = "await" /\ group /\ ~Running
  /\ Goto("judge")
  /\ UNCHANGED <<inside, launcher, asked, started, verified, group, fed, cut, overdue>>

Unproven ==
  /\ client = "await" /\ (~group \/ overdue)
  /\ Goto("failed")
  /\ UNCHANGED <<inside, launcher, asked, started, verified, group, fed, cut, overdue>>

\* The response parses as the result of this request: an error response, one
\* that was cut off and one without the proof of emptiness do not.
ResultParses == outcome = "result" /\ ~cut

\* It is taken from a unit that ended well, in time and within its limits.
Judge ==
  /\ client = "judge"
  /\ Goto(IF ResultParses /\ launcher = "success" THEN "accepted" ELSE "failed")
  /\ UNCHANGED <<inside, launcher, asked, started, verified, group, fed, cut, overdue>>

\* The runner dies; the launcher goes on without it.
ClientDies ==
  /\ ~Finished /\ Elsewhere
  /\ Goto("dead")
  /\ UNCHANGED <<launcher, asked, started, verified, group, fed, cut, overdue>>

Overdue ==
  /\ client \in {"inspect", "await"} /\ ~overdue
  /\ overdue' = TRUE
  /\ UNCHANGED <<inside, client, launcher, asked, started, verified, group, fed, cut>>

-----------------------------------------------------------------------------
\* The unit: the supervisor with its end of the pipe, and RuntimeMaxSec.

Inside(A) == started /\ A /\ UNCHANGED outside

Receive == fed /\ \E b \in BOOLEAN : ReadRequest(b)
EndOfInput == ~fed /\ client \notin {"prepare", "inspect", "stream"} /\ ReadNothing

Next ==
  \/ Prepare \/ PrepareFails \/ Ask \/ UnitStarts \/ LauncherEnds \/ LauncherFails
  \/ Inspect \/ InspectFails \/ Feed \/ StreamEnds \/ StreamCut \/ StreamFails
  \/ Abort \/ FinalKill \/ FindGroup \/ GroupEmpty \/ Unproven \/ Judge
  \/ ClientDies \/ Overdue
  \/ Inside(Receive) \/ Inside(EndOfInput) \/ Inside(SupervisorStep) \/ Inside(Failure)
  \/ Inside(Tick) \/ Inside(ProcessStep) \/ Inside(NamespaceDies)
  \/ Finished /\ ~Running /\ UNCHANGED vars

Init ==
  /\ InitInside
  /\ client = "prepare" /\ launcher = "none"
  /\ asked = FALSE /\ started = FALSE /\ verified = FALSE /\ group = FALSE
  /\ fed = FALSE /\ cut = FALSE /\ overdue = FALSE

Spec == Init /\ [][Next]_vars

ClientStep ==
  \/ Prepare \/ Inspect \/ InspectFails \/ Feed \/ StreamEnds \/ StreamCut
  \/ Abort \/ FinalKill \/ FindGroup \/ GroupEmpty \/ Unproven \/ Judge

\* The client and the supervisor go on, and their waits have deadlines.
FairSpec ==
  /\ Spec
  /\ WF_vars(ClientStep) /\ WF_vars(Overdue)
  /\ WF_vars(Inside(Receive)) /\ WF_vars(Inside(EndOfInput))
  /\ WF_vars(Inside(SupervisorStep)) /\ WF_vars(Inside(Tick))

-----------------------------------------------------------------------------
\* Properties.

Stage == {"prepare", "inspect", "stream", "abort", "kill", "find", "await", "judge",
          "accepted", "failed", "dead"}
TypeOK ==
  /\ TypeInside
  /\ client \in Stage /\ launcher \in {"none", "up", "success", "failure"}
  /\ {asked, started, verified, group, fed, cut, overdue} \subseteq BOOLEAN

\* The output that the records retain.
Total(list) ==
  LET sum[n \in 0 .. Len(list)] == IF n = 0 THEN 0 ELSE sum[n - 1] + list[n].size
  IN sum[Len(list)]

\* What parse_validation_batch_result accepts of the records of a batch.
WellFormed ==
  /\ Len(records) \in 1 .. Checks
  /\ Total(records) <= RawMax
  /\ \A r \in ToSet(records) : ~r.started => r.timed /\ ~r.limited /\ r.size = 0
  /\ Len(records) < Checks =>
       Last(records).timed \/ Last(records).limited \/ Last(records).code = "stop"

\* What is accepted says of each check how it really ended, names output that
\* was thrown away, and is a batch result the executor's parser takes: however
\* processes were reaped and output was read before, while and after the
\* descendants were ended.
Truthful(r) == r.code = r.really /\ (r.lost => r.limited)
RecordsAreTrue ==
  client = "accepted" => (\A r \in ToSet(records) : Truthful(r)) /\ (batch => WellFormed)

\* No process of the command exists before the limits of its unit were seen to
\* be the ones asked for.
LimitsBeforeWork == fresh > 2 => verified

\* Every execution ends, and so does its unit, also one that was started after
\* the executor had given it up.
SandboxEnds == <>Finished /\ []<>~Running
=============================================================================
