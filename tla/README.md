# A verification project for agent-loop

`agent-loop` lets one vendor CLI (Codex, the author) change a private copy of a
repository and another (Claude, the critic) judge the change, round after
round, until the critic approves or a reason to stop appears. It is a program
of single processes that share durable state: the credentials both CLIs
refresh while they work, the evidence a run retains, and the tree the author
publishes. What can go wrong in it is mostly what happens *between* two writes
of a file, *after* a failure that is itself being handled, or *while* another
process holds the same state. That is what these specifications are about.

The specifications are written in TLA+, checked by TLC and, where noted,
proved by TLAPS. File and line references are to the repository; module names
without a path are in `src/agent_loop/`.

Contents: 1 inventory, 2 modules, 3 CredentialPair and DefaultPair,
4 ArtifactWithholding, 5 RunSetup and RunLoop, 6 AuthorBroker, 7 Supervisor and
SandboxService, 8 Manifests and SubjectFlow, 9 AuthorThread and CriticTurn,
10 runs and bounds, 11 proofs, 12 what the checks showed about the code, 13 what
is not modelled.

## 1. Inventory

| component | state | operations | hard behaviour | correct when |
|---|---|---|---|---|
| default credential pair (`credentials.py`) | two logins, marker, journal, two transaction directories, three locks | acquire, recover, replay, reconcile, commit, finalize, status; enrol, repair | crash between writes, failed write, probe that changes what it probes | the pair is never half-updated, a refresh is never lost, the next run gets on |
| retained evidence (`artifacts.py`, barrier in `workflow.py`) | run directory, control directory with lock and zero-byte marker, per-object memory | open, write, read, hold, scrub, withhold | several objects and processes, crash or failure inside the withholding | no known credential is served; partial erasure is marked and finished |
| loop (`runner.py`, `state_machine.py`, `progress.py`) | round, subject, thread, deadline, previous progress, latch | run, decide, observe, stop | failure inside the handling of a failure, Ctrl-C, late answers, refreshed credentials | success is earned, stops are for the reason reported, it ends |
| subject guard and ending (`workflow.py`) | tree on disk, witness, run.json, transaction | verify, publish, materialize, reconcile, scan, finalize | outside changes, each step may fail after the result was journaled | the result reported, journaled and handed over agree |
| author service (`author_service.py`) | connection, unit, publication, cancel flag | handshake, start, watch, kill, clean up, answer | watcher thread races start and end of the unit | no unit survives, publication removed iff nothing can use it |
| transient services (`service.py`) | unit, cgroup, process, buffers | launch, inspect, kill, prove empty | query races a short unit, kill fails, timeout meets exit | nothing is left running, the primary error is reported |
| sandbox supervisor (`sandbox_init.py`, `sandbox.py`) | process tree, output buffers | harden, run, terminate descendants, drain | forks during termination | no descendant survives, output bounded |
| Codex side (`codex_client.py`, `runtime_adapters.py`) | what was accepted of the thread, the CLI's rollout, the ledger of secrets | first turn, resume, parse stdout, find and parse the rollout, retain | rewritten or torn rollout, forked thread, a refresh after the output, several errors in one turn | a turn extends the accepted thread by one, ran as requested, and is retained only when every login is known |
| Claude side (`claude_client.py`, `runtime_adapters.py`) | the ledger of secrets | one review: screen, run, screen, classify, select | a refresh during the run, requests of several models, bad output | nothing known leaks; a review is the answer of a process that ended well and ran as reported |
| source extraction (`git_source.py`) | witness of the repository | witness, list, read, witness | repository changes meanwhile | snapshot is one commit |
| subjects (`manifests.py`, `models.py`, `runner.py`, `prompts.py`, guard in `workflow.py`) | the author's workspace, the subject, the three directories on disk, the bundle | build, diff, classify, publish, validate, restore opaque entries, bundle | moves across dispositions, checks that write, failure between two renames | whatever the critic did not see was tested not to matter |
| validation (`validation*.py`, `declassify.py`) | batch of checks | run, encode, parse, classify | partial batch, early stop | each result belongs to its check |
| capability receipts (`capabilities.py`, `qualification.py`) | receipt file | qualify, write, verify | age, host changes, replacement | a run starts only on a matching fresh receipt |
| source lock (`locks.py`) | one lock file per repository | acquire, close | timeout | one run per repository |
| files (`filesystem.py`) | directory descriptors | open beneath, atomic write | rename and fsync order | a write is there or not |
| rest (`cli.py`, `config.py`, `schemas.py`, `prompts.py`, `errors.py`, ...) | none | parse, render | - | - |

The pieces meet in `execute_run` (workflow.py). It takes the source lock,
opens an `ArtifactStore` for the new run, enrols or checks the credential pair,
opens a `CombinedCredentialTransaction` on it, and hands `LoopRunner` three
callbacks: the subject guard, a *secret provider* that reconciles the pair and
returns every credential value known so far, and a journal that writes
evidence. Before a refreshed credential is promoted, the transaction calls
back an *evidence barrier* which opens the run directory a second time and
erases it if the new credential already occurs there. The author CLI runs in a
system service, the critic in a transient user service; both refresh the
logins in the transaction's private homes.

## 2. Modules

Most important behaviour first.

| module | models | theorems |
|---|---|---|
| `PairStore` | abstract: a register holding one classified pair | |
| `DefaultProfile` | declarations that `CredentialPair` and `DefaultPair` share: the marker, the operator's logins, the holder of the lock | |
| `CredentialPair` | the durable pair, file write by file write; implements `PairStore` | `CredentialPairProofs`: 5 |
| `ArtifactWithholding` | evidence, lock, latch, erasure | `ArtifactWithholdingProofs`: 4 |
| `RunLoop` | loop, guard, secret provider, ending | `RunLoopProofs`: 6 |
| `AuthorBroker` | one author turn: client, broker, watcher thread, launcher, unit, publication | `AuthorBrokerProofs`: 5 |
| `DefaultPair` | enrolment and repair of the default pair with rollback, status, crashes in between | `CredentialPairProofs`: 3 |
| `RunSetup` | a run up to its first model call: snapshot, receipt, screening, beside a qualification | `RunSetupProofs`: 4 |
| `Supervisor` | sandbox-init: a forking process tree, its termination, a batch of checks, the export | |
| `SandboxService` | extends `Supervisor` with the transient unit, its launcher and `SandboxExecutor.execute`; implements it | `SandboxProofs`: 6 |
| `Manifests` | manifests, their difference, the path policy, as operators | |
| `SubjectFlow` | what a run does with them: candidate, guard and directories, checks, counterfactual, bundle | `SubjectFlowProofs`: 9 |
| `CodexRollout` | the rollout parser, as a fold over lines | with `AuthorThread` |
| `CodexStream` | the two parsers of Codex's stdout and what each may answer | with `AuthorThread` |
| `AgentTurn` | declarations that `AuthorThread` and `CriticTurn` share: the step, the login and the ledger, the outcome | |
| `AuthorThread` | the author adapter over a thread whose rollout the CLI writes as it likes; composes the two above | `AuthorThreadProofs`: 8 |
| `CriticTurn` | one review by the critic adapter and the Claude client | `AuthorThreadProofs`: 3 |

How they fit together: `RunSetup` ends where `RunLoop` begins. `RunLoop` sees a turn,
a validation and a review as one step each with a set of outcomes; `AuthorThread`,
`CriticTurn` and `SubjectFlow` are what is inside those steps, `CredentialPair` what
is inside a question to the secret provider, and `AuthorBroker` and `SandboxService`
what runs the author's CLI and everything else. `SandboxService` extends `Supervisor`
with shared variables, and `AuthorThread` takes what the client may make of the CLI's
stdout from an instance of `CodexStream`. `CredentialPair` and `DefaultPair` are two
ways to write one profile, `AuthorThread` and `CriticTurn` the two adapters over a
login; each pair extends a module with the declarations they have in common, so that
one proof module can extend both and cite the definitions of each. The others meet
only in outcomes: a product of two of them would be larger than TLC can check, and
would show nothing about the boundary that an outcome does not say.

What could follow: two runs that contend for the source lock; custom credential
ids.

Conventions. A module `X` has the constants with named assumptions, the variables
(history variables are called so), one type invariant `TypeOK`, one action per step,
`Spec`, `FairSpec`, and its properties at the end, each with the behaviour it is
about. In the second module of a pair that shares declarations these names say whose
they are: `ProfileTypeOK`, `ProfileSpec` in `DefaultPair`, `ReviewTypeOK`,
`ReviewSpec` in `CriticTurn`. `MCX` adds what only TLC needs. An operator whose name
extends that of the operator after it (`ReleaseKeepsLock` before `Release`) is a
plausible mistake in that operator; nothing refers to it in the specification, and
each property is known to fail when the mistake takes the operator's place. Bounds are
named `Max...` and appear in guards.

## 3. CredentialPair and DefaultPair

The default profile keeps one Codex and one Claude login
(`auth.json`, `credentials.json`), a marker with the hashes of the committed
pair, and while a transition is under way a journal with the old and the new
hashes. A run works on copies in `transactions/<run>` of each account.

| TLA+ | code |
|---|---|
| `durable`, `marker`, `journal`, `tx` | the files above; `tx[v].meta` is the baseline in `transaction.json`, `tx[v].cand` the login in the home |
| `standard` | the operator's own login, `~/.codex`, `~/.claude` |
| `issued`, `refreshed`, `seen` | the vendor's counter; history of refreshes and of what the barrier classified |
| `pc`, `mode`, `who`, `run`, `base`, `cand`, `repl` | the holder of the profile lock: where it is, for whom, and its locals |
| `Begin` ... `Recover`, `PendingSupersede`, `PendingProbe` | `CombinedCredentialTransaction.acquire`, `_coordinated_recover_default_pair`, `_prepare_pending_recovery` |
| `Commit`, `Install`, `Mark`, `Rebase`, `Unlink` | `_write_pair_transition`, `_roll_forward_pair_transition`, one action per `atomic_write` or unlink |
| `MakeDir`, `CopyDurable`, `RecordBaseline`, `RemoveFile`, `RemoveDir` | `_seed_transaction`, `_remove_transaction` |
| `StageSource`, `AuthProbe`, `Adopt`, `Reconcile`, `Settle` | `_probe_standard_generation`, the probes of acquire, `_reconcile_default_pair` |
| `GiveUp` | what each caller does with a failed reconcile |
| `CliTurn`, `UserLogin` | external: the CLIs refresh a home, the operator signs in |
| `Crash`, `WriteFails` | the process dies; `atomic_write` fails and the exception travels |
| `PairStatus` | `default_cli_credential_pair_state` |

Abstractions. A generation is a number that stands for the bytes and their
hash: larger is newer, as `_codex_refresh_generation` and
`_claude_refresh_generation` order them, so two files are equal exactly when
their hashes are. A probe or a turn that starts on generation g leaves g or the
next one the vendor issues. Every atomic write is durable when it returns
(temporary file, fsync, rename, fsync of the directory in `filesystem.py`). One
process holds the profile lock at a time, so the memory of one holder is
enough; others exist as the arbitrary number of runs that begin one after the
other. Locks of the two accounts are only ever taken under the profile lock.
A run's end that leaves the transaction (a failed finalization, an exit without
it) is a `Crash` with respect to this state.

Properties. `NeverHalfUpdated` is the promise of the journal, at every point.
`CrashRecoverable` says that a crash at any point leaves a store that `auth
status` describes correctly and that the next run is let through.
`RefreshKept` says that a refresh, which usually invalidates the previous
login, is never dropped for something older. There is one exception, and `dropped`
records it: a status probe may refresh a login that acquire has staged and then
fail, and `AuthFallsBack` gives that home the durable login back (section 12).
Probes in disposable homes (`StageSource`, `NoSource`, `PendingSourceFails`) work on
a copy of the operator's own login; what they refresh and do not stage is only
issued, and `RefreshKept` is about the private homes. `IsPairStore` says all of it in one
step: seen through `CommittedPair` (the journal's new pair once it exists, the
files otherwise) the store is a register, which only ever takes a pair that the
evidence barrier has classified. `TransitionResolved`, a transition that was
begun ends in a committed pair, needs fairness.

### DefaultPair

Before there is a pair, and when it is damaged, no journal helps: enrolment
writes both files and the marker of a new profile, repair writes them over
whatever is there, and both rely on undoing what they did.

| TLA+ | code |
|---|---|
| `tree`, `file`, `marker` | account directories, the two logins, `default-profile.json`; a login is its generation |
| `pending`, `target` | what a crashed run of `CredentialPair` left behind, as far as these calls can tell |
| `op`, `pc`, `who`, `data`, `had`, `old`, `undo` | the call under the profile lock and its locals |
| `TakeProfile`, `Enroll`, `Repair`, `Source`, `Lock`, `Check`, `Write`, `WriteMarker` | the bodies of `auto_enroll_default_cli_credentials` and `repair_default_cli_credentials` |
| `Unmark`, `Restore`, `Remark`, `Remove` | their `except` clauses; `Unwind` says which is entered from where |
| `PairState` | `default_cli_credential_pair_state` |
| `RunCrashes`, `RunRecovers` | what a run may do to the pair between two calls |
| `Login`, `Logout` | external: the operator's vendor CLIs |

A step of a `try` block takes effect or raises, before or after it took effect;
a step of a rollback that raises is remembered and the next step is tried.
`_remove_relative_tree` is two steps, the contents and the directory. Two
vendor files are the same exactly when they are the same generation.

`FailureUndone` compares the whole store with the one the call found: one
failure leaves no trace. `PairsAreSafe` and `RepairCompletes` speak about any
number of failures and crashes: what status calls ready is one pair
(`ReadyIsPaired`); the deletions at the end of an enrolment are never reached for
a profile it did not create (`ExistingKept`); and what status calls
`repair_required` can be repaired.

## 4. ArtifactWithholding

| TLA+ | code |
|---|---|
| `tree` | the run directory; an entry's content is `Plain` or one secret |
| `marker` | the zero-byte latch beside the lock, outside the run directory |
| `lock` | the flock with the thread lock, per object |
| `latched`, `failed`, `redo` | `_content_withheld_due_to_secret`, `_secret_scrub_failed`, the pending `marker_error` |
| `Open`, `Close`, `Write`, `Refuse`, `Hold`, `WriteHeld`, `Release` | construction, `write_bytes` and `read_bytes`, `retained_filesystem` |
| `ScrubClean`, `ScrubCollides`, `ScanFails`, `ScanInterrupted`, `Withhold` | `scrub_known_secrets`, `withhold_all_content` |
| `Replay` | the barrier in `workflow.py` on a latched run |
| `Mark`, `EraseEntry`, `EraseDone`, `EraseFails`, `Remark` and their failures | `_withhold_all_content_unlocked`, `_erase_directory` |

Abstractions. A handle is an `ArtifactStore` object, whichever process it is
in; when it crashes it is closed. The tree is flat: erasure takes entries in
any order, which includes the order of a recursive removal. A scan tells
whether an entry holds a secret; how it recognizes encoded forms is left out.
Writers do not write what some scrub has dealt with (`c \notin Settled`):
that is the journal's redaction, and it is assumed here. `RunLoop` models that
redaction. An operation that takes the lock and changes nothing but the tree in
one call is one step; one that a crash can interrupt is several.

`learned` has every secret from the moment a scrub is asked about it; `undone` has
those whose scrub was cut short before it could say so on disk. That window runs
from the first byte scanned to the marker (artifacts.py:556-594): the process dies
(`Crash`, with what the scrub still owed in `job`), or an exception that is no
`AgentLoopError` or `OSError` ends the scan (`ScanInterrupted`). One fault is enough
for it, and the evidence then stays readable with what the scan may have found until
another scrub asks again, which the next barrier does for a transaction that stays
pending. `NothingLearnedReadable` says that this is the only way.

`PartialErasureIsMarked` and `NothingLearnedReadable` are claimed until a second fault
(`faults <= 1`). After two (the marker cannot be written twice, or it cannot be
written and the process dies) they do not, and cannot: the code says so by calling the
second failure fatal, and `tests/unit/test_artifacts.py:97-132` tests just the single
retry. The run allows two faults, so that the second marker write fails too;
`NoWriteAfterLatch` and `ErasureFinishes` hold all the same, and `NoWriteAfterLatch`
is proved for any number of faults.

## 5. RunSetup and RunLoop

`execute_run` is modelled in two halves that meet where the first model call
can happen.

### RunSetup

| TLA+ | code |
|---|---|
| `repo`, `part`, `clock` | outside: entries of the repository with their change time, versions of host, installations, managed boundary and this package, the wall clock |
| `pass`, `now`, `first`, `trusted`, `snap` | `extract_committed_head`: the four passes over the repository, HEAD's commit and tree |
| `seen`, `admitted` | what the run read of the parts, the receipt it accepted |
| `gen`, `known`, `secret`, `retained` | the login in the home, the run's known secrets, the one input that contains login bytes, what has been written in clear |
| `qpc`, `qseen`, `qagain`, `under` | a `qualify_live` in another process; `under` records with what each gate was passed |
| `Take` ... `VerifyReceipt` | input resolution, preflight, extraction, `prove_capabilities`; a dry run ends with the extraction |
| `Acquire` ... `Build` | credentials, first screening, `prepare_codex_credential`, second screening, `install_codex_configuration`, `journal.start`, the first `current_secrets` |
| `SettleAtEnd` | the ending of `execute_run`, for a run whose first `current_secrets` was broken off |
| `Inspect`, `Gate`, `InspectAgain`, `Compare`, `HashRuntime`, `Issue` | `qualify_live` |

Abstractions. The repository is two entries, one that decides whether its shape
is supported and HEAD; the change time of an entry moves with every change.
Objects are read by their id, which is their content. A part that was updated
does not come back to an earlier content. Reading one part is one step; the
traversal of a closure checks its own stability (`provenance.py`). A gate is
passed or the qualification ends. Credential ids, models and efforts of the
binding are constant. Where login bytes occur is one place at most; how bytes
are found is left out. Acquisition itself is `CredentialPair`.

Properties. `SnapshotIsOneState` is what makes "committed HEAD" mean something
while others use the repository; comparing what a file looks like without its
change time would miss a switch back and forth. `StartsQualified` ties three
readings of the system together, those around the gates and the run's own.
`InputsScreened` says that what is kept was screened against every login there
is by then, in particular those that the run's own probes provoke. The first
`current_secrets` probes once more. It withholds everything when it ends in an
`AgentLoopError`, a `UnicodeError` or a `ValueError` (workflow.py:1950-1963); Ctrl-C or
an `OSError` passes by that clause with a new login in the home and the evidence in
place. Such a run is `interrupted` until its ending has asked again and screened or
withheld. Where the ending breaks off too it is `unsettled`: the evidence is withheld,
but the configuration in the CLI's home may stay. That withholding may itself fail is
`ArtifactWithholding`'s.

### RunLoop

| TLA+ | code |
|---|---|
| `round`, `rounds`, `current`, `thread`, `checks`, `prev`, `now` | the locals of `LoopRunner.run`, `StallDetector`, `time.monotonic` |
| `witness`, `disk` | `_AuthoritativeSubjectGuard`, `subjects/current` |
| `cand`, `known`, `evid`, `withheld` | last generation in the homes, the secret ledger, generations in the evidence, the latch |
| `result`, `journaled`, `secondary`, `safe`, `finalized` | the locals of `execute_run`, the result in run.json, the transaction |
| `recent`, `judged`, `handed` | history |
| `RoundStart` ... `CriticTurn` | the body of the round in `run`; `Judge` is a sequence of checks of which the first that fails decides |
| `Decide`, `Observe` | `decide`, `StallDetector.observe` |
| `Stopping`, `Finish`, `FinishFails`, `Interrupt` | `stop`, the exception handlers of `run` and of `execute_run` |
| `Materialize` ... `ExitFails` | the rest of `execute_run`; `PostFailure` is `_post_result_failure` |
| `OutOfBand` | external: somebody changes the tree |

Abstractions. The model starts where `run` is called; what happens before is
`RunSetup`. The provider refuses
once content is withheld; fails, and then everything is withheld; or answers,
learns the current generation, and its reconcile runs the barrier. The barrier
discards the answer of the scrub (workflow.py:931-934), so the provider can
withhold and still answer as if all was well; the run finds out at its next
guard. Output of a CLI or of a check is the set of generations whose bytes it
contains, at most one here; the journal keeps it only if it has none that is
known by then. A tree is a model value. A turn ends at its timeout at the
latest, so time only moves inside turns and everything after the deadline is
one instant. An exception that escapes `run`'s own handlers is classified
again by `execute_run`, which no longer knows rounds and subject.

Left out: the baseline and the counterfactual validation, which are in
`SubjectFlow`, bundles and prompts, the single path on which the run ends before
it has a secret provider.

Properties. `SuccessIsEarned` says what exit 0 means after any two interrupts,
failures or outside changes. `FinalizedClean` says that the credential
transaction is only removed when the last generation is known and absent from
the evidence. `ReportsAreTrue` covers the silent barrier, that run.json and the
exit agree (`ReportIsHonest`), and that a run torn down in its ending leaves no
success in run.json that was not earned (`JournaledIsEarned`).
`FirstFailureKept` is about the ending, in which every step may replace the
result. `StallExact` compares the two rounds themselves with the detector's
verdict.

## 6. AuthorBroker

An author turn runs as root-managed system unit. systemd starts one broker per
connection (`broker_main`); the broker publishes read-only copies of the
author's files, has `systemd-run` (the *launcher*) start the author unit, waits,
proves that nothing is left of it, removes the copies and answers. A second
thread of the broker (`monitor`) watches the connection and kills the unit when
the client is gone.

| variable | in the code |
|---|---|
| `client`, `sent`, `frames` | where `FixedAuthorServiceClient.run_author` stands, what it has sent, what the broker has sent and it has not read |
| `pc`, `reason` | where `broker_main` stands, down through `_run_system_author` and `run_bounded_process`; the first failure as far as its cleanup tells failures apart |
| `published`, `owned` | the publication directory, and whether `publication` names it |
| `cancelled`, `watcher` | the event, and the thread that sets it |
| `group` | whether `started` found the unit's control group |
| `launcher`, `unit` | the processes systemd keeps |
| `faults` | failed commands, failed removals, deaths of the broker; at most `MaxFault` |

Steps of `run_bounded_process` and `_run_system_author`: `Launch` (Popen), `Inspect`,
`InspectFails`, `Check` (the `started` callback: wait for the control group, then look
at the event), `StreamEnds` or `StreamAborts` (the loop ends with the launcher, or by
timeout, output limit or exception), `Abort`, `Reap`, `FinalKill`, and `Prove`,
`ProveFails` or `ProveBreaks` (emptiness of the control group; without one systemd is
asked whether it knows the unit, and that command may raise instead of answering). A
kill of a unit that does not exist yet does nothing, which is what makes the watcher
and `Check` interesting: between them the unit of a client that has gone is killed
whichever of the two comes first (`CancelledTurnEnds`, which is proved). `Cleanup`
keeps the publication after a lifecycle mismatch. `Deliver` may break off when the
broker's deadline passes while it sends; `Answer` then appends an error frame, and
`ReadFrame` lets the client take its bytes for the missing part of the result, which
the framing allows.

Abstracted: the contents of frames and files; the policy checks of a request
(`Reject`); repeated attempts of a wait are one step. `Kill` stands for SIGTERM
and SIGKILL together. External: `Register`, `UnitEnds`, `LauncherEnds`. Assumed
of systemd: a start request of a launcher that is dead is not carried out later,
and a unit whose broker unit has ended is stopped (`BindsTo`).

Properties. `PublicationGuarded` is the comment "never remove a source tree while an
author cgroup may still hold it", for every interleaving and every failed command but
one: when the question for the unit's absence raises an error of its own, the broker
takes that for an ordinary failure and removes the files (section 12). The launcher is
gone even then. `ResultMeansGone`: a client that has a result asserts
`cgroup_empty=True` without having looked; here the unit, its launcher and its
publication are really gone. `PublicationReclaimed`, which is proved and not in the
run: without failures only a lifecycle mismatch leaves a publication behind. With
failures there is one more way: when a check of the directory that was just created
fails, the broker never learns its name. `ConversationEnds`: both sides and the author
come to an end.

## 7. Supervisor and SandboxService

Everything that is not trusted (the author's and the critic's command, the
checks) runs in a PID namespace whose first process is sandbox-init.
`SandboxExecutor.execute` has `systemd-run` start a transient user unit for it,
looks at the unit's limits while the supervisor still waits for its request,
sends the request, reads the response and proves the unit's control group
empty. `Supervisor` is the inside, with `SpecInside` as its specification;
`SandboxService` extends it with the outside, and each execution of the whole
is one of the inside (`Implements`, section 11).

| TLA+ | code |
|---|---|
| `proc`, `parent`, `fresh`, `tree` | the namespace as the kernel keeps it, and the workspace |
| `pc`, `batch`, `late`, `failing` | where the supervisor is, from `main` down to `_terminate_descendants`; the deadline of the present wait; an exception on its way |
| `primary`, `status`, `told` | the command, what it really exited with, what `Popen` believes |
| `pipe`, `kept`, `lost`, `limited`, `timed` | its output, unread, retained and dropped, and the two flags |
| `at`, `seen` | a listing of `/proc` under way |
| `raw`, `records`, `candidate`, `outcome` | the batch and the response; `really` and `lost` in a record are history |
| `ReadRequest`, `Materialize`, `Launch`, `Harden` | `parse_request`, `execute_request`, `_run_primary`, `_harden_primary_after_exec` |
| `ReadOutput`, `PrimaryEnds`, `TimesOut` | the selector loop of `_run_primary` |
| `Grace`, `GraceAgain`, `GraceEnds`, `Kill`, `PrimaryReaped`, `Prove`, `ProveAgain`, `Proven` | `_terminate_descendants` with its two loops |
| `ScanEntry`, `ScanEnds` | `_visible_pids`, one entry of `/proc` at a time |
| `Drain`, `EndCheck`, `OutOfTime`, `Export`, `Respond` | `_drain_after_cleanup`, `_run_validation_batch`, the rest of `execute_request` and `main` |
| `Raise`, `CleanupFails`, `Breaks`, `HardenFails`, `Refuse`, `DrainFails`, `Close` | the exceptional paths: a failing cleanup is tried once more and then given up |
| `Fork`, `Exit`, `ReapChild`, `WriteTree`, `Produce` | external: the processes of the command |
| `client`, `launcher`, `asked`, `started` | where `execute` is, the process `systemd-run`, the job and the unit |
| `verified`, `group`, `fed`, `cut`, `overdue` | limits inspected, control group known, request written, launcher stopped, deadline passed |
| `Prepare` ... `Judge` | `SandboxExecutor.execute`, `TransientServiceRunner.run`, `run_bounded_process` |
| `Ask`, `UnitStarts`, `LauncherEnds`, `LauncherFails` | external: systemd |

Abstractions. SIGTERM obliges a process to nothing, so it is not a step: a
process may end at any time anyway. The same goes for what the kill of the
primary's process group reaches beyond the listing. A listing returns the
numbers in ascending order and a new process gets the next number; numbers do
not wrap around (for a listing that shows nothing it would make no difference:
it asks once for the next number after its own). stdout and
stderr are one stream, a byte is the unit of output. Both exit codes that let a
batch go on are `"zero"`, those that stop it are `"stop"`. A scan of the
workspace is one step, which is justified by what is checked: nobody is left to
write. The `Popen` of the primary and the line after it that protects it are
one step. A kill of the launcher takes effect at once. `RuntimeMaxSec`, which
would end a unit in any case, is left out: nothing here relies on it. The
branch of a supervisor that is not process 1 is for tests and is left out.

Properties. `ExportIsFinal` is the docstring "candidate export is unreachable before
cleanup proof", for every interleaving of forks, exits and writes with the listings.
`RecordsAreTrue`: what is accepted says of each check how it really ended, although it
may be reaped in three places, one of which drops its status, names output that was
dropped, and is a batch the executor's parser takes. `LimitsBeforeWork`, which is
proved and not in the run: no process of the command exists before the unit's limits
were verified, although unit, launcher and request start independently. `SandboxEnds`:
every execution ends and so does its unit, also one that systemd starts after the
executor has given it up; it then reads the end of its input.

## 8. Manifests and SubjectFlow

What the author wrote is not what the critic judges. The path policy puts every
path into one of four dispositions; protected paths may not change, discard-only
ones are dropped, opaque ones are kept but not shown, and each of those is
tested by running the checks on a subject in which it is undone. `Manifests` has
the operators, `SubjectFlow` the run that uses them.

| TLA+ | code |
|---|---|
| `Builds`, `Disposition`, `Diff`, `ClassifyChange` | `SubjectManifest.build`, `PathPolicy`, `diff_manifests` |
| `Protects`, `Authoritative`, `OnlyDiscarded`, `WithoutOpaque`, `RestoreOpaque` | `reconcile_candidate`, `verify_validation_mutation`, the two counterfactual subjects of `runner.py` |
| `base`, `current`, `candidate`, `round`, `behaviour`, `tested`, `left`, `opposed` | the locals of `LoopRunner.run`; `tested`, `left` and `opposed` say on what the checks ran and what they left |
| `guard`, `disk`, `journal` | `_AuthoritativeSubjectGuard`, `subjects/current`, the staging directory and `subjects/history`, the journalled rounds |
| `bundle`, `verdicts`, `reason` | the review bundle, the journalled reviews, the result |
| `Baseline`, `Unopaque`, `Ask`, `Write`, `Validate`, `Oppose`, `Build`, `Review` | the steps of `run` before and in a round |
| `Publish`, `Advance`, `Replace`, `Witness` | `publish`, one action per rename and verification |
| `Final`, `Breaks` | `_materialize_final` with `_post_result_failure`; the failure or Ctrl-C that stops a run at any step |
| `Tamper` | external: somebody else's write in the run directory |

Abstractions. A path is its rank in byte order, because the pairing of renames
goes by it; `Inside` names the pairs of which one would lie below the other if
that were a directory, so that a file in the place of a directory is possible.
An entry stands for kind, mode and content. The declarations a path matches are
given by the constant `Matches`: how glob patterns match is not modelled.
`Made` is what the author and the checks may leave: any tree that differs from
the one they were given in at most `MaxEdit` paths. What the checks do on a tree
is theirs to choose, each time (`Behaviour` stands for the signature that is
compared). The critic's three answers are one choice: end in success, end at the
cap, go on; the other reasons to stop are in `RunLoop`.

Properties. `DeltaExact` is about the pairing of equal entries: the difference
turns one tree into the other, touches no path twice, and reports a move as
often as there are two ends. `ReviewComplete` is what the policy is for:
whatever differs from the committed tree is shown in full on both sides, or was
undone in a counterfactual of this round that behaved the same, or is declared
output. `HistoryWhole` holds between the two renames of a publication as well.
`SuccessOnDisk` says what a success leaves. Proved and not in the run:
`ProtectedKept` (over any number of rounds and moves), `TestedUnchanged`,
`OpposedIsMinimal` and `ReviewOfTested`.

## 9. AuthorThread and CriticTurn

### The author

The author's CLI reports on its stdout what it did and keeps a rollout file of
the thread, from which the adapter takes which model a turn really ran with.
The CLI is not trusted to write either as it should.

| TLA+ | code |
|---|---|
| `Refuses`, `Scan`, `Accepts`, `Evidence` of `CodexRollout` | `parse_codex_rollout_selection` |
| `Lined`, `Scan`, `Parse`, `NonzeroFacts`, `Classify` of `CodexStream` | `parse_codex_jsonl`, `_nonzero_codex_jsonl_facts`, `classify_codex_process_result` |
| `memory`, `asked`, `evidence`, `said`, `captured`, `held` | the adapter's `_rollout_*` fields and the locals of `turn`; `held` are the errors it defers |
| `gen`, `settled`, `known`, `retained` | the login, how much of it was reconciled and is in the ledger, the attempt on disk |
| `Ask`, `Launch`, `Attach`, `Reconcile`, `Refresh`, `Sink`, `Raise`, `Return` | `turn` in its order, with everything that is still tried after a failure |
| `rollout`, `torn`, `beside`, `cli`, `WriteLine`, `TearLine`, `Rewrite`, `LeaveBeside`, `Rotate`, `CliEnds` | external: the Codex CLI |

Abstractions. A line is what the parser tells apart; every line it refuses for
what it is is one value, and after it nothing matters. Model and effort are
treated alike by the code and are one selection. A prefix of bytes is a prefix
of lines: the code compares a SHA-256 of the accepted bytes, which is assumed
not to collide. A file whose last line has no newline is `torn`. A stdout event
is what one of the two parsers tells apart. A line that is empty, too long or has a
carriage return within is `misframed`: both parsers look at all lines for that, and
count them, before they read the first event (`Lined`), so that it decides whatever
stands before it. A generation of the login is a number, and the ledger is the
latest it holds: it learns them in order. `CliEnds` gives the adapter any result
or none instead of the stream; `StreamExact` checks that the results are exactly
those the parsers return over all streams of up to `MaxEvent` events, so that
this choice is neither too wide nor too narrow.

Properties. `RolloutExact` compares the parser with a definition of a rollout
that does not scan (`Whole`, `TurnsOf`, `SelectionOf`): it takes a rollout iff
that extends the accepted one by exactly one whole turn, and a rollout cut at
the end of a line is never taken for another turn than the whole one.
`EveryTurnAttested`: all turns the loop was given are turns of one rollout and
ran as requested. `PastIsKept`: what was accepted is only extended.
`TurnsAreSettled`: an attempt is retained only when every generation of the
login, those of the status probe included, is known, and a turn the loop gets
has left none unreconciled. Proved and not in the run: `CredentialSpeaksFirst`
(no error of the CLI hides one of the credential) and `ResumeIsConsistent`.

### The critic

`CriticTurn` is one `review` with `ClaudeClient`. `shown` is a generation the
bundle may contain, `left` what the process let out, `requests` the API request
details on stderr, `answer` how the process ended and what its envelope says.
`SendBundle`, `CheckCandidate`, `RefreshLogin`, `Screen`, `SinkReview`, `Classify`,
`Select` are the steps of the code, `AskApi`, `RotateLogin`, `End` the process.
`chosen` is the selection the adapter was made for. What the review says is
data. The critic of a fixed token (`~login`) takes the same steps without a
reconciliation.

Properties. `NothingLeaks`: a bundle with a known generation is not sent, output
with one is not kept, also if the process itself created it.
`ReviewIsEarned` has three parts that an accepted review needs together:
`SettledBeforeAccepted`, `ReviewAsRequested` (the model and effort it reports are
those of each single request, and those asked for), `OutcomeIsEarned` (the process
ended with zero in its limits; and the operator is only sent to log in by an
answer that came in time).

## 10. Runs and bounds

| run | module, cfg | instance | shows |
|---|---|---|---|
| `pair` | MCCredentialPair, Pair | 2 run ids, 3 refreshes or new logins, at most 2 of either vendor (`MaxIssue`, `MaxGen`), 2 crashes or failed writes, fair | never half-updated, what a crash leaves is recovered, no refresh is lost but by the fallback, `PairStore` is implemented, transitions are finished |
| `pair_lost_witness` | MCCredentialPair, PairLostWitness | 1 fault, symmetric run ids | violation, section 12 |
| `withholding` | MCArtifactWithholding, Withholding | 3 objects, 2 entries, 2 secrets, 2 faults, fair | nothing known is served, erasure is marked and finished, no write after the latch |
| `run_loop` | MCRunLoop, RunLoop | 2 trees, 2 threads, 4 rounds, 2 generations, 2 faults | the meaning of the result, the stall detector, the ending |
| `author_broker` | MCAuthorBroker, AuthorBroker | 3 faults, fair | the unit's files outlive it, a result means it is gone, the turn ends |
| `default_pair` | MCDefaultPair, DefaultPair | 2 generations of each login, 3 failures, crashes or sign-outs, fair | a failure is undone, ready means one pair, repairs succeed |
| `run_setup` | MCRunSetup, RunSetup | 2 changes, 3 generations, a receipt valid for one tick | one state, one system, screened inputs |
| `sandbox` | MCSandboxService, Sandbox | 3 processes, 2 trees, 2 checks, 2 bytes of output per check, 1 per batch, 1 fault, fair | the export is final, the records are true, it ends |
| `subject` | MCSubjectFlow, Subject | 6 paths, 3 committed trees, 2 edits at a time, 2 rounds, 1 fault | deltas are exact, reviews complete, the history whole, a success on disk |
| `subject_restore` | MCSubjectFlow, SubjectRestore | no fault | violation, section 12 |
| `author` | MCAuthorThread, AuthorThread | 2 threads, 2 turns, 7 lines, 2 generations, streams of 4 events | the parsers are exact, every turn is attested and settled, the past is kept |
| `critic_turn` | MCCriticTurn, CriticTurn | 2 models, 1 effort or none, 2 requests, 3 generations | nothing leaks, a review is earned |

Why these are enough. The pair: two run ids give one that is pending and one that
takes over, and a third run can only reuse the id of one that left nothing behind. Two
new generations of one login let a candidate be refreshed by its probe after it was
refreshed by a turn, and let an ambient login be older than, equal to and newer than
it; the third is one of the other login, so that the pair moves on both sides. No step
compares logins of different vendors; two of both are left to the theorems of section
11, which hold for every `MaxIssue`. Two faults let a failed write be followed by a
crash, or a crash during the recovery of a crash. Evidence: two entries make an
erasure partial, three objects let one hold the lock while another one was opened
before and a third after. The loop: four rounds let the stall detector see A, A and A,
B, A before the cap; the time before and after the deadline is all that is compared;
two faults let the handling of a failure fail. The default pair: three faults are a
failure, one in its rollback and a crash, or a crashed run met by a failing repair.
The preparation: two changes switch HEAD away and back, or update two parts on
different sides of a gate; three generations are the login, the one its first probe
provokes and one more after the screening, or by a question that is broken off. The
broker: three faults let every kill of a turn fail (the watcher's or `Check`'s,
`Abort`'s and `FinalKill`'s), or the inspection, a kill and the proof. The sandbox:
with three processes the first check can fork one that outlives it and forks or is
reaped during a listing, and a second check still gets a process; a batch that may
keep less than one of its checks reaches every case of `Cap` and `Trimmed`; one fault
of the supervisor is followed by its second cleanup. Subjects: the six paths have
every disposition, a pair of which one would lie inside the other, two opaque files
and a protected path that is opted in; two edits move an entry across any two of them,
two rounds move it back, and two contents with several paths each make the pairing of
renames ambiguous. The author: seven lines are two whole turns with nothing to spare,
the first with its header in four and the second in three, so every kind of line that
the grammar refuses inside them has its place. What is longer (other lines within two
whole turns, a line behind them) is left to `RolloutAlwaysExact`; one refresh can fall
anywhere; four events are the shortest complete stream with one more, of any kind, and
`Streams` adds those that are too long by one. The critic: two requests can agree or
differ in each field, and three generations let both the process and the probe after
it refresh the login. The proofs have none of these bounds.

Fairness is stated where a liveness property is checked. `CredentialPair`: weak
fairness of the holder's next step, because a process that holds the lock is
never blocked by another; with the lock free the next step is that an intended
run takes it (a transition is only recovered by one). Vendor CLIs, logins,
crashes and failed writes are not fair. `ArtifactWithholding`: a call under way
goes on unless it fails; strong fairness of opening the evidence and of the
barrier's replay, because a withheld run leaves its transaction pending, the
next run's recovery calls the barrier for it, and the lock is free infinitely
often but not continuously. `DefaultPair`: weak fairness of the call that holds
the lock, strong fairness of the operator's `auth init --repair` and weak
fairness of a sign-in while there is no usable login, which is what status and
the error texts tell the operator to do. `AuthorBroker`: weak fairness of
client, broker and watcher, whose waits all have deadlines, and of the end of a
unit once its broker has ended. A running broker gets no help from systemd:
neither the start nor the end of the unit is fair. `SandboxService`: weak
fairness of the executor and of the supervisor, whose waits all have deadlines.
The command, its processes and systemd are not fair: a process that was sent
SIGKILL need not even end, the supervisor then gives up after its deadline and
takes the namespace with it. `RunSetup`, `RunLoop`, `SubjectFlow`,
`AuthorThread` and `CriticTurn` have safety properties only.

Deadlock is checked everywhere but in the two runs of `SubjectFlow`, where a
run that is over really stops; elsewhere a run that is over stutters.

## 11. Proofs

All theorems hold for arbitrary constants under the named assumptions of the
modules, which say that distinguished values are different and bounds are
numbers.

`CredentialPairProofs`: `TypeCorrect` and `PairNeverHalfUpdated`, both from
`Invariance`: `Spec => []IInv`. `NeverHalfUpdated` is not inductive alone: that
installing Codex leaves it true needs to know that Claude is installed, that the
journal is still there and that nothing else can remove it. `Progress` says how far an
installation has come at each phase; `Homes` and `Loaded` say that where the code
copies a candidate there is one, which the types of the later steps need. There is one
lemma per action; `Close`, the probes and `GiveUp` have lemmas of their own.
`RefreshAlwaysKept` and `ImplementsPairStore` come from a second invariant, `KeptInv`,
again with a lemma per action. A replacement may only be staged over a candidate
without losing a refresh because nothing pending or to be taken over is older than
what is durable (`Ahead`) and because, while homes are seeded, the durable file is the
latest refresh, that of the fallback excepted (`Seeded`). What the journal then names
is what the homes hold (`Matched`), and it was classified before (`Classified`), so
writing the journal is the one step at which the register moves; installing, marking
and unlinking leave it where it is. `CrashAlwaysRecoverable` rests on `Orderly`, which
is conditional as a whole: until a write fails, a journal names what the directories
hold (`Named`), without one their baselines are those of the durable pair (`Based`),
and they are made and removed one provider after the other (`Placed`). A failed write
breaks it for good: the provider reconciles a second time over what the first attempt
left, which is where `PendingTransitionRecovers` (section 12) fails.

`DefaultPair` writes the same profile by other means, and its theorems stand in the
same module: `DefaultTypeCorrect`, `PairsAlwaysSafe` and `FailureAlwaysUndone`, for any
number of calls, generations, crashes and failed steps, from `DefaultInv`. `Known`
says that every pair which a marker, a journal or a saved copy can bring back was
once paired; `Taken` what a call read before it wrote anything and what it has left
alone since; `Unwinding` how much of a call with one failed step is undone at each
step of the rollback. The proof shows one thing the runs do not: the checks under
the two account locks can no longer fail in a call that got past the first look, as
long as no other process ignores the lock; they are a second line of defence.

`ArtifactWithholdingProofs`: `TypeCorrect` and `WritesStopAtLatch` from
`LatchInv`, any number of faults: a marker is only written by the holder of
the lock, so while an object works inside the tree there is none
(`HeldUnlatched`). `ErasureIsMarked` and `LearnedUnreadable` from
`SafeInv`, in which the rest, `Owed`, stands until the second fault: past its
first step a withholding has a durable marker or still owes one
(`MarkerOwed`), and owing one was the first fault. A credential that is settled
(learned and not undone) is in an unmarked tree only while a withholding carries it in
its `job` (`LearnedGone`); if that dies the credential is undone.

`RunLoopProofs`, for any number of rounds, interrupts, failures and outside changes:
`TypeCorrect`, `SuccessAlwaysEarned`, `ReportsAlwaysTrue`, `FinalizedAlwaysClean`,
`StallAlwaysExact` and `FirstFailureAlwaysKept`, all from one `IInv`. What the
properties say about the exit has to be carried from the review to it through an
ending in which every step may replace the result: `ValidatedInv` (what is reviewed is
what was validated), `EarnedInv` (a success among the locals or in run.json was earned
at every step, not only at the exit), `CleanInv` (evidence never holds what is known,
and from the last screening to the finalization the last generation is known) and
`EndingInv` (result, run.json and latch agree as far as the ending has come).
`StallInv` adds that the detector's memory is the round before.

`RunSetupProofs`, for any number of changes, generations and qualifications:
`TypeCorrect`, `SnapshotAlwaysOneState`, `AlwaysStartsQualified` and
`InputsAlwaysScreened`. `SourceInv` is the argument for the four passes: an entry
whose change time is the same in two passes had one value all the time between
(`SeenHeld`, from `Steady` and `Held`), and git read HEAD and objects between
them (`Found`), so what it read was true at one moment (`OneState`).
`ReceiptInv` orders the readings of the qualifier and of the run around the
gates. `ScreenInv` says what has been screened against which generations, and of a
run that is interrupted how much of that is left.

`AuthorBrokerProofs`: `TypeCorrect`, `Guarded`, `ResultsFinal`,
`CancelledKilled` and `Reclaimed` from one invariant `IInv`, for any number of
faults. Its parts say what the properties leave out: when the launcher may be
alive and what a turn without a failure has already seen (`StageInv`), that the
publication exists from before the launch to its removal (`StorageInv`), that a
result on its way is only there when all is over (`ResultInv`), and that the
watcher has set the event before it kills (`WatchInv`). A clean-up after any failure
but a mismatch and a broken query finds no running unit. `FramesInv` bounds the
frames under way. There is one step per action.

`SandboxProofs`, for any number of processes, checks and faults: `Implements`
(an execution of `SandboxService` is one of `Supervisor`), so that what follows
is mostly about the inside. `TypeCorrect` and `ExportFinal` come from `IInv`:
`ListingInv` is the heart of the matter, a listing that has shown nothing has
passed no number at its end, so that a listing without an entry proves
emptiness although it takes many steps; `EmptyInv` carries that to the export.
`LimitsFirst` has the chain of events as its invariant: the limits, then the
request, then the first process. `RecordsTruthful` is the part of
`RecordsAreTrue` that is about one record; its `ReapInv` says that nobody reaps
the primary before its status is known. `RecordsAlwaysTrue` is the whole of it:
by `BatchInv` what the records retain is what the batch no longer has left
(`Total(records) + raw = RawMax`), there is room for one more while a check is
under way, and at the export the batch is complete or its last record says why
not; `Judged` carries that to what the executor accepts. `TotalGrows` says that
the sum of a longer list is larger by its last record.

`SubjectFlowProofs`, for any paths, policy, entries and number of rounds:
`TypeCorrect`, `ProtectedAlways`, `TestedAlways`, `ReviewsComplete`, `OpposedAlways`,
`ReviewsOfTested`, `SuccessAlways`, `HistoryAlwaysWhole` and `DeltaAlwaysExact`. The
lemmas are about `Diff`: it touches exactly the paths at which two trees differ, and
since an entry's rank among equal ones decides its partner (`RankGrows`), none of them
twice. The ranks of the paths that hold one entry have no gap (`RankFills`), so that
every rank that both trees have is one rename (`MovedCount`). From there a change is
opaque only if both its ends are, so restoring the opaque changes undoes nothing that
is shown. `StageInv` says what each stage of a round knows of subject, guard, tested
tree and bundle. `HistInv` says where the trees of the rounds are: all but the latest
in the history and the latest in place (`InPlace`), or, between the two renames, all
of them moved (`Moved`).

`AuthorThreadProofs`, for any threads, turns, rollouts, streams and refreshes.
`SettledAlways`, `SpeaksFirst`, `Resumes` and `Kept` rest on the order of the steps
only: `Order` says what is settled and held back at each step of `turn`, `Memory`
that the adapter remembers what the loop was told, `Turning` that the turn under way
extends it. The others are about what the parsers compute, for input of any length.
A parser is a function over the lines read so far; `Scanning`, `Parsing`, `Widening`
and `Observing` say that such a function exists, and properties are carried along it
by `Induct`: a set of numbers with zero and every successor holds them all, which
comes from the least element of a set (`Least`) and takes no operator as a parameter.

- `RolloutAlwaysExact`: `Explains` is the loop invariant of
  `parse_codex_rollout_selection`. It says, of any number of lines, what the parser's
  record means: which turn is open and since where (`OpenAt`), that every other one
  runs from its start to its end without another in between (`Framed`), which turns
  ended and in which order (`Counted`), which selection each one has (`Chosen`).
  Every line that is not refused keeps it (soundness); in a rollout of whole turns no
  line is refused (completeness, `WholeIsRead`). What a cut rollout tells is a
  beginning of what the whole of it tells (`TurnsGrow`), so one that is accepted as
  one turn more tells the same turn.
- `AlwaysAttested`: `Vouching` says that what the adapter remembers, and what it is
  about to remember, is a rollout of whole turns all of which ran as requested. An
  extension of it keeps the earlier selections (`PastStays`, from `SelectionStays`).
- `AuthorTypeCorrect`, which needs the types of what the parser returns.
- `StreamAlwaysExact`: what is not `Lined` is refused by both parsers before the loop,
  and `Accounts` is the loop invariant of `parse_codex_jsonl`. The
  lenient parser is no loop and is compared with it directly. For the results the CLI
  may hand to the adapter it takes a shortest turn with each thread and fact
  (`Briefly`). It has the hypothesis `MaxEvent >= 3`: with fewer events there is no
  turn; the code's limit is 100000 (`_MAX_JSONL_EVENTS`, codex_client.py:43).

The other agent's turn, `CriticTurn`, stands in the same module: `ReviewTypeCorrect`,
`NothingEverLeaks` and `ReviewAlwaysEarned`, from `ReviewInv`. `Learning` says that
from the last refresh on the ledger knows every generation there is, `Leaving` what
each step has made sure of among what the process left, `Staged` how far the attempt
got. The scan of the API requests is an induction as above.

Only model-checked. Everything under fairness (`TransitionResolved`,
`ErasureFinishes`, `ConversationEnds`, `RepairCompletes`, `SandboxEnds`), which
the prover cannot do. Every invariant and every action property that a run checks
is proved.

## 12. What the checks showed about the code

Two statements of the documents do not hold of the code, and a run finds the
counterexample of each.

- `PendingTransitionRecovers`: a write of the roll-forward fails, the provider
  reconciles again, and its probe refreshes the candidate the journal names.
  The journal can then never be replayed. `_reconcile_default_pair` does not
  look for a pending journal before it probes.
- `OpaqueDeltaTested`: the author replaces an opaque file by a directory of that
  name. Restoring the committed file beside the new entries is not a manifest,
  `SubjectManifest` raises, and the run ends as `runner_internal_error` instead
  of testing the change or withholding it.

Further differences between text and code met while modelling, which the models
take over from the code:

- A refresh can be dropped for something older. acquire stages the operator's newer
  login in a private home and lets `auth status` confirm it; that command may refresh
  the login and then fail, and `_restore_durable_candidate` puts the older durable login
  in its place (credentials.py:2596-2654). `capture_candidate_generation` only runs
  after that, so the refreshed login is in no history either. `RefreshKept` excepts it
  (`dropped`).
- "Never remove a source tree while an author cgroup may still hold it"
  (author_service.py:1929) is only asked of a lifecycle mismatch. When the unit's control
  group was never found, its absence is asked of `systemctl` (author_service.py:1107-1112);
  that the command cannot be started or its answer not decoded is an error of another
  kind, and `broker_main` then removes the publication (1985-1991) although the kill
  before it may have failed. `PublicationGuarded` excepts this (`ProveBreaks`).
- "Interruption cannot leave an apparently ordinary, partially erased run"
  (artifacts.py:587-590) holds. What an interruption can leave is an ordinary run that
  is not erased at all, with a known credential in it: between the scan that found it and
  the marker nothing is on disk, and an exception other than `AgentLoopError` and
  `OSError` ends a scan without a latch (artifacts.py:563). `NothingLearnedReadable`
  excepts what was never scrubbed again (`undone`).
- The secret provider withholds the evidence only for three kinds of exception
  (workflow.py:1950-1963). Ctrl-C, or an `OSError` of the reconcile, after its probe has
  refreshed the login leaves the retained inputs unscreened until the ending asks
  again (`SettleAtEnd`).
- A transaction directory that a crash left half seeded or half removed is
  `recovery_pending` for `auth status` (credentials.py:3716), and cli.py:304-306
  promises that the next run recovers it; the run refuses it every time
  (credentials.py:1860-1891). With a journal beside it status says
  `repair_required` and `auth init --repair` refuses a store with a journal
  (credentials.py:3824-3836). `CrashRecoverable` excepts these directories
  (`Torn`).
- `qualify_live` compares host, installations and boundary before and after its
  gates, but hashes the package's own sources only once, after them
  (qualification.py:1416), while PLAN.md:356-360 says that drift of the binding,
  which includes that hash, prevents issuance. `StartsQualified` says so of
  everything else.
- `reconcile_candidate` drops every entry at a discard-only path, also a
  committed one that the author left alone, which then is in no record of the
  round (manifests.py:500-521); PLAN.md:639-645 asks for each omission to be
  recorded. `ReviewComplete` has a disjunct for it.
- A compressed rollout beside a plain one is passed over
  (codex_client.py:1387-1402), as a test expects; PLAN.md:590 says that
  compression fails closed.
- An API request without an output format passes the check that compares it
  with the schema (claude_client.py:288-300); PLAN.md:782 says every request
  must use the exact schema.

## 13. Not modelled

Custom credential ids: two independent accounts without a pair. Their
transactions take the steps of `CredentialPair` without journal and marker; what
is hard there, the agreement of the two files, does not arise.

The construction of command lines, environments, sanitised configuration and
bubblewrap arguments, the managed policy, prompts, schemas, rendering,
redaction, digests, provenance, argument parsing: functions without state, whose
correctness is about text.

The recognition of a secret in its encoded forms, glob patterns, the policy checks of
a request to the author service, what a gate of the qualification probes: the models
take the answer, and have both.

The source lock: one flock per repository with a timeout, of which the only
question is who of two runs fails. `atomic_write` and the access beneath a
directory descriptor: their promises (a rename is atomic and durable after the
directory's fsync, a flock dies with its descriptor) are the kernel's and are
taken as given, like those of cgroups and PID namespaces.

The service-level attempt sink (`_service_attempt_sink`, workflow.py:1538), which
`SandboxExecutor.execute` calls with the outer result of a service before it parses the
response, or hands to the service as its result sink (runtime_adapters.py:732, 785). It
asks the secret provider by itself and withholds what it cannot classify. `retained` in
`AuthorThread` and `CriticTurn` is the adapter's own attempt only; no property claims
anything of this earlier one.

The content-addressed blob store of the evidence, whose entries are as good as
any others to the latch. The installation scripts and the C helper of the
managed boundary, which run outside the program.
