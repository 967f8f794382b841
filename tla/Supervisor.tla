----------------------------- MODULE Supervisor -----------------------------
(***************************************************************************)
(* sandbox-init, the first process of a sandbox's PID namespace: it        *)
(* materializes the subject, runs one command or a batch of checks, ends   *)
(* whatever they left behind, proves from /proc that nothing is left, and  *)
(* only then exports the workspace (src/agent_loop/sandbox_init.py).       *)
(*                                                                         *)
(* Processes get their numbers in ascending order, as the kernel hands     *)
(* them out until they wrap around.  The supervisor is number 1.           *)
(***************************************************************************)
EXTENDS Integers, Sequences

CONSTANTS
  MaxPid,     \* bound: the last number a process can get
  Tree,       \* what the workspace can contain
  None,       \* no workspace exported yet
  Checks,     \* checks of a batch
  OutMax,     \* output_max_bytes of a check
  RawMax,     \* max_raw_output_bytes of a batch
  Pipe,       \* bound: unread output
  MaxFault    \* bound: operations that fail

ASSUME TreeAssumption  == None \notin Tree
ASSUME BoundAssumption ==
  /\ MaxPid \in Nat /\ Checks \in Nat \ {0} /\ OutMax \in Nat \ {0}
  /\ RawMax \in Nat \ {0} /\ Pipe \in Nat /\ MaxFault \in Nat

Pid == 2 .. MaxPid

VARIABLES
  pc,          \* where the supervisor is
  batch,       \* the request is a batch of checks
  late,        \* the deadline of the present cleanup loop has passed
  failing,     \* an exception is on its way out
  faults,
  \* the namespace
  proc,        \* state of each process
  parent,
  fresh,       \* the next number
  tree,
  \* the primary of the present check
  primary,
  status,      \* what it exited with
  told,        \* what Popen knows of that
  pipe, kept,  \* its output: unread, retained
  lost,        \* some of it was thrown away
  limited, timed,
  \* the listing of /proc under way
  at, seen,
  \* what is reported
  raw,         \* remaining_raw
  records,
  candidate,
  outcome      \* the response

control == <<pc, batch, late, failing, faults>>
space   == <<proc, parent, fresh, tree>>
run     == <<primary, status, told>>
output  == <<pipe, kept, lost, limited, timed>>
listing == <<at, seen>>
report  == <<raw, records, candidate, outcome>>
inside  == <<control, space, run, output, listing, report>>

Exists(p) == proc[p] \in {"stopped", "running", "killed", "zombie"}
Alive(p)  == proc[p] \in {"running", "killed"}
Empty     == \A p \in Pid : ~Exists(p)
Over      == pc \in {"exited", "dead"}

Scanning  == {"graceScan", "finalScan", "proveScan"}
Cleaning  == Scanning \cup {"grace", "wait", "prove"}

-----------------------------------------------------------------------------
\* The processes of the command.  A process that was sent SIGKILL can finish
\* what it is doing but starts nothing; SIGTERM obliges it to nothing, and
\* whatever it makes it do, it may do anyway.

Fork(p) ==
  /\ proc[p] = "running" /\ fresh \in Pid
  \* bound: numbers are left for the checks to come
  /\ fresh + Checks - Len(records) - 1 <= MaxPid
  /\ proc' = [proc EXCEPT ![fresh] = "running"]
  /\ parent' = [parent EXCEPT ![fresh] = p]
  /\ fresh' = fresh + 1
  /\ UNCHANGED <<control, tree, run, output, listing, report>>

\* Its children are handed to the supervisor, the subreaper.
Exit(p) ==
  /\ Alive(p)
  /\ proc' = [proc EXCEPT ![p] = "zombie"]
  /\ parent' = [c \in Pid |-> IF parent[c] = p THEN 1 ELSE parent[c]]
  /\ IF p # primary THEN UNCHANGED status
     ELSE \E s \in {"zero", "stop"} :
            (proc[p] = "killed" => s = "stop") /\ status' = s
  /\ UNCHANGED <<control, fresh, tree, primary, told, output, listing, report>>

ReapChild(p) ==
  /\ proc[p] = "zombie" /\ parent[p] # 1
  /\ proc' = [proc EXCEPT ![p] = "gone"]
  /\ UNCHANGED <<control, parent, fresh, tree, run, output, listing, report>>

WriteTree(p, t) ==
  /\ Alive(p)
  /\ tree' = t
  /\ UNCHANGED <<control, proc, parent, fresh, run, output, listing, report>>

Produce(p) ==
  /\ Alive(p) /\ pipe < Pipe
  /\ pipe' = pipe + 1
  /\ UNCHANGED <<control, space, run, kept, lost, limited, timed, listing, report>>

ProcessStep ==
  \E p \in Pid :
    \/ Fork(p) \/ Exit(p) \/ ReapChild(p) \/ Produce(p)
    \/ \E t \in Tree : WriteTree(p, t)

-----------------------------------------------------------------------------
\* The request.

ReadRequest(b) ==
  /\ pc = "read"
  /\ pc' = "prepare"
  /\ batch' = b
  /\ UNCHANGED <<late, failing, faults, space, run, output, listing, report>>

\* An end of input before the request is complete, or an unacceptable one.
ReadNothing ==
  /\ pc = "read"
  /\ pc' = "report"
  /\ outcome' = "error"
  /\ UNCHANGED <<batch, late, failing, faults, space, run, output, listing, raw,
                 records, candidate>>

\* The workspace is built and scanned again: it has to be the one asked for.
Materialize ==
  /\ pc = "prepare"
  /\ pc' = "launch"
  /\ UNCHANGED <<batch, late, failing, faults, space, run, output, listing, report>>

\* The limit of one check leaves one byte more than the batch may retain, so
\* that a batch which goes over its limit is noticed.
Cap ==
  IF ~batch THEN OutMax
  ELSE LET left == IF raw = 0 THEN 1 ELSE raw + 1
       IN  IF OutMax < left THEN OutMax ELSE left

Launch ==
  /\ pc = "launch" /\ fresh \in Pid
  /\ pc' = "harden"
  /\ proc' = [proc EXCEPT ![fresh] = "stopped"]
  /\ parent' = [parent EXCEPT ![fresh] = 1]
  /\ fresh' = fresh + 1
  /\ primary' = fresh /\ status' = "none" /\ told' = "none"
  /\ pipe' = 0 /\ kept' = 0
  /\ lost' = FALSE /\ limited' = FALSE /\ timed' = FALSE
  /\ late' = FALSE
  /\ UNCHANGED <<batch, failing, faults, tree, listing, report>>

\* The time of the whole batch is up before this check starts.
OutOfTime ==
  /\ pc = "launch" /\ batch
  /\ records' = Append(records, [code |-> "zero", timed |-> TRUE, limited |-> FALSE,
                                 started |-> FALSE, size |-> 0,
                                 really |-> "zero", lost |-> FALSE])
  /\ pc' = "export"
  /\ UNCHANGED <<batch, late, failing, faults, space, run, output, listing, raw,
                 candidate, outcome>>

\* The exec stop is over, the primary is no longer dumpable and runs.
Harden ==
  /\ pc = "harden"
  /\ proc' = [proc EXCEPT ![primary] = "running"]
  /\ pc' = "watch"
  /\ UNCHANGED <<batch, late, failing, faults, parent, fresh, tree, run, output,
                 listing, report>>

-----------------------------------------------------------------------------
\* The command runs.

\* _append_bounded: what goes over the limit is dropped.
Retain(n) ==
  LET room  == Cap - kept
      taken == IF n < room THEN n ELSE room
  IN  /\ kept' = kept + taken
      /\ lost' = (lost \/ taken < n)
      /\ limited' = (limited \/ taken < n)
      /\ pipe' = 0

Reap(p) == proc' = [proc EXCEPT ![p] = "gone"]

ReadOutput ==
  /\ pc = "watch" /\ pipe > 0
  /\ Retain(pipe)
  /\ pc' = IF limited' THEN "grace" ELSE "watch"
  /\ UNCHANGED <<batch, late, failing, faults, space, run, timed, listing, report>>

\* poll() of a child that somebody else has reaped finds none, and says 0.
Ended  == proc[primary] \in {"zombie", "gone"}
Polled == IF proc[primary] = "zombie" THEN status ELSE "zero"

PrimaryEnds ==
  /\ pc = "watch" /\ Ended
  /\ Reap(primary) /\ told' = Polled
  /\ pc' = "grace"
  /\ UNCHANGED <<batch, late, failing, faults, parent, fresh, tree, primary, status,
                 output, listing, report>>

TimesOut ==
  /\ pc = "watch"
  /\ timed' = TRUE
  /\ pc' = "grace"
  /\ UNCHANGED <<batch, late, failing, faults, space, run, pipe, kept, lost, limited,
                 listing, report>>

-----------------------------------------------------------------------------
\* _terminate_descendants.

\* Listing /proc: the kernel goes through the numbers in ascending order, one
\* after the other, while processes come and go.
Scan(where) == pc' = where /\ at' = 1 /\ seen' = {}

ScanEntry ==
  /\ pc \in Scanning
  /\ \E p \in Pid :
       /\ Exists(p) /\ p > at /\ \A q \in Pid : Exists(q) /\ q > at => p <= q
       /\ at' = p /\ seen' = seen \cup {p}
  /\ UNCHANGED <<control, space, run, output, report>>

ScanEnds == pc \in Scanning /\ \A p \in Pid : Exists(p) => p <= at

\* waitpid(-1) takes every child that has ended, the primary too.
ReapAdopted ==
  proc' = [p \in Pid |-> IF proc[p] = "zombie" /\ parent[p] = 1 THEN "gone" ELSE proc[p]]

\* One round of the grace period, until it is over or nothing is left: the
\* primary is polled, and other children are only reaped once it has ended.
GraceReapsFirst ==
  /\ pc = "grace" /\ ~late
  /\ UNCHANGED told
  /\ ReapAdopted
  /\ Scan("graceScan")
  /\ UNCHANGED <<batch, late, failing, faults, parent, fresh, tree, primary, status,
                 output, report>>

Grace ==
  /\ pc = "grace" /\ ~late
  /\ told' = IF told = "none" /\ Ended THEN Polled ELSE told
  /\ IF told' # "none" THEN ReapAdopted ELSE UNCHANGED proc
  /\ Scan("graceScan")
  /\ UNCHANGED <<batch, late, failing, faults, parent, fresh, tree, primary, status,
                 output, report>>

GraceEndsEmpty ==
  /\ pc = "graceScan" /\ ScanEnds /\ seen = {}
  /\ Scan("finalScan")
  /\ UNCHANGED <<batch, late, failing, faults, space, run, output, report>>

GraceEnds ==
  /\ \/ pc = "grace" /\ late
     \/ pc = "graceScan" /\ ScanEnds /\ seen = {}
  /\ Scan("finalScan")
  /\ UNCHANGED <<batch, late, failing, faults, space, run, output, report>>

GraceAgain ==
  /\ pc = "graceScan" /\ ScanEnds /\ seen # {}
  /\ pc' = "grace"
  /\ UNCHANGED <<batch, late, failing, faults, space, run, output, listing, report>>

\* SIGKILL goes to what the listing has shown.  What it does to the rest of the
\* primary's process group is a way of ending that they have anyway.
KillSeen ==
  proc' = [p \in Pid |-> IF p \in seen /\ proc[p] = "running" THEN "killed" ELSE proc[p]]

Kill ==
  /\ pc = "finalScan" /\ ScanEnds
  /\ KillSeen
  /\ pc' = "wait" /\ late' = FALSE
  /\ UNCHANGED <<batch, failing, faults, parent, fresh, tree, run, output, listing,
                 report>>

\* primary.wait(timeout=1.0)
PrimaryReapedEnough ==
  /\ pc = "wait"
  /\ \/ told # "none" /\ UNCHANGED <<proc, told>>
     \/ told = "none" /\ Ended /\ Reap(primary) /\ told' = Polled
  /\ pc' = IF failing THEN "close" ELSE "drain"
  /\ UNCHANGED <<batch, late, failing, faults, parent, fresh, tree, primary, status,
                 output, listing, report>>

PrimaryReaped ==
  /\ pc = "wait"
  /\ \/ told # "none" /\ UNCHANGED <<proc, told>>
     \/ told = "none" /\ Ended /\ Reap(primary) /\ told' = Polled
  /\ pc' = "prove"
  /\ UNCHANGED <<batch, late, failing, faults, parent, fresh, tree, primary, status,
                 output, listing, report>>

Prove ==
  /\ pc = "prove" /\ ~late
  /\ ReapAdopted
  /\ Scan("proveScan")
  /\ UNCHANGED <<batch, late, failing, faults, parent, fresh, tree, run, output, report>>

ProveAgain ==
  /\ pc = "proveScan" /\ ScanEnds /\ seen # {}
  /\ KillSeen
  /\ pc' = "prove"
  /\ UNCHANGED <<batch, late, failing, faults, parent, fresh, tree, run, output, listing,
                 report>>

\* A listing without an entry is the proof that nothing is left.
Proven ==
  /\ pc = "proveScan" /\ ScanEnds /\ seen = {}
  /\ pc' = IF failing THEN "close" ELSE "drain"
  /\ late' = FALSE
  /\ UNCHANGED <<batch, failing, faults, space, run, output, listing, report>>

\* An exception while the command runs or is being cleaned up: the cleanup is
\* tried (again), and if that fails as well it is given up.
Raise ==
  IF failing THEN pc' = "close" /\ UNCHANGED <<late, failing>>
  ELSE pc' = "grace" /\ late' = FALSE /\ failing' = TRUE

CleanupFails ==
  /\ \/ pc = "wait" /\ told = "none" /\ ~Ended
     \/ pc = "prove" /\ late
  /\ Raise
  /\ UNCHANGED <<batch, faults, space, run, output, listing, report>>

-----------------------------------------------------------------------------
\* The end of a check, the export and the response.

Drain ==
  /\ pc = "drain" /\ pipe > 0
  /\ Retain(pipe)
  /\ UNCHANGED <<control, space, run, timed, listing, report>>

Close == pc = "close" /\ failing
         /\ pc' = "report" /\ outcome' = "error"
         /\ UNCHANGED <<batch, late, failing, faults, space, run, output, listing, raw,
                        records, candidate>>

\* A pipe that is still open after its time is an error.
DrainFails ==
  /\ pc = "drain"
  /\ pc' = "close" /\ failing' = TRUE
  /\ UNCHANGED <<batch, late, faults, space, run, output, listing, report>>

\* Both pipes are closed.  A batch retains of a check what its total allows,
\* and goes on after a check that ended by itself within its limits.
Trimmed == IF batch /\ raw < kept THEN raw ELSE kept
EndCheck ==
  /\ pc = "drain" /\ pipe = 0
  /\ LET over == Trimmed < kept
         rec  == [code |-> told, timed |-> timed, limited |-> limited \/ over,
                  started |-> TRUE, size |-> Trimmed,
                  really |-> status, lost |-> lost \/ over]
     IN  /\ records' = Append(records, rec)
         /\ pc' = IF batch /\ ~rec.timed /\ ~rec.limited /\ told # "stop"
                     /\ Len(records) + 1 < Checks
                  THEN "launch" ELSE "export"
  /\ raw' = IF batch THEN raw - Trimmed ELSE raw
  /\ UNCHANGED <<batch, late, failing, faults, space, run, output, listing, candidate,
                 outcome>>

\* scan_records reads the workspace entry by entry.  That is one step, because
\* nobody is left to write meanwhile: ExportIsFinal says so.
Scanned == tree

Export ==
  /\ pc = "export"
  /\ candidate' = Scanned /\ outcome' = "result"
  /\ pc' = "report"
  /\ UNCHANGED <<batch, late, failing, faults, space, run, output, listing, raw, records>>

\* The response is written; the namespace goes with its first process.
Respond ==
  /\ pc = "report"
  /\ pc' = "exited"
  /\ proc' = [p \in Pid |-> IF Exists(p) THEN "gone" ELSE proc[p]]
  /\ UNCHANGED <<batch, late, failing, faults, parent, fresh, tree, run, output, listing,
                 report>>

-----------------------------------------------------------------------------
\* Failures: each operation can raise, and an interrupt can come at any of them.

Fault == faults < MaxFault /\ faults' = faults + 1

\* Before there is a process: an unfit workspace, a command that cannot be
\* launched, a scan or an export that goes over its limits.
Refuse ==
  /\ pc \in {"prepare", "launch", "export"} /\ Fault
  /\ failing' = TRUE /\ pc' = "close"
  /\ UNCHANGED <<batch, late, space, run, output, listing, report>>

\* The primary that could not be hardened has not run: it is killed and reaped.
HardenFails ==
  /\ pc = "harden" /\ Fault
  /\ Reap(primary) /\ status' = "stop" /\ told' = "stop"
  /\ Raise
  /\ UNCHANGED <<batch, parent, fresh, tree, primary, output, listing, report>>

Breaks ==
  /\ pc \in Cleaning \cup {"watch"} /\ Fault
  /\ Raise
  /\ UNCHANGED <<batch, space, run, output, listing, report>>

\* A failure outside the namespace, counted with the others.
Elsewhere ==
  /\ Fault
  /\ UNCHANGED <<pc, batch, late, failing, space, run, output, listing, report>>

\* The unit is killed: the first process dies, and the namespace with it.
NamespaceDies ==
  /\ ~Over
  /\ pc' = "dead"
  /\ proc' = [p \in Pid |-> IF Exists(p) THEN "gone" ELSE proc[p]]
  /\ UNCHANGED <<batch, late, failing, faults, parent, fresh, tree, run, output, listing,
                 report>>

Tick ==
  /\ pc \in {"grace", "graceScan", "prove", "proveScan"} /\ ~late
  /\ late' = TRUE
  /\ UNCHANGED <<pc, batch, failing, faults, space, run, output, listing, report>>

-----------------------------------------------------------------------------
InitInside ==
  /\ pc = "read" /\ batch = FALSE /\ late = FALSE /\ failing = FALSE /\ faults = 0
  /\ proc = [p \in Pid |-> "none"] /\ parent = [p \in Pid |-> 1] /\ fresh = 2
  /\ tree \in Tree
  /\ primary = 0 /\ status = "none" /\ told = "none"
  /\ pipe = 0 /\ kept = 0 /\ lost = FALSE /\ limited = FALSE /\ timed = FALSE
  /\ at = 1 /\ seen = {}
  /\ raw = RawMax /\ records = <<>> /\ candidate = None /\ outcome = "none"

\* What the supervisor does by itself once it has its request.
SupervisorStep ==
  \/ Materialize \/ Launch \/ OutOfTime \/ Harden
  \/ ReadOutput \/ PrimaryEnds \/ TimesOut
  \/ Grace \/ GraceEnds \/ GraceAgain \/ ScanEntry \/ Kill \/ PrimaryReaped
  \/ Prove \/ ProveAgain \/ Proven \/ CleanupFails
  \/ Drain \/ DrainFails \/ EndCheck \/ Close \/ Export \/ Respond

Failure == Refuse \/ HardenFails \/ Breaks

NextInside ==
  \/ \E b \in BOOLEAN : ReadRequest(b)
  \/ ReadNothing \/ SupervisorStep \/ Failure \/ Tick \/ ProcessStep
  \/ NamespaceDies \/ Elsewhere

SpecInside == InitInside /\ [][NextInside]_inside

-----------------------------------------------------------------------------
\* Properties.

Code   == {"zero", "stop"}
Record == [code : Code \cup {"none"}, timed : BOOLEAN, limited : BOOLEAN, started : BOOLEAN,
           size : Nat, really : Code \cup {"none"}, lost : BOOLEAN]

TypeFlags   == {batch, late, failing, lost, limited, timed} \subseteq BOOLEAN
TypeControl ==
  /\ pc \in Cleaning \cup {"read", "prepare", "launch", "harden", "watch", "drain",
                           "close", "export", "report", "exited", "dead"}
  /\ faults \in 0 .. MaxFault
TypeSpace ==
  /\ proc \in [Pid -> {"none", "stopped", "running", "killed", "zombie", "gone"}]
  /\ parent \in [Pid -> Pid \cup {1}] /\ fresh \in Nat
  /\ \A p \in Pid : proc[p] = "none" <=> p >= fresh
  /\ tree \in Tree
TypeRun ==
  /\ primary \in Pid \cup {0} /\ primary < fresh
  /\ {status, told} \subseteq Code \cup {"none"}
TypeOutput  == {pipe, kept} \subseteq Nat
TypeListing == at \in Nat /\ seen \subseteq Pid
TypeReport  ==
  /\ raw \in Nat /\ records \in Seq(Record)
  /\ candidate \in Tree \cup {None}
  /\ outcome \in {"none", "result", "error"}
TypeInside ==
  /\ TypeFlags /\ TypeControl /\ TypeSpace /\ TypeRun
  /\ TypeOutput /\ TypeListing /\ TypeReport

\* "Candidate export is unreachable before cleanup proof" (execute_request):
\* when the workspace has been exported no process is left, and nothing changes
\* it afterwards, however the command forked, wrote and exited during the
\* listings.
ExportIsFinal == candidate # None => candidate = tree /\ Empty
=============================================================================
