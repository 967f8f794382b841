------------------------------- MODULE RunSetup -------------------------------
(***************************************************************************)
(* Everything execute_run (workflow.py) does before its first model call:  *)
(* the source lock, the preflight, the committed snapshot of a repository  *)
(* that others may be changing (git_source.py), the live receipt that      *)
(* another process may be issuing for a system that is being updated       *)
(* (qualification.py, capabilities.py), the screening of what the run      *)
(* retains against credentials that its own probes refresh.                *)
(*                                                                         *)
(* A reading of the outside world is a step.  The contents of a repository *)
(* entry or of a part of the system are versions; a part never returns to  *)
(* an earlier one, an entry may, but its change time moves on.             *)
(***************************************************************************)
EXTENDS Integers, FiniteSets

CONSTANTS MaxChange, \* bound: changes of the repository and of the system
          MaxClock,  \* bound: the wall clock
          Validity,  \* lifetime of a receipt
          MaxGen     \* bound: generations of a login

ASSUME BoundAssumption == MaxChange \in Nat /\ MaxClock \in Nat /\ MaxGen \in Nat
ASSUME ValidityAssumption == Validity \in Nat \ {0}

Entry   == {"config", "head"}
Part    == {"host", "install", "boundary", "runtime"}
Stamp   == 0 .. MaxChange
Gen     == 0 .. MaxGen
Surface == {"metadata", "project", "task", "subject", "rendered"}
Gates   == {"host", "codex", "wire", "live_codex", "live_claude"}

NoPass     == [e \in Entry |-> [value |-> 0, ctime |-> -1]]
NoReading  == [p \in Part |-> -1]
NoVersions == [p \in Part |-> {}]
NoReceipt  == [binding |-> NoReading, issued |-> -1, under |-> NoVersions]
NoSecret   == [at |-> "nowhere", gen |-> -1]

VARIABLES
  repo,     \* the two entries of the repository: value and change time
  part,     \* the parts of the system a receipt is bound to
  clock,    \* the wall clock
  changes,  \* changes so far
  receipt,  \* live-v3.json
  pc,       \* the run's next step
  pass,     \* which of the four passes over the repository is under way
  now,      \* what that pass has read
  first,    \* what the pass before it read
  trusted,  \* the witness of before the extraction
  snap,     \* HEAD^{commit} and HEAD^{tree}
  seen,     \* the run's reading of each part
  admitted, \* the receipt the run was let in with
  gen,      \* the generation in the run's Codex home
  known,    \* generations the run knows
  secret,   \* the one place in the run's inputs that holds login bytes
  retained, \* what is readable in the evidence or installed in the home
  moments,  \* history: states of the repository while it was being read
  qpc,      \* the qualifier's next step
  qseen,    \* its first reading of each part
  qagain,   \* its second
  under     \* history: the versions its gates were passed with

outside   == <<repo, part, clock, changes>>
source    == <<pass, now, first, trusted, snap>>
screening == <<gen, known, secret, retained>>
process   == <<pc, source, seen, admitted, screening>>
qualifier == <<qpc, qseen, qagain, under>>
vars      == <<outside, receipt, process, moments, qualifier>>

Steps == {"lock", "preflight", "scan", "shape", "commit", "tree", "objects",
          "install", "boundary", "runtime", "verify", "acquire", "screen",
          "prepare", "rescreen", "configure", "start", "build", "ready",
          "refused", "previewed", "interrupted", "unsettled"}
QSteps == {"idle", "install", "boundary", "again", "runtime", "issue"} \cup Gates

Witness  == [Entry -> [value : 0 .. 1, ctime : Stamp \cup {-1}]]
Reading  == [Part -> Stamp \cup {-1}]
Receipts == [binding : Reading, issued : 0 .. MaxClock \cup {-1}, under : [Part -> SUBSET Stamp]]

TypeOutside ==
  /\ repo \in Witness /\ part \in [Part -> Stamp]
  /\ clock \in 0 .. MaxClock /\ changes \in 0 .. MaxChange
  /\ moments \subseteq [Entry -> 0 .. 1]

TypeSource ==
  /\ pc \in Steps /\ pass \in 1 .. 4
  /\ now \in Witness /\ first \in Witness /\ trusted \in Witness
  /\ snap \in [commit : {-1, 0, 1}, tree : {-1, 0, 1}]

TypeScreening ==
  /\ gen \in Gen /\ known \subseteq Gen
  /\ pc \in {"refused", "interrupted", "unsettled"} \/ known = {} \/ gen \in known
  /\ secret \in [at : Surface \cup {"nowhere"}, gen : Gen \cup {-1}]
  /\ retained \subseteq Surface

TypeReceipts ==
  /\ receipt \in Receipts /\ admitted \in Receipts
  /\ seen \in Reading /\ qseen \in Reading /\ qagain \in Reading
  /\ qpc \in QSteps /\ under \in [Part -> SUBSET Stamp]

TypeOK == TypeOutside /\ TypeSource /\ TypeScreening /\ TypeReceipts

-----------------------------------------------------------------------------
\* The outside world.

Values == [e \in Entry |-> repo[e].value]
Reads  == {"shape", "commit", "tree", "objects"}

\* Once the run has looked at the receipt, neither the system nor the
\* qualifier nor the clock matters to it; the model lets them rest.
Undecided == pc \in Reads \cup {"lock", "preflight", "scan", "install", "boundary", "runtime", "verify"}

\* Somebody commits, switches branches, or changes the configuration of the
\* repository; only what happens during the extraction can matter to it.
RepositoryChanges(e) ==
  /\ pc \in Reads \cup {"scan"} /\ changes < MaxChange
  /\ \E v \in 0 .. 1 :
       repo' = [repo EXCEPT ![e] = [value |-> v, ctime |-> @.ctime + 1]]
  /\ changes' = changes + 1
  /\ moments' = IF pc \in Reads THEN moments \cup {[Values EXCEPT ![e] = repo'[e].value]} ELSE moments
  /\ UNCHANGED <<part, clock, receipt, process, qualifier>>

\* The administrator updates a part of the system.
SystemChanges(p) ==
  /\ Undecided /\ changes < MaxChange /\ changes' = changes + 1
  /\ part' = [part EXCEPT ![p] = @ + 1]
  /\ UNCHANGED <<repo, clock, receipt, process, moments, qualifier>>

\* The clock goes on, or is set back.
Tick == /\ Undecided
        /\ clock' \in (0 .. clock - 1) \cup ({clock + 1} \cap 0 .. MaxClock)
        /\ UNCHANGED <<repo, part, changes, receipt, process, moments, qualifier>>

-----------------------------------------------------------------------------
\* The run. An error, a failed command or an interrupt ends it; what one can do
\* in the middle of a probe is part of the steps that probe.

Over == {"ready", "refused", "previewed", "unsettled"}

Elsewhere == <<outside, receipt, qualifier>>

End(how) == /\ pc' = how
            /\ pass' = 1 /\ now' = NoPass /\ first' = NoPass /\ trusted' = NoPass
            /\ UNCHANGED snap
Goto(step) == pc' = step /\ UNCHANGED source

Fails ==
  /\ pc \notin Over \cup {"interrupted"}
  /\ End("refused")
  /\ UNCHANGED <<Elsewhere, seen, admitted, screening, moments>>

\* Input resolution, the source lock, a private run directory.
Take ==
  /\ pc = "lock" /\ Goto("preflight")
  /\ UNCHANGED <<Elsewhere, seen, admitted, screening, moments>>

Look(step, p, next) ==
  /\ pc = step /\ seen' = [seen EXCEPT ![p] = part[p]] /\ Goto(next)
  /\ UNCHANGED <<Elsewhere, admitted, screening, moments>>

Preflight == Look("preflight", "host", "scan")

\* One os.stat of a pass of _source_witness_once, in the order of the walk.
Stat(e) ==
  /\ pc = "scan" /\ now[e] = NoPass[e]
  /\ e = "head" => now["config"] # NoPass["config"]
  /\ now' = [now EXCEPT ![e] = repo[e]]
  /\ UNCHANGED <<Elsewhere, pc, pass, first, trusted, snap, seen, admitted, screening, moments>>

\* Mutant: modes, sizes and modification times, which an edit can put back.
SameValues(a, b) == \A e \in Entry : a[e].value = b[e].value

\* Everything os.stat tells, the change time included.
Same(a, b) == a = b

\* The end of a pass. Two equal passes make a witness; the two witnesses
\* before and after the extraction have to be equal. A dry run ends here.
PassDone ==
  /\ pc = "scan" /\ \A e \in Entry : now[e] # NoPass[e]
  /\ \/ /\ pass \in {1, 3}
        /\ first' = now /\ now' = NoPass /\ pass' = pass + 1 /\ pc' = "scan"
        /\ UNCHANGED <<trusted, snap, moments>>
     \/ /\ pass = 2 /\ Same(first, now)
        /\ trusted' = now /\ first' = NoPass /\ now' = NoPass /\ pass' = 3 /\ pc' = "shape"
        /\ moments' = {Values} /\ UNCHANGED snap
     \/ /\ pass = 4 /\ Same(first, now) /\ Same(trusted, now)
        /\ \E next \in {"install", "previewed"} : End(next)
        /\ UNCHANGED moments
     \/ /\ \/ pass \in {2, 4} /\ ~Same(first, now)
           \/ pass = 4 /\ ~Same(trusted, now)
        /\ End("refused") /\ UNCHANGED moments
  /\ UNCHANGED <<Elsewhere, seen, admitted, screening>>

\* _verify_basic_shape: configuration, directories, alternates and refs.
VerifyShape ==
  /\ pc = "shape"
  /\ IF Values["config"] = 1 THEN Goto("commit") ELSE End("refused")
  /\ UNCHANGED <<Elsewhere, seen, admitted, screening, moments>>

\* git resolves HEAD twice, for the commit and for its tree.
Resolve(field, next) ==
  /\ pc = field /\ snap' = [snap EXCEPT ![field] = repo["head"].value]
  /\ pc' = next
  /\ UNCHANGED <<Elsewhere, pass, now, first, trusted, seen, admitted, screening, moments>>

\* The tree and its blobs are read by object id.
ReadObjects ==
  /\ pc = "objects" /\ Goto("scan")
  /\ UNCHANGED <<Elsewhere, seen, admitted, screening, moments>>

ProveInstall  == Look("install", "install", "boundary")
ProveBoundary == Look("boundary", "boundary", "runtime")
ProveRuntime  == Look("runtime", "runtime", "verify")

Fresh(r) == r.issued <= clock /\ clock < r.issued + Validity

VerifyReceipt ==
  /\ pc = "verify"
  /\ IF receipt # NoReceipt /\ receipt.binding = seen /\ Fresh(receipt)
       THEN Goto("acquire") /\ admitted' = receipt
       ELSE End("refused") /\ UNCHANGED admitted
  /\ UNCHANGED <<Elsewhere, seen, screening, moments>>

\* The vendor CLI may refresh the login it is asked about.
Probe(g) == g \in Gen /\ g \in {gen, gen + 1} /\ gen' = g

Acquire ==
  /\ pc = "acquire" /\ Goto("screen")
  /\ known' = {gen}
  /\ \/ secret' = NoSecret
     \/ \E s \in Surface, g \in Gen : secret' = [at |-> s, gen |-> g]
  /\ UNCHANGED <<Elsewhere, seen, admitted, gen, retained, moments>>

Collides(k) == secret.gen \in k
Inputs == {"task", "subject"}
\* What screening with the generations of k leaves readable of S.
Clear(S, k) == IF Collides(k) THEN S \ {secret.at} ELSE S

\* The first screening, with the login as acquired.
Screen ==
  /\ pc = "screen"
  /\ IF Collides(known) /\ secret.at # "rendered"
       THEN End("refused") /\ retained' = Clear(Inputs, known)
       ELSE Goto("prepare") /\ UNCHANGED retained
  /\ UNCHANGED <<Elsewhere, seen, admitted, gen, known, secret, moments>>

\* prepare_codex_credential: the status probe, between two screenings of the
\* configuration that will be generated. A probe that fails may have refreshed.
Prepare ==
  /\ pc = "prepare"
  /\ \/ /\ Collides(known) /\ End("refused") /\ UNCHANGED <<gen, known>>
     \/ /\ ~Collides(known)
        /\ \E g \in Gen : Probe(g)
        /\ known' = known \cup {gen'}
        /\ IF secret.at = "rendered" /\ Collides(known') THEN End("refused") ELSE Goto("rescreen")
     \/ /\ ~Collides(known) /\ \E g \in Gen : Probe(g)
        /\ End("refused") /\ UNCHANGED known
  /\ UNCHANGED <<Elsewhere, seen, admitted, secret, retained, moments>>

\* Mutant: the verdict of the first screening is used again.
RescreenSkipped ==
  /\ pc = "rescreen" /\ retained' = Inputs /\ Goto("configure")
  /\ UNCHANGED <<Elsewhere, seen, admitted, gen, known, secret, moments>>

\* The second screening, with every login known now, decides what is kept.
Rescreen ==
  /\ pc = "rescreen"
  /\ retained' = Clear(Inputs, known)
  /\ IF Collides(known) THEN End("refused") ELSE Goto("configure")
  /\ UNCHANGED <<Elsewhere, seen, admitted, gen, known, secret, moments>>

\* install_codex_configuration.
Configure ==
  /\ pc = "configure"
  /\ IF Collides(known) THEN End("refused") /\ UNCHANGED retained
                        ELSE Goto("start") /\ retained' = retained \cup {"rendered"}
  /\ UNCHANGED <<Elsewhere, seen, admitted, gen, known, secret, moments>>

\* journal.start, the project configuration and the promoted blobs.
Start ==
  /\ pc = "start" /\ Goto("build")
  /\ retained' = retained \cup {"metadata", "project"}
  /\ UNCHANGED <<Elsewhere, seen, admitted, gen, known, secret, moments>>

\* build_runtime asks the secret provider once: a generation that collides
\* takes the configuration, or all evidence, away again, and so does one that
\* cannot be classified. An interrupt, or an error of another kind than the
\* three the provider expects, breaks the question off: the login may have been
\* refreshed, and nothing is withheld yet.
Build ==
  /\ pc = "build"
  /\ \E g \in Gen : Probe(g)
  /\ \/ /\ known' = known \cup {gen'} /\ ~Collides(known')
        /\ Goto("ready") /\ UNCHANGED retained
     \/ /\ known' = known \cup {gen'} /\ Collides(known') /\ End("refused")
        /\ retained' = IF secret.at = "rendered" THEN retained \ {"rendered"} ELSE {"rendered"}
     \/ /\ UNCHANGED known /\ End("refused") /\ retained' = {"rendered"}
     \/ /\ known' \in {known, known \cup {gen'}} /\ End("interrupted")
        /\ UNCHANGED retained
  /\ UNCHANGED <<Elsewhere, seen, admitted, secret, moments>>

\* The ending of execute_run asks again: its reconcile notes the login it finds
\* before it probes. A collision withholds all evidence, and takes away the
\* configuration if that is what collides; so does any error, an interrupt
\* included, except that the configuration stays.
SettleAtEnd ==
  /\ pc = "interrupted"
  /\ \E g \in Gen : Probe(g)
  /\ \/ /\ known' = known \cup {gen, gen'} /\ End("refused")
        /\ retained' = IF ~Collides(known') THEN retained
                       ELSE IF secret.at = "rendered" THEN {} ELSE {"rendered"}
     \/ /\ known' \in {known, known \cup {gen, gen'}} /\ End("unsettled")
        /\ retained' = {"rendered"}
  /\ UNCHANGED <<Elsewhere, seen, admitted, secret, moments>>

-----------------------------------------------------------------------------
\* qualify_live, in a process of its own.

World == <<outside, process, moments>>

\* What a gate is passed with.
Uses(g) == CASE g = "host" -> {"host", "runtime"}
             [] g \in {"codex", "wire"} -> {"install"}
             [] g = "live_codex" -> {"host", "install", "runtime"}
             [] g = "live_claude" -> {"host", "install", "boundary", "runtime"}

AfterQ(step) ==
  CASE step = "idle" -> "install" [] step = "install" -> "boundary"
    [] step = "boundary" -> "host" [] step = "host" -> "codex"
    [] step = "codex" -> "wire" [] step = "wire" -> "live_codex"
    [] step = "live_codex" -> "live_claude" [] step = "live_claude" -> "again"

\* The first reading of a part, before any gate.
Inspect(step, p) ==
  /\ Undecided /\ qpc = step /\ qpc' = AfterQ(step)
  /\ qseen' = [qseen EXCEPT ![p] = part[p]]
  /\ UNCHANGED <<World, receipt, qagain, under>>

Gate(g) ==
  /\ Undecided /\ qpc = g /\ qpc' = AfterQ(g)
  /\ under' = [p \in Part |-> IF p \in Uses(g) THEN under[p] \cup {part[p]} ELSE under[p]]
  /\ UNCHANGED <<World, receipt, qseen, qagain>>

Idle == qpc' = "idle" /\ qseen' = NoReading /\ qagain' = NoReading /\ under' = NoVersions

QualifyFails == Undecided /\ qpc # "idle" /\ Idle /\ UNCHANGED <<World, receipt>>

\* The second reading of a part.
InspectAgain(p) ==
  /\ Undecided /\ qpc = "again" /\ qagain[p] = -1
  /\ p = "install" => qagain["host"] # -1
  /\ p = "boundary" => qagain["install"] # -1
  /\ qagain' = [qagain EXCEPT ![p] = part[p]]
  /\ UNCHANGED <<World, receipt, qpc, qseen, under>>

\* Mutant: only the environment report is compared.
CompareHost ==
  /\ Undecided /\ qpc = "again" /\ qagain["boundary"] # -1
  /\ IF qagain["host"] = qseen["host"]
       THEN qpc' = "runtime" /\ UNCHANGED <<qseen, qagain, under>> ELSE Idle
  /\ UNCHANGED <<World, receipt>>

Compare ==
  /\ Undecided /\ qpc = "again" /\ qagain["boundary"] # -1
  /\ IF qagain = qseen
       THEN qpc' = "runtime" /\ UNCHANGED <<qseen, qagain, under>> ELSE Idle
  /\ UNCHANGED <<World, receipt>>

\* The package's own sources are hashed for the binding, once.
HashRuntime ==
  /\ Undecided /\ qpc = "runtime" /\ qpc' = "issue"
  /\ qagain' = [qagain EXCEPT !["runtime"] = part["runtime"]]
  /\ UNCHANGED <<World, receipt, qseen, under>>

\* The receipt replaces the old one in one rename.
Issue ==
  /\ Undecided /\ qpc = "issue"
  /\ receipt' = [binding |-> qagain, issued |-> clock, under |-> under]
  /\ Idle
  /\ UNCHANGED World

Init ==
  /\ \E c \in 0 .. 1 :
       repo = [config |-> [value |-> c, ctime |-> 0], head |-> [value |-> 0, ctime |-> 0]]
  /\ part = [p \in Part |-> 0] /\ clock = 0 /\ changes = 0
  /\ receipt = NoReceipt /\ admitted = NoReceipt
  /\ pc = "lock"
  /\ pass = 1 /\ now = NoPass /\ first = NoPass /\ trusted = NoPass
  /\ snap = [commit |-> -1, tree |-> -1]
  /\ seen = NoReading /\ gen = 0 /\ known = {} /\ secret = NoSecret /\ retained = {}
  /\ moments = {}
  /\ qpc = "idle" /\ qseen = NoReading /\ qagain = NoReading /\ under = NoVersions

Run == \/ Take \/ Preflight \/ \E e \in Entry : Stat(e)
       \/ PassDone \/ VerifyShape
       \/ Resolve("commit", "tree") \/ Resolve("tree", "objects") \/ ReadObjects
       \/ ProveInstall \/ ProveBoundary \/ ProveRuntime \/ VerifyReceipt
       \/ Acquire \/ Screen \/ Prepare \/ Rescreen \/ Configure \/ Start \/ Build
       \/ SettleAtEnd \/ Fails

Qualify == \/ Inspect("idle", "host") \/ Inspect("install", "install")
           \/ Inspect("boundary", "boundary")
           \/ \E g \in Gates : Gate(g)
           \/ \E p \in Part \ {"runtime"} : InspectAgain(p)
           \/ Compare \/ HashRuntime \/ Issue \/ QualifyFails

Next == \/ Run \/ Qualify \/ Tick
        \/ \E p \in Part : SystemChanges(p)
        \/ \E e \in Entry : RepositoryChanges(e)
        \/ pc \in Over /\ UNCHANGED vars

Spec == Init /\ [][Next]_vars

-----------------------------------------------------------------------------
\* The snapshot is the commit, and the tree, of one state of a repository of
\* the supported shape, and that state held the whole time it was read:
\* whoever commits, switches back and forth or reconfigures meanwhile.
SnapshotIsOneState ==
  pc \notin {"lock", "preflight", "scan", "shape", "commit", "tree", "objects", "refused"} =>
    /\ snap.commit = snap.tree
    /\ moments = {[config |-> 1, head |-> snap.commit]}

\* A run is let in by a receipt that is still valid, and each gate of that
\* receipt was passed with the very host, installations and boundary that the
\* run has read for itself, however updates, qualification and the run overlap.
StartsQualified ==
  admitted # NoReceipt =>
    \A p \in Part \ {"runtime"} : admitted.under[p] = {seen[p]}

\* Once the inputs are decided on, nothing readable in the evidence holds a
\* generation of the login, also none that the run's own probes made the
\* vendor issue between the screenings or that it failed to classify; and the
\* configuration in the CLI's home holds none that the run knows. The exceptions:
\* a run whose question to the ledger broke off is not clean before its ending
\* has asked again, and where that too fails, the configuration may stay.
InputsScreened ==
  /\ pc # "interrupted" /\ secret.gen \in 0 .. gen => secret.at \notin retained \ {"rendered"}
  /\ pc \notin {"interrupted", "unsettled"} /\ secret.gen \in known => secret.at \notin retained
=============================================================================
