--------------------------- MODULE CredentialPair ---------------------------
(***************************************************************************)
(* The default credential pair of agent-loop (credentials.py): one Codex   *)
(* and one Claude login kept as a pair.  A run recovers what an earlier    *)
(* run left behind, copies both durable files into a transaction           *)
(* directory per provider, lets the vendor CLIs refresh those copies, and  *)
(* installs refreshed copies with a journal so that a crash between two    *)
(* file writes never leaves a half-updated pair.                           *)
(*                                                                         *)
(* Every file write is one step, so a crash may fall between any two.      *)
(* Every user of the default pair first takes the profile lock, an flock   *)
(* the kernel drops when its holder dies; pc, mode, who, run, base, cand   *)
(* and repl are the memory of the one holder, and pc = "idle" says that    *)
(* nobody holds it.                                                        *)
(*                                                                         *)
(* A generation stands for the bytes of one credential file and for their  *)
(* SHA-256; a later refresh or login is a larger generation, as            *)
(* _codex_refresh_generation and _claude_refresh_generation order them.    *)
(***************************************************************************)
EXTENDS DefaultProfile

CONSTANTS Run,       \* run identifiers (a new run takes one no file names)
          NoRun,     \* "no transaction directory", "no journal"
          MaxIssue   \* bound: generations both vendors issue, together

ASSUME RunAssumption == NoRun \notin Run
ASSUME IssueAssumption == MaxIssue \in Nat

OptGen == Gen \cup {Absent}
Pair   == [Vendor -> Gen]

\* transactions/<run>: transaction.json records the baseline, the home holds
\* the candidate.  NoTx: the directory does not exist.
Tx   == [run : Run \cup {NoRun}, meta : OptGen, cand : OptGen]
NoTx == [run |-> NoRun, meta |-> Absent, cand |-> Absent]

\* default-profile-transition.json
Journal   == [run : Run \cup {NoRun}, old : Pair, new : Pair]
NoJournal == [run |-> NoRun, old |-> [v \in Vendor |-> 0], new |-> [v \in Vendor |-> 0]]

VARIABLES
  durable,   \* auth.json and credentials.json of the two accounts
  journal,   \* default-profile-transition.json
  tx,        \* the transaction directory of each account
  issued,    \* the latest generation each vendor has issued
  refreshed, \* history: the latest one a CLI wrote into a private home
  dropped,   \* history: the latest such one the code itself overwrote
  seen,      \* history: generations the evidence barrier classified
  mode,      \* what the holder of the lock is about
  run, base, cand, repl \* its run, baselines, candidates and replacements

disk  == <<durable, marker, journal, tx>>
world == <<standard, issued, refreshed, dropped, seen>>
ctl   == <<pc, mode, who>>
mem   == <<run, base, cand, repl>>
vars  == <<disk, world, ctl, mem, faults>>

Phases == {"idle", "replay", "recover", "pending", "commit", "install", "mark",
           "clean", "rebase", "unlink", "mkdir", "copy", "record", "source",
           "auth", "adopt", "starting", "running", "refresh", "ending", "closing",
           "settle", "finalize"}
Modes  == {"none", "replay", "recover", "drop", "adopt", "first", "author", "turn",
           "retry", "final", "early", "last", "close"}

TypeOK ==
  /\ durable \in Pair /\ marker \in Pair
  /\ journal \in Journal
  /\ tx \in [Vendor -> Tx]
  /\ standard \in Pair /\ issued \in Pair /\ refreshed \in Pair
  /\ dropped \in [Vendor -> OptGen] /\ seen \in [Vendor -> SUBSET Gen]
  /\ pc \in Phases /\ mode \in Modes /\ who \in Vendor
  /\ run \in Run \cup {NoRun}
  /\ base \in [Vendor -> OptGen] /\ cand \in [Vendor -> OptGen] /\ repl \in [Vendor -> OptGen]
  /\ faults \in [crash : 0 .. MaxFault, write : 0 .. MaxFault]

-----------------------------------------------------------------------------
\* Helpers.

Nothing == [v \in Vendor |-> Absent]
Pending == journal.run # NoRun
HasTx(v) == tx[v].run # NoRun

Goto(phase, v, m) == pc' = phase /\ who' = v /\ mode' = m

\* Release every lock and forget; what is on disk stays.
Close ==
  /\ Goto("idle", "claude", "none")
  /\ run' = NoRun /\ base' = Nothing /\ cand' = Nothing /\ repl' = Nothing

\* What the vendor can issue next.
Issuable(v) == {n \in Gen : n = issued[v] + 1 /\ issued["claude"] + issued["codex"] < MaxIssue}

\* What a status probe or a CLI turn started on generation g may leave in
\* its home: the same bytes, or one the vendor has just issued.
After(v, g) == {g} \cup Issuable(v)

\* The vendor's counter and the refresh history after the home holds g.
Issue(v, g)   == issued' = [issued EXCEPT ![v] = IF g > @ THEN g ELSE @]
Refresh(v, g) == /\ Issue(v, g)
                 /\ refreshed' = [refreshed EXCEPT ![v] = IF g > issued[v] THEN g ELSE @]

\* The evidence barrier: retained evidence of the run is scrubbed of G
\* before any of G can become durable.
Classify(v, G) == seen' = [seen EXCEPT ![v] = @ \cup (G \cap Gen)]

PutCandidate(v, g) == tx' = [tx EXCEPT ![v].cand = g]

-----------------------------------------------------------------------------
\* Recovery.

\* _journal_candidate for both accounts and the checks that open
\* _roll_forward_pair_transition.
JournalAdmissibleOldBaseline ==
  /\ \A v \in Vendor : HasTx(v) =>
       /\ tx[v].run = journal.run /\ tx[v].meta = journal.old[v]
       /\ tx[v].cand = journal.new[v]
  /\ marker \in {journal.old, journal.new}
  /\ (\E v \in Vendor : ~HasTx(v)) => marker = journal.new /\ durable = journal.new

JournalAdmissible ==
  /\ \A v \in Vendor : HasTx(v) =>
       /\ tx[v].run = journal.run
       /\ tx[v].meta \in {journal.old[v], journal.new[v]}
       /\ tx[v].cand = journal.new[v]
  /\ marker \in {journal.old, journal.new}
  /\ \A v \in Vendor : durable[v] \in {journal.old[v], journal.new[v]}
  /\ (\E v \in Vendor : ~HasTx(v)) => marker = journal.new /\ durable = journal.new

\* What _prepare_pending_recovery asks of a directory it finds.
PendingReadable(v) ==
  HasTx(v) => /\ tx[v].meta # Absent /\ tx[v].cand # Absent
              /\ tx[v].meta = durable[v] \/ tx[v].cand = durable[v]

Changed == \E v \in Vendor : HasTx(v) /\ tx[v].cand # durable[v]
Paired  == HasTx("claude") /\ HasTx("codex") /\ tx["claude"].run = tx["codex"].run

\* The structural checks of _coordinated_recover_default_pair without a journal.
RecoverAdmissible ==
  /\ marker = durable
  /\ \A v \in Vendor : PendingReadable(v)
  /\ Changed => Paired

\* The next run gets past every structural check.
Admissible == IF Pending THEN JournalAdmissible ELSE RecoverAdmissible

\* _newer_standard_credential_pair: only a strictly newer vendor login counts.
NewerStandard(v) == standard[v] > durable[v]

\* CombinedCredentialTransaction.acquire takes the profile lock.
Begin ==
  /\ pc = "idle"
  /\ \E r \in Run \ ({journal.run} \cup {tx[v].run : v \in Vendor}) : run' = r
  /\ Goto(IF Pending THEN "replay" ELSE "recover", "claude", "none")
  /\ UNCHANGED <<disk, world, base, cand, repl, faults>>

\* A check failed: CREDENTIAL_STATE_CONFLICT, nothing written.
Conflict ==
  /\ pc \in {"replay", "recover"} /\ ~Admissible
  /\ Close
  /\ UNCHANGED <<disk, world, faults>>

\* Load the journaled candidates; no probe here, it could create a
\* generation the journal does not name.
ReplayProbes ==
  /\ pc = "replay" /\ JournalAdmissible
  /\ \E g \in After("codex", tx["codex"].cand) :
       /\ PutCandidate("codex", g) /\ Refresh("codex", g)
       /\ cand' = [v \in Vendor |-> IF v = "codex" THEN g ELSE tx[v].cand]
  /\ Goto("install", "claude", "replay")
  /\ UNCHANGED <<durable, marker, journal, standard, dropped, seen, run, base, repl, faults>>

Replay ==
  /\ pc = "replay" /\ JournalAdmissible
  /\ cand' = [v \in Vendor |-> tx[v].cand]
  /\ seen' = [v \in Vendor |-> seen[v] \cup ({tx[v].cand} \cap Gen)]
  /\ Goto("install", "claude", "replay")
  /\ UNCHANGED <<disk, standard, dropped, issued, refreshed, run, base, repl, faults>>

\* Phase 1: read both pending directories without a probe.  Unchanged ones
\* are only swept away; a changed one must belong to a pair.
Recover ==
  /\ pc = "recover" /\ RecoverAdmissible
  /\ repl' = [v \in Vendor |-> IF NewerStandard(v) THEN standard[v] ELSE Absent]
  /\ seen' = [v \in Vendor |->
                IF HasTx(v) THEN seen[v] \cup {durable[v], tx[v].cand} ELSE seen[v]]
  /\ IF Changed THEN Goto("pending", "claude", "recover") ELSE Goto("clean", "claude", "drop")
  /\ UNCHANGED <<disk, standard, dropped, issued, refreshed, run, base, cand, faults>>

\* A strictly newer standard login replaces the pending candidate.
SupersedesAlways(v) == repl[v] # Absent
Supersedes(v) == repl[v] # Absent /\ (tx[v].cand = durable[v] \/ repl[v] > tx[v].cand)

AfterPending(v) ==
  IF v = "claude" THEN Goto("pending", "codex", mode) ELSE Goto("commit", "claude", mode)

\* Phase 2: the standard login is probed in a disposable home and staged.
PendingSupersede(v) ==
  /\ pc = "pending" /\ who = v /\ Supersedes(v)
  /\ \E g \in After(v, repl[v]) :
       /\ PutCandidate(v, g) /\ cand' = [cand EXCEPT ![v] = g]
       /\ Classify(v, {durable[v], tx[v].cand, repl[v], g})
       /\ Issue(v, g)
  /\ AfterPending(v)
  /\ UNCHANGED <<durable, marker, journal, standard, dropped, refreshed, run, base, repl, faults>>

\* Phase 2: that probe failed; the pending candidate is tried instead.
PendingSourceFails(v) ==
  /\ pc = "pending" /\ who = v /\ Supersedes(v)
  /\ \E g \in After(v, repl[v]) :
       Classify(v, {durable[v], tx[v].cand, repl[v], g}) /\ Issue(v, g)
  /\ repl' = [repl EXCEPT ![v] = Absent]
  /\ UNCHANGED <<disk, standard, dropped, refreshed, ctl, run, base, cand, faults>>

\* Phase 2: the pending candidate passes its probe.
PendingProbe(v) ==
  /\ pc = "pending" /\ who = v /\ ~Supersedes(v)
  /\ \E g \in After(v, tx[v].cand) :
       /\ PutCandidate(v, g) /\ cand' = [cand EXCEPT ![v] = g]
       /\ Classify(v, {durable[v], tx[v].cand, g})
       /\ Refresh(v, g)
  /\ AfterPending(v)
  /\ UNCHANGED <<durable, marker, journal, standard, dropped, run, base, repl, faults>>

\* Phase 2: it fails its probe, perhaps after refreshing; the run stops.
PendingProbeFails(v) ==
  /\ pc = "pending" /\ who = v /\ ~Supersedes(v)
  /\ \E g \in After(v, tx[v].cand) : PutCandidate(v, g) /\ Refresh(v, g)
  /\ Close
  /\ UNCHANGED <<durable, marker, journal, standard, dropped, seen, faults>>

-----------------------------------------------------------------------------
\* The pair transition.

\* Who reconciles and what becomes of a failure.  "first": the secret provider
\* while the runtime is built; its failure ends the run before it has a
\* provider, and its final reconcile is "early".  "author": the author adapter
\* after a turn; it goes on to ask the provider, which reconciles again
\* ("retry").  "turn": the provider at any output boundary; its failure
\* withholds all evidence for good and ends the run, whose final reconcile is
\* then the "last" one.  "final": the run is over; after a failure the provider
\* is asked once more ("close") and the transaction is closed unfinished.  In
\* recovery, in acquire and in the other modes a failure closes at once.
GiveUp ==
  \/ /\ \/ mode = "first" /\ Goto("ending", "claude", "early")
        \/ mode = "author" /\ Goto("refresh", "claude", "none")
        \/ mode \in {"turn", "retry"} /\ Goto("ending", "claude", "last")
        \/ mode = "final" /\ Goto("closing", "claude", "none")
     /\ cand' = Nothing /\ UNCHANGED <<run, base, repl>>
  \/ mode \notin {"first", "author", "turn", "retry", "final"} /\ Close

Intended == [run |-> tx["claude"].run, old |-> durable,
             new |-> [v \in Vendor |-> cand[v]]]

\* _write_pair_transition: the commit point.  Recovery that finds nothing
\* left to change sweeps the directories instead.
CommitMarksFirst ==
  /\ pc = "commit" /\ (~Pending \/ journal = Intended)
  /\ journal' = Intended
  /\ Goto("mark", "claude", mode)
  /\ UNCHANGED <<durable, marker, tx, world, mem, faults>>

Commit ==
  /\ pc = "commit"
  /\ IF mode = "recover" /\ cand = durable
     THEN /\ Goto("clean", "claude", "drop")
          /\ repl' = Nothing /\ cand' = Nothing
          /\ UNCHANGED <<disk, run, base>>
     ELSE /\ ~Pending \/ journal = Intended
          /\ journal' = Intended
          /\ Goto("install", "claude", mode)
          /\ UNCHANGED <<durable, marker, tx, mem>>
  /\ UNCHANGED <<world, faults>>

\* Another transition is already journaled.
CommitRefused ==
  /\ pc = "commit" /\ Pending /\ journal # Intended
  /\ GiveUp
  /\ UNCHANGED <<disk, world, faults>>

\* Install one provider's candidate, Claude first.
Install(v) ==
  /\ pc = "install" /\ who = v
  /\ durable[v] # journal.new[v] => cand[v] = journal.new[v]
  /\ durable' = [durable EXCEPT ![v] = journal.new[v]]
  /\ IF v = "claude" THEN Goto("install", "codex", mode) ELSE Goto("mark", "claude", mode)
  /\ UNCHANGED <<marker, journal, tx, world, mem, faults>>

\* Write the new pair marker.
Mark ==
  /\ pc = "mark"
  /\ marker' = journal.new
  /\ Goto(IF mode \in {"replay", "recover"} THEN "clean" ELSE "rebase", "claude", mode)
  /\ UNCHANGED <<durable, journal, tx, world, mem, faults>>

\* A live transaction is kept: record the new baseline in its metadata.
Rebase(v) ==
  /\ pc = "rebase" /\ who = v
  /\ tx' = [tx EXCEPT ![v].meta = journal.new[v]]
  /\ IF v = "claude" THEN Goto("rebase", "codex", mode) ELSE Goto("unlink", "claude", mode)
  /\ UNCHANGED <<durable, marker, journal, world, mem, faults>>

\* Forget the journal; the caller goes on.
Unlink ==
  /\ pc = "unlink"
  /\ journal' = NoJournal
  /\ IF mode \in {"last", "close"} THEN Close
     ELSE /\ \/ mode = "replay"  /\ Goto("recover", "claude", "none") /\ UNCHANGED base
             \/ mode = "recover" /\ Goto("mkdir", "claude", "none") /\ UNCHANGED base
             \/ mode = "adopt" /\ Goto("starting", "claude", "none") /\ base' = journal.new
             \/ /\ mode \in {"first", "author", "turn"}
                /\ Goto("running", "claude", "none") /\ base' = journal.new
             \/ mode = "retry" /\ Goto("ending", "claude", "none") /\ base' = journal.new
             \/ /\ mode \in {"final", "early"}
                /\ Goto("finalize", "codex", "none") /\ base' = journal.new
          /\ cand' = Nothing /\ repl' = Nothing /\ UNCHANGED run
  /\ UNCHANGED <<durable, marker, tx, world, faults>>

-----------------------------------------------------------------------------
\* Removing a transaction directory: shutil.rmtree unlinks its files one by
\* one, in the order the directory lists them.

Removing(v) == pc \in {"clean", "finalize"} /\ who = v

\* finalize_reconciled re-reads both witnesses before it starts; recovery
\* has read them already.
MayRemove(v) ==
  pc = "finalize" /\ tx[v].meta # Absent /\ tx[v].cand # Absent =>
    durable[v] = base[v] /\ tx[v].cand = durable[v]

RemoveFile(v) ==
  /\ Removing(v) /\ HasTx(v) /\ MayRemove(v)
  /\ \/ tx[v].meta # Absent /\ tx' = [tx EXCEPT ![v].meta = Absent]
     \/ tx[v].cand # Absent /\ tx' = [tx EXCEPT ![v].cand = Absent]
  /\ UNCHANGED <<durable, marker, journal, world, ctl, mem, faults>>

\* The emptied directory goes, or there was none.
RemoveDir(v) ==
  /\ Removing(v) /\ tx[v].meta = Absent /\ tx[v].cand = Absent
  /\ tx' = [tx EXCEPT ![v] = NoTx]
  /\ \/ pc = "clean" /\ v = "claude" /\ Goto("clean", "codex", mode) /\ UNCHANGED mem
     \/ /\ pc = "clean" /\ v = "codex"
        /\ Goto(IF mode = "drop" THEN "mkdir" ELSE "unlink", "claude",
                IF mode = "drop" THEN "none" ELSE mode)
        /\ UNCHANGED mem
     \/ pc = "finalize" /\ v = "codex" /\ Goto("finalize", "claude", mode) /\ UNCHANGED mem
     \/ pc = "finalize" /\ v = "claude" /\ Close
  /\ UNCHANGED <<durable, marker, journal, world, faults>>

-----------------------------------------------------------------------------
\* Acquisition: seed both transactions, take over newer standard logins,
\* prove that both candidates authenticate.

\* _seed_transaction, file by file.
MakeDir(v) ==
  /\ pc = "mkdir" /\ who = v /\ ~HasTx(v)
  /\ tx' = [tx EXCEPT ![v].run = run]
  /\ Goto("copy", v, mode)
  /\ UNCHANGED <<durable, marker, journal, world, mem, faults>>

CopyDurable(v) ==
  /\ pc = "copy" /\ who = v
  /\ PutCandidate(v, durable[v])
  /\ Goto("record", v, mode)
  /\ UNCHANGED <<durable, marker, journal, world, mem, faults>>

RecordBaseline(v) ==
  /\ pc = "record" /\ who = v
  /\ tx' = [tx EXCEPT ![v].meta = durable[v]]
  /\ base' = [base EXCEPT ![v] = durable[v]]
  /\ IF v = "claude" THEN Goto("mkdir", "codex", mode) ELSE Goto("source", "claude", mode)
  /\ UNCHANGED <<durable, marker, journal, world, run, cand, repl, faults>>

AfterSource(v) ==
  IF v = "claude" THEN Goto("source", "codex", mode) ELSE Goto("auth", "claude", mode)

\* Probe the newer standard login in a disposable home and stage it.
StageSource(v) ==
  /\ pc = "source" /\ who = v /\ repl[v] # Absent
  /\ \E g \in After(v, repl[v]) :
       /\ PutCandidate(v, g) /\ repl' = [repl EXCEPT ![v] = g]
       /\ Classify(v, {durable[v], repl[v], g}) /\ Issue(v, g)
  /\ AfterSource(v)
  /\ UNCHANGED <<durable, marker, journal, standard, dropped, refreshed, run, base, cand, faults>>

\* It fails its probe, or there is none: the durable copy stays.
NoSource(v) ==
  /\ pc = "source" /\ who = v
  /\ \/ repl[v] = Absent /\ UNCHANGED <<issued, seen>>
     \/ /\ repl[v] # Absent
        /\ \E g \in After(v, repl[v]) : Classify(v, {durable[v], repl[v], g}) /\ Issue(v, g)
  /\ repl' = [repl EXCEPT ![v] = Absent]
  /\ AfterSource(v)
  /\ UNCHANGED <<disk, standard, dropped, refreshed, run, base, cand, faults>>

\* The status probe on the candidate home, after the committed pair has
\* been verified.
AuthProbe(v) ==
  /\ pc = "auth" /\ who = v /\ (v = "claude" => marker = durable)
  /\ \E g \in After(v, tx[v].cand) : PutCandidate(v, g) /\ Refresh(v, g)
  /\ IF v = "claude" THEN Goto("auth", "codex", mode) ELSE Goto("adopt", "claude", mode)
  /\ UNCHANGED <<durable, marker, journal, standard, dropped, seen, mem, faults>>

\* It fails on a staged login, perhaps after refreshing it: the durable login
\* overwrites whatever the home holds (_restore_durable_candidate), a refresh
\* by the failed probe included, and is probed next.
AuthFallsBack(v) ==
  /\ pc = "auth" /\ who = v /\ repl[v] # Absent
  /\ \E g \in After(v, tx[v].cand) :
       /\ Refresh(v, g)
       /\ dropped' = [dropped EXCEPT ![v] = IF g > issued[v] THEN g ELSE @]
  /\ PutCandidate(v, durable[v])
  /\ repl' = [repl EXCEPT ![v] = Absent]
  /\ UNCHANGED <<durable, marker, journal, standard, seen, ctl, run, base, cand, faults>>

\* It fails on the durable login: the run stops before spending.
AuthFails(v) ==
  /\ pc = "auth" /\ who = v /\ repl[v] = Absent
  /\ \E g \in After(v, tx[v].cand) : PutCandidate(v, g) /\ Refresh(v, g)
  /\ Close
  /\ UNCHANGED <<durable, marker, journal, standard, dropped, seen, faults>>

-----------------------------------------------------------------------------
\* Reconciling candidates with the durable pair.

Candidates == [v \in Vendor |-> tx[v].cand]

\* _reconcile_default_pair(probe_candidates=False), at the end of acquire.
AdoptUnclassified ==
  /\ pc = "adopt" /\ durable = base
  /\ repl' = Nothing /\ cand' = Candidates
  /\ Goto(IF Candidates = durable THEN "starting" ELSE "commit", "claude", "adopt")
  /\ UNCHANGED <<disk, world, run, base, faults>>

Adopt ==
  /\ pc = "adopt" /\ durable = base
  /\ repl' = Nothing
  /\ IF Candidates = durable
     THEN Goto("starting", "claude", "none") /\ UNCHANGED <<cand, seen>>
     ELSE /\ Goto("commit", "claude", "adopt") /\ cand' = Candidates
          /\ seen' = [v \in Vendor |->
                IF tx[v].cand # durable[v] THEN seen[v] \cup {durable[v], tx[v].cand}
                                           ELSE seen[v]]
  /\ UNCHANGED <<disk, standard, dropped, issued, refreshed, run, base, faults>>

\* A model turn, or the Codex status probe that prepares the run: the vendor
\* CLI refreshes its private home.
CliTurn(v) ==
  /\ pc = "running" \/ (pc = "starting" /\ v = "codex")
  /\ \E g \in After(v, issued[v]) : g > issued[v] /\ PutCandidate(v, g) /\ Refresh(v, g)
  /\ UNCHANGED <<durable, marker, journal, standard, dropped, seen, ctl, mem, faults>>

\* _reconcile_default_pair(probe_candidates=True); GiveUp names the callers.
Reconcile(m) ==
  /\ \/ m = "first" /\ pc = "starting"
     \/ m \in {"author", "turn"} /\ pc = "running"
     \/ m = "retry" /\ pc = "refresh"
     \/ m = "early" /\ (pc = "starting" \/ (pc = "ending" /\ mode = "early"))
     \/ m = "final" /\ (pc = "running" \/ (pc = "ending" /\ mode = "none"))
     \/ m = "last"  /\ pc = "ending" /\ mode = "last"
     \/ m = "close" /\ pc = "closing"
  /\ durable = base
  /\ IF Candidates # durable
     THEN Goto("settle", "claude", m) /\ cand' = Candidates /\ UNCHANGED <<run, base, repl>>
     ELSE \/ m = "first" /\ Goto("running", "claude", "none") /\ UNCHANGED mem
          \/ m \in {"author", "turn"} /\ UNCHANGED <<ctl, mem>>
          \/ m = "retry" /\ Goto("ending", "claude", "none") /\ UNCHANGED mem
          \/ m \in {"final", "early"} /\ Goto("finalize", "codex", "none") /\ UNCHANGED mem
          \/ m \in {"last", "close"} /\ Close
  /\ UNCHANGED <<disk, world, faults>>

\* The durable pair is not the one this transaction last wrote, which every
\* later reconcile will find too.
ReconcileRefused ==
  /\ pc \in {"refresh", "ending", "closing"} /\ durable # base
  /\ Close
  /\ UNCHANGED <<disk, world, faults>>

\* A generation learned since turns up in retained evidence: all content is
\* withheld and the run ends, without being finalized if it has a provider,
\* which from now on refuses to answer.
Withhold ==
  /\ \/ pc = "starting" /\ Goto("ending", "claude", "early")
     \/ pc = "running" /\ Goto("ending", "claude", "last")
  /\ UNCHANGED <<disk, world, mem, faults>>

AfterSettle(v) ==
  IF v = "claude" THEN Goto("settle", "codex", mode) ELSE Goto("commit", "claude", mode)

\* Probe a changed candidate and classify it; leave an unchanged one alone.
Settle(v) ==
  /\ pc = "settle" /\ who = v
  /\ \/ cand[v] = durable[v] /\ UNCHANGED <<tx, cand, issued, refreshed, seen>>
     \/ /\ cand[v] # durable[v]
        /\ \E g \in After(v, cand[v]) :
             /\ PutCandidate(v, g) /\ cand' = [cand EXCEPT ![v] = g]
             /\ Classify(v, {durable[v], cand[v], g}) /\ Refresh(v, g)
  /\ AfterSettle(v)
  /\ UNCHANGED <<durable, marker, journal, standard, dropped, run, base, repl, faults>>

\* A changed candidate fails its probe, perhaps after refreshing.
SettleFails(v) ==
  /\ pc = "settle" /\ who = v /\ cand[v] # durable[v]
  /\ \E g \in After(v, cand[v]) : PutCandidate(v, g) /\ Refresh(v, g)
  /\ GiveUp
  /\ UNCHANGED <<durable, marker, journal, standard, dropped, seen, faults>>

-----------------------------------------------------------------------------
\* The surroundings.

\* The operator signs in again with the vendor's own CLI.
UserLogin(v) ==
  /\ \E g \in Issuable(v) :
       /\ standard' = [standard EXCEPT ![v] = g]
       /\ issued' = [issued EXCEPT ![v] = g]
  /\ UNCHANGED <<disk, refreshed, dropped, seen, ctl, mem, faults>>

\* The holder dies, is interrupted, or stops without finalizing.
Crash ==
  /\ pc # "idle" /\ faults.crash + faults.write < MaxFault
  /\ faults' = [faults EXCEPT !.crash = @ + 1]
  /\ Close
  /\ UNCHANGED <<disk, world>>

\* A write of the transition fails (atomic_write leaves the old file) and the
\* exception is handled by the caller.
WriteFails ==
  /\ faults.crash + faults.write < MaxFault
  /\ pc \in {"commit", "install", "mark", "clean", "rebase", "unlink"}
  /\ faults' = [faults EXCEPT !.write = @ + 1]
  /\ GiveUp
  /\ UNCHANGED <<disk, world>>

Init ==
  /\ durable = [v \in Vendor |-> 0] /\ marker = durable
  /\ journal = NoJournal /\ tx = [v \in Vendor |-> NoTx]
  /\ standard = durable /\ issued = durable /\ refreshed = durable
  /\ dropped = Nothing /\ seen = [v \in Vendor |-> {0}]
  /\ pc = "idle" /\ mode = "none" /\ who = "claude"
  /\ run = NoRun /\ base = Nothing /\ cand = Nothing /\ repl = Nothing
  /\ faults = [crash |-> 0, write |-> 0]

\* What the process holding the profile lock does next.
Step ==
  \/ Begin \/ Conflict \/ Replay \/ Recover
  \/ Commit \/ CommitRefused \/ Mark \/ Unlink
  \/ Adopt \/ ReconcileRefused \/ Withhold
  \/ \E m \in {"first", "author", "turn", "retry", "final", "early", "last", "close"} :
       Reconcile(m)
  \/ \E v \in Vendor :
       \/ PendingSupersede(v) \/ PendingSourceFails(v)
       \/ PendingProbe(v) \/ PendingProbeFails(v)
       \/ Install(v) \/ Rebase(v) \/ RemoveFile(v) \/ RemoveDir(v)
       \/ MakeDir(v) \/ CopyDurable(v) \/ RecordBaseline(v)
       \/ StageSource(v) \/ NoSource(v)
       \/ AuthProbe(v) \/ AuthFallsBack(v) \/ AuthFails(v)
       \/ Settle(v) \/ SettleFails(v)

Next == Step \/ Crash \/ WriteFails \/ \E v \in Vendor : CliTurn(v) \/ UserLogin(v)

Spec == Init /\ [][Next]_vars

\* A process that holds the lock keeps going and its run ends; with the lock
\* free, some intended run takes it.
FairSpec == Spec /\ WF_vars(Step)

-----------------------------------------------------------------------------
\* auth status: default_cli_credential_pair_state and what it promises.

PairStatus ==
  IF pc # "idle" THEN "busy"
  ELSE IF Pending THEN IF JournalAdmissible THEN "recovery_pending" ELSE "repair_required"
  ELSE IF marker # durable THEN "repair_required"
  ELSE IF \E v \in Vendor : HasTx(v) THEN "recovery_pending"
  ELSE "ready"

\* A directory caught half seeded or half removed.
Torn(v) == HasTx(v) /\ (tx[v].meta = Absent \/ tx[v].cand = Absent)

-----------------------------------------------------------------------------
\* Properties.

\* The committed pair: what a reader that replays the journal sees.
CommittedPair == IF Pending THEN journal.new ELSE durable

\* A crash between any two writes leaves the durable files and the marker
\* either equal to each other or each on one side of the journal, Claude
\* never behind Codex and the marker never ahead of a file: the pair is
\* never half-updated without the journal that completes it.
NeverHalfUpdated ==
  IF ~Pending THEN marker = durable
  ELSE /\ \A v \in Vendor : durable[v] \in {journal.old[v], journal.new[v]}
       /\ durable["codex"] # journal.old["codex"] => durable["claude"] = journal.new["claude"]
       /\ marker = journal.old \/ (marker = journal.new /\ durable = journal.new)

\* The whole store, crashes and failed writes included, is a register that
\* holds one pair and moves to classified, never older generations in one step.
Register == INSTANCE PairStore WITH pair <- CommittedPair
IsPairStore == Register!Spec

\* A crash between any two steps leaves a store that auth status calls ready or
\* says will be recovered, and whose structural checks the next run gets past;
\* only a directory caught half seeded or half removed is excepted, and what a
\* failed write may have led to (PendingTransitionRecovers).
CrashRecoverable ==
  pc = "idle" /\ (\A v \in Vendor : ~Torn(v)) /\ faults.write = 0 =>
    PairStatus \in {"ready", "recovery_pending"} /\ Admissible

\* The latest refresh a CLI wrote into a private home is durable or is a
\* pending candidate, unless something newer took its place.  There is one
\* exception: a staged login that the failed status probe of an acquisition
\* refreshed in the home is overwritten by the durable login, which is older
\* (AuthFallsBack; credentials.py, the fallback to _restore_durable_candidate).
RefreshKept ==
  \A v \in Vendor : \/ refreshed[v] <= durable[v] \/ refreshed[v] <= tx[v].cand
                     \/ refreshed[v] = dropped[v]

\* A journaled transition is finished by the runs that follow, unless a
\* directory was left torn or a write failed.
TransitionResolved ==
  Pending ~> (~Pending \/ faults.write > 0 \/ \E v \in Vendor : Torn(v))

\* "A pending valid paired transition is recovered automatically by the next
\* intended run" (README.md), which replays the journal and never probes.
PendingTransitionRecovers ==
  pc = "idle" /\ Pending /\ (\A v \in Vendor : ~Torn(v)) => JournalAdmissible
=============================================================================
