------------------------ MODULE CredentialPairProofs ------------------------
(***************************************************************************)
(* What TLAPS proves of CredentialPair for every set of runs, every number *)
(* of generations and of faults, and with or without failed writes: the    *)
(* pair is never half-updated, no refresh is lost, what a crash leaves can *)
(* be recovered, and the store implements the register PairStore; and, at  *)
(* the end, of DefaultPair: what import and repair promise.                *)
(***************************************************************************)
EXTENDS CredentialPair, DefaultPair, TLAPS

-----------------------------------------------------------------------------
\* The inductive invariant.

\* Phases in which the holder owns two complete candidate homes.
Owning == {"pending", "source", "auth", "adopt", "starting", "running", "refresh",
           "ending", "closing", "settle"}
Moving == {"commit", "install", "mark", "rebase", "unlink"}
Live   == {"adopt", "first", "author", "turn", "retry", "final", "early", "last", "close"}

\* There both homes hold a candidate; while seeding, the finished ones do.
Homes ==
  /\ pc \in Owning \/ pc = "commit" \/ (pc \in Moving /\ mode \in Live) =>
       \A v \in Vendor : tx[v].run \in Run /\ tx[v].cand \in Gen
  /\ pc \in {"mkdir", "copy", "record"} /\ who = "codex" =>
       tx["claude"].run \in Run /\ tx["claude"].cand \in Gen
  /\ pc \in {"copy", "record"} => tx[who].run \in Run
  /\ pc = "record" => tx[who].cand \in Gen
  /\ pc # "idle" => run \in Run
  /\ pc = "clean" => mode \notin Live

\* The candidates in memory are generations by the time they are committed.
Loaded ==
  /\ pc \in {"commit", "settle"} => cand \in Pair
  /\ pc = "pending" /\ who = "codex" => cand["claude"] \in Gen

\* Where a journal may exist, and how far its installation has come.
MayPend == {"idle", "replay", "install", "mark", "clean", "rebase", "unlink",
            "commit", "settle", "refresh", "ending", "closing", "finalize"}

Progress ==
  /\ Pending => pc \in MayPend
  /\ pc = "replay" => Pending
  /\ pc = "clean" /\ mode = "drop" => ~Pending
  /\ pc \in {"settle", "commit"} /\ mode = "recover" => ~Pending
  /\ pc = "install" => Pending /\ (who = "codex" => durable["claude"] = journal.new["claude"])
  /\ pc = "mark" => Pending /\ durable = journal.new
  /\ pc \in {"rebase", "unlink"} \/ (pc = "clean" /\ mode # "drop") =>
       Pending /\ durable = journal.new /\ marker = journal.new

IInv == TypeOK /\ Homes /\ Loaded /\ Progress /\ NeverHalfUpdated

-----------------------------------------------------------------------------
\* Facts about the helpers.

LEMMA VendorIs == /\ "claude" \in Vendor /\ "codex" \in Vendor
                  /\ \A v \in Vendor : v = "claude" \/ v = "codex"
BY DEF Vendor

\* After a probe the home holds a generation, or what it held before.
LEMMA AfterGen == ASSUME NEW v \in Vendor, NEW g, NEW h \in After(v, g)
                  PROVE  h = g \/ h \in Gen
BY DEF After, Issuable

LEMMA InitIInv == Init => IInv
<1> SUFFICES ASSUME Init PROVE IInv
  OBVIOUS
<1>1. \A n \in Nat : 0 \in 0 .. n
  OBVIOUS
<1>2. 0 \in Gen /\ Absent \in OptGen /\ 0 \in 0 .. MaxFault
  BY <1>1, BoundAssumption DEF Gen, OptGen
<1>3. TypeOK
  BY <1>2
     DEF Init, TypeOK, Pair, Journal, NoJournal, Tx, NoTx, Phases, Modes, Nothing,
         Vendor
<1>4. Homes /\ Loaded
  BY DEF Init, Homes, Loaded, Owning, Moving
<1>5. ~Pending
  BY DEF Init, Pending, NoJournal
<1>6. Progress /\ NeverHalfUpdated
  BY <1>5 DEF Init, Progress, NeverHalfUpdated
<1> QED
  BY <1>3, <1>4, <1>6 DEF IInv



\* What the helpers leave typed.
LEMMA GenFacts == /\ Gen \subseteq OptGen /\ Absent \in OptGen /\ Absent \notin Gen
                  /\ 0 \in Gen
BY BoundAssumption DEF Gen, OptGen, Absent

LEMMA IssueTyped == ASSUME TypeOK, NEW v \in Vendor, NEW g \in OptGen, Issue(v, g)
                    PROVE  issued' \in Pair
BY DEF TypeOK, Pair, Issue, OptGen, Gen, Absent

LEMMA RefreshTyped == ASSUME TypeOK, NEW v \in Vendor, NEW g \in OptGen, Refresh(v, g)
                      PROVE  issued' \in Pair /\ refreshed' \in Pair
<1>1. issued' \in Pair
  BY IssueTyped DEF Refresh
<1>2. issued[v] \in Gen /\ (g > issued[v] => g \in Gen)
  BY DEF TypeOK, Pair, OptGen, Gen, Absent
<1> QED
  BY <1>1, <1>2 DEF Refresh, TypeOK, Pair

LEMMA ClassifyTyped == ASSUME TypeOK, NEW v \in Vendor, NEW G, Classify(v, G)
                       PROVE  seen' \in [Vendor -> SUBSET Gen]
BY DEF TypeOK, Classify

LEMMA PutTyped == ASSUME TypeOK, NEW v \in Vendor, NEW g \in OptGen, PutCandidate(v, g)
                  PROVE  /\ tx' \in [Vendor -> Tx]
                         /\ \A w \in Vendor : tx'[w].run = tx[w].run
                         /\ tx'[v].cand = g
                         /\ \A w \in Vendor : w # v => tx'[w] = tx[w]
BY DEF TypeOK, PutCandidate, Tx

LEMMA ClosedTyped == ASSUME TypeOK, Close
                     PROVE  /\ pc' \in Phases /\ mode' \in Modes /\ who' \in Vendor
                            /\ run' \in Run \cup {NoRun} /\ base' \in [Vendor -> OptGen]
                            /\ cand' \in [Vendor -> OptGen] /\ repl' \in [Vendor -> OptGen]
                            /\ pc' = "idle" /\ Homes' /\ Loaded'
BY VendorIs, GenFacts
   DEF Close, Goto, Nothing, Phases, Modes, Homes, Loaded, Owning, Moving

LEMMA GaveUp == ASSUME TypeOK, run \in Run, GiveUp
                PROVE  /\ pc' \in {"refresh", "ending", "closing", "idle"}
                       /\ who' \in Vendor /\ mode' \in Modes
                       /\ run' \in Run \cup {NoRun} /\ base' \in [Vendor -> OptGen]
                       /\ cand' \in [Vendor -> OptGen] /\ repl' \in [Vendor -> OptGen]
                       /\ (pc' # "idle" => run' \in Run)
                       /\ (pc' # "idle" =>
                             mode \in {"first", "author", "turn", "retry", "final"})
BY VendorIs, GenFacts DEF GiveUp, Close, Goto, Nothing, Modes, TypeOK

LEMMA BeginStep == ASSUME IInv, Begin PROVE IInv'
<1>1. TypeOK'
  BY VendorIs DEF IInv, TypeOK, Phases, Modes, Begin, Goto, disk, world
<1>2. Homes' /\ Loaded'
  BY DEF Homes, Loaded, Owning, Live, Begin, Goto
<1>3. Progress' /\ NeverHalfUpdated'
  BY DEF IInv, Progress, MayPend, NeverHalfUpdated, Pending, Begin, Goto, disk
<1> QED
  BY <1>1, <1>2, <1>3 DEF IInv

LEMMA ConflictStep == ASSUME IInv, Conflict PROVE IInv'
<1>1. TypeOK'
  BY VendorIs, GenFacts
     DEF IInv, TypeOK, Phases, Modes, Conflict, Close, disk, world, Goto, Nothing
<1>2. Homes' /\ Loaded'
  BY DEF Homes, Loaded, Owning, Live, Conflict, Close, Goto
<1>3. Progress' /\ NeverHalfUpdated'
  BY DEF IInv, Progress, MayPend, NeverHalfUpdated, Pending, Conflict, Close, disk, Goto
<1> QED
  BY <1>1, <1>2, <1>3 DEF IInv

LEMMA ReplayStep == ASSUME IInv, Replay PROVE IInv'
<1>1. TypeOK'
  BY VendorIs DEF IInv, TypeOK, Tx, Phases, Modes, Replay, Goto, disk
<1>2. Homes' /\ Loaded'
  BY DEF IInv, Homes, Loaded, Owning, Live, Replay, Goto
<1>3. Progress' /\ NeverHalfUpdated'
  BY DEF IInv, Progress, MayPend, NeverHalfUpdated, Pending, Replay, Goto, disk
<1> QED
  BY <1>1, <1>2, <1>3 DEF IInv

LEMMA RecoverStep == ASSUME IInv, Recover PROVE IInv'
<1>1. repl' \in [Vendor -> OptGen] /\ seen' \in [Vendor -> SUBSET Gen]
  <2>1. repl' = [v \in Vendor |-> IF NewerStandard(v) THEN standard[v] ELSE Absent]
    BY DEF Recover
  <2>2. \A v \in Vendor : standard[v] \in OptGen /\ Absent \in OptGen
    BY GenFacts DEF IInv, TypeOK, Pair
  <2>3. \A v \in Vendor : durable[v] \in Gen
    BY DEF IInv, TypeOK, Pair
  <2>4. \A v \in Vendor : HasTx(v) => tx[v].cand \in Gen
    BY DEF IInv, TypeOK, Recover, RecoverAdmissible, PendingReadable, Tx, OptGen
  <2>5. \A v \in Vendor : seen[v] \in SUBSET Gen
    BY DEF IInv, TypeOK
  <2>6. seen' = [v \in Vendor |->
                  IF HasTx(v) THEN seen[v] \cup {durable[v], tx[v].cand} ELSE seen[v]]
    BY DEF Recover
  <2>7. repl' \in [Vendor -> OptGen]
    BY <2>1, <2>2
  <2>8. seen' \in [Vendor -> SUBSET Gen]
    BY <2>3, <2>4, <2>5, <2>6
  <2> QED
    BY <2>7, <2>8
<1>2. pc' \in Phases /\ mode' \in Modes /\ who' \in Vendor
  BY VendorIs DEF Recover, Goto, Phases, Modes
<1>3. UNCHANGED <<durable, marker, journal, tx, standard, issued, refreshed, dropped, run, base,
                  cand, faults>>
  BY DEF Recover, disk
<1>5. TypeOK'
  BY <1>1, <1>2, <1>3 DEF IInv, TypeOK
<1>4. ASSUME NEW v \in Vendor, Changed PROVE tx[v].run \in Run /\ tx[v].cand \in Gen
  <2>1. HasTx(v) /\ PendingReadable(v)
    BY <1>4 DEF Recover, RecoverAdmissible, Paired, Vendor
  <2> QED
    BY <2>1 DEF HasTx, PendingReadable, IInv, TypeOK, Tx, OptGen
<1>6. Homes' /\ Loaded'
  <2>1. CASE Changed
    <3>1. pc' = "pending" /\ who' = "claude" /\ run \in Run
      BY <2>1 DEF Recover, Goto, IInv, Homes
    <3> QED
      BY <3>1, <1>3, <1>4, <2>1 DEF Homes, Loaded
  <2>2. CASE ~Changed
    <3>1. pc' = "clean" /\ who' = "claude" /\ mode' = "drop" /\ run \in Run
      BY <2>2 DEF Recover, Goto, IInv, Homes
    <3> QED
      BY <3>1, <1>3 DEF Homes, Loaded, Owning, Live
  <2> QED
    BY <2>1, <2>2
<1>7. Progress' /\ NeverHalfUpdated'
  BY DEF IInv, Progress, MayPend, NeverHalfUpdated, Pending, Recover, Goto, disk
<1> QED
  BY <1>5, <1>6, <1>7 DEF IInv

LEMMA CommitStep == ASSUME IInv, Commit PROVE IInv'
<1>1. TypeOK'
  BY VendorIs, GenFacts
     DEF IInv, Homes, Loaded, TypeOK, Journal, Phases, Modes, Commit, Goto, Nothing,
         disk, Intended, mem, world
<1>2. Homes' /\ Loaded'
  BY DEF IInv, Homes, Loaded, Live, Commit, Goto, disk, mem
<1>3. Progress' /\ NeverHalfUpdated'
  BY VendorIs, RunAssumption
     DEF IInv, Homes, Progress, MayPend, NeverHalfUpdated, Pending, Commit, Goto, disk,
         Intended
<1> QED
  BY <1>1, <1>2, <1>3 DEF IInv

LEMMA CommitRefusedStep == ASSUME IInv, CommitRefused PROVE IInv'
<1>1. TypeOK'
  BY VendorIs, GenFacts
     DEF IInv, TypeOK, Phases, Modes, CommitRefused, GiveUp, disk, world, Goto,
         Nothing, Close
<1>2. Homes' /\ Loaded'
  BY DEF IInv, Homes, Loaded, CommitRefused, GiveUp, disk, Goto, Close
<1>3. Progress' /\ NeverHalfUpdated'
  BY DEF IInv, Progress, MayPend, NeverHalfUpdated, Pending, CommitRefused, GiveUp, disk,
         Goto, Close
<1> QED
  BY <1>1, <1>2, <1>3 DEF IInv

LEMMA MarkStep == ASSUME IInv, Mark PROVE IInv'
<1>1. TypeOK'
  BY VendorIs DEF IInv, TypeOK, Journal, Phases, Mark, Goto, world, mem
<1>2. Homes' /\ Loaded'
  BY DEF IInv, Homes, Loaded, Owning, Moving, Live, Mark, Goto, mem
<1>3. Progress' /\ NeverHalfUpdated'
  BY DEF IInv, Progress, MayPend, NeverHalfUpdated, Pending, Mark, Goto
<1> QED
  BY <1>1, <1>2, <1>3 DEF IInv

LEMMA UnlinkStep == ASSUME IInv, Unlink PROVE IInv'
<1>1. TypeOK'
  BY VendorIs, GenFacts
     DEF IInv, TypeOK, Pair, Journal, Phases, Modes, Unlink, NoJournal, Close, Goto,
         Nothing, world
<1>2. Homes' /\ Loaded'
  BY DEF IInv, Homes, Loaded, Owning, Moving, Live, Unlink, Close, Goto
<1>3. Progress' /\ NeverHalfUpdated'
  BY DEF IInv, Progress, NeverHalfUpdated, Pending, NoJournal, Unlink, Close, Goto
<1> QED
  BY <1>1, <1>2, <1>3 DEF IInv

LEMMA AdoptStep == ASSUME IInv, Adopt PROVE IInv'
<1>1. \A v \in Vendor : tx[v].run \in Run /\ tx[v].cand \in Gen /\ seen[v] \in SUBSET Gen
                            /\ durable[v] \in Gen
  BY DEF Adopt, IInv, Homes, Owning, TypeOK, Pair
<1>2. Candidates \in Pair /\ Candidates \in [Vendor -> OptGen]
  BY <1>1, GenFacts DEF Candidates, Pair
<1>3. cand' \in [Vendor -> OptGen] /\ (pc' = "commit" => cand' \in Pair)
      /\ repl' \in [Vendor -> OptGen]
  BY <1>2, GenFacts DEF Adopt, Goto, IInv, TypeOK, Nothing
<1>4. seen' \in [Vendor -> SUBSET Gen]
  <2>1. CASE Candidates = durable
    BY <2>1 DEF Adopt, IInv, TypeOK
  <2>2. CASE Candidates # durable
    <3>1. seen' = [v \in Vendor |->
                     IF tx[v].cand # durable[v] THEN seen[v] \cup {durable[v], tx[v].cand}
                                                ELSE seen[v]]
      BY <2>2 DEF Adopt
    <3> QED
      BY <3>1, <1>1
  <2> QED
    BY <2>1, <2>2
<1>8. pc' \in {"starting", "commit"} /\ mode' \in Modes /\ who' = "claude"
  BY DEF Adopt, Goto, Modes
<1>5. TypeOK'
  BY <1>3, <1>4, <1>8, VendorIs DEF Adopt, IInv, TypeOK, Phases, disk
<1>6. Homes' /\ Loaded'
  <2>1. run' \in Run /\ \A v \in Vendor : tx'[v].run \in Run /\ tx'[v].cand \in Gen
    BY <1>1 DEF Adopt, disk, IInv, Homes
  <2> QED
    BY <2>1, <1>3, <1>8 DEF Homes, Loaded
<1>7. Progress' /\ NeverHalfUpdated'
  BY DEF IInv, Progress, MayPend, NeverHalfUpdated, Pending, Adopt, Goto, disk
<1> QED
  BY <1>5, <1>6, <1>7 DEF IInv

LEMMA ReconcileRefusedStep == ASSUME IInv, ReconcileRefused PROVE IInv'
<1>1. TypeOK'
  BY VendorIs, GenFacts
     DEF IInv, TypeOK, Phases, Modes, ReconcileRefused, Close, disk, world, Goto,
         Nothing
<1>2. Homes' /\ Loaded'
  BY DEF Homes, Loaded, Owning, Live, ReconcileRefused, Close, Goto
<1>3. Progress' /\ NeverHalfUpdated'
  BY DEF IInv, Progress, MayPend, NeverHalfUpdated, Pending, ReconcileRefused, Close,
         disk, Goto
<1> QED
  BY <1>1, <1>2, <1>3 DEF IInv

LEMMA WithholdStep == ASSUME IInv, Withhold PROVE IInv'
<1>1. TypeOK'
  BY VendorIs DEF IInv, TypeOK, Phases, Modes, Withhold, Goto, disk, world, mem
<1>2. Homes' /\ Loaded'
  BY DEF IInv, Homes, Loaded, Owning, Withhold, Goto, disk, mem
<1>3. Progress' /\ NeverHalfUpdated'
  BY DEF IInv, Progress, MayPend, NeverHalfUpdated, Pending, Withhold, Goto, disk
<1> QED
  BY <1>1, <1>2, <1>3 DEF IInv

LEMMA CrashStep == ASSUME IInv, Crash PROVE IInv'
<1>1. TypeOK'
  BY VendorIs, GenFacts, BoundAssumption
     DEF IInv, TypeOK, Phases, Modes, Crash, Close, disk, world, Goto, Nothing
<1>2. Homes' /\ Loaded'
  BY DEF Homes, Loaded, Owning, Live, Crash, Close, Goto
<1>3. Progress' /\ NeverHalfUpdated'
  BY DEF IInv, Progress, MayPend, NeverHalfUpdated, Pending, Crash, Close, disk, Goto
<1> QED
  BY <1>1, <1>2, <1>3 DEF IInv

LEMMA WriteFailsStep == ASSUME IInv, WriteFails PROVE IInv'
<1>1. UNCHANGED <<durable, marker, journal, tx, standard, issued, refreshed, dropped, seen>>
  BY DEF WriteFails, disk, world
<1>2. run \in Run
  BY DEF WriteFails, IInv, Homes
<1>3. /\ pc' \in {"refresh", "ending", "closing", "idle"} /\ who' \in Vendor /\ mode' \in Modes
      /\ run' \in Run \cup {NoRun} /\ base' \in [Vendor -> OptGen]
      /\ cand' \in [Vendor -> OptGen] /\ repl' \in [Vendor -> OptGen]
      /\ (pc' # "idle" => run' \in Run)
      /\ (pc' # "idle" =>
                             mode \in {"first", "author", "turn", "retry", "final"})
  BY <1>2, GaveUp DEF WriteFails, IInv
<1>4. faults' \in [crash : 0 .. MaxFault, write : 0 .. MaxFault]
  BY BoundAssumption DEF WriteFails, IInv, TypeOK
<1>5. TypeOK'
  BY <1>1, <1>3, <1>4 DEF IInv, TypeOK, Phases
<1>8. pc' # "idle" => \A v \in Vendor : tx[v].run \in Run /\ tx[v].cand \in Gen
  BY <1>3 DEF WriteFails, IInv, Homes, Moving, Live
<1>6. Homes' /\ Loaded'
  BY <1>1, <1>3, <1>8 DEF Homes, Loaded, Owning, Moving
<1>7. Progress' /\ NeverHalfUpdated'
  BY DEF IInv, Progress, MayPend, NeverHalfUpdated, Pending, WriteFails, GiveUp, disk,
         Goto, Close
<1> QED
  BY <1>5, <1>6, <1>7 DEF IInv

LEMMA ReconcileStep ==
  ASSUME IInv,
         NEW m \in {"first", "author", "turn", "retry", "final", "early", "last", "close"},
         Reconcile(m)
  PROVE  IInv'
<1>1. pc \in Owning /\ \A v \in Vendor : tx[v].run \in Run /\ tx[v].cand \in Gen
  BY DEF Reconcile, IInv, Homes, Owning
<1>2. Candidates \in Pair /\ Candidates \in [Vendor -> OptGen]
  BY <1>1, GenFacts DEF Candidates, Pair
<1>3. /\ UNCHANGED <<durable, marker, journal, tx, standard, issued, refreshed, dropped>>
      /\ UNCHANGED <<seen, faults>>
      /\ pc' \in {"running", "ending", "settle", "finalize", "idle"}
      /\ who' \in Vendor /\ mode' \in Modes
      /\ run' \in Run \cup {NoRun} /\ base' \in [Vendor -> OptGen]
      /\ cand' \in [Vendor -> OptGen] /\ repl' \in [Vendor -> OptGen]
      /\ (pc' # "idle" => run' \in Run) /\ (pc' = "settle" => cand' \in Pair)
  <2>1. CASE Candidates # durable
    BY <2>1, <1>1, <1>2, VendorIs
       DEF Reconcile, Goto, IInv, TypeOK, Homes, Modes, disk, world
  <2>2. CASE Candidates = durable /\ m \in {"author", "turn"}
    BY <2>2, <1>1 DEF ctl, Reconcile, IInv, TypeOK, Homes, disk, world, mem
  <2>3. CASE Candidates = durable /\ m \in {"first", "retry", "final", "early"}
    BY <2>3, <1>1, VendorIs
       DEF Reconcile, Goto, IInv, TypeOK, Homes, Modes, disk, world, mem
  <2>4. CASE Candidates = durable /\ m \in {"last", "close"}
    BY <2>4, ClosedTyped DEF Reconcile, IInv, disk, world
  <2> QED
    BY <2>1, <2>2, <2>3, <2>4
<1>5. TypeOK'
  BY <1>3 DEF IInv, TypeOK, Phases
<1>6. Homes' /\ Loaded'
  BY <1>1, <1>3 DEF Homes, Loaded
<1>7. Progress' /\ NeverHalfUpdated'
  BY DEF ctl, IInv, Progress, MayPend, NeverHalfUpdated, Pending, Reconcile, Goto, Close,
         disk
<1> QED
  BY <1>5, <1>6, <1>7 DEF IInv

LEMMA PendingSupersedeStep == ASSUME IInv, NEW v \in Vendor, PendingSupersede(v) PROVE IInv'
<1>1. PICK g \in After(v, repl[v]) :
        /\ PutCandidate(v, g) /\ cand' = [cand EXCEPT ![v] = g]
        /\ Classify(v, {durable[v], tx[v].cand, repl[v], g})
        /\ Issue(v, g)
  BY DEF PendingSupersede
<1>2. g \in Gen
  BY AfterGen, <1>1 DEF PendingSupersede, Supersedes, IInv, TypeOK, OptGen
<1>3. /\ tx' \in [Vendor -> Tx] /\ issued' \in Pair /\ seen' \in [Vendor -> SUBSET Gen]
      /\ tx'[v].cand = g /\ \A w \in Vendor : tx'[w].run = tx[w].run
      /\ \A w \in Vendor : w # v => tx'[w] = tx[w]
  BY <1>1, <1>2, GenFacts, PutTyped, IssueTyped, ClassifyTyped DEF IInv
<1>4. cand' \in [Vendor -> OptGen] /\ cand'[v] = g /\ \A w \in Vendor : w # v => cand'[w] = cand[w]
  BY <1>1, <1>2, GenFacts DEF IInv, TypeOK
<1>5. TypeOK'
  BY <1>3, <1>4, VendorIs DEF PendingSupersede, AfterPending, Goto, IInv, TypeOK, Phases
<1>6. Homes' /\ Loaded'
  <2>1. run' \in Run /\ \A w \in Vendor : tx'[w].run \in Run /\ tx'[w].cand \in Gen
    BY <1>2, <1>3 DEF IInv, Homes, Owning, PendingSupersede
  <2>2. v = "codex" => \A w \in Vendor : cand'[w] \in Gen
    BY <1>2, <1>4 DEF IInv, Loaded, PendingSupersede, Vendor
  <2>3. v = "codex" => cand' \in Pair
    BY <2>2, <1>4 DEF Pair
  <2>4. v = "claude" => pc' = "pending" /\ who' = "codex"
    BY DEF PendingSupersede, AfterPending, Goto
  <2>5. v = "codex" => pc' = "commit"
    BY DEF PendingSupersede, AfterPending, Goto
  <2> QED
    BY <2>1, <2>2, <2>3, <2>4, <2>5, <1>2, <1>4, VendorIs DEF Homes, Loaded
<1>7. Progress' /\ NeverHalfUpdated'
  BY DEF IInv, Progress, MayPend, NeverHalfUpdated, Pending, PendingSupersede, Supersedes,
         AfterPending, Goto
<1> QED
  BY <1>5, <1>6, <1>7 DEF IInv

LEMMA PendingSourceFailsStep == ASSUME IInv, NEW v \in Vendor, PendingSourceFails(v) PROVE IInv'
<1>1. PICK g \in After(v, repl[v]) :
        Classify(v, {durable[v], tx[v].cand, repl[v], g}) /\ Issue(v, g)
  BY DEF PendingSourceFails
<1>2. g \in OptGen
  BY AfterGen, GenFacts, <1>1 DEF IInv, TypeOK
<1>3. issued' \in Pair /\ seen' \in [Vendor -> SUBSET Gen]
  BY <1>1, <1>2, IssueTyped, ClassifyTyped DEF IInv
<1>4. repl' \in [Vendor -> OptGen]
  BY GenFacts DEF PendingSourceFails, IInv, TypeOK
<1>5. TypeOK'
  BY <1>3, <1>4 DEF ctl, PendingSourceFails, IInv, TypeOK, disk
<1>6. Homes' /\ Loaded'
  BY DEF ctl, PendingSourceFails, IInv, Homes, Loaded, disk
<1>7. Progress' /\ NeverHalfUpdated'
  BY DEF ctl, IInv, Progress, NeverHalfUpdated, Pending, PendingSourceFails, Supersedes,
         disk
<1> QED
  BY <1>5, <1>6, <1>7 DEF IInv

LEMMA PendingProbeStep == ASSUME IInv, NEW v \in Vendor, PendingProbe(v) PROVE IInv'
<1>1. TypeOK'
  <2>1. PICK g \in After(v, tx[v].cand) :
          /\ PutCandidate(v, g) /\ cand' = [cand EXCEPT ![v] = g]
          /\ Classify(v, {durable[v], tx[v].cand, g})
          /\ Refresh(v, g)
    BY DEF PendingProbe
  <2>2. g \in OptGen
    BY AfterGen, GenFacts, <2>1 DEF IInv, TypeOK, Tx
  <2>3. tx' \in [Vendor -> Tx] /\ issued' \in Pair /\ refreshed' \in Pair
        /\ seen' \in [Vendor -> SUBSET Gen]
    BY <2>1, <2>2, PutTyped, RefreshTyped, ClassifyTyped DEF IInv
  <2>4. cand' \in [Vendor -> OptGen]
    BY <2>1, <2>2 DEF IInv, TypeOK
  <2>5. pc' \in Phases /\ mode' = mode /\ who' \in Vendor
    BY VendorIs DEF PendingProbe, AfterPending, Goto, Phases
  <2> QED
    BY <2>3, <2>4, <2>5 DEF PendingProbe, IInv, TypeOK
<1>2. Homes' /\ Loaded'
  BY VendorIs
     DEF IInv, Homes, Loaded, Owning, TypeOK, Pair, PendingProbe, Supersedes, After,
         Issuable, PutCandidate, AfterPending, Goto
<1>3. Progress' /\ NeverHalfUpdated'
  BY DEF IInv, Progress, MayPend, NeverHalfUpdated, Pending, PendingProbe, Supersedes,
         AfterPending, Goto
<1> QED
  BY <1>1, <1>2, <1>3 DEF IInv

LEMMA PendingProbeFailsStep == ASSUME IInv, NEW v \in Vendor, PendingProbeFails(v) PROVE IInv'
<1>1. PICK g \in After(v, tx[v].cand) : PutCandidate(v, g) /\ Refresh(v, g)
  BY DEF PendingProbeFails
<1>2. g \in OptGen
  BY AfterGen, GenFacts, <1>1 DEF IInv, TypeOK, Tx
<1>3. tx' \in [Vendor -> Tx] /\ issued' \in Pair /\ refreshed' \in Pair
  BY <1>1, <1>2, PutTyped, RefreshTyped DEF IInv
<1>5. TypeOK'
  BY <1>3, ClosedTyped DEF PendingProbeFails, IInv, TypeOK
<1>6. Homes' /\ Loaded'
  BY ClosedTyped DEF PendingProbeFails, IInv
<1>7. Progress' /\ NeverHalfUpdated'
  BY DEF IInv, Progress, MayPend, NeverHalfUpdated, Pending, PendingProbeFails,
         Supersedes, Close, Goto
<1> QED
  BY <1>5, <1>6, <1>7 DEF IInv

LEMMA InstallStep == ASSUME IInv, NEW v \in Vendor, Install(v) PROVE IInv'
<1>1. TypeOK'
  BY VendorIs DEF IInv, TypeOK, Pair, Journal, Phases, Install, Goto, world, mem
<1>2. Homes' /\ Loaded'
  BY DEF IInv, Homes, Loaded, Owning, Moving, Install, Goto, mem
<1>3. Progress' /\ NeverHalfUpdated'
  BY VendorIs
     DEF IInv, Progress, MayPend, NeverHalfUpdated, Pending, TypeOK, Pair, Journal,
         Install, Goto
<1> QED
  BY <1>1, <1>2, <1>3 DEF IInv

LEMMA RebaseStep == ASSUME IInv, NEW v \in Vendor, Rebase(v) PROVE IInv'
<1>1. TypeOK'
  <2>1. tx \in [Vendor -> Tx] /\ journal.new[v] \in OptGen
    BY GenFacts DEF IInv, TypeOK, Pair, Journal
  <2>2. tx' \in [Vendor -> Tx]
    BY <2>1 DEF Rebase, Tx
  <2>3. pc' \in Phases /\ mode' = mode /\ who' \in Vendor
    BY VendorIs DEF Rebase, Goto, Phases
  <2> QED
    BY <2>2, <2>3 DEF IInv, TypeOK, Rebase, world, mem
<1>2. Homes' /\ Loaded'
  BY DEF IInv, Homes, Loaded, Owning, Moving, Rebase, Goto, mem
<1>3. Progress' /\ NeverHalfUpdated'
  BY DEF IInv, Progress, MayPend, NeverHalfUpdated, Pending, Rebase, Goto
<1> QED
  BY <1>1, <1>2, <1>3 DEF IInv

LEMMA RemoveFileStep == ASSUME IInv, NEW v \in Vendor, RemoveFile(v) PROVE IInv'
<1>1. \A r \in Tx : [r EXCEPT !.meta = Absent] \in Tx /\ [r EXCEPT !.cand = Absent] \in Tx
  BY GenFacts DEF Tx
<1>2. \/ tx' = [tx EXCEPT ![v] = [@ EXCEPT !.meta = Absent]]
      \/ tx' = [tx EXCEPT ![v] = [@ EXCEPT !.cand = Absent]]
  BY DEF RemoveFile
<1>3. tx' \in [Vendor -> Tx]
  <2>1. tx[v] \in Tx
    BY DEF IInv, TypeOK
  <2>2. PICK r \in Tx : tx' = [tx EXCEPT ![v] = r]
    BY <1>1, <1>2, <2>1
  <2> QED
    BY <2>2 DEF IInv, TypeOK
<1>5. TypeOK'
  BY <1>3 DEF ctl, RemoveFile, IInv, TypeOK, world, mem
<1>6. Homes' /\ Loaded'
  BY DEF ctl, RemoveFile, Removing, IInv, Homes, Loaded, Owning, Moving, mem
<1>7. Progress' /\ NeverHalfUpdated'
  BY DEF ctl, IInv, Progress, NeverHalfUpdated, Pending, RemoveFile, Removing, MayRemove
<1> QED
  BY <1>5, <1>6, <1>7 DEF IInv

LEMMA RemoveDirStep == ASSUME IInv, NEW v \in Vendor, RemoveDir(v) PROVE IInv'
<1>1. NoTx \in Tx
  BY GenFacts DEF NoTx, Tx
<1>5. TypeOK'
  BY <1>1, VendorIs, GenFacts
     DEF RemoveDir, Removing, Close, Goto, Nothing, IInv, TypeOK, Phases, Modes, world,
         mem
<1>6. Homes' /\ Loaded'
  <2>1. \/ pc' = "clean" /\ mode' = mode /\ mode \notin Live /\ run' = run
        \/ pc' = "finalize" /\ run' = run
        \/ pc' = "mkdir" /\ who' = "claude" /\ run' = run
        \/ pc' = "unlink" /\ mode' = mode /\ mode \notin Live /\ run' = run
        \/ pc' = "idle"
    BY DEF RemoveDir, Close, Goto, mem, IInv, Homes
  <2> QED
    BY <2>1 DEF RemoveDir, Removing, IInv, Homes, Loaded, Owning, Moving
<1>7. Progress' /\ NeverHalfUpdated'
  BY DEF IInv, Progress, MayPend, NeverHalfUpdated, Pending, RemoveDir, Removing, Goto,
         Close
<1> QED
  BY <1>5, <1>6, <1>7 DEF IInv

LEMMA MakeDirStep == ASSUME IInv, NEW v \in Vendor, MakeDir(v) PROVE IInv'
<1>1. TypeOK'
  BY DEF IInv, TypeOK, Tx, Phases, MakeDir, Goto, world, mem
<1>2. Homes' /\ Loaded'
  BY DEF IInv, Homes, Loaded, Owning, Moving, TypeOK, MakeDir, Goto, mem
<1>3. Progress' /\ NeverHalfUpdated'
  BY DEF IInv, Progress, MayPend, NeverHalfUpdated, Pending, MakeDir, Goto
<1> QED
  BY <1>1, <1>2, <1>3 DEF IInv

LEMMA CopyDurableStep == ASSUME IInv, NEW v \in Vendor, CopyDurable(v) PROVE IInv'
<1>1. TypeOK'
  BY GenFacts
     DEF IInv, TypeOK, Pair, Tx, Phases, CopyDurable, PutCandidate, Goto, world, mem
<1>2. Homes' /\ Loaded'
  BY DEF IInv, Homes, Loaded, Owning, Moving, TypeOK, Pair, CopyDurable, PutCandidate,
         Goto, mem
<1>3. Progress' /\ NeverHalfUpdated'
  BY DEF IInv, Progress, MayPend, NeverHalfUpdated, Pending, CopyDurable, Goto
<1> QED
  BY <1>1, <1>2, <1>3 DEF IInv

LEMMA RecordBaselineStep == ASSUME IInv, NEW v \in Vendor, RecordBaseline(v) PROVE IInv'
<1>1. TypeOK'
  <2>1. tx \in [Vendor -> Tx] /\ base \in [Vendor -> OptGen] /\ durable[v] \in OptGen
    BY GenFacts DEF IInv, TypeOK, Pair
  <2>2. tx' \in [Vendor -> Tx] /\ base' \in [Vendor -> OptGen]
    BY <2>1 DEF RecordBaseline, Tx
  <2>3. pc' \in Phases /\ mode' = mode /\ who' \in Vendor
    BY VendorIs DEF RecordBaseline, Goto, Phases
  <2> QED
    BY <2>2, <2>3 DEF IInv, TypeOK, RecordBaseline, world
<1>2. Homes' /\ Loaded'
  BY VendorIs DEF IInv, Homes, Loaded, Owning, Moving, RecordBaseline, Goto
<1>3. Progress' /\ NeverHalfUpdated'
  BY DEF IInv, Progress, MayPend, NeverHalfUpdated, Pending, RecordBaseline, Goto
<1> QED
  BY <1>1, <1>2, <1>3 DEF IInv

LEMMA StageSourceStep == ASSUME IInv, NEW v \in Vendor, StageSource(v) PROVE IInv'
<1>1. PICK g \in After(v, repl[v]) :
        /\ PutCandidate(v, g) /\ repl' = [repl EXCEPT ![v] = g]
        /\ Classify(v, {durable[v], repl[v], g}) /\ Issue(v, g)
  BY DEF StageSource
<1>2. g \in Gen
  BY AfterGen, <1>1 DEF StageSource, IInv, TypeOK, OptGen
<1>3. /\ tx' \in [Vendor -> Tx] /\ issued' \in Pair /\ seen' \in [Vendor -> SUBSET Gen]
      /\ tx'[v].cand = g /\ \A w \in Vendor : tx'[w].run = tx[w].run
      /\ \A w \in Vendor : w # v => tx'[w] = tx[w]
  BY <1>1, <1>2, GenFacts, PutTyped, IssueTyped, ClassifyTyped DEF IInv
<1>4. repl' \in [Vendor -> OptGen]
  BY <1>1, <1>2, GenFacts DEF IInv, TypeOK
<1>5. TypeOK'
  BY <1>3, <1>4, VendorIs DEF StageSource, AfterSource, Goto, IInv, TypeOK, Phases
<1>6. Homes' /\ Loaded'
  <2>1. run' \in Run /\ \A w \in Vendor : tx'[w].run \in Run /\ tx'[w].cand \in Gen
    BY <1>2, <1>3 DEF IInv, Homes, Owning, StageSource
  <2>2. pc' \in {"source", "auth"}
    BY DEF StageSource, AfterSource, Goto
  <2> QED
    BY <2>1, <2>2 DEF Homes, Loaded
<1>7. Progress' /\ NeverHalfUpdated'
  BY DEF IInv, Progress, MayPend, NeverHalfUpdated, Pending, StageSource, AfterSource,
         Goto
<1> QED
  BY <1>5, <1>6, <1>7 DEF IInv

LEMMA NoSourceStep == ASSUME IInv, NEW v \in Vendor, NoSource(v) PROVE IInv'
<1>1. issued' \in Pair /\ seen' \in [Vendor -> SUBSET Gen]
  <2>1. CASE repl[v] = Absent
    BY <2>1 DEF NoSource, IInv, TypeOK
  <2>2. CASE repl[v] # Absent
    <3>1. PICK g \in After(v, repl[v]) : Classify(v, {durable[v], repl[v], g}) /\ Issue(v, g)
      BY <2>2 DEF NoSource
    <3>2. g \in OptGen
      BY AfterGen, GenFacts, <3>1 DEF IInv, TypeOK
    <3> QED
      BY <3>1, <3>2, IssueTyped, ClassifyTyped DEF IInv
  <2> QED
    BY <2>1, <2>2
<1>4. repl' \in [Vendor -> OptGen]
  BY GenFacts DEF NoSource, IInv, TypeOK
<1>5. TypeOK'
  BY <1>1, <1>4, VendorIs DEF NoSource, AfterSource, Goto, IInv, TypeOK, Phases, disk
<1>6. Homes' /\ Loaded'
  <2>1. run' \in Run /\ \A w \in Vendor : tx'[w].run \in Run /\ tx'[w].cand \in Gen
    BY DEF IInv, Homes, Owning, NoSource, disk
  <2>2. pc' \in {"source", "auth"}
    BY DEF NoSource, AfterSource, Goto
  <2> QED
    BY <2>1, <2>2 DEF Homes, Loaded
<1>7. Progress' /\ NeverHalfUpdated'
  BY DEF IInv, Progress, MayPend, NeverHalfUpdated, Pending, NoSource, AfterSource, disk,
         Goto
<1> QED
  BY <1>5, <1>6, <1>7 DEF IInv

LEMMA AuthProbeStep == ASSUME IInv, NEW v \in Vendor, AuthProbe(v) PROVE IInv'
<1>1. TypeOK'
  <2>1. PICK g \in After(v, tx[v].cand) : PutCandidate(v, g) /\ Refresh(v, g)
    BY DEF AuthProbe
  <2>2. g \in OptGen
    BY AfterGen, GenFacts, <2>1 DEF IInv, TypeOK, Tx
  <2>3. tx' \in [Vendor -> Tx] /\ issued' \in Pair /\ refreshed' \in Pair
    BY <2>1, <2>2, PutTyped, RefreshTyped DEF IInv
  <2>4. pc' \in Phases /\ mode' = mode /\ who' \in Vendor
    BY VendorIs DEF AuthProbe, Goto, Phases
  <2> QED
    BY <2>3, <2>4 DEF AuthProbe, IInv, TypeOK, mem
<1>2. Homes' /\ Loaded'
  BY DEF IInv, Homes, Loaded, Owning, AuthProbe, After, Issuable, PutCandidate, Goto, mem
<1>3. Progress' /\ NeverHalfUpdated'
  BY DEF IInv, Progress, MayPend, NeverHalfUpdated, Pending, AuthProbe, Goto
<1> QED
  BY <1>1, <1>2, <1>3 DEF IInv

LEMMA AuthFallsBackStep == ASSUME IInv, NEW v \in Vendor, AuthFallsBack(v) PROVE IInv'
<1>1. TypeOK'
  <2>1. PICK g \in After(v, tx[v].cand) :
          /\ Refresh(v, g)
          /\ dropped' = [dropped EXCEPT ![v] = IF g > issued[v] THEN g ELSE @]
    BY DEF AuthFallsBack
  <2>2. g \in OptGen
    BY AfterGen, GenFacts, <2>1 DEF IInv, TypeOK, Tx
  <2>3. durable[v] \in OptGen
    BY GenFacts DEF IInv, TypeOK, Pair
  <2>4. /\ tx' \in [Vendor -> Tx] /\ issued' \in Pair /\ refreshed' \in Pair
        /\ dropped' \in [Vendor -> OptGen]
    BY <2>1, <2>2, <2>3, PutTyped, RefreshTyped DEF IInv, TypeOK, AuthFallsBack
  <2> QED
    BY <2>4, GenFacts DEF AuthFallsBack, IInv, TypeOK, ctl
<1>2. Homes' /\ Loaded'
  BY DEF ctl, IInv, Homes, Loaded, TypeOK, Pair, AuthFallsBack, PutCandidate
<1>3. Progress' /\ NeverHalfUpdated'
  BY DEF ctl, IInv, Progress, NeverHalfUpdated, Pending, AuthFallsBack
<1> QED
  BY <1>1, <1>2, <1>3 DEF IInv

LEMMA AuthFailsStep == ASSUME IInv, NEW v \in Vendor, AuthFails(v) PROVE IInv'
<1>1. PICK g \in After(v, tx[v].cand) : PutCandidate(v, g) /\ Refresh(v, g)
  BY DEF AuthFails
<1>2. g \in OptGen
  BY AfterGen, GenFacts, <1>1 DEF IInv, TypeOK, Tx
<1>3. tx' \in [Vendor -> Tx] /\ issued' \in Pair /\ refreshed' \in Pair
  BY <1>1, <1>2, PutTyped, RefreshTyped DEF IInv
<1>5. TypeOK'
  BY <1>3, ClosedTyped DEF AuthFails, IInv, TypeOK
<1>6. Homes' /\ Loaded'
  BY ClosedTyped DEF AuthFails, IInv
<1>7. Progress' /\ NeverHalfUpdated'
  BY DEF IInv, Progress, MayPend, NeverHalfUpdated, Pending, AuthFails, Close, Goto
<1> QED
  BY <1>5, <1>6, <1>7 DEF IInv

LEMMA SettleStep == ASSUME IInv, NEW v \in Vendor, Settle(v) PROVE IInv'
<1>1. PICK g \in OptGen :
        \/ cand[v] = durable[v] /\ UNCHANGED <<tx, cand, issued, refreshed, seen>>
        \/ /\ g \in Gen /\ PutCandidate(v, g) /\ cand' = [cand EXCEPT ![v] = g]
           /\ Classify(v, {durable[v], cand[v], g}) /\ Refresh(v, g)
  <2>1. cand[v] \in Gen /\ Gen \subseteq OptGen
    BY GenFacts DEF Settle, IInv, Loaded, Pair
  <2>2. \A h \in After(v, cand[v]) : h \in Gen
    BY <2>1, AfterGen
  <2>3. \/ cand[v] = durable[v] /\ UNCHANGED <<tx, cand, issued, refreshed, seen>>
        \/ \E h \in After(v, cand[v]) :
              /\ PutCandidate(v, h) /\ cand' = [cand EXCEPT ![v] = h]
              /\ Classify(v, {durable[v], cand[v], h}) /\ Refresh(v, h)
    BY DEF Settle
  <2> QED
    BY <2>1, <2>2, <2>3
<1>5. TypeOK' /\ Homes' /\ Loaded'
  <2>2. CASE cand[v] = durable[v] /\ UNCHANGED <<tx, cand, issued, refreshed, seen>>
    <3>1. pc' \in {"settle", "commit"} /\ who' \in Vendor /\ mode' = mode
      BY VendorIs DEF Settle, AfterSettle, Goto
    <3>2. TypeOK'
      BY <2>2, <3>1 DEF Settle, IInv, TypeOK, Phases
    <3>3. Homes' /\ Loaded'
      BY <2>2, <3>1 DEF Settle, IInv, Homes, Loaded, Owning
    <3> QED
      BY <3>2, <3>3
  <2>3. CASE /\ g \in Gen /\ PutCandidate(v, g) /\ cand' = [cand EXCEPT ![v] = g]
             /\ Classify(v, {durable[v], cand[v], g}) /\ Refresh(v, g)
    <3>1. pc' \in {"settle", "commit"} /\ who' \in Vendor /\ mode' = mode
      BY VendorIs DEF Settle, AfterSettle, Goto
    <3>2. /\ tx' \in [Vendor -> Tx] /\ issued' \in Pair /\ refreshed' \in Pair
          /\ seen' \in [Vendor -> SUBSET Gen]
          /\ tx'[v].cand = g /\ \A w \in Vendor : tx'[w].run = tx[w].run
          /\ \A w \in Vendor : w # v => tx'[w] = tx[w]
      BY <2>3, PutTyped, RefreshTyped, ClassifyTyped DEF IInv
    <3>3. cand' \in Pair /\ cand' \in [Vendor -> OptGen]
      BY <2>3, GenFacts DEF Settle, IInv, Loaded, Pair
    <3>4. TypeOK'
      BY <3>1, <3>2, <3>3 DEF Settle, IInv, TypeOK, Phases
    <3>5. run' \in Run /\ \A w \in Vendor : tx'[w].run \in Run /\ tx'[w].cand \in Gen
      BY <2>3, <3>2 DEF Settle, IInv, Homes, Owning
    <3>6. Homes' /\ Loaded'
      BY <3>1, <3>3, <3>5 DEF Homes, Loaded
    <3> QED
      BY <3>4, <3>6
  <2> QED
    BY <1>1, <2>2, <2>3
<1>7. Progress' /\ NeverHalfUpdated'
  BY DEF IInv, Progress, MayPend, NeverHalfUpdated, Pending, Settle, AfterSettle, Goto
<1> QED
  BY <1>5, <1>7 DEF IInv

LEMMA SettleFailsStep == ASSUME IInv, NEW v \in Vendor, SettleFails(v) PROVE IInv'
<1>1. PICK g \in After(v, cand[v]) : PutCandidate(v, g) /\ Refresh(v, g)
  BY DEF SettleFails
<1>2. g \in Gen
  BY AfterGen, <1>1 DEF SettleFails, IInv, Loaded, Pair
<1>3. /\ tx' \in [Vendor -> Tx] /\ issued' \in Pair /\ refreshed' \in Pair
      /\ tx'[v].cand = g /\ \A w \in Vendor : tx'[w].run = tx[w].run
      /\ \A w \in Vendor : w # v => tx'[w] = tx[w]
  BY <1>1, <1>2, GenFacts, PutTyped, RefreshTyped DEF IInv
<1>4. /\ pc' \in {"refresh", "ending", "closing", "idle"} /\ who' \in Vendor /\ mode' \in Modes
      /\ run' \in Run \cup {NoRun} /\ base' \in [Vendor -> OptGen]
      /\ cand' \in [Vendor -> OptGen] /\ repl' \in [Vendor -> OptGen]
      /\ (pc' # "idle" => run' \in Run)
  <2>1. pc \in Owning /\ run \in Run
    BY DEF SettleFails, Owning, IInv, Homes
  <2> QED
    BY <2>1, GaveUp DEF SettleFails, IInv
<1>5. TypeOK'
  BY <1>3, <1>4 DEF SettleFails, IInv, TypeOK, Phases
<1>6. Homes' /\ Loaded'
  <2>1. \A w \in Vendor : tx'[w].run \in Run /\ tx'[w].cand \in Gen
    BY <1>2, <1>3 DEF SettleFails, IInv, Homes, Owning
  <2> QED
    BY <2>1, <1>4 DEF Homes, Loaded
<1>7. Progress' /\ NeverHalfUpdated'
  BY DEF IInv, Progress, MayPend, NeverHalfUpdated, Pending, SettleFails, GiveUp, Goto,
         Close
<1> QED
  BY <1>5, <1>6, <1>7 DEF IInv

LEMMA CliTurnStep == ASSUME IInv, NEW v \in Vendor, CliTurn(v) PROVE IInv'
<1>1. PICK g \in After(v, issued[v]) : g > issued[v] /\ PutCandidate(v, g) /\ Refresh(v, g)
  BY DEF CliTurn
<1>2. TypeOK /\ g \in OptGen
  <2>1. TypeOK /\ issued[v] \in Gen
    BY DEF IInv, TypeOK, Pair
  <2> QED
    BY <2>1, <1>1, GenFacts DEF After, Issuable
<1>3. tx' \in [Vendor -> Tx]
  BY <1>1, <1>2, PutTyped
<1>4. issued' \in Pair /\ refreshed' \in Pair
  BY <1>1, <1>2, RefreshTyped
<1>5. TypeOK'
  BY <1>2, <1>3, <1>4 DEF CliTurn, TypeOK, ctl, mem
<1>6. Homes' /\ Loaded'
  BY DEF ctl, IInv, Homes, Loaded, TypeOK, Pair, CliTurn, After, Issuable, PutCandidate, mem
<1>7. Progress' /\ NeverHalfUpdated'
  BY DEF ctl, IInv, Progress, NeverHalfUpdated, Pending, CliTurn
<1> QED
  BY <1>5, <1>6, <1>7 DEF IInv

LEMMA UserLoginStep == ASSUME IInv, NEW v \in Vendor, UserLogin(v) PROVE IInv'
<1>1. issued[v] + 1 \in Gen
  BY BoundAssumption DEF UserLogin, Issuable, IInv, TypeOK, Pair, Gen
<1>2. standard' \in Pair /\ issued' \in Pair
  BY <1>1 DEF UserLogin, Issuable, IInv, TypeOK, Pair
<1>5. TypeOK'
  BY <1>2 DEF ctl, UserLogin, IInv, TypeOK, disk, mem
<1>6. Homes' /\ Loaded'
  BY DEF ctl, UserLogin, IInv, Homes, Loaded, disk, mem
<1>7. Progress' /\ NeverHalfUpdated'
  BY DEF ctl, IInv, Progress, NeverHalfUpdated, Pending, UserLogin, disk
<1> QED
  BY <1>5, <1>6, <1>7 DEF IInv

-----------------------------------------------------------------------------
\* The theorems.

LEMMA StutterIInv == IInv /\ UNCHANGED vars => IInv'
BY DEF ctl, IInv, TypeOK, Homes, Loaded, Progress, NeverHalfUpdated, Pending, vars, disk,
       world, mem

\* Every step of the holder, of a CLI, of the operator and of the faults.
LEMMA StepIInv == IInv /\ [Next]_vars => IInv'
<1> SUFFICES ASSUME IInv, [Next]_vars PROVE IInv'
  OBVIOUS
<1>1. ASSUME Step PROVE IInv'
  <2>1. CASE Begin
    BY <2>1, BeginStep
  <2>2. CASE Conflict
    BY <2>2, ConflictStep
  <2>3. CASE Replay
    BY <2>3, ReplayStep
  <2>4. CASE Recover
    BY <2>4, RecoverStep
  <2>5. CASE Commit
    BY <2>5, CommitStep
  <2>6. CASE CommitRefused
    BY <2>6, CommitRefusedStep
  <2>7. CASE Mark
    BY <2>7, MarkStep
  <2>8. CASE Unlink
    BY <2>8, UnlinkStep
  <2>9. CASE Adopt
    BY <2>9, AdoptStep
  <2>10. CASE ReconcileRefused
    BY <2>10, ReconcileRefusedStep
  <2>11. CASE Withhold
    BY <2>11, WithholdStep
  <2>12. ASSUME NEW m \in {"first", "author", "turn", "retry", "final", "early",
                           "last", "close"},
                Reconcile(m)
         PROVE  IInv'
    BY <2>12, ReconcileStep
  <2>13. ASSUME NEW v \in Vendor,
                 \/ PendingSupersede(v) \/ PendingSourceFails(v) \/ PendingProbe(v)
                 \/ PendingProbeFails(v) \/ Install(v) \/ Rebase(v)
                 \/ RemoveFile(v) \/ RemoveDir(v) \/ MakeDir(v)
                 \/ CopyDurable(v) \/ RecordBaseline(v) \/ StageSource(v)
                 \/ NoSource(v) \/ AuthProbe(v) \/ AuthFallsBack(v)
                 \/ AuthFails(v) \/ Settle(v) \/ SettleFails(v)
       PROVE  IInv'
    BY <2>13, PendingSupersedeStep, PendingSourceFailsStep, PendingProbeStep,
       PendingProbeFailsStep, InstallStep, RebaseStep, RemoveFileStep, RemoveDirStep,
       MakeDirStep, CopyDurableStep, RecordBaselineStep, StageSourceStep, NoSourceStep,
       AuthProbeStep, AuthFallsBackStep, AuthFailsStep, SettleStep, SettleFailsStep
  <2> QED
    BY <1>1, <2>1, <2>2, <2>3, <2>4, <2>5, <2>6, <2>7, <2>8, <2>9, <2>10, <2>11, <2>12,
       <2>13
       DEF Step
<1>2. CASE Crash
  BY <1>2, CrashStep
<1>3. CASE WriteFails
  BY <1>3, WriteFailsStep
<1>4. ASSUME NEW v \in Vendor, CliTurn(v) \/ UserLogin(v) PROVE IInv'
  BY <1>4, CliTurnStep, UserLoginStep
<1>5. CASE UNCHANGED vars
  BY <1>5, StutterIInv
<1> QED
  BY <1>1, <1>2, <1>3, <1>4, <1>5 DEF Next

\* The inductive invariant holds in every state of every behaviour.
THEOREM Invariance == Spec => []IInv
BY InitIInv, StepIInv, PTL DEF Spec

\* Every state is typed: no write installs anything but a generation.
THEOREM TypeCorrect == Spec => []TypeOK
<1>1. IInv => TypeOK
  BY DEF IInv
<1> QED
  BY <1>1, Invariance, PTL

\* No interleaving of crashes, failed writes, refreshes and logins leaves the
\* pair half-updated without the journal that completes it.
THEOREM PairNeverHalfUpdated == Spec => []NeverHalfUpdated
<1>1. IInv => NeverHalfUpdated
  BY DEF IInv
<1> QED
  BY <1>1, Invariance, PTL

-----------------------------------------------------------------------------
(***************************************************************************)
(* No refresh is lost, and the store is the register PairStore.  Both rest *)
(* on a second strengthening, for which IInv is known.                     *)
(***************************************************************************)
\* A directory that is not there holds nothing, and seeding starts with an empty one.
Tidy ==
  /\ \A v \in Vendor : tx[v].run = NoRun => tx[v].cand = Absent
  /\ pc = "copy" => tx[who].cand = Absent

\* Nothing the store holds is ahead of the vendor.
Counted ==
  \A v \in Vendor : /\ durable[v] <= issued[v] /\ tx[v].cand <= issued[v]
                    /\ Pending => journal.new[v] <= issued[v]

\* A candidate, a journaled pair and a login to be taken over are never older
\* than what is durable.
Ahead ==
  /\ \A v \in Vendor : tx[v].cand = Absent \/ durable[v] <= tx[v].cand
  /\ Pending => \A v \in Vendor : durable[v] <= journal.new[v]
  /\ pc \in {"pending", "mkdir", "copy", "record", "source"} \/ (pc = "clean" /\ mode = "drop") =>
       \A v \in Vendor : repl[v] = Absent \/ durable[v] <= repl[v]

\* The candidates in memory are those in the homes, and those that the journal names.
Matched ==
  /\ pc \in {"settle", "commit"} => \A v \in Vendor : cand[v] = tx[v].cand
  /\ pc = "pending" /\ who = "codex" => cand["claude"] = tx["claude"].cand
  /\ pc \in {"install", "mark", "rebase", "unlink"} =>
       \A v \in Vendor : tx[v].cand \in {Absent, journal.new[v]}
  /\ pc \in {"clean", "finalize"} => \A v \in Vendor : tx[v].cand \in {Absent, durable[v]}

\* What is durable or about to be was classified.
Classified ==
  /\ \A v \in Vendor : durable[v] \in seen[v] /\ (Pending => journal.new[v] \in seen[v])
  /\ pc = "commit" => \A v \in Vendor : cand[v] \in seen[v]
  /\ pc \in {"settle", "pending"} /\ who = "codex" => cand["claude"] \in seen["claude"]

\* While homes are seeded, what is durable is the latest refresh, unless the
\* code dropped that.
Spare(v) == refreshed[v] <= durable[v] \/ refreshed[v] = dropped[v]
Seeded ==
  /\ pc \in {"mkdir", "copy", "record"} /\ who = "codex" => Spare("claude")
  /\ pc \in {"record", "auth"} => Spare(who)
  /\ pc = "source" \/ (pc = "auth" /\ who = "claude") => \A v \in Vendor : Spare(v)

KeptInv == Tidy /\ Counted /\ Ahead /\ Matched /\ Classified /\ Seeded /\ RefreshKept

LEMMA Numbers ==
  ASSUME TypeOK
  PROVE  /\ \A v \in Vendor : /\ durable[v] \in Nat /\ issued[v] \in Nat
                              /\ refreshed[v] \in Nat /\ standard[v] \in Nat
                              /\ journal.new[v] \in Nat /\ tx[v].cand \in Int
                              /\ tx[v].cand # Absent => tx[v].cand \in Nat
                              /\ repl[v] \in Int
         /\ \A g \in Gen : g \in Nat
         /\ Absent = -1
<1>1. \A g \in Gen : g \in Nat
  BY BoundAssumption DEF Gen
<1>2. Absent = -1
  BY DEF Absent
<1>3. \A g \in OptGen : g \in Int /\ (g # Absent => g \in Nat)
  BY <1>1, <1>2 DEF OptGen
<1> QED
  BY <1>1, <1>2, <1>3 DEF TypeOK, Pair, Journal, Tx

LEMMA InitKept == Init => KeptInv
BY BoundAssumption
   DEF Init, KeptInv, Tidy, Counted, Ahead, Matched, Classified, Seeded, RefreshKept,
       NoTx, NoJournal, Pending, Absent

\* A step that writes no file and issues nothing only has to say where it leads.
QuietEnds == {"idle", "refresh", "ending", "closing", "starting", "running", "replay", "recover"}

LEMMA Quiet ==
  ASSUME KeptInv, UNCHANGED <<durable, journal, tx, issued, refreshed, dropped>>,
         \A v \in Vendor : seen[v] \subseteq seen'[v], pc' \in QuietEnds
  PROVE  KeptInv'
BY DEF KeptInv, Tidy, Counted, Ahead, Matched, Classified, Seeded, Spare, RefreshKept,
       Pending, QuietEnds

LEMMA BeginKept == ASSUME KeptInv, Begin PROVE KeptInv'
<1>1. pc' \in QuietEnds /\ UNCHANGED <<durable, journal, tx, issued, refreshed, dropped, seen>>
  BY DEF Begin, Goto, QuietEnds, disk, world
<1> QED
  BY <1>1, Quiet

LEMMA CloseKept ==
  ASSUME KeptInv, UNCHANGED <<disk, world>>,
         Conflict \/ ReconcileRefused \/ Withhold \/ Crash \/ CommitRefused \/ WriteFails
  PROVE  KeptInv'
<1>1. pc' \in QuietEnds /\ UNCHANGED <<durable, journal, tx, issued, refreshed, dropped, seen>>
  BY DEF Conflict, ReconcileRefused, Withhold, Crash, CommitRefused, WriteFails, GiveUp,
         Close, Goto, QuietEnds, disk, world
<1> QED
  BY <1>1, Quiet

LEMMA ReplayKept == ASSUME IInv, KeptInv, Replay PROVE KeptInv'
<1>1. /\ UNCHANGED <<durable, journal, tx, issued, refreshed, dropped>> /\ pc' = "install"
      /\ \A v \in Vendor : seen[v] \subseteq seen'[v]
  BY DEF Replay, Goto, disk, IInv, TypeOK
<1>2. Pending
  BY DEF Replay, IInv, Progress
<1>3. \A v \in Vendor : tx[v].cand \in {Absent, journal.new[v]}
  BY DEF Replay, JournalAdmissible, HasTx, KeptInv, Tidy
<1> QED
  BY <1>1, <1>2, <1>3 DEF KeptInv, Tidy, Counted, Ahead, Matched, Classified, Seeded,
     Spare, RefreshKept, Pending

LEMMA RecoverKept == ASSUME IInv, KeptInv, Recover PROVE KeptInv'
<1>1. /\ UNCHANGED <<durable, journal, tx, issued, refreshed, dropped>> /\ who' = "claude"
      /\ IF Changed THEN pc' = "pending" ELSE pc' = "clean" /\ mode' = "drop"
  BY DEF Recover, Goto, disk
<1>2. \A v \in Vendor : seen[v] \subseteq seen'[v]
  BY DEF Recover, IInv, TypeOK
<1>3. \A v \in Vendor : repl'[v] = Absent \/ durable[v] <= repl'[v]
  BY Numbers DEF Recover, NewerStandard, IInv
<1>4. ~Changed => \A v \in Vendor : tx[v].cand \in {Absent, durable[v]}
  BY DEF Changed, HasTx, KeptInv, Tidy
<1> QED
  BY <1>1, <1>2, <1>3, <1>4 DEF KeptInv, Tidy, Counted, Ahead, Matched, Classified,
     Seeded, Spare, RefreshKept, Pending

LEMMA CommitKept == ASSUME IInv, KeptInv, Commit PROVE KeptInv'
<1>1. UNCHANGED <<durable, tx, issued, refreshed, dropped, seen>>
  BY DEF Commit, disk, world
<1>2. \A v \in Vendor : cand[v] = tx[v].cand /\ cand[v] \in seen[v]
  BY DEF Commit, KeptInv, Matched, Classified
<1>3. CASE mode = "recover" /\ cand = durable
  <2>1. /\ pc' = "clean" /\ mode' = "drop" /\ repl' = Nothing /\ UNCHANGED journal
    BY <1>3 DEF Commit, Goto, disk
  <2> QED
    BY <1>1, <1>2, <1>3, <2>1 DEF KeptInv, Tidy, Counted, Ahead, Matched, Classified,
       Seeded, Spare, RefreshKept, Pending, Nothing
<1>4. CASE ~(mode = "recover" /\ cand = durable)
  <2>1. pc' = "install" /\ journal' = Intended /\ who' = "claude"
    BY <1>4 DEF Commit, Goto
  <2>2. \A v \in Vendor : journal'.new[v] = tx[v].cand
    BY <2>1, <1>2 DEF Intended
  <2>3. \A v \in Vendor : tx[v].cand # Absent
    BY GenFacts DEF Commit, IInv, Homes
  <2> QED
    BY <1>1, <1>2, <2>1, <2>2, <2>3 DEF KeptInv, Tidy, Counted, Ahead, Matched,
       Classified, Seeded, Spare, RefreshKept, Pending
<1> QED
  BY <1>3, <1>4

LEMMA InstallKept == ASSUME IInv, KeptInv, NEW v \in Vendor, Install(v) PROVE KeptInv'
<1>1. /\ durable' = [durable EXCEPT ![v] = journal.new[v]] /\ pc' \in {"install", "mark"}
      /\ UNCHANGED <<journal, tx, issued, refreshed, dropped, seen>>
  BY DEF Install, Goto, world
<1>2. Pending /\ pc = "install" /\ TypeOK
  BY DEF Install, IInv, Progress
<1>3. \A w \in Vendor : durable'[w] = IF w = v THEN journal.new[v] ELSE durable[w]
  BY <1>1, <1>2 DEF TypeOK, Pair
<1>4. \A w \in Vendor : durable[w] <= durable'[w] /\ durable'[w] <= journal.new[w]
  BY <1>2, <1>3, Numbers DEF KeptInv, Ahead
<1>5. Tidy' /\ Counted' /\ Ahead' /\ Matched' /\ Classified' /\ Seeded'
  BY <1>1, <1>2, <1>3, <1>4, Numbers
     DEF KeptInv, Tidy, Counted, Ahead, Matched, Classified, Seeded, Pending
<1>6. RefreshKept'
  BY <1>1, <1>2, <1>4, Numbers DEF KeptInv, RefreshKept
<1> QED
  BY <1>5, <1>6 DEF KeptInv

LEMMA MarkKept == ASSUME IInv, KeptInv, Mark PROVE KeptInv'
<1>1. /\ UNCHANGED <<durable, journal, tx, issued, refreshed, dropped, seen>>
      /\ pc' = "rebase" \/ (pc' = "clean" /\ mode' # "drop")
  BY DEF Mark, Goto, world
<1>2. durable = journal.new /\ pc = "mark"
  BY DEF Mark, IInv, Progress
<1> QED
  BY <1>1, <1>2 DEF KeptInv, Tidy, Counted, Ahead, Matched, Classified, Seeded, Spare,
     RefreshKept, Pending

LEMMA RebaseKept == ASSUME IInv, KeptInv, NEW v \in Vendor, Rebase(v) PROVE KeptInv'
<1>1. /\ UNCHANGED <<durable, journal, issued, refreshed, dropped, seen>>
      /\ pc' \in {"rebase", "unlink"}
  BY DEF Rebase, Goto, world
<1>2. \A w \in Vendor : tx'[w].cand = tx[w].cand /\ tx'[w].run = tx[w].run
  BY DEF Rebase, IInv, TypeOK, Tx
<1>3. pc = "rebase"
  BY DEF Rebase
<1> QED
  BY <1>1, <1>2, <1>3 DEF KeptInv, Tidy, Counted, Ahead, Matched, Classified, Seeded,
     Spare, RefreshKept, Pending

LEMMA UnlinkKept == ASSUME IInv, KeptInv, Unlink PROVE KeptInv'
<1>1. /\ UNCHANGED <<durable, tx, issued, refreshed, dropped, seen>> /\ journal' = NoJournal
      /\ \/ pc' \in QuietEnds
         \/ pc' = "mkdir" /\ who' = "claude" /\ repl' = Nothing
         \/ pc' = "finalize"
  BY DEF Unlink, Close, Goto, world, QuietEnds
<1>2. durable = journal.new /\ pc = "unlink" /\ ~Pending'
  BY <1>1 DEF Unlink, IInv, Progress, Pending, NoJournal
<1> QED
  BY <1>1, <1>2 DEF KeptInv, Tidy, Counted, Ahead, Matched, Classified, Seeded, Spare,
     RefreshKept, Nothing, QuietEnds

\* A home is refreshed, by a CLI or by a probe.
LEMMA Probed ==
  ASSUME IInv, KeptInv, NEW v \in Vendor, tx[v].cand \in Gen,
         NEW g \in After(v, tx[v].cand), PutCandidate(v, g), Refresh(v, g),
         UNCHANGED <<durable, journal, dropped>>
  PROVE  /\ g \in Gen /\ tx'[v].cand = g /\ \A w \in Vendor : tx'[w].run = tx[w].run
         /\ \A w \in Vendor : w # v => /\ tx'[w] = tx[w] /\ refreshed'[w] = refreshed[w]
                                       /\ dropped'[w] = dropped[w]
         /\ Counted' /\ RefreshKept'
         /\ \A w \in Vendor : tx'[w].cand = Absent \/ durable'[w] <= tx'[w].cand
<1>1. TypeOK /\ g \in Gen /\ tx[v].cand <= g
  BY AfterGen, Numbers DEF After, Issuable, IInv, KeptInv, Counted
<1>2. /\ tx'[v].cand = g /\ \A w \in Vendor : tx'[w].run = tx[w].run
      /\ \A w \in Vendor : w # v => tx'[w] = tx[w]
  BY <1>1, GenFacts, PutTyped
<1>3. /\ \A w \in Vendor : w # v => /\ issued'[w] = issued[w] /\ refreshed'[w] = refreshed[w]
                                    /\ dropped'[w] = dropped[w]
      /\ issued'[v] = IF g > issued[v] THEN g ELSE issued[v]
      /\ refreshed'[v] = IF g > issued[v] THEN g ELSE refreshed[v]
  BY <1>1 DEF Refresh, Issue, TypeOK, Pair
<1>4. g \in Nat /\ tx[v].cand \in Nat /\ issued[v] \in Nat /\ durable[v] \in Nat
      /\ journal.new[v] \in Nat /\ refreshed[v] \in Nat
  BY <1>1, Numbers
<1>5. Counted'
  <2>1. \A w \in Vendor : w # v => issued'[w] = issued[w] /\ tx'[w] = tx[w]
    BY <1>2, <1>3
  <2>2. issued[v] <= issued'[v] /\ g <= issued'[v] /\ issued'[v] \in Nat
    BY <1>3, <1>4
  <2>3. durable[v] <= issued[v] /\ (Pending => journal.new[v] <= issued[v])
    BY DEF KeptInv, Counted
  <2>4. durable[v] <= issued'[v] /\ (Pending => journal.new[v] <= issued'[v])
    BY <2>2, <2>3, <1>4
  <2> QED
    BY <1>2, <2>1, <2>2, <2>4 DEF KeptInv, Counted, Pending
<1>6. RefreshKept'
  <2>1. refreshed[v] <= durable[v] \/ refreshed[v] <= tx[v].cand \/ refreshed[v] = dropped[v]
    BY DEF KeptInv, RefreshKept
  <2>2. refreshed'[v] <= durable[v] \/ refreshed'[v] <= g \/ refreshed'[v] = dropped'[v]
    BY <1>1, <1>3, <1>4, <2>1
  <2> QED
    BY <1>2, <1>3, <2>2 DEF KeptInv, RefreshKept
<1>7. durable[v] <= g
  <2>1. durable[v] <= tx[v].cand
    BY GenFacts DEF KeptInv, Ahead
  <2> QED
    BY <1>1, <1>4, <2>1
<1> QED
  BY <1>1, <1>2, <1>3, <1>5, <1>6, <1>7 DEF KeptInv, Ahead

\* A login of the operator's is probed in a home of its own.
LEMMA Sourced ==
  ASSUME IInv, KeptInv, NEW v \in Vendor, repl[v] # Absent, durable[v] <= repl[v],
         NEW g \in After(v, repl[v]), Issue(v, g)
  PROVE  /\ g \in Gen /\ durable[v] <= g /\ g <= issued'[v]
         /\ repl[v] <= g \/ g = issued[v] + 1
         /\ \A w \in Vendor : issued[w] <= issued'[w] /\ issued'[w] \in Nat
<1>1. TypeOK /\ repl[v] \in Gen
  BY DEF IInv, TypeOK, OptGen
<1>2. g \in Gen /\ (g = repl[v] \/ g = issued[v] + 1)
  BY <1>1, AfterGen DEF After, Issuable
<1>3. g \in Nat /\ repl[v] \in Nat /\ durable[v] \in Nat /\ \A w \in Vendor : issued[w] \in Nat
  BY <1>1, <1>2, Numbers
<1>4. \A w \in Vendor : issued'[w] = IF w = v /\ g > issued[v] THEN g ELSE issued[w]
  BY <1>1 DEF Issue, TypeOK, Pair
<1>5. durable[v] <= issued[v]
  BY DEF KeptInv, Counted
<1> QED
  BY <1>2, <1>3, <1>4, <1>5

LEMMA ClassifiedMore ==
  ASSUME TypeOK, NEW v \in Vendor, NEW G, Classify(v, G)
  PROVE  /\ \A w \in Vendor : seen[w] \subseteq seen'[w]
         /\ \A g \in G \cap Gen : g \in seen'[v]
BY DEF Classify, TypeOK

LEMMA PendingProbeKept == ASSUME IInv, KeptInv, NEW v \in Vendor, PendingProbe(v)
                          PROVE  KeptInv'
<1>1. PICK g \in After(v, tx[v].cand) :
        /\ PutCandidate(v, g) /\ cand' = [cand EXCEPT ![v] = g]
        /\ Classify(v, {durable[v], tx[v].cand, g}) /\ Refresh(v, g)
  BY DEF PendingProbe
<1>2. /\ pc = "pending" /\ who = v /\ TypeOK /\ UNCHANGED <<durable, journal, dropped, repl>>
      /\ IF v = "claude" THEN pc' = "pending" /\ who' = "codex" ELSE pc' = "commit"
  BY DEF PendingProbe, AfterPending, Goto, IInv
<1>3. \A w \in Vendor : tx[w].cand \in Gen /\ tx[w].run \in Run
  BY <1>2 DEF IInv, Homes, Owning
<1>4. /\ g \in Gen /\ tx'[v].cand = g /\ \A w \in Vendor : tx'[w].run = tx[w].run
      /\ \A w \in Vendor : w # v => /\ tx'[w] = tx[w] /\ refreshed'[w] = refreshed[w]
                                    /\ dropped'[w] = dropped[w]
      /\ Counted' /\ RefreshKept'
      /\ \A w \in Vendor : tx'[w].cand = Absent \/ durable'[w] <= tx'[w].cand
  BY <1>1, <1>2, <1>3, Probed
<1>5. /\ \A w \in Vendor : seen[w] \subseteq seen'[w] /\ g \in seen'[v]
  BY <1>1, <1>2, <1>4, ClassifiedMore
<1>6. \A w \in Vendor : cand'[w] = IF w = v THEN g ELSE cand[w]
  BY <1>1, <1>2 DEF TypeOK
<1>7. Tidy' /\ Ahead'
  BY <1>2, <1>3, <1>4, RunAssumption DEF KeptInv, Tidy, Ahead, Pending
<1>8. Matched' /\ Classified' /\ Seeded'
  BY <1>2, <1>4, <1>5, <1>6, VendorIs
     DEF KeptInv, Matched, Classified, Seeded, Pending
<1> QED
  BY <1>4, <1>7, <1>8 DEF KeptInv

LEMMA PendingSupersedeKept == ASSUME IInv, KeptInv, NEW v \in Vendor, PendingSupersede(v)
                              PROVE  KeptInv'
<1>1. PICK g \in After(v, repl[v]) :
        /\ PutCandidate(v, g) /\ cand' = [cand EXCEPT ![v] = g]
        /\ Classify(v, {durable[v], tx[v].cand, repl[v], g}) /\ Issue(v, g)
  BY DEF PendingSupersede
<1>2. /\ pc = "pending" /\ who = v /\ TypeOK
      /\ UNCHANGED <<durable, journal, repl, refreshed, dropped>>
      /\ IF v = "claude" THEN pc' = "pending" /\ who' = "codex" ELSE pc' = "commit"
      /\ Supersedes(v)
  BY DEF PendingSupersede, AfterPending, Goto, IInv
<1>3. \A w \in Vendor : tx[w].cand \in Gen /\ tx[w].run \in Run
  BY <1>2 DEF IInv, Homes, Owning
<1>4. repl[v] # Absent /\ durable[v] <= repl[v]
  BY <1>2 DEF Supersedes, KeptInv, Ahead
<1>5. /\ g \in Gen /\ durable[v] <= g /\ g <= issued'[v]
      /\ repl[v] <= g \/ g = issued[v] + 1
      /\ \A w \in Vendor : issued[w] <= issued'[w] /\ issued'[w] \in Nat
  BY <1>1, <1>4, Sourced
<1>6. /\ tx'[v].cand = g /\ \A w \in Vendor : tx'[w].run = tx[w].run
      /\ \A w \in Vendor : w # v => tx'[w] = tx[w]
  BY <1>1, <1>2, <1>5, GenFacts, PutTyped
<1>7. /\ \A w \in Vendor : seen[w] \subseteq seen'[w] /\ g \in seen'[v]
  BY <1>1, <1>2, <1>5, ClassifiedMore
<1>8. \A w \in Vendor : cand'[w] = IF w = v THEN g ELSE cand[w]
  BY <1>1, <1>2 DEF TypeOK
<1>9. Tidy' /\ Ahead'
  BY <1>2, <1>3, <1>5, <1>6, RunAssumption DEF KeptInv, Tidy, Ahead, Pending
<1>10. Matched' /\ Classified' /\ Seeded'
  BY <1>2, <1>6, <1>7, <1>8, VendorIs
     DEF KeptInv, Matched, Classified, Seeded, Pending
<1>11. Counted'
  BY <1>2, <1>5, <1>6, Numbers DEF KeptInv, Counted, Pending
<1>12. RefreshKept'
  <2>1. refreshed[v] <= durable[v] \/ refreshed[v] <= tx[v].cand \/ refreshed[v] = dropped[v]
    BY DEF KeptInv, RefreshKept
  <2>2. tx[v].cand = durable[v] \/ tx[v].cand < repl[v]
    BY <1>2, <1>3, Numbers DEF Supersedes
  <2>3. tx[v].cand <= issued[v]
    BY DEF KeptInv, Counted
  <2>4. refreshed[v] <= durable[v] \/ refreshed[v] <= g \/ refreshed[v] = dropped[v]
    BY <1>2, <1>3, <1>5, <2>1, <2>2, <2>3, Numbers
  <2> QED
    BY <1>2, <1>6, <2>4 DEF KeptInv, RefreshKept
<1> QED
  BY <1>9, <1>10, <1>11, <1>12 DEF KeptInv

LEMMA PendingSourceFailsKept == ASSUME IInv, KeptInv, NEW v \in Vendor, PendingSourceFails(v)
                                PROVE  KeptInv'
<1>1. PICK g \in After(v, repl[v]) :
        Classify(v, {durable[v], tx[v].cand, repl[v], g}) /\ Issue(v, g)
  BY DEF PendingSourceFails
<1>2. /\ pc = "pending" /\ TypeOK
      /\ UNCHANGED <<durable, journal, tx, refreshed, dropped, pc, who, cand>>
      /\ repl' = [repl EXCEPT ![v] = Absent] /\ Supersedes(v)
  BY DEF PendingSourceFails, IInv, disk, ctl
<1>3. repl[v] # Absent /\ durable[v] <= repl[v]
  BY <1>2 DEF Supersedes, KeptInv, Ahead
<1>4. \A w \in Vendor : issued[w] <= issued'[w] /\ issued'[w] \in Nat
  BY <1>1, <1>3, Sourced
<1>5. \A w \in Vendor : seen[w] \subseteq seen'[w]
  BY <1>1, <1>2, ClassifiedMore
<1>6. \A w \in Vendor : repl'[w] = IF w = v THEN Absent ELSE repl[w]
  BY <1>2 DEF TypeOK
<1>7. Counted'
  BY <1>2, <1>4, Numbers DEF KeptInv, Counted, Pending
<1>8. Tidy' /\ Ahead'
  BY <1>2, <1>6 DEF KeptInv, Tidy, Ahead, Pending
<1>9. Matched'
  BY <1>2 DEF KeptInv, Matched
<1>10. Classified'
  BY <1>2, <1>5, VendorIs DEF KeptInv, Classified, Pending
<1>11. Seeded' /\ RefreshKept'
  BY <1>2 DEF KeptInv, Seeded, Spare, RefreshKept
<1> QED
  BY <1>7, <1>8, <1>9, <1>10, <1>11 DEF KeptInv

LEMMA PendingProbeFailsKept == ASSUME IInv, KeptInv, NEW v \in Vendor, PendingProbeFails(v)
                               PROVE  KeptInv'
<1>1. PICK g \in After(v, tx[v].cand) : PutCandidate(v, g) /\ Refresh(v, g)
  BY DEF PendingProbeFails
<1>2. pc = "pending" /\ UNCHANGED <<durable, journal, dropped, seen>> /\ pc' = "idle"
  BY DEF PendingProbeFails, Close, Goto
<1>3. \A w \in Vendor : tx[w].cand \in Gen /\ tx[w].run \in Run
  BY <1>2 DEF IInv, Homes, Owning
<1>4. /\ \A w \in Vendor : tx'[w].run = tx[w].run
      /\ Counted' /\ RefreshKept'
      /\ \A w \in Vendor : tx'[w].cand = Absent \/ durable'[w] <= tx'[w].cand
  BY <1>1, <1>2, <1>3, Probed
<1> QED
  BY <1>2, <1>3, <1>4, RunAssumption
     DEF KeptInv, Tidy, Ahead, Matched, Classified, Seeded, Pending

LEMMA RemoveFileKept == ASSUME IInv, KeptInv, NEW v \in Vendor, RemoveFile(v) PROVE KeptInv'
<1>1. /\ pc \in {"clean", "finalize"} /\ TypeOK
      /\ UNCHANGED <<durable, journal, issued, refreshed, dropped, seen, pc, mode, who, cand, repl>>
  BY DEF RemoveFile, Removing, IInv, world, ctl, mem
<1>2. \A w \in Vendor : /\ tx'[w].cand = tx[w].cand \/ tx'[w].cand = Absent
                        /\ tx'[w].run = tx[w].run
  BY <1>1 DEF RemoveFile, TypeOK, Tx
<1>3. \A w \in Vendor : Spare(w)
  BY <1>1, Numbers DEF KeptInv, Matched, RefreshKept, Spare
<1>4. Counted'
  BY <1>1, <1>2, Numbers DEF KeptInv, Counted, Pending
<1> QED
  BY <1>1, <1>2, <1>3, <1>4
     DEF KeptInv, Tidy, Ahead, Matched, Classified, Seeded, Spare, RefreshKept, Pending

LEMMA RemoveDirKept == ASSUME IInv, KeptInv, NEW v \in Vendor, RemoveDir(v) PROVE KeptInv'
<1>1. /\ pc \in {"clean", "finalize"} /\ TypeOK /\ tx[v].cand = Absent
      /\ UNCHANGED <<durable, journal, issued, refreshed, dropped, seen>>
  BY DEF RemoveDir, Removing, IInv, world
<1>2. \A w \in Vendor : /\ tx'[w].cand = tx[w].cand
                        /\ w # v => tx'[w].run = tx[w].run
                        /\ w = v => tx'[w].cand = Absent
  BY <1>1 DEF RemoveDir, TypeOK, NoTx
<1>3. \/ pc' \in {"clean", "finalize"} /\ pc' = pc /\ UNCHANGED <<mode, cand, repl>>
      \/ pc' = "mkdir" /\ who' = "claude" /\ mode = "drop" /\ pc = "clean" /\ UNCHANGED <<cand, repl>>
      \/ pc' = "unlink" /\ mode # "drop" /\ pc = "clean"
      \/ pc' = "idle"
  BY <1>1 DEF RemoveDir, Close, Goto, mem
<1>4. pc = "clean" /\ mode # "drop" => durable = journal.new
  BY DEF IInv, Progress
<1>5. Tidy' /\ Counted'
  BY <1>1, <1>2, <1>3 DEF KeptInv, Tidy, Counted, Pending
<1>6. Ahead' /\ Matched'
  BY <1>1, <1>2, <1>3, <1>4 DEF KeptInv, Ahead, Matched, Pending
<1>7. Classified' /\ Seeded' /\ RefreshKept'
  BY <1>1, <1>2, <1>3 DEF KeptInv, Classified, Seeded, RefreshKept, Pending
<1> QED
  BY <1>5, <1>6, <1>7 DEF KeptInv

LEMMA MakeDirKept == ASSUME IInv, KeptInv, NEW v \in Vendor, MakeDir(v) PROVE KeptInv'
<1>1. /\ pc = "mkdir" /\ pc' = "copy" /\ who' = v /\ who = v /\ TypeOK /\ tx[v].run = NoRun
      /\ UNCHANGED <<durable, journal, issued, refreshed, dropped, seen, repl>>
  BY DEF MakeDir, HasTx, Goto, IInv, world, mem
<1>2. /\ \A w \in Vendor : tx'[w].cand = tx[w].cand /\ (w # v => tx'[w].run = tx[w].run)
      /\ tx'[v].run = run /\ run \in Run
  BY <1>1 DEF MakeDir, TypeOK, Tx, IInv, Homes
<1>3. Tidy' /\ Counted' /\ Ahead'
  BY <1>1, <1>2, RunAssumption DEF KeptInv, Tidy, Counted, Ahead, Pending
<1> QED
  BY <1>1, <1>2, <1>3 DEF KeptInv, Matched, Classified, Seeded, Spare, RefreshKept, Pending

LEMMA CopyDurableKept == ASSUME IInv, KeptInv, NEW v \in Vendor, CopyDurable(v) PROVE KeptInv'
<1>1. /\ pc = "copy" /\ pc' = "record" /\ who' = v /\ who = v /\ TypeOK
      /\ UNCHANGED <<durable, journal, issued, refreshed, dropped, seen, repl>>
      /\ tx[v].cand = Absent /\ tx[v].run \in Run
  BY DEF CopyDurable, Goto, IInv, Homes, world, mem, KeptInv, Tidy
<1>2. durable[v] \in OptGen
  BY <1>1, GenFacts DEF TypeOK, Pair
<1>3. /\ tx'[v].cand = durable[v] /\ \A w \in Vendor : tx'[w].run = tx[w].run
      /\ \A w \in Vendor : w # v => tx'[w] = tx[w]
  BY <1>1, <1>2, PutTyped DEF CopyDurable
<1>4. Spare(v)
  BY <1>1, Numbers DEF KeptInv, RefreshKept, Spare
<1>5. Tidy' /\ Counted' /\ Ahead'
  BY <1>1, <1>3, RunAssumption, Numbers DEF KeptInv, Tidy, Counted, Ahead, Pending
<1> QED
  BY <1>1, <1>3, <1>4, <1>5
     DEF KeptInv, Matched, Classified, Seeded, Spare, RefreshKept, Pending

LEMMA RecordBaselineKept == ASSUME IInv, KeptInv, NEW v \in Vendor, RecordBaseline(v)
                            PROVE  KeptInv'
<1>1. /\ pc = "record" /\ who = v /\ TypeOK
      /\ UNCHANGED <<durable, journal, issued, refreshed, dropped, seen, repl>>
      /\ IF v = "claude" THEN pc' = "mkdir" /\ who' = "codex"
                         ELSE pc' = "source" /\ who' = "claude"
  BY DEF RecordBaseline, Goto, IInv, world
<1>2. \A w \in Vendor : tx'[w].cand = tx[w].cand /\ tx'[w].run = tx[w].run
  BY <1>1 DEF RecordBaseline, TypeOK, Tx
<1>3. Seeded'
  BY <1>1, VendorIs DEF KeptInv, Seeded, Spare
<1> QED
  BY <1>1, <1>2, <1>3 DEF KeptInv, Tidy, Counted, Ahead, Matched, Classified, RefreshKept, Pending

LEMMA StageSourceKept == ASSUME IInv, KeptInv, NEW v \in Vendor, StageSource(v) PROVE KeptInv'
<1>1. PICK g \in After(v, repl[v]) :
        /\ PutCandidate(v, g) /\ repl' = [repl EXCEPT ![v] = g]
        /\ Classify(v, {durable[v], repl[v], g}) /\ Issue(v, g)
  BY DEF StageSource
<1>2. /\ pc = "source" /\ who = v /\ TypeOK /\ UNCHANGED <<durable, journal, refreshed, dropped>>
      /\ repl[v] # Absent
      /\ IF v = "claude" THEN pc' = "source" ELSE pc' = "auth"
  BY DEF StageSource, AfterSource, Goto, IInv
<1>3. \A w \in Vendor : tx[w].cand \in Gen /\ tx[w].run \in Run /\ Spare(w)
  BY <1>2 DEF IInv, Homes, Owning, KeptInv, Seeded
<1>4. durable[v] <= repl[v]
  BY <1>2 DEF KeptInv, Ahead
<1>5. /\ g \in Gen /\ durable[v] <= g /\ g <= issued'[v]
      /\ \A w \in Vendor : issued[w] <= issued'[w] /\ issued'[w] \in Nat
  BY <1>1, <1>2, <1>4, Sourced
<1>6. /\ tx'[v].cand = g /\ \A w \in Vendor : tx'[w].run = tx[w].run
      /\ \A w \in Vendor : w # v => tx'[w] = tx[w]
  BY <1>1, <1>2, <1>5, GenFacts, PutTyped
<1>7. /\ \A w \in Vendor : seen[w] \subseteq seen'[w]
  BY <1>1, <1>2, <1>5, ClassifiedMore
<1>8. \A w \in Vendor : repl'[w] = IF w = v THEN g ELSE repl[w]
  BY <1>1, <1>2 DEF TypeOK
<1>9. who' \in Vendor
  BY VendorIs DEF StageSource, AfterSource, Goto
<1>10. Tidy' /\ Ahead'
  BY <1>2, <1>3, <1>5, <1>6, <1>8, RunAssumption DEF KeptInv, Tidy, Ahead, Pending
<1>11. Counted'
  BY <1>2, <1>5, <1>6, Numbers DEF KeptInv, Counted, Pending
<1>12. Matched' /\ Classified'
  BY <1>2, <1>7 DEF KeptInv, Matched, Classified, Pending
<1>13. Seeded' /\ RefreshKept'
  BY <1>2, <1>3, <1>9 DEF Seeded, RefreshKept, Spare
<1> QED
  BY <1>10, <1>11, <1>12, <1>13 DEF KeptInv

LEMMA NoSourceKept == ASSUME IInv, KeptInv, NEW v \in Vendor, NoSource(v) PROVE KeptInv'
<1>1. /\ pc = "source" /\ who = v /\ TypeOK
      /\ UNCHANGED <<durable, journal, tx, refreshed, dropped>>
      /\ repl' = [repl EXCEPT ![v] = Absent]
      /\ IF v = "claude" THEN pc' = "source" ELSE pc' = "auth"
  BY DEF NoSource, AfterSource, Goto, IInv, disk
<1>2. /\ \A w \in Vendor : issued[w] <= issued'[w] /\ issued'[w] \in Nat
      /\ \A w \in Vendor : seen[w] \subseteq seen'[w]
  <2>1. CASE repl[v] = Absent
    BY <2>1, <1>1, Numbers DEF NoSource
  <2>2. CASE repl[v] # Absent
    <3>1. PICK g \in After(v, repl[v]) : Classify(v, {durable[v], repl[v], g}) /\ Issue(v, g)
      BY <2>2 DEF NoSource
    <3>2. durable[v] <= repl[v]
      BY <2>2, <1>1 DEF KeptInv, Ahead
    <3> QED
      BY <2>2, <1>1, <3>1, <3>2, Sourced, ClassifiedMore
  <2> QED
    BY <2>1, <2>2
<1>3. \A w \in Vendor : repl'[w] = IF w = v THEN Absent ELSE repl[w]
  BY <1>1 DEF TypeOK
<1>4. who' \in Vendor
  BY VendorIs DEF NoSource, AfterSource, Goto
<1>5. Tidy' /\ Ahead'
  BY <1>1, <1>3 DEF KeptInv, Tidy, Ahead, Pending
<1>6. Counted'
  BY <1>1, <1>2, Numbers DEF KeptInv, Counted, Pending
<1>7. Matched' /\ Classified'
  BY <1>1, <1>2 DEF KeptInv, Matched, Classified, Pending
<1>8. Seeded' /\ RefreshKept'
  BY <1>1, <1>4 DEF KeptInv, Seeded, RefreshKept, Spare
<1> QED
  BY <1>5, <1>6, <1>7, <1>8 DEF KeptInv

\* A probe or a turn in a home while nothing is being seeded or moved.
LEMMA ProbedElsewhere ==
  ASSUME IInv, KeptInv, NEW v \in Vendor, NEW g \in After(v, tx[v].cand),
         pc \in Owning, PutCandidate(v, g), Refresh(v, g),
         UNCHANGED <<durable, journal, dropped>>,
         \A w \in Vendor : seen[w] \subseteq seen'[w],
         pc' \in QuietEnds \cup {"adopt"}
  PROVE  KeptInv'
<1>1. \A w \in Vendor : tx[w].cand \in Gen /\ tx[w].run \in Run
  BY DEF IInv, Homes
<1>2. /\ \A w \in Vendor : tx'[w].run = tx[w].run
      /\ Counted' /\ RefreshKept'
      /\ \A w \in Vendor : tx'[w].cand = Absent \/ durable'[w] <= tx'[w].cand
  BY <1>1, Probed
<1> QED
  BY <1>1, <1>2, RunAssumption
     DEF KeptInv, Tidy, Ahead, Matched, Classified, Seeded, Pending, QuietEnds

LEMMA AuthProbeKept == ASSUME IInv, KeptInv, NEW v \in Vendor, AuthProbe(v) PROVE KeptInv'
<1>1. PICK g \in After(v, tx[v].cand) : PutCandidate(v, g) /\ Refresh(v, g)
  BY DEF AuthProbe
<1>2. /\ pc = "auth" /\ who = v /\ UNCHANGED <<durable, journal, dropped, seen>>
      /\ IF v = "claude" THEN pc' = "auth" /\ who' = "codex" ELSE pc' = "adopt"
  BY DEF AuthProbe, Goto
<1>3. CASE v # "claude"
  BY <1>1, <1>2, <1>3, ProbedElsewhere DEF Owning
<1>4. CASE v = "claude"
  <2>1. \A w \in Vendor : tx[w].cand \in Gen /\ tx[w].run \in Run
    BY <1>2 DEF IInv, Homes, Owning
  <2>2. /\ \A w \in Vendor : tx'[w].run = tx[w].run
        /\ \A w \in Vendor : w # v => refreshed'[w] = refreshed[w] /\ dropped'[w] = dropped[w]
        /\ Counted' /\ RefreshKept'
        /\ \A w \in Vendor : tx'[w].cand = Absent \/ durable'[w] <= tx'[w].cand
    BY <1>1, <1>2, <2>1, Probed
  <2>3. Seeded'
    BY <1>2, <1>4, <2>2, VendorIs DEF KeptInv, Seeded, Spare
  <2> QED
    BY <1>2, <1>4, <2>1, <2>2, <2>3, RunAssumption
       DEF KeptInv, Tidy, Ahead, Matched, Classified, Pending
<1> QED
  BY <1>3, <1>4

LEMMA AuthFallsBackKept == ASSUME IInv, KeptInv, NEW v \in Vendor, AuthFallsBack(v)
                           PROVE  KeptInv'
<1>1. PICK g \in After(v, tx[v].cand) :
        /\ Refresh(v, g)
        /\ dropped' = [dropped EXCEPT ![v] = IF g > issued[v] THEN g ELSE @]
  BY DEF AuthFallsBack
<1>2. /\ pc = "auth" /\ who = v /\ TypeOK /\ UNCHANGED <<durable, journal, seen, pc, who>>
      /\ PutCandidate(v, durable[v])
  BY DEF AuthFallsBack, IInv, ctl
<1>3. /\ \A w \in Vendor : tx[w].cand \in Gen /\ tx[w].run \in Run
      /\ durable[v] \in OptGen /\ Spare(v)
  BY <1>2, GenFacts DEF IInv, Homes, Owning, KeptInv, Seeded, TypeOK, Pair
<1>4. /\ tx'[v].cand = durable[v] /\ \A w \in Vendor : tx'[w].run = tx[w].run
      /\ \A w \in Vendor : w # v => tx'[w] = tx[w]
  BY <1>2, <1>3, PutTyped
<1>5. \A w \in Vendor : issued[w] <= issued'[w] /\ issued'[w] \in Nat
  <2>1. g \in Nat
    BY <1>3, AfterGen, <1>2, Numbers
  <2>2. \A w \in Vendor : issued'[w] = IF w = v /\ g > issued[v] THEN g ELSE issued[w]
    BY <1>1, <1>2 DEF Refresh, Issue, TypeOK, Pair
  <2> QED
    BY <1>2, <2>1, <2>2, Numbers
<1>6. Tidy' /\ Ahead'
  BY <1>2, <1>3, <1>4, Numbers, RunAssumption DEF KeptInv, Tidy, Ahead, Pending
<1>7. Counted'
  BY <1>2, <1>4, <1>5, Numbers DEF KeptInv, Counted, Pending
<1>8. Matched' /\ Classified'
  BY <1>2 DEF KeptInv, Matched, Classified, Pending
<1>9. \A w \in Vendor : w # v => refreshed'[w] = refreshed[w] /\ dropped'[w] = dropped[w]
  BY <1>1, <1>2 DEF Refresh, TypeOK, Pair
<1>10. Spare(v)'
  <2>1. CASE g > issued[v]
    BY <1>1, <1>2, <2>1 DEF Refresh, Spare, TypeOK, Pair
  <2>2. CASE ~(g > issued[v])
    BY <1>1, <1>2, <1>3, <2>2 DEF Refresh, Spare, TypeOK, Pair
  <2> QED
    BY <2>1, <2>2
<1>11. Seeded'
  BY <1>2, <1>9, <1>10, VendorIs DEF KeptInv, Seeded, Spare
<1>12. RefreshKept'
  BY <1>2, <1>4, <1>9, <1>10 DEF KeptInv, RefreshKept, Spare
<1> QED
  BY <1>6, <1>7, <1>8, <1>11, <1>12 DEF KeptInv

LEMMA AuthFailsKept == ASSUME IInv, KeptInv, NEW v \in Vendor, AuthFails(v) PROVE KeptInv'
<1>1. PICK g \in After(v, tx[v].cand) : PutCandidate(v, g) /\ Refresh(v, g)
  BY DEF AuthFails
<1>2. pc = "auth" /\ UNCHANGED <<durable, journal, dropped, seen>> /\ pc' = "idle"
  BY DEF AuthFails, Close, Goto
<1> QED
  BY <1>1, <1>2, ProbedElsewhere DEF Owning, QuietEnds

LEMMA AdoptKept == ASSUME IInv, KeptInv, Adopt PROVE KeptInv'
<1>1. /\ UNCHANGED <<durable, journal, tx, issued, refreshed, dropped>> /\ pc = "adopt"
      /\ \/ pc' = "starting" /\ UNCHANGED seen
         \/ /\ pc' = "commit" /\ cand' = Candidates
            /\ seen' = [v \in Vendor |->
                  IF tx[v].cand # durable[v] THEN seen[v] \cup {durable[v], tx[v].cand}
                                             ELSE seen[v]]
  BY DEF Adopt, Goto, disk
<1>2. \A v \in Vendor : durable[v] \in seen[v]
  BY DEF KeptInv, Classified
<1>3. pc' = "commit" => \A v \in Vendor : cand'[v] = tx[v].cand /\ cand'[v] \in seen'[v]
  BY <1>1, <1>2 DEF Candidates
<1>4. \A v \in Vendor : seen[v] \subseteq seen'[v]
  BY <1>1
<1> QED
  BY <1>1, <1>3, <1>4
     DEF KeptInv, Tidy, Counted, Ahead, Matched, Classified, Seeded, Spare, RefreshKept,
         Pending

LEMMA CliTurnKept == ASSUME IInv, KeptInv, NEW v \in Vendor, CliTurn(v) PROVE KeptInv'
<1>1. PICK g \in After(v, issued[v]) : g > issued[v] /\ PutCandidate(v, g) /\ Refresh(v, g)
  BY DEF CliTurn
<1>2. g \in After(v, tx[v].cand)
  BY <1>1, Numbers DEF After, Issuable, IInv
<1>3. pc \in {"running", "starting"} /\ pc' = pc /\ UNCHANGED <<durable, journal, dropped, seen>>
  BY DEF CliTurn, ctl
<1> QED
  BY <1>1, <1>2, <1>3, ProbedElsewhere DEF Owning, QuietEnds

LEMMA ReconcileKept ==
  ASSUME IInv, KeptInv,
         NEW m \in {"first", "author", "turn", "retry", "final", "early", "last", "close"},
         Reconcile(m)
  PROVE  KeptInv'
<1>1. /\ UNCHANGED <<durable, journal, tx, issued, refreshed, dropped, seen>>
      /\ \/ pc' = "settle" /\ who' = "claude" /\ cand' = Candidates
         \/ pc' \in QuietEnds
         \/ pc' = "finalize" /\ Candidates = durable
  BY DEF Reconcile, Close, Goto, disk, world, ctl, QuietEnds
<1>2. CASE pc' \in QuietEnds
  BY <1>1, <1>2, Quiet
<1>3. CASE pc' = "settle" /\ who' = "claude" /\ cand' = Candidates
  BY <1>1, <1>3 DEF Candidates, KeptInv, Tidy, Counted, Ahead, Matched, Classified, Seeded,
     Spare, RefreshKept, Pending
<1>4. CASE pc' = "finalize" /\ Candidates = durable
  <2>1. \A v \in Vendor : tx[v].cand = durable[v]
    BY <1>4 DEF Candidates
  <2> QED
    BY <1>1, <1>4, <2>1 DEF KeptInv, Tidy, Counted, Ahead, Matched, Classified, Seeded,
       Spare, RefreshKept, Pending
<1> QED
  BY <1>1, <1>2, <1>3, <1>4

LEMMA SettleKept == ASSUME IInv, KeptInv, NEW v \in Vendor, Settle(v) PROVE KeptInv'
<1>1. /\ pc = "settle" /\ who = v /\ TypeOK /\ UNCHANGED <<durable, journal, dropped, repl>>
      /\ IF v = "claude" THEN pc' = "settle" /\ who' = "codex" ELSE pc' = "commit"
  BY DEF Settle, AfterSettle, Goto, IInv
<1>2. \A w \in Vendor : cand[w] = tx[w].cand /\ tx[w].cand \in Gen /\ tx[w].run \in Run
  BY <1>1 DEF KeptInv, Matched, IInv, Homes, Owning
<1>3. CASE cand[v] = durable[v] /\ UNCHANGED <<tx, cand, issued, refreshed, seen>>
  <2>1. cand[v] \in seen[v]
    BY <1>3 DEF KeptInv, Classified
  <2>2. Classified'
    BY <1>1, <1>3, <2>1, VendorIs DEF KeptInv, Classified, Pending
  <2> QED
    BY <1>1, <1>2, <1>3, <2>2 DEF KeptInv, Tidy, Counted, Ahead, Matched, Seeded, Spare,
       RefreshKept, Pending
<1>4. CASE \E g \in After(v, cand[v]) :
             /\ PutCandidate(v, g) /\ cand' = [cand EXCEPT ![v] = g]
             /\ Classify(v, {durable[v], cand[v], g}) /\ Refresh(v, g)
  <2>1. PICK g \in After(v, tx[v].cand) :
          /\ PutCandidate(v, g) /\ cand' = [cand EXCEPT ![v] = g]
          /\ Classify(v, {durable[v], cand[v], g}) /\ Refresh(v, g)
    BY <1>2, <1>4
  <2>2. /\ g \in Gen /\ tx'[v].cand = g /\ \A w \in Vendor : tx'[w].run = tx[w].run
        /\ \A w \in Vendor : w # v => tx'[w] = tx[w]
        /\ Counted' /\ RefreshKept'
        /\ \A w \in Vendor : tx'[w].cand = Absent \/ durable'[w] <= tx'[w].cand
    BY <1>1, <1>2, <2>1, Probed
  <2>3. \A w \in Vendor : cand'[w] = IF w = v THEN g ELSE cand[w]
    BY <1>1, <2>1 DEF TypeOK
  <2>4. \A w \in Vendor : seen[w] \subseteq seen'[w] /\ g \in seen'[v]
    BY <1>1, <2>1, <2>2, ClassifiedMore
  <2>5. Tidy' /\ Ahead'
    BY <1>1, <1>2, <2>2, RunAssumption DEF KeptInv, Tidy, Ahead, Pending
  <2>6. Matched' /\ Classified' /\ Seeded'
    BY <1>1, <1>2, <2>2, <2>3, <2>4, VendorIs DEF KeptInv, Matched, Classified, Seeded, Pending
  <2> QED
    BY <2>2, <2>5, <2>6 DEF KeptInv
<1> QED
  BY <1>3, <1>4 DEF Settle

LEMMA SettleFailsKept == ASSUME IInv, KeptInv, NEW v \in Vendor, SettleFails(v) PROVE KeptInv'
<1>1. PICK g \in After(v, cand[v]) : PutCandidate(v, g) /\ Refresh(v, g)
  BY DEF SettleFails
<1>2. pc = "settle" /\ UNCHANGED <<durable, journal, dropped, seen>> /\ pc' \in QuietEnds
  BY DEF SettleFails, GiveUp, Close, Goto, QuietEnds
<1>3. cand[v] = tx[v].cand
  BY <1>2 DEF KeptInv, Matched
<1> QED
  BY <1>1, <1>2, <1>3, ProbedElsewhere DEF Owning

LEMMA UserLoginKept == ASSUME IInv, KeptInv, NEW v \in Vendor, UserLogin(v) PROVE KeptInv'
<1>1. /\ TypeOK
      /\ UNCHANGED <<durable, journal, tx, refreshed, dropped, seen, pc, mode, who, cand, repl>>
      /\ issued' = [issued EXCEPT ![v] = @ + 1]
  BY DEF UserLogin, Issuable, IInv, disk, ctl, mem
<1>2. \A w \in Vendor : issued'[w] = IF w = v THEN issued[v] + 1 ELSE issued[w]
  BY <1>1 DEF TypeOK, Pair
<1>3. Counted'
  BY <1>1, <1>2, Numbers DEF KeptInv, Counted, Pending
<1> QED
  BY <1>1, <1>3
     DEF KeptInv, Tidy, Ahead, Matched, Classified, Seeded, Spare, RefreshKept, Pending

LEMMA QuietStutter == KeptInv /\ UNCHANGED vars => KeptInv'
BY DEF KeptInv, Tidy, Counted, Ahead, Matched, Classified, Seeded, Spare, RefreshKept, Pending,
       vars, disk, world, ctl, mem

LEMMA StepKept == IInv /\ KeptInv /\ [Next]_vars => KeptInv'
<1> SUFFICES ASSUME IInv, KeptInv, [Next]_vars PROVE KeptInv'
  OBVIOUS
<1>1. ASSUME Step PROVE KeptInv'
  <2>1. CASE Begin
    BY <2>1, BeginKept
  <2>2. CASE Conflict
    BY <2>2, CloseKept DEF Conflict
  <2>3. CASE Replay
    BY <2>3, ReplayKept
  <2>4. CASE Recover
    BY <2>4, RecoverKept
  <2>5. CASE Commit
    BY <2>5, CommitKept
  <2>6. CASE CommitRefused
    BY <2>6, CloseKept DEF CommitRefused
  <2>7. CASE Mark
    BY <2>7, MarkKept
  <2>8. CASE Unlink
    BY <2>8, UnlinkKept
  <2>9. CASE Adopt
    BY <2>9, AdoptKept
  <2>10. CASE ReconcileRefused
    BY <2>10, CloseKept DEF ReconcileRefused
  <2>11. CASE Withhold
    BY <2>11, CloseKept DEF Withhold
  <2>12. ASSUME NEW m \in {"first", "author", "turn", "retry", "final", "early",
                           "last", "close"},
                Reconcile(m)
         PROVE  KeptInv'
    BY <2>12, ReconcileKept
  <2>13. ASSUME NEW v \in Vendor,
                 \/ PendingSupersede(v) \/ PendingSourceFails(v) \/ PendingProbe(v)
                 \/ PendingProbeFails(v) \/ Install(v) \/ Rebase(v)
                 \/ RemoveFile(v) \/ RemoveDir(v) \/ MakeDir(v)
                 \/ CopyDurable(v) \/ RecordBaseline(v) \/ StageSource(v)
                 \/ NoSource(v) \/ AuthProbe(v) \/ AuthFallsBack(v)
                 \/ AuthFails(v) \/ Settle(v) \/ SettleFails(v)
       PROVE  KeptInv'
    BY <2>13, PendingSupersedeKept, PendingSourceFailsKept, PendingProbeKept,
       PendingProbeFailsKept, InstallKept, RebaseKept, RemoveFileKept, RemoveDirKept,
       MakeDirKept, CopyDurableKept, RecordBaselineKept, StageSourceKept, NoSourceKept,
       AuthProbeKept, AuthFallsBackKept, AuthFailsKept, SettleKept, SettleFailsKept
  <2> QED
    BY <1>1, <2>1, <2>2, <2>3, <2>4, <2>5, <2>6, <2>7, <2>8, <2>9, <2>10, <2>11, <2>12,
       <2>13
       DEF Step
<1>2. CASE Crash
  BY <1>2, CloseKept DEF Crash
<1>3. CASE WriteFails
  BY <1>3, CloseKept DEF WriteFails
<1>4. ASSUME NEW v \in Vendor, CliTurn(v) \/ UserLogin(v) PROVE KeptInv'
  BY <1>4, CliTurnKept, UserLoginKept
<1>5. CASE UNCHANGED vars
  BY <1>5, QuietStutter
<1> QED
  BY <1>1, <1>2, <1>3, <1>4, <1>5 DEF Next


\* The second strengthening, too, holds in every state of every behaviour.
THEOREM KeptInvariance == Spec => [](IInv /\ KeptInv)
<1>1. Init => IInv /\ KeptInv
  BY InitIInv, InitKept
<1>2. IInv /\ KeptInv /\ [Next]_vars => IInv' /\ KeptInv'
  BY StepIInv, StepKept
<1> QED
  BY <1>1, <1>2, PTL DEF Spec

\* No refresh a vendor CLI wrote into a private home is lost, wherever the run
\* stops and whatever failed: it is durable, a pending candidate, or superseded.
\* The one exception is what a status probe wrote that then failed: acquire gives
\* that home the durable login back (_restore_durable_candidate).
THEOREM RefreshAlwaysKept == Spec => []RefreshKept
<1>1. KeptInv => RefreshKept
  BY DEF KeptInv
<1> QED
  BY <1>1, KeptInvariance, PTL

-----------------------------------------------------------------------------
\* The register.

\* Every step but the commit point, an installation and the end of the journal
\* leaves the durable files and the journal alone, and forgets nothing.
Touches == Commit \/ Unlink \/ \E v \in Vendor : Install(v)

LEMMA OthersLearn ==
  ASSUME TypeOK, [Next]_vars, ~Touches
  PROVE  UNCHANGED <<durable, journal>> /\ \A v \in Vendor : seen[v] \subseteq seen'[v]
<1>1. ASSUME \/ Begin \/ Conflict \/ CommitRefused \/ Mark \/ ReconcileRefused \/ Withhold
             \/ Crash \/ WriteFails \/ UNCHANGED vars
      PROVE  UNCHANGED <<durable, journal, seen>>
  BY <1>1 DEF Begin, Conflict, CommitRefused, Mark, ReconcileRefused, Withhold, Crash,
     WriteFails, vars, disk, world
<1>2. ASSUME Replay \/ Recover \/ Adopt
      PROVE  UNCHANGED <<durable, journal>> /\ \A v \in Vendor : seen[v] \subseteq seen'[v]
  BY <1>2 DEF Replay, Recover, Adopt, disk, TypeOK
<1>3. ASSUME NEW m \in {"first", "author", "turn", "retry", "final", "early", "last", "close"},
             Reconcile(m)
      PROVE  UNCHANGED <<durable, journal, seen>>
  BY <1>3 DEF Reconcile, disk, world
<1>4. ASSUME NEW v \in Vendor,
             \/ PendingProbeFails(v) \/ Rebase(v) \/ RemoveFile(v) \/ RemoveDir(v)
             \/ MakeDir(v) \/ CopyDurable(v) \/ RecordBaseline(v) \/ AuthProbe(v)
             \/ AuthFallsBack(v) \/ AuthFails(v) \/ SettleFails(v) \/ CliTurn(v) \/ UserLogin(v)
      PROVE  UNCHANGED <<durable, journal, seen>>
  BY <1>4 DEF PendingProbeFails, Rebase, RemoveFile, RemoveDir, MakeDir, CopyDurable,
     RecordBaseline, AuthProbe, AuthFallsBack, AuthFails, SettleFails, CliTurn, UserLogin,
     disk, world
<1>5. ASSUME NEW v \in Vendor,
             \/ PendingSupersede(v) \/ PendingSourceFails(v) \/ PendingProbe(v)
             \/ StageSource(v) \/ NoSource(v) \/ Settle(v)
      PROVE  /\ UNCHANGED <<durable, journal>>
             /\ UNCHANGED seen \/ \E G : Classify(v, G)
  BY <1>5 DEF PendingSupersede, PendingSourceFails, PendingProbe, StageSource, NoSource,
     Settle, disk
<1>6. ASSUME NEW v, NEW G, Classify(v, G)
      PROVE  \A u \in Vendor : seen[u] \subseteq seen'[u]
  BY <1>6 DEF Classify, TypeOK
<1> QED
  BY <1>1, <1>2, <1>3, <1>4, <1>5, <1>6 DEF Next, Step, Touches

LEMMA StayIsClassify ==
  ASSUME TypeOK', UNCHANGED CommittedPair, \A v \in Vendor : seen[v] \subseteq seen'[v]
  PROVE  Register!Next
BY DEF Register!Next, Register!Classify, TypeOK

\* Writing the journal moves the register to the classified candidates.
LEMMA CommitMoves ==
  ASSUME IInv, KeptInv, TypeOK', Commit PROVE Register!Next
<1>1. UNCHANGED <<durable, seen>>
  BY DEF Commit, disk, world
<1>2. CASE journal' = journal
  <2>1. UNCHANGED CommittedPair
    BY <1>1, <1>2 DEF CommittedPair, Pending
  <2> QED
    BY <1>1, <2>1, StayIsClassify
<1>3. CASE ~Pending /\ journal' = Intended
  <2>1. pc = "commit"
    BY DEF Commit
  <2>2. Pending'
    BY <1>3, <2>1, VendorIs, RunAssumption DEF Pending, Intended, IInv, Homes
  <2>3. CommittedPair' = [v \in Vendor |-> cand[v]] /\ CommittedPair = durable
    BY <1>3, <2>2 DEF CommittedPair, Intended
  <2>4. \A v \in Vendor : cand[v] \in Gen /\ cand[v] \in seen[v] /\ cand[v] = tx[v].cand
    BY <2>1 DEF IInv, Loaded, Pair, KeptInv, Classified, Matched
  <2>5. \A v \in Vendor : cand[v] # Absent
    BY <2>4, BoundAssumption DEF Gen, Absent
  <2>6. \A v \in Vendor : durable[v] <= cand[v]
    BY <2>4, <2>5 DEF KeptInv, Ahead
  <2>7. \A v \in Vendor : cand[v] >= durable[v]
    <3>1. \A v \in Vendor : cand[v] \in Int /\ durable[v] \in Int
      BY <2>4, BoundAssumption DEF IInv, TypeOK, Pair, Gen
    <3> QED
      BY <2>6, <3>1
  <2>8. CommittedPair' \in [Vendor -> Gen] /\ \A v \in Vendor : CommittedPair'[v] = cand[v]
    BY <2>3, <2>4
  <2> QED
    BY <1>1, <2>3, <2>4, <2>7, <2>8 DEF Register!Next, Register!Commit
<1> QED
  BY <1>2, <1>3 DEF Commit, disk

LEMMA InstallStays ==
  ASSUME IInv, TypeOK', NEW v \in Vendor, Install(v) PROVE Register!Next
<1>1. UNCHANGED <<journal, seen>> /\ Pending
  BY DEF Install, world, IInv, Progress
<1>2. UNCHANGED CommittedPair
  BY <1>1 DEF CommittedPair, Pending
<1> QED
  BY <1>1, <1>2, StayIsClassify

LEMMA UnlinkStays == ASSUME IInv, TypeOK', Unlink PROVE Register!Next
<1>1. UNCHANGED <<durable, seen>> /\ journal' = NoJournal
  BY DEF Unlink, world
<1>2. Pending /\ durable = journal.new
  BY DEF Unlink, IInv, Progress
<1>3. ~Pending'
  BY <1>1 DEF Pending, NoJournal
<1>4. UNCHANGED CommittedPair
  BY <1>1, <1>2, <1>3 DEF CommittedPair
<1> QED
  BY <1>1, <1>4, StayIsClassify

\* The whole store, with its crashes, failed writes, refreshes and logins, is one
\* register of a pair that moves in single steps to classified, never older
\* generations.
THEOREM ImplementsPairStore == Spec => IsPairStore
<1>1. Init => Register!Init
  <2> SUFFICES ASSUME Init PROVE Register!Init
    OBVIOUS
  <2>1. CommittedPair = [v \in Vendor |-> 0] /\ seen = [v \in Vendor |-> {0}]
    BY DEF Init, CommittedPair, Pending, NoJournal
  <2>2. 0 \in Gen
    BY BoundAssumption DEF Gen
  <2> QED
    BY <2>1, <2>2 DEF Register!Init
<1>2. (IInv /\ KeptInv) /\ (IInv /\ KeptInv)' /\ [Next]_vars =>
        [Register!Next]_<<CommittedPair, seen>>
  <2> SUFFICES ASSUME IInv, KeptInv, IInv', [Next]_vars PROVE Register!Next
    OBVIOUS
  <2>1. TypeOK /\ TypeOK'
    BY DEF IInv
  <2>2. CASE ~Touches
    <3>1. UNCHANGED <<durable, journal>> /\ \A v \in Vendor : seen[v] \subseteq seen'[v]
      BY <2>1, <2>2, OthersLearn
    <3>2. UNCHANGED CommittedPair
      BY <3>1 DEF CommittedPair, Pending
    <3> QED
      BY <2>1, <3>1, <3>2, StayIsClassify
  <2>3. CASE Touches
    BY <2>1, <2>3, CommitMoves, InstallStays, UnlinkStays DEF Touches
  <2> QED
    BY <2>2, <2>3
<1> QED
  BY <1>1, <1>2, KeptInvariance, PTL DEF Spec, IsPairStore, Register!Spec

-----------------------------------------------------------------------------
(***************************************************************************)
(* Crash recovery, as long as no write fails.                              *)
(***************************************************************************)
\* What a journal names is what the directories hold, as far as they are there.
Named ==
  Pending =>
    /\ pc \in {"idle", "replay", "install", "mark", "clean", "rebase", "unlink"}
    /\ \A v \in Vendor : /\ HasTx(v) => tx[v].run = journal.run
                         /\ tx[v].meta \in {journal.old[v], journal.new[v], Absent}
                         /\ tx[v].cand \in {journal.new[v], Absent}
    /\ (\E v \in Vendor : ~HasTx(v)) => marker = journal.new /\ durable = journal.new

\* Without one the baselines are those of the durable pair, and a candidate that is
\* not durable lies in one of two directories of the same run.
Based ==
  ~Pending =>
    /\ \A v \in Vendor : tx[v].meta \in {durable[v], Absent}
    /\ (\E v \in Vendor : tx[v].cand \notin {durable[v], Absent}) => Paired

\* Directories are made and removed one provider after the other, for one run.
Placed ==
  /\ pc \in Owning \cup {"commit"} => Paired
  /\ pc = "mkdir" => ~HasTx(who)
  /\ pc \in {"mkdir", "copy", "record"} =>
       IF who = "claude" THEN ~HasTx("codex") ELSE tx["claude"].run = run
  /\ pc \in {"copy", "record"} => tx[who].run = run
  /\ pc = "clean" /\ who = "codex" => tx["claude"] = NoTx
  /\ pc = "rebase" => mode # "recover"
  /\ pc = "rebase" /\ who = "codex" => tx["claude"].meta = journal.new["claude"]
  /\ pc = "unlink" => \A v \in Vendor : tx[v].meta \in {journal.new[v], Absent}
  /\ pc = "unlink" /\ mode = "recover" => \A v \in Vendor : ~HasTx(v)

\* All of it until a write fails.
Orderly == faults.write = 0 => Named /\ Based /\ Placed

LEMMA InitOrderly == Init => Orderly
BY VendorIs DEF Init, Orderly, Named, Based, Placed, Owning, Pending, NoJournal, NoTx, HasTx

\* A step that writes nothing to disk only has to say where it leads.
LEMMA CalmOrderly ==
  ASSUME Orderly, UNCHANGED disk, faults'.write = 0 => faults.write = 0,
         Pending => pc' \in {"idle", "replay", "install", "mark", "clean", "rebase", "unlink"},
         Placed'
  PROVE  Orderly'
BY DEF Orderly, Named, Based, Pending, HasTx, Paired, disk

LEMMA BeginOrderly == ASSUME IInv, Orderly, Begin PROVE Orderly'
<1>1. /\ UNCHANGED disk /\ UNCHANGED faults /\ pc' \in {"replay", "recover"}
      /\ (Pending => pc' = "replay")
  BY DEF Begin, Goto
<1>2. Placed'
  BY <1>1 DEF Placed, Owning
<1> QED
  BY <1>1, <1>2, CalmOrderly

LEMMA CloseOrderly ==
  ASSUME Orderly, UNCHANGED disk, faults'.write = 0 => faults.write = 0, Close
  PROVE  Orderly'
<1>1. pc' = "idle"
  BY DEF Close, Goto
<1>2. Placed'
  BY <1>1 DEF Placed, Owning
<1> QED
  BY <1>1, <1>2, CalmOrderly

LEMMA ReplayOrderly == ASSUME IInv, Orderly, Replay PROVE Orderly'
<1>1. UNCHANGED disk /\ UNCHANGED faults /\ pc' = "install"
  BY DEF Replay, Goto
<1>2. Placed'
  BY <1>1 DEF Placed, Owning
<1> QED
  BY <1>1, <1>2, CalmOrderly

LEMMA RecoverOrderly == ASSUME IInv, Orderly, Recover PROVE Orderly'
<1>1. /\ UNCHANGED disk /\ UNCHANGED faults
      /\ \/ pc' = "pending" /\ Paired
         \/ pc' = "clean" /\ who' = "claude"
  BY DEF Recover, Goto, RecoverAdmissible
<1>2. pc' \in {"pending", "clean"}
  BY <1>1
<1>3. ~Pending
  BY DEF Recover, IInv, Progress, MayPend
<1>4. Placed'
  BY <1>1, <1>2 DEF Placed, Owning, Paired, HasTx, disk
<1> QED
  BY <1>1, <1>3, <1>4, CalmOrderly

LEMMA CommitRefusedOrderly == ASSUME IInv, Orderly, CommitRefused PROVE Orderly'
<1>1. faults.write # 0 /\ UNCHANGED faults
  BY DEF CommitRefused, Orderly, Named
<1> QED
  BY <1>1 DEF Orderly

LEMMA WriteFailsOrderly == ASSUME IInv, WriteFails PROVE Orderly'
<1>1. faults.write \in Nat /\ faults'.write = faults.write + 1
  BY BoundAssumption DEF WriteFails, IInv, TypeOK
<1>2. faults'.write # 0
  BY <1>1
<1> QED
  BY <1>2 DEF Orderly

LEMMA CrashOrderly == ASSUME IInv, Orderly, Crash PROVE Orderly'
<1>1. faults'.write = faults.write
  BY DEF Crash, IInv, TypeOK
<1> QED
  BY <1>1, CloseOrderly DEF Crash

LEMMA CommitOrderly == ASSUME IInv, KeptInv, Orderly, Commit PROVE Orderly'
<1> SUFFICES ASSUME faults'.write = 0 PROVE Named' /\ Based' /\ Placed'
  BY DEF Orderly
<1>1. pc = "commit" /\ UNCHANGED faults /\ Named /\ Based /\ Placed
  BY DEF Commit, Orderly
<1>2. ~Pending /\ Paired
  BY <1>1 DEF Named, Placed
<1>3. CASE UNCHANGED disk /\ Goto("clean", "claude", "drop")
  <2>1. pc' = "clean" /\ who' = "claude" /\ ~Pending'
    BY <1>2, <1>3 DEF Goto, disk, Pending
  <2>2. Placed'
    BY <2>1 DEF Placed, Owning
  <2> QED
    BY <1>1, <1>3, <2>1, <2>2, CalmOrderly DEF Orderly
<1>4. CASE journal' = Intended /\ Goto("install", "claude", mode) /\ UNCHANGED <<durable, marker, tx, mem>>
  <2>1. /\ pc' = "install"
        /\ journal'.run = tx["claude"].run /\ journal'.old = durable
        /\ \A v \in Vendor : journal'.new[v] = cand[v]
    BY <1>4 DEF Goto, Intended
  <2>2. \A v \in Vendor : cand[v] = tx[v].cand /\ HasTx(v) /\ tx[v].run = tx["claude"].run
    BY <1>1, <1>2, VendorIs DEF KeptInv, Matched, Paired
  <2>3. Named'
    BY <1>1, <1>2, <1>4, <2>1, <2>2 DEF Named, Based, HasTx
  <2>4. Placed'
    BY <2>1 DEF Placed, Owning
  <2>5. Pending'
    BY <2>1, <2>2, VendorIs DEF Pending, HasTx
  <2>6. Based'
    BY <2>5 DEF Based
  <2> QED
    BY <2>3, <2>4, <2>6
<1> QED
  BY <1>3, <1>4 DEF Commit

LEMMA InstallOrderly ==
  ASSUME IInv, Orderly, NEW v \in Vendor, Install(v) PROVE Orderly'
<1> SUFFICES ASSUME faults'.write = 0 PROVE Named' /\ Based' /\ Placed'
  BY DEF Orderly
<1>1. /\ pc = "install" /\ UNCHANGED <<marker, journal, tx, faults>> /\ pc' \in {"install", "mark"}
      /\ durable' = [durable EXCEPT ![v] = journal.new[v]] /\ Named
  BY DEF Install, Goto, Orderly
<1>2. Pending /\ Pending'
  BY <1>1 DEF IInv, Progress, Pending
<1>3. durable = journal.new => durable' = journal.new
  BY <1>1 DEF IInv, TypeOK, Pair
<1> QED
  BY <1>1, <1>2, <1>3 DEF Named, Based, Placed, Owning, HasTx

LEMMA MarkOrderly == ASSUME IInv, Orderly, Mark PROVE Orderly'
<1> SUFFICES ASSUME faults'.write = 0 PROVE Named' /\ Based' /\ Placed'
  BY DEF Orderly
<1>1. /\ pc = "mark" /\ UNCHANGED <<durable, journal, tx, faults>> /\ marker' = journal.new
      /\ pc' \in {"clean", "rebase"} /\ who' = "claude" /\ Named
      /\ pc' = "rebase" => mode' # "recover"
  BY DEF Mark, Goto, Orderly
<1>2. Pending /\ Pending' /\ durable' = journal.new
  BY <1>1 DEF IInv, Progress, Pending
<1> QED
  BY <1>1, <1>2 DEF Named, Based, Placed, Owning, HasTx

LEMMA RebaseOrderly == ASSUME IInv, Orderly, NEW v \in Vendor, Rebase(v) PROVE Orderly'
<1> SUFFICES ASSUME faults'.write = 0 PROVE Named' /\ Based' /\ Placed'
  BY DEF Orderly
<1>1. /\ pc = "rebase" /\ who = v /\ UNCHANGED <<durable, marker, journal, faults>>
      /\ tx' = [tx EXCEPT ![v].meta = journal.new[v]] /\ Named /\ Placed
      /\ IF v = "claude" THEN pc' = "rebase" /\ who' = "codex" ELSE pc' = "unlink"
      /\ mode' = mode
  BY DEF Rebase, Goto, Orderly
<1>2. Pending /\ Pending' /\ mode # "recover"
  BY <1>1 DEF IInv, Progress, Pending, Placed
<1>3. \A u \in Vendor : /\ tx'[u].run = tx[u].run /\ tx'[u].cand = tx[u].cand
                        /\ u # v => tx'[u].meta = tx[u].meta
                        /\ u = v => tx'[u].meta = journal.new[v]
  BY <1>1 DEF IInv, TypeOK, Tx
<1>4. Named'
  BY <1>1, <1>2, <1>3 DEF Named, HasTx
<1>5. Placed'
  BY <1>1, <1>2, <1>3, VendorIs DEF Placed, Owning
<1> QED
  BY <1>2, <1>4, <1>5 DEF Based

LEMMA UnlinkOrderly == ASSUME IInv, KeptInv, Orderly, Unlink PROVE Orderly'
<1> SUFFICES ASSUME faults'.write = 0 PROVE Named' /\ Based' /\ Placed'
  BY DEF Orderly
<1>1. /\ pc = "unlink" /\ UNCHANGED <<durable, marker, tx, faults>> /\ journal' = NoJournal
      /\ Named /\ Placed
  BY DEF Unlink, Orderly
<1>2. Pending /\ ~Pending' /\ durable = journal.new
  BY <1>1 DEF IInv, Progress, Pending, NoJournal
<1>3. Named' /\ Based'
  BY <1>1, <1>2 DEF Named, Based, Placed
<1>4. CASE mode = "recover" /\ pc' = "mkdir"
  BY <1>1, <1>3, <1>4, VendorIs DEF Placed, Owning, HasTx, Unlink, Goto
<1>5. CASE pc' \in {"idle", "recover", "finalize"}
  BY <1>3, <1>5 DEF Placed, Owning
<1>6. CASE mode \in Live
  <2>1. Paired'
    BY <1>1, <1>2, <1>6, RunAssumption, VendorIs
       DEF Named, IInv, Homes, Moving, Paired, HasTx
  <2>2. pc' \in {"idle", "starting", "running", "ending", "finalize"}
    BY <1>6 DEF Unlink, Live, Goto, Close
  <2> QED
    BY <1>3, <2>1, <2>2 DEF Placed, Owning
<1> QED
  BY <1>3, <1>4, <1>5, <1>6 DEF Unlink, Goto, Close, Live

\* Without a journal only the candidates move, in two directories of one run.
LEMMA ProbedOrderly ==
  ASSUME IInv, Orderly, ~Pending, Paired, UNCHANGED <<durable, marker, journal, faults>>,
         \A v \in Vendor : tx'[v].run = tx[v].run /\ tx'[v].meta = tx[v].meta,
         \/ pc' \in Owning \cup {"commit", "idle"}
         \/ pc' = "running"
  PROVE  Orderly'
<1>1. Paired' /\ ~Pending'
  BY VendorIs DEF Paired, HasTx, Pending
<1> QED
  BY <1>1, VendorIs DEF Orderly, Named, Based, Placed, Owning

\* The steps that own both directories hold no journal.
LEMMA OwningOrderly ==
  ASSUME Orderly, faults.write = 0, pc \in Owning \cup {"commit"} PROVE ~Pending /\ Paired
BY DEF Orderly, Named, Placed, Owning

LEMMA PutKeeps ==
  ASSUME IInv, NEW v \in Vendor, NEW g, PutCandidate(v, g)
  PROVE  \A u \in Vendor : tx'[u].run = tx[u].run /\ tx'[u].meta = tx[u].meta
BY DEF PutCandidate, IInv, TypeOK, Tx

LEMMA OwnerOrderly ==
  ASSUME IInv, Orderly, NEW v \in Vendor,
         \/ PendingSupersede(v) \/ PendingSourceFails(v) \/ PendingProbe(v) \/ PendingProbeFails(v)
         \/ StageSource(v) \/ NoSource(v) \/ AuthProbe(v) \/ AuthFallsBack(v) \/ AuthFails(v)
         \/ Settle(v) \/ SettleFails(v) \/ CliTurn(v)
  PROVE  Orderly'
<1> SUFFICES ASSUME faults'.write = 0 PROVE Orderly'
  BY DEF Orderly
<1>1. pc \in Owning /\ UNCHANGED <<durable, marker, journal, faults>>
  BY DEF PendingSupersede, PendingSourceFails, PendingProbe, PendingProbeFails, StageSource,
     NoSource, AuthProbe, AuthFallsBack, AuthFails, Settle, SettleFails, CliTurn, Owning, disk
<1>2. ~Pending /\ Paired
  BY <1>1, OwningOrderly
<1>3. UNCHANGED tx \/ \E g : PutCandidate(v, g)
  BY DEF PendingSupersede, PendingSourceFails, PendingProbe, PendingProbeFails, StageSource,
     NoSource, AuthProbe, AuthFallsBack, AuthFails, Settle, SettleFails, CliTurn, disk
<1>4. pc' \in Owning \cup {"commit", "idle"}
  BY DEF PendingSupersede, PendingSourceFails, PendingProbe, PendingProbeFails, StageSource,
     NoSource, AuthProbe, AuthFallsBack, AuthFails, Settle, SettleFails, CliTurn, Owning, Goto,
     AfterPending, AfterSource, AfterSettle, Close, GiveUp, ctl
<1> QED
  BY <1>1, <1>2, <1>3, <1>4, PutKeeps, ProbedOrderly

LEMMA AdoptOrderly == ASSUME IInv, Orderly, Adopt PROVE Orderly'
<1>1. UNCHANGED disk /\ UNCHANGED faults /\ pc = "adopt" /\ pc' \in {"starting", "commit"}
  BY DEF Adopt, Goto
<1> SUFFICES ASSUME faults'.write = 0 PROVE Orderly'
  BY DEF Orderly
<1> QED
  BY <1>1, OwningOrderly, ProbedOrderly DEF Owning, disk

LEMMA ReconcileOrderly ==
  ASSUME IInv, Orderly,
         NEW m \in {"first", "author", "turn", "retry", "final", "early", "last", "close"},
         Reconcile(m)
  PROVE  Orderly'
<1>1. /\ UNCHANGED disk /\ UNCHANGED faults /\ pc \in Owning
      /\ pc' \in {"settle", "running", "starting", "ending", "finalize", "idle"}
  BY DEF Reconcile, Goto, Close, Owning, ctl
<1>2. CASE pc' # "finalize"
  <2> SUFFICES ASSUME faults'.write = 0 PROVE Orderly'
    BY DEF Orderly
  <2> QED
    BY <1>1, <1>2, OwningOrderly, ProbedOrderly DEF Owning, disk
<1>3. CASE pc' = "finalize"
  <2>1. Placed'
    BY <1>3 DEF Placed, Owning
  <2> SUFFICES ASSUME faults'.write = 0 PROVE Orderly'
    BY DEF Orderly
  <2> QED
    BY <1>1, <2>1, CalmOrderly, OwningOrderly
<1> QED
  BY <1>2, <1>3

LEMMA WithholdOrderly == ASSUME IInv, Orderly, Withhold PROVE Orderly'
<1> SUFFICES ASSUME faults'.write = 0 PROVE Orderly'
  BY DEF Orderly
<1> QED
  BY OwningOrderly, ProbedOrderly DEF Withhold, Goto, Owning, disk

LEMMA RemoveFileOrderly ==
  ASSUME IInv, Orderly, NEW v \in Vendor, RemoveFile(v) PROVE Orderly'
<1> SUFFICES ASSUME faults'.write = 0 PROVE Named' /\ Based' /\ Placed'
  BY DEF Orderly
<1>1. /\ UNCHANGED <<durable, marker, journal, faults, pc, who, mode, run>>
      /\ pc \in {"clean", "finalize"} /\ who = v /\ Named /\ Based /\ Placed
  BY DEF RemoveFile, Orderly, ctl, mem, Removing
<1>2. \A u \in Vendor : /\ tx'[u].run = tx[u].run
                        /\ tx'[u].meta \in {tx[u].meta, Absent}
                        /\ tx'[u].cand \in {tx[u].cand, Absent}
                        /\ u # v => tx'[u] = tx[u]
  BY DEF RemoveFile, IInv, TypeOK, Tx
<1>3. Paired => Paired'
  BY <1>2, VendorIs DEF Paired, HasTx
<1> QED
  BY <1>1, <1>2, <1>3, VendorIs DEF Named, Based, Placed, Owning, HasTx, Pending

LEMMA RemoveDirOrderly ==
  ASSUME IInv, KeptInv, Orderly, NEW v \in Vendor, RemoveDir(v) PROVE Orderly'
<1> SUFFICES ASSUME faults'.write = 0 PROVE Named' /\ Based' /\ Placed'
  BY DEF Orderly
<1>1. /\ UNCHANGED <<durable, marker, journal, faults>> /\ tx' = [tx EXCEPT ![v] = NoTx]
      /\ pc \in {"clean", "finalize"} /\ who = v /\ Named /\ Based /\ Placed
  BY DEF RemoveDir, Orderly, Removing
<1>2. \A u \in Vendor : /\ u = v => /\ ~HasTx(u)' /\ tx'[u] = NoTx
                                     /\ tx'[u].meta = Absent /\ tx'[u].cand = Absent
                        /\ u # v => tx'[u] = tx[u]
  BY <1>1 DEF IInv, TypeOK, HasTx, NoTx
<1>3. Pending => pc = "clean" /\ mode # "drop"
  BY <1>1 DEF Named, IInv, Progress
<1>4. Named'
  BY <1>1, <1>2, <1>3 DEF Named, Pending, HasTx, IInv, Progress, RemoveDir, Goto
<1>5. \A u \in Vendor : tx[u].cand \in {durable[u], Absent}
  BY <1>1 DEF KeptInv, Matched
<1>6. Based'
  BY <1>1, <1>2, <1>5 DEF Based, Pending
<1>7. CASE pc = "clean" /\ v = "claude"
  <2>1. pc' = "clean" /\ who' = "codex"
    BY <1>7 DEF RemoveDir, Goto
  <2>2. Placed'
    BY <1>1, <1>2, <1>7, <2>1 DEF Placed, Owning
  <2> QED
    BY <1>4, <1>6, <2>2
<1>8. CASE pc = "clean" /\ v = "codex"
  <2>1. \A u \in Vendor : ~HasTx(u)' /\ tx'[u].meta = Absent
    BY <1>1, <1>2, <1>8, VendorIs DEF Placed, HasTx, NoTx
  <2>2. who' = "claude" /\ (pc' = "mkdir" \/ (pc' = "unlink" /\ mode # "drop"))
    BY <1>8 DEF RemoveDir, Goto
  <2>3. Placed'
    BY <2>1, <2>2, VendorIs DEF Placed, Owning
  <2> QED
    BY <1>4, <1>6, <2>3
<1>9. CASE pc = "finalize"
  <2>1. pc' \in {"finalize", "idle"}
    BY <1>9 DEF RemoveDir, Goto, Close
  <2>2. Placed'
    BY <2>1 DEF Placed, Owning
  <2> QED
    BY <1>4, <1>6, <2>2
<1> QED
  BY <1>1, <1>7, <1>8, <1>9, VendorIs

LEMMA MakeDirOrderly ==
  ASSUME IInv, KeptInv, Orderly, NEW v \in Vendor, MakeDir(v) PROVE Orderly'
<1> SUFFICES ASSUME faults'.write = 0 PROVE Named' /\ Based' /\ Placed'
  BY DEF Orderly
<1>1. /\ UNCHANGED <<durable, marker, journal, faults, run>> /\ tx' = [tx EXCEPT ![v].run = run]
      /\ pc = "mkdir" /\ who = v /\ pc' = "copy" /\ who' = v /\ ~HasTx(v) /\ Named /\ Based /\ Placed
  BY DEF MakeDir, Orderly, mem, Goto
<1>2. ~Pending /\ ~Pending'
  BY <1>1 DEF Named, Pending
<1>3. \A u \in Vendor : /\ u = v => tx'[u].run = run
                        /\ tx'[u].meta = tx[u].meta /\ tx'[u].cand = tx[u].cand
                        /\ u # v => tx'[u] = tx[u]
  BY <1>1 DEF IInv, TypeOK, Tx
<1>4. Based'
  <2>1. \A u \in Vendor : tx[u].cand \notin {durable[u], Absent} => FALSE
    BY <1>1, <1>2, VendorIs DEF Based, Paired, HasTx
  <2> QED
    BY <1>1, <1>2, <1>3, <2>1 DEF Based
<1>5. Placed'
  BY <1>1, <1>3, VendorIs DEF Placed, Owning, HasTx
<1> QED
  BY <1>2, <1>4, <1>5 DEF Named

LEMMA SeedOrderly ==
  ASSUME IInv, KeptInv, Orderly, NEW v \in Vendor, CopyDurable(v) \/ RecordBaseline(v)
  PROVE  Orderly'
<1> SUFFICES ASSUME faults'.write = 0 PROVE Named' /\ Based' /\ Placed'
  BY DEF Orderly
<1>1. /\ UNCHANGED <<durable, marker, journal, faults, run>>
      /\ \/ tx' = [tx EXCEPT ![v].cand = durable[v]]
         \/ tx' = [tx EXCEPT ![v].meta = durable[v]]
      /\ pc \in {"copy", "record"} /\ who = v /\ Named /\ Based /\ Placed
  BY DEF CopyDurable, RecordBaseline, PutCandidate, Orderly, mem, Goto
<1>2. ~Pending /\ ~Pending'
  BY <1>1 DEF Named, Pending
<1>3. \A u \in Vendor : /\ tx'[u].run = tx[u].run
                        /\ tx'[u].meta \in {tx[u].meta, durable[u]}
                        /\ tx'[u].cand \in {tx[u].cand, durable[u]}
  <2>1. tx \in [Vendor -> Tx]
    BY DEF IInv, TypeOK
  <2>2. CASE tx' = [tx EXCEPT ![v].cand = durable[v]]
    BY <2>1, <2>2 DEF Tx
  <2>3. CASE tx' = [tx EXCEPT ![v].meta = durable[v]]
    BY <2>1, <2>3 DEF Tx
  <2> QED
    BY <1>1, <2>2, <2>3
<1>4. Paired => Paired'
  BY <1>3, VendorIs DEF Paired, HasTx
<1>5. Based'
  BY <1>1, <1>2, <1>3, <1>4 DEF Based
<1>6. Placed'
  <2>1. CASE v = "claude" /\ pc' = "mkdir"
    BY <1>1, <1>3, <2>1, VendorIs DEF Placed, Owning, HasTx, CopyDurable, RecordBaseline, Goto
  <2>2. CASE pc' = "record"
    BY <1>1, <1>3, <2>2, VendorIs DEF Placed, Owning, HasTx, CopyDurable, RecordBaseline, Goto
  <2>3. CASE v = "codex" /\ pc' = "source"
    <3>1. tx["claude"].run = run /\ tx["codex"].run = run /\ run \in Run
      BY <1>1, <2>3 DEF Placed, IInv, Homes
    <3>2. Paired'
      BY <1>3, <3>1, VendorIs, RunAssumption DEF Paired, HasTx
    <3> QED
      BY <2>3, <3>2 DEF Placed, Owning
  <2> QED
    BY <2>1, <2>2, <2>3, VendorIs, <1>1 DEF CopyDurable, RecordBaseline, Goto
<1> QED
  BY <1>2, <1>5, <1>6 DEF Named

LEMMA LoginOrderly == ASSUME Orderly, NEW v \in Vendor, UserLogin(v) PROVE Orderly'
BY DEF UserLogin, Orderly, Named, Based, Placed, Owning, Pending, Paired, HasTx, disk, ctl, mem

LEMMA StutterOrderly == Orderly /\ UNCHANGED vars => Orderly'
BY DEF vars, Orderly, Named, Based, Placed, Owning, Pending, Paired, HasTx, disk, ctl, mem

LEMMA StepOrderly == IInv /\ KeptInv /\ Orderly /\ [Next]_vars => Orderly'
<1> SUFFICES ASSUME IInv, KeptInv, Orderly, [Next]_vars PROVE Orderly'
  OBVIOUS
<1>1. ASSUME Step PROVE Orderly'
  <2>1. CASE Begin
    BY <2>1, BeginOrderly
  <2>2. CASE Conflict
    BY <2>2, CloseOrderly DEF Conflict
  <2>3. CASE Replay
    BY <2>3, ReplayOrderly
  <2>4. CASE Recover
    BY <2>4, RecoverOrderly
  <2>5. CASE Commit
    BY <2>5, CommitOrderly
  <2>6. CASE CommitRefused
    BY <2>6, CommitRefusedOrderly
  <2>7. CASE Mark
    BY <2>7, MarkOrderly
  <2>8. CASE Unlink
    BY <2>8, UnlinkOrderly
  <2>9. CASE Adopt
    BY <2>9, AdoptOrderly
  <2>10. CASE ReconcileRefused
    BY <2>10, CloseOrderly DEF ReconcileRefused
  <2>11. CASE Withhold
    BY <2>11, WithholdOrderly
  <2>12. ASSUME NEW m \in {"first", "author", "turn", "retry", "final", "early",
                           "last", "close"},
                Reconcile(m)
         PROVE  Orderly'
    BY <2>12, ReconcileOrderly
  <2>13. ASSUME NEW v \in Vendor,
                 \/ PendingSupersede(v) \/ PendingSourceFails(v) \/ PendingProbe(v)
                 \/ PendingProbeFails(v) \/ Install(v) \/ Rebase(v)
                 \/ RemoveFile(v) \/ RemoveDir(v) \/ MakeDir(v)
                 \/ CopyDurable(v) \/ RecordBaseline(v) \/ StageSource(v)
                 \/ NoSource(v) \/ AuthProbe(v) \/ AuthFallsBack(v)
                 \/ AuthFails(v) \/ Settle(v) \/ SettleFails(v)
       PROVE  Orderly'
    BY <2>13, OwnerOrderly, InstallOrderly, RebaseOrderly, RemoveFileOrderly, RemoveDirOrderly,
       MakeDirOrderly, SeedOrderly
  <2> QED
    BY <1>1, <2>1, <2>2, <2>3, <2>4, <2>5, <2>6, <2>7, <2>8, <2>9, <2>10, <2>11, <2>12,
       <2>13
       DEF Step
<1>2. CASE Crash
  BY <1>2, CrashOrderly
<1>3. CASE WriteFails
  BY <1>3, WriteFailsOrderly
<1>4. ASSUME NEW v \in Vendor, CliTurn(v) \/ UserLogin(v) PROVE Orderly'
  BY <1>4, OwnerOrderly, LoginOrderly
<1>5. CASE UNCHANGED vars
  BY <1>5, StutterOrderly
<1> QED
  BY <1>1, <1>2, <1>3, <1>4, <1>5 DEF Next


\* Whatever crashed in between, as long as no write failed and no directory was left
\* torn, auth status calls the store ready or says that it will be recovered, and
\* the next run gets past every structural check.
THEOREM CrashAlwaysRecoverable == Spec => []CrashRecoverable
<1>1. Init => IInv /\ KeptInv /\ Orderly
  BY InitIInv, InitKept, InitOrderly
<1>2. (IInv /\ KeptInv /\ Orderly) /\ [Next]_vars => (IInv /\ KeptInv /\ Orderly)'
  BY StepIInv, StepKept, StepOrderly
<1>3. IInv /\ KeptInv /\ Orderly => CrashRecoverable
  <2> SUFFICES ASSUME IInv, Named, Based, pc = "idle", \A v \in Vendor : ~Torn(v)
               PROVE  PairStatus \in {"ready", "recovery_pending"} /\ Admissible
    BY DEF CrashRecoverable, Orderly
  <2>1. \A v \in Vendor : HasTx(v) => tx[v].meta # Absent /\ tx[v].cand # Absent
    BY DEF Torn
  <2>2. CASE Pending
    <3>1. JournalAdmissible
      BY <2>1, <2>2 DEF Named, JournalAdmissible, IInv, NeverHalfUpdated
    <3> QED
      BY <2>2, <3>1 DEF PairStatus, Admissible
  <2>3. CASE ~Pending
    <3>1. marker = durable
      BY <2>3 DEF IInv, NeverHalfUpdated
    <3>2. RecoverAdmissible
      BY <2>1, <2>3, <3>1 DEF Based, RecoverAdmissible, PendingReadable, Changed
    <3> QED
      BY <2>3, <3>1, <3>2 DEF PairStatus, Admissible
  <2> QED
    BY <2>2, <2>3
<1> QED
  BY <1>1, <1>2, <1>3, PTL DEF Spec

-----------------------------------------------------------------------------
(***************************************************************************)
(* How the pair comes to exist: DefaultPair, the other component that      *)
(* writes the same profile.                                                *)
(***************************************************************************)
-----------------------------------------------------------------------------
\* The inductive invariant.

Rolling == {"unmark", "restore", "remark", "sweep", "cleanup"}
Doing == {"lock", "check", "write", "mark"}

\* A vendor's login is where its directory is, and a run that crashed left both.
Housed ==
  /\ \A v \in Vendor : file[v] # Absent => tree[v]
  /\ \A v \in Vendor : before.file[v] # Absent => before.tree[v]
  /\ pending # "none" => \A v \in Vendor : tree[v]

\* Every pair that a marker, a journal or a rollback can name was paired.
Known ==
  /\ {marker, target, old.marker, before.marker} \subseteq paired \cup {NoPair}
  /\ pending = "journal" => target # NoPair

\* How far the call got, and what it has read by then.
Reading ==
  /\ pc = "idle" <=> op = "none"
  /\ pc = "source" /\ who = "claude" => data["codex"] \in Gen
  /\ pc \in Doing => data \in Pairs
  /\ pc = "lock" /\ who = "codex" => tree["claude"]
  /\ pc \in {"check", "write", "mark", "restore", "remark"} => \A v \in Vendor : tree[v]
  /\ pc = "unmark" => op = "enroll"
  /\ pc \in {"restore", "remark", "cleanup"} => op = "repair"
  /\ hurt <= faults

\* What the call took, and what it has left alone.
Taken ==
  pc # "idle" =>
    /\ pending = before.pending /\ target = before.target
    /\ pc \in {"look", "source"} => Now = before
    /\ pc # "look" => before.pending = "none"
    /\ pc # "look" /\ op = "repair" => had = before.tree
    /\ pc # "look" /\ op = "enroll" =>
         /\ undo
         /\ before.file = NoPair /\ before.marker = NoPair
         /\ \A v \in Vendor : ~before.tree[v]
    /\ pc \in {"look", "source"} \cup Doing => hurt = 0
    /\ pc \in {"lock", "check"} => file = before.file
    /\ pc \in Doing => marker = before.marker /\ \A v \in Vendor : before.tree[v] => tree[v]
    /\ pc \in {"write", "mark", "restore", "remark"} =>
         old = [file |-> before.file, marker |-> before.marker]

\* What one failed step leaves to be undone.
Undone(v) == tree[v] = before.tree[v] /\ file[v] = before.file[v]
Whole(v) == before.tree[v] => Undone(v)

Unwinding ==
  /\ pc \in Rolling /\ hurt = 0 => Now = before
  /\ pc \in Rolling /\ hurt = 1 =>
       /\ pc = "restore" /\ who = "claude" => file["codex"] = before.file["codex"]
       /\ pc = "remark" => file = before.file
       /\ pc \in {"sweep", "cleanup"} =>
            /\ marker = before.marker
            /\ \A v \in Vendor : Whole(v)
            /\ who = "claude" => Undone("codex")

DefaultSafe == Housed /\ Known /\ Reading /\ Taken /\ Unwinding
DefaultInv == ProfileTypeOK /\ DefaultSafe

-----------------------------------------------------------------------------
\* Types.
LEMMA Blank == NoPair \in Drafts /\ [file |-> NoPair, marker |-> NoPair] \in Saved
BY DEF NoPair, Drafts, Saved, Absent, Gen

\* What belongs to the call, and what does not.
CallTyped ==
  /\ data \in Drafts /\ op \in {"none", "enroll", "repair"}
  /\ pc \in Steps /\ who \in Vendor
  /\ had \in [Vendor -> BOOLEAN] /\ old \in Saved /\ undo \in BOOLEAN
  /\ result \in Results
StoreTyped ==
  /\ tree \in [Vendor -> BOOLEAN] /\ file \in Drafts
  /\ marker \in Pairs \cup {NoPair} /\ target \in Pairs \cup {NoPair}
  /\ pending \in {"none", "directories", "journal"}
CountTyped == hurt \in 0 .. MaxFault /\ faults \in 0 .. MaxFault /\ paired \subseteq Pairs

LEMMA Typed ==
  /\ ProfileTypeOK <=> /\ CallTyped /\ StoreTyped /\ CountTyped
                       /\ before \in Store /\ standard \in Drafts
  /\ ProfileTypeOK' <=> /\ CallTyped' /\ StoreTyped' /\ CountTyped'
                        /\ before' \in Store /\ standard' \in Drafts
BY DEF ProfileTypeOK, CallTyped, StoreTyped, CountTyped, Now, Store

\* Each way a step of the call ends leaves the call's own memory typed.
LEMMA GotoTyped ==
  ASSUME CallTyped, NEW step \in Steps, NEW v \in Vendor, GoOn(step, v), Keep
  PROVE  CallTyped'
BY DEF CallTyped, GoOn, Keep

LEMMA EndTyped ==
  ASSUME NEW r \in Results, End(r)
  PROVE  CallTyped'
<1>1. had' \in [Vendor -> BOOLEAN]
  BY DEF End
<1>2. data' \in Drafts /\ old' \in Saved
  BY Blank DEF End
<1> QED
  BY <1>1, <1>2, VendorIs DEF CallTyped, End, GoOn, Steps

LEMMA UnwindTyped ==
  ASSUME CallTyped, Unwind
  PROVE  CallTyped'
<1>1. \/ \E step \in Steps : GoOn(step, "codex") /\ Keep
      \/ End("failed")
  BY DEF Unwind, Steps
<1> QED
  BY <1>1, GotoTyped, EndTyped, VendorIs DEF Results

\* What a step of a call does to the store; the last is half of a tree's removal.
Effect ==
  \/ Silent
  \/ \E v \in Vendor, g \in Gen \cup {Absent} : PutFile(v, g)
  \/ \E m \in Pairs \cup {NoPair} : PutMarker(m)
  \/ \E v \in Vendor : MakeTree(v)
  \/ /\ \E v \in Vendor : tree' = [tree EXCEPT ![v] = FALSE]
     /\ UNCHANGED <<file, marker, pending, target>>

LEMMA EffectTyped ==
  ASSUME StoreTyped, Effect PROVE StoreTyped'
BY DEF Effect, StoreTyped, Silent, PutFile, PutMarker, MakeTree, stored, Drafts

\* A failed step is counted twice: for the behaviour and for the call.
LEMMA FaultTyped ==
  ASSUME CountTyped, hurt <= faults, Fault, paired' \subseteq Pairs PROVE CountTyped'
BY BoundAssumption DEF CountTyped, Fault

\* A step of a call, as a whole.
LEMMA StepTyped ==
  ASSUME ProfileTypeOK, hurt <= faults, Effect, UNCHANGED <<standard, before>>,
         UNCHANGED <<hurt, faults>> \/ Fault, paired' \subseteq Pairs,
         \/ \E step \in Steps, v \in Vendor : GoOn(step, v) /\ Keep
         \/ \E r \in Results : End(r)
         \/ Unwind
  PROVE  ProfileTypeOK'
<1>1. CallTyped'
  BY Typed, GotoTyped, EndTyped, UnwindTyped
<1>2. StoreTyped'
  BY Typed, EffectTyped
<1>3. CountTyped'
  BY Typed, FaultTyped DEF CountTyped
<1> QED
  BY <1>1, <1>2, <1>3, Typed

\* The pairs written are pairs: both logins were read before anything is written.
LEMMA DefaultTypes ==
  ASSUME ProfileTypeOK, Reading, [ProfileNext]_(profileVars)
  PROVE  ProfileTypeOK'
<1>0. hurt <= faults
  BY DEF Reading
<1>1. CASE Enroll \/ Repair \/ Check \/ (\E v \in Vendor : Source(v))
  <2>1. Effect /\ UNCHANGED <<standard, before, hurt, faults, paired>>
    BY <1>1 DEF Enroll, Repair, Check, Source, Effect, Silent
  <2>2. CallTyped'
    <3>1. CASE Enroll \/ Repair
      BY <3>1, Typed, EndTyped, VendorIs DEF Enroll, Repair, GoOn, CallTyped,
         StoreTyped, Steps, Results
    <3>2. CASE Check
      BY <3>2, Typed, UnwindTyped, VendorIs DEF Check, GoOn, CallTyped, StoreTyped,
         Steps, Saved
    <3>3. CASE \E v \in Vendor : Source(v)
      BY <3>3, Typed, UnwindTyped, VendorIs DEF Source, GoOn, CallTyped, Steps,
         Drafts
    <3> QED
      BY <1>1, <3>1, <3>2, <3>3
  <2> QED
    BY <2>1, <2>2, Typed, EffectTyped DEF CountTyped
<1>2. CASE WriteMarker \/ (\E v \in Vendor : Lock(v) \/ Write(v))
  <2>1. Effect /\ UNCHANGED <<standard, before>>
    BY <1>2, Typed, VendorIs DEF WriteMarker, Lock, Write, Attempt, Effect, Reading,
       Doing, Silent, Pairs
  <2>2. UNCHANGED <<hurt, faults>> \/ Fault
    BY <1>2 DEF WriteMarker, Lock, Write, Attempt
  <2>3. paired' \subseteq Pairs
    BY <1>2, Typed DEF WriteMarker, Lock, Write, Attempt, Reading, Doing, CountTyped
  <2>4. \/ \E step \in Steps, v \in Vendor : GoOn(step, v) /\ Keep
        \/ \E r \in Results : End(r)
        \/ Unwind
    BY <1>2, VendorIs DEF WriteMarker, Lock, Write, Attempt, Steps, Results
  <2> QED
    BY <1>0, <2>1, <2>2, <2>3, <2>4, StepTyped
<1>3. CASE Unmark \/ Remark \/ (\E v \in Vendor : Restore(v) \/ Remove(v))
  <2>1. Effect /\ UNCHANGED <<standard, before, paired>>
    BY <1>3, Typed, VendorIs DEF Unmark, Remark, Restore, Remove, Try, Effect,
       Silent,
       CallTyped, Saved, Drafts
  <2>2. UNCHANGED <<hurt, faults>> \/ Fault
    BY <1>3 DEF Unmark, Remark, Restore, Remove, Try
  <2>3. \/ \E step \in Steps, v \in Vendor : GoOn(step, v) /\ Keep
        \/ \E r \in Results : End(r)
    BY <1>3, VendorIs DEF Unmark, Remark, Restore, Remove, Try, Steps,
       Results, AfterRemoval, NextTree
  <2> QED
    BY <1>0, <2>1, <2>2, <2>3, Typed, StepTyped DEF CountTyped
<1>4. CASE \E o \in {"enroll", "repair"} : TakeProfile(o)
  BY <1>4, Typed, VendorIs, BoundAssumption DEF TakeProfile, GoOn, stored, CallTyped,
     StoreTyped, CountTyped, Now, Store, Steps,
     Results
<1>5. CASE CallCrashes
  BY <1>0, <1>5, Typed, EndTyped, BoundAssumption DEF CallCrashes, stored, StoreTyped, CountTyped,
     Results
<1>6. CASE \E v \in Vendor : Login(v) \/ Logout(v)
  BY <1>0, <1>6, Typed, BoundAssumption DEF Login, Logout, stored, call, StoreTyped,
     CountTyped, CallTyped, Drafts
<1>7. CASE RunCrashes \/ RunRecovers
  <2>1. UNCHANGED <<tree, standard, call, before, hurt>>
    BY <1>7 DEF RunCrashes, RunRecovers
  <2>2. CountTyped'
    BY <1>7, <1>0, Typed, BoundAssumption DEF RunCrashes, RunRecovers, CountTyped
  <2>3. StoreTyped'
    <3>1. CASE RunCrashes
      BY <3>1, Typed DEF RunCrashes, StoreTyped, Pairs, Drafts
    <3>2. CASE RunRecovers
      BY <3>2, Typed DEF RunRecovers, StoreTyped, Pairs, Drafts, NoPair
    <3> QED
      BY <1>7, <3>1, <3>2
  <2> QED
    BY <2>1, <2>2, <2>3, Typed DEF call, CallTyped
<1>8. CASE UNCHANGED profileVars
  BY <1>8, Typed DEF profileVars, stored, call, CallTyped, StoreTyped, CountTyped
<1> QED
  BY <1>1, <1>2, <1>3, <1>4, <1>5, <1>6, <1>7, <1>8 DEF ProfileNext, Proceed

-----------------------------------------------------------------------------
\* Each step keeps the invariant.
LEMMA DefaultEnroll ==
  ASSUME DefaultInv, Enroll
  PROVE  DefaultSafe'
<1> USE VendorIs DEF DefaultInv, Enroll, DefaultSafe, Housed, Known, Reading, Taken,
        Unwinding, Rolling, Doing, Undone, Whole, Now, End, GoOn, stored, Untouched,
        Wholly
<1>1. Housed'
  OBVIOUS
<1>2. Known'
  OBVIOUS
<1>3. Reading'
  OBVIOUS
<1>4. Taken'
  BY Typed DEF StoreTyped, Drafts, NoPair
<1>5. Unwinding'
  OBVIOUS
<1> QED
  BY <1>1, <1>2, <1>3, <1>4, <1>5

LEMMA DefaultRepair ==
  ASSUME DefaultInv, Repair
  PROVE  DefaultSafe'
<1> USE VendorIs DEF DefaultInv, Repair, DefaultSafe, Housed, Known, Reading, Taken,
        Unwinding, Rolling, Doing, Undone, Whole, Now, End, GoOn, stored
<1>1. Housed'
  OBVIOUS
<1>2. Known'
  OBVIOUS
<1>3. Reading'
  OBVIOUS
<1>4. Taken'
  OBVIOUS
<1>5. Unwinding'
  OBVIOUS
<1> QED
  BY <1>1, <1>2, <1>3, <1>4, <1>5

LEMMA DefaultCheck ==
  ASSUME DefaultInv, Check
  PROVE  DefaultSafe'
<1> USE VendorIs DEF DefaultInv, Check, DefaultSafe, Housed, Known, Reading, Taken,
        Unwinding, Rolling, Doing, Undone, Whole, Now, GoOn, Unwind, End, Keep, stored
<1>1. Housed'
  OBVIOUS
<1>2. Known'
  OBVIOUS
<1>3. Reading'
  OBVIOUS
<1>4. Taken'
  OBVIOUS
<1>5. Unwinding'
  OBVIOUS
<1> QED
  BY <1>1, <1>2, <1>3, <1>4, <1>5

LEMMA DefaultMark ==
  ASSUME DefaultInv, WriteMarker
  PROVE  DefaultSafe'
<1> USE VendorIs DEF DefaultInv, WriteMarker, DefaultSafe, Housed, Known, Reading, Taken,
        Unwinding, Rolling, Doing, Undone, Whole, Now, PutMarker, Silent, End, Fault,
        Unwind, GoOn, Keep, stored
<1>1. Housed'
  OBVIOUS
<1>2. Known'
  OBVIOUS
<1>3. Reading'
  BY Typed DEF CountTyped
<1>4. Taken'
  OBVIOUS
<1>5. Unwinding'
  OBVIOUS
<1> QED
  BY <1>1, <1>2, <1>3, <1>4, <1>5

LEMMA DefaultUnmark ==
  ASSUME DefaultInv, Unmark
  PROVE  DefaultSafe'
<1> USE VendorIs DEF DefaultInv, Unmark, DefaultSafe, Housed, Known, Reading, Taken,
        Unwinding, Rolling, Doing, Undone, Whole, Now, Try, PutMarker, Fault, GoOn,
        Keep, stored
<1>1. Housed'
  OBVIOUS
<1>2. Known'
  OBVIOUS
<1>3. Reading'
  BY Typed DEF CountTyped
<1>4. Taken'
  OBVIOUS
<1>5. Unwinding'
  BY Typed DEF CountTyped
<1> QED
  BY <1>1, <1>2, <1>3, <1>4, <1>5

LEMMA DefaultRemark ==
  ASSUME DefaultInv, Remark
  PROVE  DefaultSafe'
<1> USE VendorIs DEF DefaultInv, Remark, DefaultSafe, Housed, Known, Reading, Taken,
        Unwinding, Rolling, Doing, Undone, Whole, Now, Try, PutMarker, Fault, GoOn,
        Keep, stored
<1>1. Housed'
  OBVIOUS
<1>2. Known'
  OBVIOUS
<1>3. Reading'
  BY Typed DEF CountTyped
<1>4. Taken'
  OBVIOUS
<1>5. Unwinding'
  BY Typed DEF StoreTyped, CountTyped, Store
<1> QED
  BY <1>1, <1>2, <1>3, <1>4, <1>5

LEMMA DefaultSource ==
  ASSUME DefaultInv, NEW v \in Vendor, Source(v)
  PROVE  DefaultSafe'
<1> USE VendorIs DEF DefaultInv, Source, DefaultSafe, Housed, Known, Reading, Taken,
        Unwinding, Rolling, Doing, Undone, Whole, Now, Unwind, End, GoOn, Keep,
        stored, Drafts, Pairs, Absent, Gen
<1>1. Housed'
  OBVIOUS
<1>2. Known'
  OBVIOUS
<1>3. Reading'
  BY Typed DEF CallTyped, Drafts
<1>4. Taken'
  OBVIOUS
<1>5. Unwinding'
  OBVIOUS
<1> QED
  BY <1>1, <1>2, <1>3, <1>4, <1>5

LEMMA DefaultLock ==
  ASSUME DefaultInv, NEW v \in Vendor, Lock(v)
  PROVE  DefaultSafe'
<1> USE VendorIs DEF DefaultInv, Lock, DefaultSafe, Housed, Known, Reading, Taken,
        Unwinding, Rolling, Doing, Undone, Whole, Now, Attempt, MakeTree, Fault,
        Unwind, GoOn, Keep, End, stored
<1>1. Housed'
  BY Typed DEF StoreTyped
<1>2. Known'
  OBVIOUS
<1>3. Reading'
  BY Typed DEF StoreTyped, CountTyped
<1>4. Taken'
  BY Typed DEF StoreTyped
<1>5. Unwinding'
  <2>1. CASE pc' \in Doing
    BY <2>1
  <2>2. CASE ~(pc' \in Doing) /\ op = "enroll"
    <3>1. undo /\ hurt = 0 /\ hurt' = hurt + 1 /\ Unwind
      BY <2>2
    <3>2. pc' = "unmark" /\ hurt' = 1
      BY <2>2, <3>1
    <3> QED
      BY <3>2
  <2>3. CASE ~(pc' \in Doing) /\ op # "enroll"
    <3>1. /\ op = "repair" /\ pc' = "cleanup" /\ who' = "codex" /\ hurt' = 1
          /\ file' = file /\ marker' = marker /\ before' = before
          /\ \A w \in Vendor : before.tree[w] => tree'[w]
      BY <2>3, Typed DEF CallTyped, StoreTyped, CountTyped
    <3>2. \A w \in Vendor : before.tree[w] \in BOOLEAN /\ tree'[w] \in BOOLEAN
      BY Typed DEF StoreTyped, Store
    <3> QED
      BY <3>1, <3>2
  <2> QED
    BY <2>1, <2>2, <2>3
<1> QED
  BY <1>1, <1>2, <1>3, <1>4, <1>5

LEMMA DefaultWrite ==
  ASSUME DefaultInv, NEW v \in Vendor, Write(v)
  PROVE  DefaultSafe'
<1> USE VendorIs DEF DefaultInv, Write, DefaultSafe, Housed, Known, Reading, Taken,
        Unwinding, Rolling, Doing, Undone, Whole, Now, Attempt, PutFile, Fault,
        Unwind, GoOn, Keep, End, stored, Pairs, Gen, Absent
<1>1. Housed'
  OBVIOUS
<1>2. Known'
  OBVIOUS
<1>3. Reading'
  BY Typed DEF CountTyped
<1>4. Taken'
  OBVIOUS
<1>5. Unwinding'
  OBVIOUS
<1> QED
  BY <1>1, <1>2, <1>3, <1>4, <1>5

LEMMA DefaultRestore ==
  ASSUME DefaultInv, NEW v \in Vendor, Restore(v)
  PROVE  DefaultSafe'
<1> USE VendorIs DEF DefaultInv, Restore, DefaultSafe, Housed, Known, Reading, Taken,
        Unwinding, Rolling, Doing, Undone, Whole, Now, Try, PutFile, Fault, GoOn,
        Keep, End, stored
<1>1. Housed'
  OBVIOUS
<1>2. Known'
  OBVIOUS
<1>3. Reading'
  BY Typed DEF CountTyped
<1>4. Taken'
  OBVIOUS
<1>5. Unwinding'
  BY Typed DEF StoreTyped, Store, CountTyped, Drafts
<1> QED
  BY <1>1, <1>2, <1>3, <1>4, <1>5

\* Directories that a rollback removes were not there before.
LEMMA CreatedMeans ==
  ASSUME DefaultInv, NEW v \in Vendor, pc \in {"sweep", "cleanup"},
         hurt \in {0, 1}, Created(v)
  PROVE  hurt = 1 /\ ~before.tree[v] /\ before.file[v] = Absent
BY Typed DEF DefaultInv, DefaultSafe, Housed, Reading, Taken, Unwinding, Rolling, Doing,
   Created, Now, CallTyped, NoPair

\* And what it leaves alone is as it was.
LEMMA LeftMeans ==
  ASSUME DefaultInv, NEW v \in Vendor, pc \in {"sweep", "cleanup"},
         hurt \in {0, 1}, ~Created(v)
  PROVE  Undone(v)
<1>1. CASE hurt = 0
  BY <1>1 DEF DefaultInv, DefaultSafe, Unwinding, Rolling, Undone, Now
<1>2. CASE hurt = 1 /\ before.tree[v]
  BY <1>2 DEF DefaultInv, DefaultSafe, Unwinding, Rolling, Whole
<1>3. CASE hurt = 1 /\ ~before.tree[v]
  <2>1. ~tree[v] /\ file[v] = Absent /\ before.file[v] = Absent
    BY <1>3, Typed DEF DefaultInv, DefaultSafe, Housed, Reading, Taken, Created, CallTyped,
       Doing
  <2> QED
    BY <1>3, <2>1, Typed DEF DefaultInv, Undone, StoreTyped, Store
<1> QED
  BY <1>1, <1>2, <1>3

\* A directory that was not there is gone: that half of the default profile is undone.
LEMMA GoneUndone ==
  ASSUME ProfileTypeOK, NEW v \in Vendor, UNCHANGED <<before, file>>, ~before.tree[v],
         before.file[v] = Absent, file[v] = Absent, tree' = [tree EXCEPT ![v] = FALSE]
  PROVE  Undone(v)'
<1>1. tree'[v] = FALSE
  BY Typed DEF StoreTyped
<1>2. before.tree[v] = FALSE
  <2>1. before.tree[v] \in BOOLEAN
    BY Typed DEF Store
  <2> QED
    BY <2>1
<1> QED
  BY <1>1, <1>2, Zenon DEF Undone

\* The other half is as whole as it was.
LEMMA OtherWhole ==
  ASSUME ProfileTypeOK, NEW v \in Vendor, UNCHANGED <<before, file>>,
         tree' = [tree EXCEPT ![v] = FALSE], \A w \in Vendor : Whole(w)
  PROVE  \A w \in Vendor \ {v} : Whole(w)'
<1> SUFFICES ASSUME NEW w \in Vendor \ {v} PROVE Whole(w)'
  OBVIOUS
<1>1. tree'[w] = tree[w] /\ file'[w] = file[w] /\ before' = before
  BY Typed DEF StoreTyped
<1> QED
  BY <1>1, Zenon DEF Whole, Undone

LEMMA DefaultRemove ==
  ASSUME DefaultInv, NEW v \in Vendor, Remove(v)
  PROVE  DefaultSafe'
<1> USE VendorIs DEF DefaultInv, Remove, DefaultSafe, Housed, Known, Reading, Taken,
        Unwinding, Rolling, Doing, Undone, Whole, Now, Created, PutFile, Silent, Try,
        Fault, GoOn, Keep, End, AfterRemoval, NextTree, stored
<1>1. Housed'
  BY Typed DEF StoreTyped, Drafts
<1>2. Known'
  OBVIOUS
<1>3. Reading'
  BY Typed DEF CountTyped
<1>4. Taken'
  OBVIOUS
<1>5. Unwinding'
  <2>1. CASE ~Created(v)
    BY <2>1, Typed, LeftMeans DEF CountTyped
  <2>2. CASE Created(v) /\ hurt \in {0, 1}
    <3>1. hurt = 1 /\ ~before.tree[v] /\ before.file[v] = Absent
      BY <2>2, CreatedMeans
    <3>2. CASE UNCHANGED hurt /\ file[v] # Absent
      BY <2>2, <3>1, <3>2, Typed DEF StoreTyped, Drafts
    <3>3. CASE UNCHANGED hurt /\ file[v] = Absent
      <4>1. CASE UNCHANGED <<tree, file, marker>>
        BY <2>2, <3>1, <3>3, <4>1, Typed DEF StoreTyped, Store
      <4>2. CASE tree' = [tree EXCEPT ![v] = FALSE] /\ UNCHANGED <<file, marker>>
        <5>0. ProfileTypeOK /\ before' = before
          OBVIOUS
        <5>1. Undone(v)'
          BY <3>1, <3>3, <4>2, <5>0, GoneUndone
        <5>2. \A w \in Vendor : Whole(w)
          BY <2>2, <3>1
        <5>3. \A w \in Vendor : Whole(w)'
          <6>1. \A w \in Vendor \ {v} : Whole(w)'
            <7> HIDE DEF Whole, Undone
            <7> QED
              BY <4>2, <5>0, <5>2, OtherWhole
          <6>2. Whole(v)'
            BY <5>1
          <6> QED
            BY <6>1, <6>2
        <5>4. /\ pc' \in {"sweep", "cleanup", "idle"} /\ hurt' = 1 /\ marker' = before.marker
              /\ pc' # "idle" /\ who' = "claude" => v = "codex"
          BY <2>2, <3>1, <3>3, <4>2
        <5> QED
          BY <5>0, <5>1, <5>3, <5>4
      <4> QED
        BY <3>3, <4>1, <4>2
    <3>4. CASE hurt' = hurt + 1
      BY <3>1, <3>4
    <3> QED
      BY <2>2, <3>2, <3>3, <3>4
  <2>3. CASE hurt \notin {0, 1}
    BY <2>3, Typed DEF CountTyped
  <2> QED
    BY <2>1, <2>2, <2>3
<1> QED
  BY <1>1, <1>2, <1>3, <1>4, <1>5

LEMMA DefaultBegin ==
  ASSUME DefaultInv, NEW o \in {"enroll", "repair"}, TakeProfile(o)
  PROVE  DefaultSafe'
<1> USE VendorIs DEF DefaultInv, TakeProfile, DefaultSafe, Housed, Known, Reading, Taken,
        Unwinding, Rolling, Doing, Undone, Whole, Now, GoOn, stored
<1>1. Housed'
  OBVIOUS
<1>2. Known'
  OBVIOUS
<1>3. Reading'
  BY Typed DEF CountTyped
<1>4. Taken'
  OBVIOUS
<1>5. Unwinding'
  OBVIOUS
<1> QED
  BY <1>1, <1>2, <1>3, <1>4, <1>5

LEMMA DefaultCrash ==
  ASSUME DefaultInv, CallCrashes
  PROVE  DefaultSafe'
<1> USE VendorIs DEF DefaultInv, CallCrashes, DefaultSafe, Housed, Known, Reading, Taken,
        Unwinding, Rolling, Doing, Undone, Whole, Now, End, GoOn, stored
<1>1. Housed'
  OBVIOUS
<1>2. Known'
  OBVIOUS
<1>3. Reading'
  BY Typed DEF CountTyped
<1>4. Taken'
  OBVIOUS
<1>5. Unwinding'
  OBVIOUS
<1> QED
  BY <1>1, <1>2, <1>3, <1>4, <1>5

LEMMA DefaultLogin ==
  ASSUME DefaultInv, NEW v \in Vendor, Login(v)
  PROVE  DefaultSafe'
<1> USE VendorIs DEF DefaultInv, Login, DefaultSafe, Housed, Known, Reading, Taken,
        Unwinding, Rolling, Doing, Undone, Whole, Now, stored, call
<1>1. Housed'
  OBVIOUS
<1>2. Known'
  OBVIOUS
<1>3. Reading'
  OBVIOUS
<1>4. Taken'
  OBVIOUS
<1>5. Unwinding'
  OBVIOUS
<1> QED
  BY <1>1, <1>2, <1>3, <1>4, <1>5

LEMMA DefaultLogout ==
  ASSUME DefaultInv, NEW v \in Vendor, Logout(v)
  PROVE  DefaultSafe'
<1> USE VendorIs DEF DefaultInv, Logout, DefaultSafe, Housed, Known, Reading, Taken,
        Unwinding, Rolling, Doing, Undone, Whole, Now, stored, call
<1>1. Housed'
  OBVIOUS
<1>2. Known'
  OBVIOUS
<1>3. Reading'
  BY Typed DEF CountTyped
<1>4. Taken'
  OBVIOUS
<1>5. Unwinding'
  OBVIOUS
<1> QED
  BY <1>1, <1>2, <1>3, <1>4, <1>5

LEMMA DefaultRunCrashes ==
  ASSUME DefaultInv, RunCrashes
  PROVE  DefaultSafe'
<1> USE VendorIs DEF DefaultInv, RunCrashes, DefaultSafe, Housed, Known, Reading,
        Taken, Unwinding, Rolling, Doing, Undone, Whole, Now, PairState, Reusable,
        Wholly, Untouched, stored, call, Pairs, Gen, Absent
<1>1. Housed'
  OBVIOUS
<1>2. Known'
  BY DEF NoPair
<1>3. Reading'
  BY Typed DEF CountTyped
<1>4. Taken'
  OBVIOUS
<1>5. Unwinding'
  OBVIOUS
<1> QED
  BY <1>1, <1>2, <1>3, <1>4, <1>5

LEMMA DefaultRunRecovers ==
  ASSUME DefaultInv, RunRecovers
  PROVE  DefaultSafe'
<1> USE VendorIs DEF DefaultInv, RunRecovers, DefaultSafe, Housed, Known, Reading,
        Taken, Unwinding, Rolling, Doing, Undone, Whole, Now, call
<1>1. Housed'
  OBVIOUS
<1>2. Known'
  OBVIOUS
<1>3. Reading'
  OBVIOUS
<1>4. Taken'
  OBVIOUS
<1>5. Unwinding'
  OBVIOUS
<1> QED
  BY <1>1, <1>2, <1>3, <1>4, <1>5

LEMMA DefaultInit == ProfileInit => DefaultInv
<1> SUFFICES ASSUME ProfileInit PROVE DefaultInv
  OBVIOUS
<1>1. ProfileTypeOK
  <2>1. CallTyped /\ StoreTyped /\ standard \in Drafts
    BY Blank, VendorIs DEF ProfileInit, CallTyped, StoreTyped, Steps, Results
  <2>2. CountTyped /\ before \in Store
    BY <2>1, BoundAssumption DEF ProfileInit, CountTyped, StoreTyped, Now, Store
  <2> QED
    BY <2>1, <2>2, Typed
<1>2. DefaultSafe
  BY DEF ProfileInit, DefaultSafe, Housed, Known, Reading, Taken, Unwinding, Rolling, Doing, Now,
     NoPair
<1> QED
  BY <1>1, <1>2 DEF DefaultInv

LEMMA DefaultStep == ASSUME DefaultInv, [ProfileNext]_(profileVars) PROVE DefaultInv'
<1>1. ProfileTypeOK'
  BY DefaultTypes DEF DefaultInv, DefaultSafe
<1>2. DefaultSafe'
  <2>1. CASE UNCHANGED profileVars
    BY <2>1 DEF DefaultInv, DefaultSafe, Housed, Known, Reading, Taken, Unwinding, Rolling,
       Doing, Undone, Whole, Now,
       profileVars, stored, call
  <2>2. CASE ProfileNext
    BY <2>2, DefaultBegin, DefaultEnroll, DefaultRepair, DefaultCheck, DefaultMark, DefaultUnmark,
       DefaultRemark, DefaultSource, DefaultLock, DefaultWrite, DefaultRestore, DefaultRemove,
       DefaultCrash, DefaultLogin, DefaultLogout, DefaultRunCrashes, DefaultRunRecovers
       DEF ProfileNext, Proceed
  <2> QED
    BY <2>1, <2>2
<1> QED
  BY <1>1, <1>2 DEF DefaultInv

LEMMA DefaultInvariance == ProfileSpec => []DefaultInv
BY DefaultInit, DefaultStep, PTL DEF ProfileSpec

\* Whatever fails, each file, marker and directory of the default profile is of its kind,
\* and no more steps fail than are counted.
THEOREM DefaultTypeCorrect == ProfileSpec => []ProfileTypeOK
<1>1. DefaultInv => ProfileTypeOK
  BY DEF DefaultInv
<1> QED
  BY DefaultInvariance, <1>1, PTL

\* auth status calls ready only what was imported together or committed together by a run,
\* and neither an import nor a call that meets a crashed run's files touches a login that
\* was there: whichever steps of the call and of its rollback fail, and wherever it dies.
THEOREM PairsAlwaysSafe == ProfileSpec => []PairsAreSafe
<1>1. DefaultInv => ReadyIsPaired
  BY DEF DefaultInv, DefaultSafe, Known, ReadyIsPaired, PairState, Reusable, Wholly
<1>2. DefaultInv => ExistingKept
  BY Typed DEF DefaultInv, DefaultSafe, Housed, Reading, Taken, ExistingKept, Now,
     StoreTyped, CallTyped, NoPair
<1>3. PairsAreSafe <=> ReadyIsPaired /\ ExistingKept
  BY DEF PairsAreSafe
<1> QED
  BY DefaultInvariance, <1>1, <1>2, <1>3, PTL

\* An import or a repair of which one step failed gives the store back exactly as it took it.
THEOREM FailureAlwaysUndone == ProfileSpec => FailureUndone
<1> DEFINE Undoes ==
      pc # "idle" /\ pc' = "idle" /\ result' \notin {"imported", "crashed"} /\ hurt' <= 1
        => Now' = before
<1>1. DefaultInv /\ [ProfileNext]_(profileVars) => [Undoes]_(profileVars)
  <2> SUFFICES ASSUME DefaultInv, ProfileNext, pc # "idle", pc' = "idle",
                      result' \notin {"imported", "crashed"}, hurt' <= 1
               PROVE  Now' = before
    OBVIOUS
  <2>1. CASE Enroll \/ Repair
    BY <2>1 DEF DefaultInv, DefaultSafe, Taken, Enroll, Repair, GoOn, stored, Now
  <2>2. CASE Check \/ (\E v \in Vendor : Source(v) \/ Lock(v) \/ Write(v)) \/ WriteMarker
    <3>1. \/ Unwind
          \/ \E step \in Steps \ {"idle"}, v \in Vendor : GoOn(step, v)
          \/ End("imported")
      BY <2>2, VendorIs DEF Check, Source, Lock, Write, WriteMarker, Attempt,
         Steps
    <3>2. pc \in {"source"} \cup Doing
      BY <2>2 DEF Check, Source, Lock, Write, WriteMarker, Doing
    <3> QED
      BY <3>1, <3>2, Typed DEF DefaultInv, DefaultSafe, Taken, Reading, Unwind, GoOn, End,
         Steps, Doing, CallTyped
  <2>3. CASE Unmark \/ Remark \/ (\E v \in Vendor : Restore(v))
    BY <2>3 DEF Unmark, Remark, Restore, Try, GoOn
  <2>4. ASSUME NEW v \in Vendor, Remove(v) PROVE Now' = before
    <3>1. /\ v = "claude" /\ pc \in {"sweep", "cleanup"} /\ who = v /\ before' = before
          /\ hurt \in {0, 1}
      BY <2>4, VendorIs, Typed DEF Remove, AfterRemoval, NextTree, Try, Fault,
         GoOn, CountTyped, DefaultInv
    <3>2. pending = before.pending /\ target = before.target /\ marker = before.marker
      BY <3>1 DEF DefaultInv, DefaultSafe, Taken, Unwinding, Rolling, Now
    <3>3. Undone("codex")
      BY <3>1, VendorIs DEF DefaultInv, DefaultSafe, Unwinding, Rolling, Undone, Now
    <3>4. UNCHANGED <<marker, pending, target>> /\ Undone("codex")' /\ Undone("claude")'
      <4>1. CASE ~Created("claude")
        BY <2>4, <3>1, <3>3, <4>1, LeftMeans DEF Remove, stored, Undone
      <4>2. CASE Created("claude")
        <5>1. hurt = 1 /\ ~before.tree["claude"] /\ before.file["claude"] = Absent
          BY <3>1, <4>2, CreatedMeans
        <5>2. /\ file["claude"] = Absent /\ tree' = [tree EXCEPT !["claude"] = FALSE]
              /\ UNCHANGED <<file, marker, pending, target>>
          BY <2>4, <3>1, <4>2, <5>1 DEF Remove, Try, Fault, GoOn
        <5>3. tree \in [Vendor -> BOOLEAN] /\ before.tree \in [Vendor -> BOOLEAN]
          BY Typed DEF DefaultInv, StoreTyped, Store
        <5>4. tree'["claude"] = FALSE /\ tree'["codex"] = tree["codex"]
          BY <5>2, <5>3, VendorIs
        <5> QED
          BY <3>1, <3>3, <5>1, <5>2, <5>3, <5>4, VendorIs DEF Undone
      <4> QED
        BY <4>1, <4>2
    <3>5. tree' = before.tree /\ file' = before.file
      <4>1. \A w \in Vendor : tree'[w] = before.tree[w] /\ file'[w] = before.file[w]
        BY <3>1, <3>4, VendorIs DEF Undone
      <4>2. /\ tree' \in [Vendor -> BOOLEAN] /\ file' \in Drafts
            /\ before.tree \in [Vendor -> BOOLEAN] /\ before.file \in Drafts
        BY DefaultStep, Typed DEF DefaultInv, StoreTyped, Store
      <4> QED
        BY <4>1, <4>2 DEF Drafts
    <3>6. before \in Store
      BY Typed DEF DefaultInv
    <3> QED
      BY <3>2, <3>4, <3>5, <3>6 DEF Now, Store
  <2>5. CASE CallCrashes
    BY <2>5 DEF CallCrashes, End
  <2>6. CASE \/ \E o \in {"enroll", "repair"} : TakeProfile(o)
             \/ \E v \in Vendor : Login(v) \/ Logout(v)
             \/ RunCrashes \/ RunRecovers
    BY <2>6 DEF TakeProfile, GoOn, Login, Logout, RunCrashes, RunRecovers, call
  <2> QED
    BY <2>1, <2>2, <2>3, <2>4, <2>5, <2>6 DEF ProfileNext, Proceed
<1> QED
  BY DefaultInvariance, <1>1, PTL DEF ProfileSpec, FailureUndone
=============================================================================
