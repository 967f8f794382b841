------------------------ MODULE ArtifactWithholding ------------------------
(***************************************************************************)
(* The retained evidence of one run and its withholding latch              *)
(* (artifacts.py).  Several ArtifactStore objects may be open on the run   *)
(* directory at once, in one process or in several: the run's own, the one *)
(* an evidence barrier opens before a refreshed credential is promoted     *)
(* (workflow.py), the one of a later run that recovers this run's          *)
(* transaction, and those of "agent-loop status" and "show".  A file lock  *)
(* outside the run directory serializes them.                              *)
(*                                                                         *)
(* When a credential generation turns up in a retained file, or a file     *)
(* cannot be scanned, the whole tree is given up: a zero-byte marker beside*)
(* the lock first, then every entry of the tree.  Each write of the marker *)
(* and each unlink is a step; a process may die, or the write may fail, at *)
(* any of them.                                                            *)
(***************************************************************************)
EXTENDS Naturals, FiniteSets

CONSTANTS Handle,    \* ArtifactStore objects
          Path,      \* entries of the run directory
          Secret,    \* credential values that evidence may collide with
          Plain,     \* content that holds none of them
          NoFile,    \* an entry that does not exist
          NoHandle,  \* nobody holds the lock
          MaxFault   \* bound: crashes and failed system calls

ASSUME ContentAssumption == Plain \notin Secret /\ NoFile \notin Secret \cup {Plain}
ASSUME HandleAssumption == NoHandle \notin Handle
ASSUME FaultAssumption == MaxFault \in Nat

Content == Secret \cup {Plain}

VARIABLES
  marker,   \* the durable withholding latch
  tree,     \* what the run directory holds
  lock,     \* the holder of the withholding lock
  pc,       \* the step each handle is at
  latched,  \* _content_withheld_due_to_secret
  failed,   \* _secret_scrub_failed
  redo,     \* marker_error is pending: the marker is written again at the end
  job,      \* the secrets it would leave undone if it died before the marker
  learned,  \* history: secrets some scrub has been asked about
  undone,   \* history: those of them whose last scrub was cut short
  erased,   \* history: has an entry been erased?
  faults    \* crashes and failures so far

object == <<latched, failed, redo, job>>
asked == <<learned, undone>>
vars == <<marker, tree, lock, pc, object, asked, erased, faults>>

Erasing == {"mark", "erase", "remark"}
Holding == {"held"} \cup Erasing

\* The steps that hold the lock are those of its holder.
LockOwned == \A h \in Handle : lock = h <=> pc[h] \in Holding

TypeOK ==
  /\ marker \in BOOLEAN
  /\ tree \in [Path -> Content \cup {NoFile}]
  /\ lock \in Handle \cup {NoHandle}
  /\ pc \in [Handle -> {"closed", "open"} \cup Holding]
  /\ latched \in [Handle -> BOOLEAN] /\ failed \in [Handle -> BOOLEAN]
  /\ redo \in [Handle -> BOOLEAN]
  /\ job \in [Handle -> SUBSET Secret]
  /\ learned \in SUBSET Secret /\ undone \in SUBSET Secret /\ erased \in BOOLEAN
  /\ faults \in 0 .. MaxFault
  /\ LockOwned

-----------------------------------------------------------------------------
Free == lock = NoHandle
Retained == {tree[p] : p \in Path} \ {NoFile}
Emptied == Retained = {}
Settled == learned \ undone

\* _withholding_latched_unlocked: what this object remembers, or else what the
\* control directory says now.
LatchedCached(h) == latched[h]
Latched(h) == latched[h] \/ marker

\* Every public operation takes the lock first.
Ready(h) == pc[h] = "open" /\ Free

Goto(h, step) == pc' = [pc EXCEPT ![h] = step]
Remember(h) == latched' = [latched EXCEPT ![h] = Latched(h)]
Fault == faults < MaxFault /\ faults' = faults + 1

\* A new object reads the latch under the lock.
Open(h) ==
  /\ pc[h] = "closed" /\ Free
  /\ Goto(h, "open")
  /\ latched' = [latched EXCEPT ![h] = marker]
  /\ failed' = [failed EXCEPT ![h] = FALSE]
  /\ UNCHANGED <<marker, tree, lock, redo, job, asked, erased, faults>>

Close(h) ==
  /\ pc[h] = "open"
  /\ Goto(h, "closed")
  /\ UNCHANGED <<marker, tree, lock, object, asked, erased, faults>>

\* write_bytes, with what the journal lets through: nothing it knows to be a
\* credential.
Write(h, p, c) ==
  /\ Ready(h) /\ ~Latched(h) /\ c \notin Settled
  /\ tree' = [tree EXCEPT ![p] = c]
  /\ UNCHANGED <<marker, lock, pc, object, asked, erased, faults>>

\* Once latched, a write returns without writing and a read is refused; the
\* object remembers why.
Refuse(h) ==
  /\ Ready(h) /\ Latched(h)
  /\ Remember(h)
  /\ UNCHANGED <<marker, tree, lock, pc, failed, redo, job, asked, erased, faults>>

\* retained_filesystem: the caller keeps the lock and works on the tree itself.
Hold(h) ==
  /\ Ready(h) /\ ~Latched(h)
  /\ lock' = h /\ Goto(h, "held")
  /\ UNCHANGED <<marker, tree, object, asked, erased, faults>>

\* The subject guard materializes and renames subject trees in there.
WriteHeld(h, p, c) ==
  /\ pc[h] = "held" /\ c \notin Settled
  /\ tree' = [tree EXCEPT ![p] = c]
  /\ UNCHANGED <<marker, lock, pc, object, asked, erased, faults>>

Release(h) ==
  /\ pc[h] = "held"
  /\ lock' = NoHandle /\ Goto(h, "open")
  /\ UNCHANGED <<marker, tree, object, asked, erased, faults>>

-----------------------------------------------------------------------------
\* Scrubbing and withholding.

\* A scrub is asked about S, and looks for all of it.
Ask(S) == learned' = learned \cup S /\ undone' = undone \ S

\* Enter _withhold_all_content_unlocked after a scrub for S (or none).
Withholding(h, S) ==
  /\ lock' = h /\ Goto(h, "mark")
  /\ Ask(S) /\ job' = [job EXCEPT ![h] = S \ Settled]
  /\ redo' = [redo EXCEPT ![h] = FALSE]

\* scrub_known_secrets finds nothing.
ScrubClean(h, S) ==
  /\ Ready(h) /\ ~failed[h] /\ Retained \cap S = {}
  /\ Ask(S)
  /\ UNCHANGED <<marker, tree, lock, pc, object, erased, faults>>

\* It finds a collision, or an earlier scrub of this object did not complete.
ScrubCollides(h, S) ==
  /\ Ready(h) /\ (failed[h] \/ Retained \cap S # {})
  /\ Withholding(h, S)
  /\ UNCHANGED <<marker, tree, latched, failed, erased, faults>>

\* A file cannot be read: the outcome is unknown, so everything goes.
ScanFailureIgnored(h, S) ==
  /\ Ready(h) /\ ~failed[h] /\ Fault
  /\ failed' = [failed EXCEPT ![h] = TRUE]
  /\ Ask(S)
  /\ UNCHANGED <<marker, tree, lock, pc, latched, redo, job, erased>>

ScanFails(h, S) ==
  /\ Ready(h) /\ ~failed[h] /\ Fault
  /\ failed' = [failed EXCEPT ![h] = TRUE]
  /\ Withholding(h, S)
  /\ UNCHANGED <<marker, tree, latched, erased>>

\* Ctrl-C or any other exception but AgentLoopError and OSError ends the scan,
\* whatever it has found by then; so does a death of the process, which Close
\* may follow.  Nothing is withheld and the object does not remember.
ScanInterrupted(h, S) ==
  /\ Ready(h) /\ ~failed[h] /\ Fault
  /\ learned' = learned \cup S /\ undone' = undone \cup (S \ Settled)
  /\ UNCHANGED <<marker, tree, lock, pc, object, erased>>

\* withhold_all_content, called when a refreshed credential cannot be parsed.
Withhold(h) ==
  /\ Ready(h)
  /\ Withholding(h, {})
  /\ UNCHANGED <<marker, tree, latched, failed, erased, faults>>

\* The evidence barrier on a latched run, whose earlier erasure may have been
\* interrupted: it is done again, whatever generations the barrier was given.
ReplaySkipped(h) ==
  /\ Ready(h) /\ Latched(h)
  /\ Remember(h)
  /\ UNCHANGED <<marker, tree, lock, pc, failed, redo, job, asked, erased, faults>>

Replay(h) ==
  /\ Ready(h) /\ Latched(h)
  /\ latched' = [latched EXCEPT ![h] = TRUE]
  /\ Withholding(h, {})
  /\ UNCHANGED <<marker, tree, failed, erased, faults>>

\* The marker first; if that fails the tree is erased all the same and the
\* marker is tried again.
Mark(h) ==
  /\ pc[h] = "mark"
  /\ latched' = [latched EXCEPT ![h] = TRUE]
  /\ marker' = TRUE
  /\ job' = [job EXCEPT ![h] = {}]
  /\ Goto(h, "erase")
  /\ UNCHANGED <<tree, lock, failed, redo, asked, erased, faults>>

MarkFails(h) ==
  /\ pc[h] = "mark" /\ Fault
  /\ latched' = [latched EXCEPT ![h] = TRUE]
  /\ failed' = [failed EXCEPT ![h] = TRUE]
  /\ redo' = [redo EXCEPT ![h] = TRUE]
  /\ Goto(h, "erase")
  /\ UNCHANGED <<marker, tree, lock, job, asked, erased>>

EraseEntry(h, p) ==
  /\ pc[h] = "erase" /\ tree[p] # NoFile
  /\ tree' = [tree EXCEPT ![p] = NoFile]
  /\ erased' = TRUE
  /\ UNCHANGED <<marker, lock, pc, object, asked, faults>>

\* The call returns or raises: the lock is free again.
Finish(h) ==
  /\ lock' = NoHandle /\ Goto(h, "open")
  /\ job' = [job EXCEPT ![h] = {}]
  /\ redo' = [redo EXCEPT ![h] = FALSE]

AfterEraseNoRetry(h) == Finish(h)

AfterErase(h) ==
  \/ redo[h] /\ Goto(h, "remark") /\ UNCHANGED <<lock, redo, job>>
  \/ ~redo[h] /\ Finish(h)

EraseDone(h) ==
  /\ pc[h] = "erase" /\ Emptied
  /\ AfterErase(h)
  /\ UNCHANGED <<marker, tree, latched, failed, asked, erased, faults>>

EraseFails(h) ==
  /\ pc[h] = "erase" /\ ~Emptied /\ Fault
  /\ failed' = [failed EXCEPT ![h] = TRUE]
  /\ AfterErase(h)
  /\ UNCHANGED <<marker, tree, latched, asked, erased>>

Remark(h) ==
  /\ pc[h] = "remark"
  /\ marker' = TRUE
  /\ Finish(h)
  /\ UNCHANGED <<tree, latched, failed, asked, erased, faults>>

RemarkFails(h) ==
  /\ pc[h] = "remark" /\ Fault
  /\ Finish(h)
  /\ UNCHANGED <<marker, tree, latched, failed, asked, erased>>

\* The process dies: the kernel drops its lock, its memory is gone, and with it
\* what a scrub had found if the marker was not durable yet.
Crash(h) ==
  /\ pc[h] # "closed" /\ Fault
  /\ Goto(h, "closed")
  /\ lock' = IF lock = h THEN NoHandle ELSE lock
  /\ latched' = [latched EXCEPT ![h] = FALSE]
  /\ failed' = [failed EXCEPT ![h] = FALSE]
  /\ redo' = [redo EXCEPT ![h] = FALSE]
  /\ job' = [job EXCEPT ![h] = {}]
  /\ undone' = undone \cup job[h]
  /\ UNCHANGED <<marker, tree, learned, erased>>

-----------------------------------------------------------------------------
Init ==
  /\ marker = FALSE /\ tree = [p \in Path |-> NoFile]
  /\ lock = NoHandle
  /\ pc = [h \in Handle |-> "closed"]
  /\ latched = [h \in Handle |-> FALSE] /\ failed = [h \in Handle |-> FALSE]
  /\ redo = [h \in Handle |-> FALSE] /\ job = [h \in Handle |-> {}]
  /\ learned = {} /\ undone = {} /\ erased = FALSE
  /\ faults = 0

\* A withholding under way goes on.
Proceed(h) ==
  Mark(h) \/ EraseDone(h) \/ Remark(h) \/ \E p \in Path : EraseEntry(h, p)

Next ==
  \E h \in Handle :
    \/ Open(h) \/ Close(h) \/ Refuse(h) \/ Hold(h) \/ Release(h)
    \/ Withhold(h) \/ Replay(h) \/ Proceed(h)
    \/ MarkFails(h) \/ EraseFails(h) \/ RemarkFails(h) \/ Crash(h)
    \/ \E p \in Path, c \in Content : Write(h, p, c) \/ WriteHeld(h, p, c)
    \/ \E S \in SUBSET Secret \ {{}} :
         \/ ScrubClean(h, S) \/ ScrubCollides(h, S)
         \/ ScanFails(h, S) \/ ScanInterrupted(h, S)

Spec == Init /\ [][Next]_vars

\* A call under way ends.  The transaction of a latched run stays pending, so
\* the next intended run opens its evidence again and replays the barrier.
FairSpec ==
  /\ Spec
  /\ \A h \in Handle : WF_vars(Proceed(h) \/ Release(h))
  /\ SF_vars(\E h \in Handle : Open(h))
  /\ SF_vars(\E h \in Handle : Replay(h))

-----------------------------------------------------------------------------
\* Properties.

\* From the moment a scrub is asked about a credential, no object serves
\* evidence that contains it, whatever single step fails.  There is one
\* exception, which one death is enough for: a scrub cut short after it may have
\* found the credential and before the marker is durable (artifacts.py, between
\* the scan and _persist_credential_withheld_marker).  The credentials it was
\* first to ask about stay readable until another scrub asks about them.
Readable(h) == IF Ready(h) /\ ~Latched(h) THEN Retained ELSE {}
NothingLearnedReadable ==
  faults <= 1 => \A h \in Handle : Readable(h) \cap learned \subseteq undone

\* "Interruption cannot leave an apparently ordinary, partially erased run"
\* (_withhold_all_content_unlocked): once an entry is gone, the marker stands
\* whenever the lock is free, also after one crash, one failed marker write or
\* one failed erase.
PartialErasureIsMarked == faults <= 1 /\ erased /\ Free => marker

\* From the moment the marker is durable, no object puts anything into the
\* tree again, not even one that opened it earlier or that works inside it.
NothingAdded == \A p \in Path : tree'[p] \in {tree[p], NoFile}
NoWriteAfterLatch == [][marker => NothingAdded]_vars

\* A durable marker is followed by the erasure of every entry, also if the
\* first attempt dies or fails halfway.
ErasureFinishes == marker ~> Emptied
=============================================================================
