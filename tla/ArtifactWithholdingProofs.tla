--------------------- MODULE ArtifactWithholdingProofs ---------------------
(***************************************************************************)
(* Proofs about the withholding latch, for any number of objects, entries, *)
(* credential values and faults.                                           *)
(***************************************************************************)
EXTENDS ArtifactWithholding, TLAPS

\* The steps of one object, asked, as Next lists them.
Writing(h)   == \E p \in Path, c \in Content : Write(h, p, c) \/ WriteHeld(h, p, c)
Scrubbing(h) == \E S \in SUBSET Secret \ {{}} :
                  \/ ScrubClean(h, S) \/ ScrubCollides(h, S)
                  \/ ScanFails(h, S) \/ ScanInterrupted(h, S)

\* While an object works inside the tree the run is not latched: a marker can
\* only be written by the holder of the lock.
HeldUnlatched == \A h \in Handle : pc[h] = "held" => ~marker

\* Where a withholding stands: past its first step the marker is durable unless
\* writing it failed, and then it is owed.
MarkerOwed ==
  \A h \in Handle :
    /\ redo[h] => pc[h] \in {"erase", "remark"} /\ faults > 0
    /\ pc[h] = "erase" => redo[h] \/ marker
    /\ pc[h] = "remark" => redo[h]
    /\ job[h] # {} => pc[h] \in Erasing

\* After at most one fault an entry is only erased under a marker that is
\* durable or still owed, and credentials the scrubs have dealt with are only in
\* a tree that is marked or that a withholding is about to mark.
ErasedMarked == erased => marker \/ \E h \in Handle : redo[h]
LearnedGone  ==
  ~marker => \A s \in Retained \cap Settled : \E h \in Handle : s \in job[h]

LatchInv == TypeOK /\ HeldUnlatched
Marking  == MarkerOwed /\ ErasedMarked
Owed     == Marking /\ LearnedGone
FaultInv == LatchInv /\ Owed

\* The inductive invariant: the second part stands until a second fault.
SafeInv == LatchInv /\ (faults <= 1 => FaultInv)

\* The initial state, where nothing is open, satisfies both invariants.
LEMMA InitInv == Init => FaultInv
<1> SUFFICES ASSUME Init PROVE FaultInv
  OBVIOUS
<1>1. TypeOK
  <2>1. tree \in [Path -> Content \cup {NoFile}] /\ job \in [Handle -> SUBSET Secret]
    BY DEF Init
  <2>2. pc \in [Handle -> {"closed", "open"} \cup Holding] /\ LockOwned
    BY HandleAssumption DEF Init, LockOwned, Holding, Erasing
  <2>3. /\ latched \in [Handle -> BOOLEAN] /\ failed \in [Handle -> BOOLEAN]
        /\ redo \in [Handle -> BOOLEAN]
    BY DEF Init
  <2>4. faults \in 0 .. MaxFault
    BY FaultAssumption DEF Init
  <2> QED
    BY <2>1, <2>2, <2>3, <2>4 DEF Init, TypeOK
<1>2. HeldUnlatched /\ MarkerOwed
  BY DEF Init, HeldUnlatched, MarkerOwed
<1>3. ErasedMarked /\ LearnedGone
  BY DEF Init, ErasedMarked, LearnedGone, Retained
<1> QED
  BY <1>1, <1>2, <1>3 DEF FaultInv, Owed, Marking, LatchInv

\* Every step keeps the types, the lock discipline and the held trees unlatched.
LEMMA LatchStep ==
  ASSUME LatchInv, [Next]_vars PROVE LatchInv'
<1>1. CASE UNCHANGED vars
  BY <1>1 DEF vars, object, asked, LatchInv, TypeOK, LockOwned, HeldUnlatched
<1>2. SUFFICES ASSUME NEW h \in Handle,
                       \/ Open(h) \/ Close(h) \/ Refuse(h) \/ Hold(h) \/ Release(h)
                       \/ Withhold(h) \/ Replay(h) \/ Proceed(h)
                       \/ MarkFails(h) \/ EraseFails(h) \/ RemarkFails(h) \/ Crash(h)
                       \/ Writing(h) \/ Scrubbing(h)
              PROVE  LatchInv'
  BY <1>1 DEF Next, Writing, Scrubbing
<1>3. CASE Open(h)
  BY <1>3 DEF asked, Open, Goto, Holding, Erasing, LatchInv, TypeOK, LockOwned, HeldUnlatched
<1>4. CASE Close(h)
  BY <1>4
     DEF Close, Goto, object, asked, Holding, Erasing, LatchInv, TypeOK, LockOwned,
         HeldUnlatched
<1>5. CASE Refuse(h)
  BY <1>5 DEF asked, Refuse, Remember, LatchInv, TypeOK, LockOwned, HeldUnlatched
<1>6. CASE Hold(h)
  BY <1>6, HandleAssumption
     DEF Hold, Goto, Ready, Free, Latched, object, asked, Holding, LatchInv, TypeOK,
         LockOwned, HeldUnlatched
<1>7. CASE Release(h)
  BY <1>7, HandleAssumption
     DEF Release, Goto, object, asked, Holding, Erasing, LatchInv, TypeOK, LockOwned,
         HeldUnlatched
<1>8. CASE Withhold(h)
  BY <1>8, HandleAssumption
     DEF Withhold, Withholding, Ask, Goto, Ready, Free, Holding, Erasing, LatchInv, TypeOK,
         LockOwned, HeldUnlatched
<1>9. CASE Replay(h)
  BY <1>9, HandleAssumption
     DEF Replay, Withholding, Ask, Goto, Ready, Free, Holding, Erasing, LatchInv, TypeOK,
         LockOwned, HeldUnlatched
<1>10. CASE Mark(h)
  BY <1>10 DEF asked, Mark, Goto, Holding, Erasing, LatchInv, TypeOK, LockOwned, HeldUnlatched
<1>11. CASE EraseDone(h)
  <2>1. CASE redo[h] /\ Goto(h, "remark") /\ UNCHANGED <<lock, redo, job>>
    BY <1>11, <2>1, HandleAssumption
       DEF asked, EraseDone, Goto, Holding, Erasing, LatchInv, TypeOK, LockOwned, HeldUnlatched
  <2>2. CASE ~redo[h] /\ Finish(h)
    BY <1>11, <2>2, HandleAssumption
       DEF asked, EraseDone, Finish, Goto, Holding, Erasing, LatchInv, TypeOK, LockOwned,
           HeldUnlatched
  <2> QED
    BY <1>11, <2>1, <2>2 DEF asked, EraseDone, AfterErase
<1>12. CASE Remark(h)
  BY <1>12, HandleAssumption
     DEF asked, Remark, Finish, Goto, Holding, Erasing, LatchInv, TypeOK, LockOwned,
         HeldUnlatched
<1>13. CASE MarkFails(h)
  BY <1>13, FaultAssumption
     DEF asked, MarkFails, Goto, Fault, Holding, Erasing, LatchInv, TypeOK, LockOwned,
         HeldUnlatched
<1>14. CASE EraseFails(h)
  <2>1. TypeOK' /\ (pc'[h] = "remark" \/ pc'[h] = "open")
    <3>1. faults' \in 0 .. MaxFault
      BY <1>14, FaultAssumption DEF asked, EraseFails, Fault, LatchInv, TypeOK
    <3>2. /\ latched' \in [Handle -> BOOLEAN] /\ failed' \in [Handle -> BOOLEAN]
          /\ redo' \in [Handle -> BOOLEAN]
      BY <1>14 DEF asked, EraseFails, AfterErase, Finish, LatchInv, TypeOK
    <3>3. CASE redo[h]
      BY <1>14, <3>1, <3>2, <3>3
         DEF asked, EraseFails, AfterErase, Goto, LatchInv, TypeOK, LockOwned, Holding, Erasing
    <3>4. CASE ~redo[h]
      BY <1>14, <3>1, <3>2, <3>4, HandleAssumption
         DEF asked, EraseFails, AfterErase, Finish, Goto, LatchInv, TypeOK, LockOwned,
             Holding, Erasing
    <3> QED
      BY <3>3, <3>4
  <2>2. HeldUnlatched'
    BY <1>14, <2>1
       DEF asked, EraseFails, AfterErase, Finish, Goto, LatchInv, TypeOK, HeldUnlatched
  <2> QED
    BY <2>1, <2>2 DEF LatchInv
<1>15. CASE RemarkFails(h)
  BY <1>15, HandleAssumption, FaultAssumption
     DEF asked, RemarkFails, Finish, Goto, Fault, Holding, Erasing, LatchInv, TypeOK,
         LockOwned, HeldUnlatched
<1>16. CASE Crash(h)
  BY <1>16, HandleAssumption, FaultAssumption
     DEF asked, Crash, Goto, Fault, Holding, Erasing, LatchInv, TypeOK, LockOwned,
         HeldUnlatched
<1>17. ASSUME NEW p \in Path, EraseEntry(h, p) PROVE LatchInv'
  BY <1>17 DEF EraseEntry, object, asked, LatchInv, TypeOK, LockOwned, HeldUnlatched
<1>18. ASSUME NEW p \in Path, NEW c \in Content, Write(h, p, c) PROVE LatchInv'
  BY <1>18 DEF Write, object, asked, LatchInv, TypeOK, LockOwned, HeldUnlatched
<1>19. ASSUME NEW p \in Path, NEW c \in Content, WriteHeld(h, p, c) PROVE LatchInv'
  BY <1>19 DEF WriteHeld, object, asked, LatchInv, TypeOK, LockOwned, HeldUnlatched
<1>20. ASSUME NEW S \in SUBSET Secret, ScrubClean(h, S) PROVE LatchInv'
  BY <1>20 DEF ScrubClean, Ask, object, asked, LatchInv, TypeOK, LockOwned, HeldUnlatched
<1>21. ASSUME NEW S \in SUBSET Secret, ScrubCollides(h, S) PROVE LatchInv'
  BY <1>21, HandleAssumption
     DEF ScrubCollides, Withholding, Ask, Goto, Ready, Free, Holding, Erasing, LatchInv,
         TypeOK, LockOwned, HeldUnlatched
<1>22. ASSUME NEW S \in SUBSET Secret, ScanFails(h, S) PROVE LatchInv'
  BY <1>22, HandleAssumption, FaultAssumption
     DEF ScanFails, Withholding, Ask, Goto, Fault, Ready, Free, Holding, Erasing, LatchInv,
         TypeOK, LockOwned, HeldUnlatched
<1>23. ASSUME NEW S \in SUBSET Secret, ScanInterrupted(h, S) PROVE LatchInv'
  BY <1>23, FaultAssumption
     DEF ScanInterrupted, Fault, object, LatchInv, TypeOK, LockOwned, HeldUnlatched
<1> QED
  BY <1>2, <1>3, <1>4, <1>5, <1>6, <1>7, <1>8, <1>9, <1>10, <1>11, <1>12, <1>13, <1>14,
     <1>15, <1>16, <1>17, <1>18, <1>19, <1>20, <1>21, <1>22, <1>23
     DEF Proceed, Writing, Scrubbing

\* A fault is never taken back.
LEMMA FaultsGrow == ASSUME LatchInv, [Next]_vars PROVE faults <= faults'
<1>1. faults \in Nat
  BY FaultAssumption DEF LatchInv, TypeOK
<1>2. faults' = faults \/ faults' = faults + 1
  BY
     DEF Next, vars, object, asked, Open, Close, Refuse, Hold, Release, Withhold, Replay,
         Withholding, Ask, Proceed, Mark, EraseEntry, EraseDone, Remark, MarkFails,
         EraseFails, RemarkFails, Crash, Write, WriteHeld, ScrubClean, ScrubCollides,
         ScanFails, ScanInterrupted, Fault
<1> QED
  BY <1>1, <1>2

\* A step that does not bring the second fault keeps the rest as well.
LEMMA FaultStep ==
  ASSUME FaultInv, [Next]_vars, faults' <= 1
  PROVE  Marking'
<1>1. CASE UNCHANGED vars
  BY <1>1
     DEF vars, object, asked, FaultInv, Owed, Marking, LatchInv, TypeOK, Erasing,
         MarkerOwed, ErasedMarked
<1>2. SUFFICES ASSUME NEW h \in Handle,
                       \/ Open(h) \/ Close(h) \/ Refuse(h) \/ Hold(h) \/ Release(h)
                       \/ Withhold(h) \/ Replay(h) \/ Proceed(h)
                       \/ MarkFails(h) \/ EraseFails(h) \/ RemarkFails(h) \/ Crash(h)
                       \/ Writing(h) \/ Scrubbing(h)
              PROVE  Marking'
  BY <1>1 DEF Next, Writing, Scrubbing
<1>3. CASE Open(h)
  BY <1>3
     DEF Open, Goto, FaultInv, Owed, Marking, LatchInv, TypeOK, Erasing, MarkerOwed,
         ErasedMarked
<1>4. CASE Close(h)
  BY <1>4
     DEF Close, Goto, object, asked, FaultInv, Owed, Marking, LatchInv, TypeOK, Erasing,
         MarkerOwed, ErasedMarked
<1>5. CASE Refuse(h)
  BY <1>5
     DEF Refuse, FaultInv, Owed, Marking, LatchInv, TypeOK, Erasing, MarkerOwed,
         ErasedMarked
<1>6. CASE Hold(h)
  BY <1>6
     DEF Hold, Goto, Ready, object, asked, FaultInv, Owed, Marking, LatchInv, TypeOK,
         Erasing, MarkerOwed, ErasedMarked
<1>7. CASE Release(h)
  BY <1>7
     DEF Release, Goto, object, asked, FaultInv, Owed, Marking, LatchInv, TypeOK,
         Erasing, MarkerOwed, ErasedMarked
<1>8. CASE Withhold(h)
  BY <1>8
     DEF Withhold, Withholding, Ask, Goto, Ready, FaultInv, Owed, Marking, LatchInv,
         TypeOK, Erasing, MarkerOwed, ErasedMarked
<1>9. CASE Replay(h)
  BY <1>9
     DEF Replay, Withholding, Ask, Goto, Ready, FaultInv, Owed, Marking, LatchInv,
         TypeOK, Erasing, MarkerOwed, ErasedMarked
<1>10. CASE Mark(h)
  BY <1>10
     DEF Mark, Goto, FaultInv, Owed, Marking, LatchInv, TypeOK, Erasing, MarkerOwed,
         ErasedMarked
<1>11. CASE EraseDone(h)
  BY <1>11
     DEF EraseDone, AfterErase, Finish, Goto, FaultInv, Owed, Marking, LatchInv, TypeOK,
         Erasing, MarkerOwed, ErasedMarked
<1>12. CASE Remark(h)
  BY <1>12
     DEF Remark, Finish, Goto, FaultInv, Owed, Marking, LatchInv, TypeOK, Erasing,
         MarkerOwed, ErasedMarked
<1>13. CASE MarkFails(h)
  BY <1>13
     DEF MarkFails, Goto, Fault, FaultInv, Owed, Marking, LatchInv, TypeOK, Erasing,
         MarkerOwed, ErasedMarked
<1>14. CASE EraseFails(h)
  BY <1>14
     DEF EraseFails, AfterErase, Finish, Goto, Fault, FaultInv, Owed, Marking, LatchInv,
         TypeOK, Erasing, MarkerOwed, ErasedMarked
<1>15. CASE RemarkFails(h)
  BY <1>15, FaultAssumption
     DEF RemarkFails, Fault, FaultInv, Owed, Marking, LatchInv, TypeOK, Erasing,
         MarkerOwed, ErasedMarked
<1>16. CASE Crash(h)
  BY <1>16, FaultAssumption
     DEF Crash, Goto, Fault, FaultInv, Owed, Marking, LatchInv, TypeOK, Erasing,
         MarkerOwed, ErasedMarked
<1>17. ASSUME NEW p \in Path, EraseEntry(h, p) PROVE Marking'
  BY <1>17
     DEF EraseEntry, object, asked, FaultInv, Owed, Marking, LatchInv, TypeOK, Erasing,
         MarkerOwed, ErasedMarked
<1>18. ASSUME NEW p \in Path, NEW c \in Content, Write(h, p, c) PROVE Marking'
  BY <1>18
     DEF Write, object, asked, FaultInv, Owed, Marking, LatchInv, TypeOK, Erasing,
         MarkerOwed, ErasedMarked
<1>19. ASSUME NEW p \in Path, NEW c \in Content, WriteHeld(h, p, c) PROVE Marking'
  BY <1>19
     DEF WriteHeld, object, asked, FaultInv, Owed, Marking, LatchInv, TypeOK, Erasing,
         MarkerOwed, ErasedMarked
<1>20. ASSUME NEW S \in SUBSET Secret, ScrubClean(h, S) PROVE Marking'
  BY <1>20
     DEF ScrubClean, object, asked, FaultInv, Owed, Marking, LatchInv, TypeOK, Erasing,
         MarkerOwed, ErasedMarked
<1>21. ASSUME NEW S \in SUBSET Secret, ScrubCollides(h, S) PROVE Marking'
  BY <1>21
     DEF ScrubCollides, Withholding, Ask, Goto, Ready, FaultInv, Owed, Marking, LatchInv,
         TypeOK, Erasing, MarkerOwed, ErasedMarked
<1>22. ASSUME NEW S \in SUBSET Secret, ScanFails(h, S) PROVE Marking'
  BY <1>22
     DEF ScanFails, Withholding, Ask, Goto, Fault, Ready, FaultInv, Owed, Marking,
         LatchInv, TypeOK, Erasing, MarkerOwed, ErasedMarked
<1>23. ASSUME NEW S \in SUBSET Secret, ScanInterrupted(h, S) PROVE Marking'
  BY <1>23, FaultAssumption
     DEF ScanInterrupted, Fault, object, FaultInv, Owed, Marking, LatchInv, TypeOK,
         Erasing, MarkerOwed, ErasedMarked
<1> QED
  BY <1>2, <1>3, <1>4, <1>5, <1>6, <1>7, <1>8, <1>9, <1>10, <1>11, <1>12, <1>13, <1>14,
     <1>15, <1>16, <1>17, <1>18, <1>19, <1>20, <1>21, <1>22, <1>23
     DEF Proceed, Writing, Scrubbing

\* What a scrub that is asked about S has dealt with afterwards.
LEMMA AskSettles == ASSUME NEW S, Ask(S) PROVE Settled' = Settled \cup S
BY DEF Ask, Settled

\* Nor does it bring a credential the scrubs have dealt with into a tree that
\* nothing is about to mark.
LEMMA GoneStep ==
  ASSUME FaultInv, [Next]_vars, faults' <= 1
  PROVE  LearnedGone'
<1>1. /\ TypeOK
      /\ ~marker => \A s \in Retained \cap Settled : \E g \in Handle : s \in job[g]
      /\ \A g \in Handle : job[g] # {} => pc[g] \in Erasing
  BY DEF FaultInv, LatchInv, Owed, Marking, LearnedGone, MarkerOwed
<1>2. ASSUME UNCHANGED <<marker, tree, asked, job>> PROVE LearnedGone'
  BY <1>1, <1>2 DEF LearnedGone, Retained, Settled, asked
<1>3. SUFFICES ASSUME NEW h \in Handle,
                       \/ Open(h) \/ Close(h) \/ Refuse(h) \/ Hold(h) \/ Release(h)
                       \/ Withhold(h) \/ Replay(h) \/ Proceed(h)
                       \/ MarkFails(h) \/ EraseFails(h) \/ RemarkFails(h) \/ Crash(h)
                       \/ Writing(h) \/ Scrubbing(h)
              PROVE  LearnedGone'
  BY <1>2 DEF Next, Writing, Scrubbing, vars, object
<1>4. CASE \/ Open(h) \/ Close(h) \/ Refuse(h) \/ Hold(h) \/ Release(h) \/ MarkFails(h)
  BY <1>2, <1>4 DEF Open, Close, Refuse, Hold, Release, MarkFails, object
\* A withholding begins: what it is about is in its hands.
<1>5. ASSUME NEW S \in SUBSET Secret, Withholding(h, S), Ready(h), UNCHANGED <<marker, tree>>
      PROVE  LearnedGone'
  <2>1. job[h] = {}
    BY <1>1, <1>5 DEF Ready, Erasing
  <2>2. /\ \A g \in Handle : job'[g] = IF g = h THEN S \ Settled ELSE job[g]
        /\ Settled' = Settled \cup S /\ Retained' = Retained
    BY <1>1, <1>5, AskSettles DEF Withholding, TypeOK, Retained
  <2>3. ASSUME ~marker, NEW s \in Retained \cap (Settled \cup S)
        PROVE  \E g \in Handle : s \in job'[g]
    <3>1. CASE s \in Settled
      BY <1>1, <2>1, <2>2, <2>3, <3>1
    <3>2. CASE s \notin Settled
      BY <2>2, <2>3, <3>2
    <3> QED
      BY <3>1, <3>2
  <2> QED
    BY <1>5, <2>2, <2>3 DEF LearnedGone
<1>6. CASE Withhold(h) \/ Replay(h)
  BY <1>5, <1>6 DEF Withhold, Replay
<1>7. ASSUME NEW p \in Path, NEW c \in Content \cup {NoFile}, c \notin Settled,
             tree' = [tree EXCEPT ![p] = c], UNCHANGED <<marker, asked, job>>
      PROVE  LearnedGone'
  <2>1. Retained' \subseteq Retained \cup {c} /\ Settled' = Settled
    BY <1>1, <1>7 DEF Retained, TypeOK, Settled, asked
  <2> QED
    BY <1>1, <1>7, <2>1 DEF LearnedGone
<1>8. CASE Writing(h)
  BY <1>7, <1>8 DEF Writing, Write, WriteHeld, object
<1>9. CASE Proceed(h)
  <2>1. CASE Mark(h) \/ Remark(h)
    BY <2>1 DEF Mark, Remark, LearnedGone
  <2>2. CASE EraseDone(h)
    BY <2>2 DEF EraseDone, Emptied, Retained, LearnedGone
  <2>3. ASSUME NEW p \in Path, EraseEntry(h, p) PROVE LearnedGone'
    <3>1. NoFile \notin Settled
      BY <1>1, ContentAssumption DEF Settled, TypeOK
    <3> QED
      BY <1>7, <2>3, <3>1 DEF EraseEntry, object
  <2> QED
    BY <1>9, <2>1, <2>2, <2>3 DEF Proceed
\* A second failure is out of the question here, so the marker is durable.
<1>10. CASE EraseFails(h) \/ RemarkFails(h)
  <2>1. faults = 0 /\ ~redo[h]
    BY <1>1, <1>10, FaultAssumption
       DEF EraseFails, RemarkFails, Fault, TypeOK, FaultInv, Owed, Marking, MarkerOwed
  <2>2. marker'
    BY <1>10, <2>1 DEF EraseFails, RemarkFails, FaultInv, Owed, Marking, MarkerOwed
  <2> QED
    BY <2>2 DEF LearnedGone
<1>11. CASE Crash(h)
  <2>1. /\ Settled' = Settled \ job[h] /\ Retained' = Retained /\ marker' = marker
        /\ \A g \in Handle : g # h => job'[g] = job[g]
    BY <1>1, <1>11 DEF Crash, Settled, Retained, TypeOK
  <2> QED
    BY <1>1, <2>1 DEF LearnedGone
<1>12. CASE Scrubbing(h)
  <2>1. ASSUME NEW S \in SUBSET Secret, ScrubClean(h, S) PROVE LearnedGone'
    <3>1. /\ Settled' = Settled \cup S /\ Retained \cap S = {}
          /\ UNCHANGED <<marker, tree, job>>
      BY <2>1, AskSettles DEF ScrubClean, object
    <3> QED
      BY <1>1, <3>1 DEF LearnedGone, Retained
  <2>2. ASSUME NEW S \in SUBSET Secret, ScanInterrupted(h, S) PROVE LearnedGone'
    <3>1. Settled' = Settled /\ UNCHANGED <<marker, tree, job>>
      BY <2>2 DEF ScanInterrupted, Settled, object
    <3> QED
      BY <1>1, <3>1 DEF LearnedGone, Retained
  <2>3. ASSUME NEW S \in SUBSET Secret, ScrubCollides(h, S) \/ ScanFails(h, S)
        PROVE  LearnedGone'
    BY <1>5, <2>3 DEF ScrubCollides, ScanFails
  <2> QED
    BY <1>12, <2>1, <2>2, <2>3 DEF Scrubbing
<1> QED
  BY <1>3, <1>4, <1>6, <1>8, <1>9, <1>10, <1>11, <1>12

-----------------------------------------------------------------------------
\* Whatever the number of objects, values and faults, the state keeps its types
\* and the lock belongs to the object whose steps hold it.
THEOREM TypeCorrect == Spec => []TypeOK
<1>1. Init => LatchInv
  BY InitInv DEF FaultInv
<1>2. LatchInv /\ [Next]_vars => LatchInv'
  BY LatchStep
<1>3. LatchInv => TypeOK
  BY DEF LatchInv
<1> QED
  BY <1>1, <1>2, <1>3, PTL DEF Spec

\* Once the marker is durable no write of any object reaches the tree: neither
\* write_bytes nor the holder of retained_filesystem.
THEOREM WritesStopAtLatch == Spec => NoWriteAfterLatch
<1>1. Init => LatchInv
  BY InitInv DEF FaultInv
<1>2. LatchInv /\ [Next]_vars => LatchInv'
  BY LatchStep
<1>3. LatchInv /\ [Next]_vars => [marker => NothingAdded]_vars
  <2>1. SUFFICES ASSUME LatchInv, Next, marker PROVE NothingAdded
    OBVIOUS
  <2>2. PICK h \in Handle :
          \/ Open(h) \/ Close(h) \/ Refuse(h) \/ Hold(h) \/ Release(h)
          \/ Withhold(h) \/ Replay(h) \/ Proceed(h)
          \/ MarkFails(h) \/ EraseFails(h) \/ RemarkFails(h) \/ Crash(h)
          \/ Writing(h) \/ Scrubbing(h)
    BY <2>1 DEF Next, Writing, Scrubbing
  <2>3. ~Writing(h)
    BY <2>1 DEF Writing, Write, WriteHeld, Latched, LatchInv, HeldUnlatched
  <2>4. CASE Proceed(h)
    BY <2>1, <2>4
       DEF Proceed, Mark, EraseDone, Remark, EraseEntry, NothingAdded, LatchInv, TypeOK
  <2>5. ~Proceed(h) => tree' = tree
    BY <2>2, <2>3
       DEF Open, Close, Refuse, Hold, Release, Withhold, Replay, MarkFails, EraseFails,
           RemarkFails, Crash, Scrubbing, ScrubClean, ScrubCollides, ScanFails,
           ScanInterrupted
  <2> QED
    BY <2>4, <2>5 DEF NothingAdded
<1> QED
  BY <1>1, <1>2, <1>3, PTL DEF Spec, NoWriteAfterLatch

\* The inductive invariant holds: until a second crash or failed call, every
\* completed scrub and withholding leaves the marker and the erasure it owes.
LEMMA Safe == Spec => []SafeInv
<1>1. Init => SafeInv
  BY InitInv DEF SafeInv, FaultInv
<1>2. ASSUME SafeInv, [Next]_vars PROVE SafeInv'
  <2>1. LatchInv'
    BY <1>2, LatchStep DEF SafeInv
  <2>2. ASSUME faults' <= 1 PROVE FaultInv'
    <3>1. faults <= 1
      <4>1. faults \in Nat /\ faults' \in Nat
        BY <1>2, <2>1, FaultAssumption DEF SafeInv, LatchInv, TypeOK
      <4>2. faults <= faults'
        BY <1>2, FaultsGrow DEF SafeInv
      <4> QED
        BY <2>2, <4>1, <4>2
    <3> QED
      BY <1>2, <2>1, <2>2, <3>1, FaultStep, GoneStep DEF SafeInv, FaultInv, Owed
  <2> QED
    BY <2>1, <2>2 DEF SafeInv
<1> QED
  BY <1>1, <1>2, PTL DEF Spec

\* Until a second fault, a partly erased run always carries its marker when the
\* lock is free.
THEOREM ErasureIsMarked == Spec => []PartialErasureIsMarked
<1>1. SafeInv => PartialErasureIsMarked
  <2>1. SUFFICES ASSUME SafeInv, faults <= 1, erased, Free PROVE marker
    BY Zenon DEF PartialErasureIsMarked
  <2>2. ASSUME NEW h \in Handle, redo[h] PROVE lock = h
    BY <2>1, <2>2
       DEF SafeInv, FaultInv, Owed, Marking, LatchInv, TypeOK, LockOwned, MarkerOwed
  <2> QED
    BY <2>1, <2>2, HandleAssumption DEF SafeInv, FaultInv, Owed, Marking, ErasedMarked, Free
<1> QED
  BY <1>1, Safe, PTL

\* Until a second fault, no object serves evidence that contains a credential a
\* scrub was asked about, unless that scrub was cut short before its marker.
THEOREM LearnedUnreadable == Spec => []NothingLearnedReadable
<1>1. SafeInv => NothingLearnedReadable
  <2>1. SUFFICES ASSUME SafeInv, faults <= 1, NEW h \in Handle, Ready(h), ~Latched(h),
                        NEW s \in Retained \cap Settled
                 PROVE  FALSE
    BY DEF NothingLearnedReadable, Readable, Settled
  <2>2. PICK g \in Handle : s \in job[g]
    BY <2>1 DEF SafeInv, FaultInv, Owed, Marking, LearnedGone, Latched
  <2>3. lock = g
    BY <2>1, <2>2
       DEF SafeInv, FaultInv, Owed, Marking, LatchInv, TypeOK, LockOwned, MarkerOwed, Holding
  <2> QED
    BY <2>1, <2>3, HandleAssumption DEF Ready, Free
<1> QED
  BY <1>1, Safe, PTL
=============================================================================
