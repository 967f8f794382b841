---------------------------- MODULE SandboxProofs ----------------------------
(***************************************************************************)
(* Proofs about the sandbox, for every number of processes, checks and     *)
(* failures and every size of output: what is exported is final, no        *)
(* process of the command exists before its limits were verified, and the  *)
(* records that are accepted are true and add up.                          *)
(***************************************************************************)
EXTENDS SandboxService, WellFoundedInduction, TLAPS

USE DEF Pid, Exists, Alive, Ended, Fault

\* A listing that has shown nothing is still at its start.
ListingInv == pc \in Scanning /\ seen = {} => at = 1

\* Nothing runs before a command is launched, nor between the proof that
\* nothing is left and the next launch.
EmptyInv == pc \in {"read", "prepare", "launch", "drain", "export"} => Empty

\* The workspace is exported in the last step before the response.
ExportInv == candidate # None => pc \in {"report", "exited", "dead"} /\ candidate = tree /\ Empty

IInv == TypeInside /\ ListingInv /\ EmptyInv /\ ExportInv

\* What the actions leave alone keeps its type.
LEMMA Unchanged ==
  ASSUME TypeInside
  PROVE  /\ UNCHANGED control => TypeControl'
         /\ UNCHANGED space => TypeSpace'
         /\ UNCHANGED <<run, fresh>> => TypeRun'
         /\ UNCHANGED output => TypeOutput'
         /\ UNCHANGED listing => TypeListing'
         /\ UNCHANGED report => TypeReport'
<1>1. UNCHANGED control => TypeControl'
  BY DEF TypeInside, TypeControl, control
<1>2. UNCHANGED space => TypeSpace'
  BY DEF TypeInside, TypeSpace, space
<1>3. UNCHANGED <<run, fresh>> => TypeRun'
  BY DEF TypeInside, TypeRun, run
<1>4. UNCHANGED output => TypeOutput'
  BY DEF TypeInside, TypeOutput, output
<1>5. UNCHANGED listing => TypeListing'
  BY DEF TypeInside, TypeListing, listing
<1>6. UNCHANGED report => TypeReport'
  BY DEF TypeInside, TypeReport, report
<1> QED
  BY <1>1, <1>2, <1>3, <1>4, <1>5, <1>6

LEMMA InitInv == ASSUME InitInside PROVE IInv
<1> USE TreeAssumption, BoundAssumption DEF InitInside
<1>1. TypeFlags
  BY DEF TypeFlags
<1>2. TypeControl
  BY DEF TypeControl
<1>3. TypeSpace
  BY DEF TypeSpace
<1>4. TypeRun
  BY DEF TypeRun
<1>5. TypeOutput /\ TypeListing
  BY DEF TypeOutput, TypeListing
<1>6. TypeReport
  BY DEF TypeReport
<1>7. Empty /\ candidate = None
  BY DEF Empty
<1> QED
  BY <1>1, <1>2, <1>3, <1>4, <1>5, <1>6, <1>7
     DEF IInv, TypeInside, ListingInv, EmptyInv, ExportInv

\* What is retained never exceeds what there is, and is a number.
LEMMA Retaining ==
  ASSUME TypeInside, NEW n \in Nat, Retain(n)
  PROVE  kept' \in Nat /\ pipe' \in Nat
<1>1. Cap \in Nat
  BY BoundAssumption DEF TypeInside, TypeReport, Cap
<1> DEFINE taken == IF n < Cap - kept THEN n ELSE Cap - kept
<1>2. kept' = kept + taken /\ pipe' = 0
  BY DEF Retain
<1>3. kept + taken \in Nat
  BY <1>1 DEF TypeInside, TypeOutput
<1> QED
  BY <1>2, <1>3

LEMMA TypeStep == ASSUME TypeInside, NextInside PROVE TypeInside'
<1> USE TreeAssumption, BoundAssumption, Unchanged DEF TypeInside
<1>1. CASE \/ Materialize \/ GraceAgain \/ Proven \/ DrainFails \/ Refuse
           \/ Tick \/ Elsewhere \/ CleanupFails \/ Breaks
  <2>1. TypeFlags'
    BY <1>1
       DEF Materialize, GraceAgain, Proven, DrainFails, Refuse, Tick, Elsewhere,
           CleanupFails, Breaks, Raise, TypeFlags, output
  <2>2. TypeControl'
    BY <1>1
       DEF Materialize, GraceAgain, Proven, DrainFails, Refuse, Tick, Elsewhere,
           CleanupFails, Breaks, Raise, TypeControl, Cleaning
  <2> QED
    BY <1>1, <2>1, <2>2
       DEF Materialize, GraceAgain, Proven, DrainFails, Refuse, Tick, Elsewhere,
           CleanupFails, Breaks, space
<1>2. CASE \E b \in BOOLEAN : ReadRequest(b)
  <2>1. TypeFlags'
    BY <1>2 DEF ReadRequest, TypeFlags, output
  <2>2. TypeControl'
    BY <1>2 DEF ReadRequest, TypeControl
  <2> QED
    BY <1>2, <2>1, <2>2 DEF ReadRequest, space
<1>3. CASE ReadNothing \/ Close \/ Export
  <2>1. TypeFlags'
    BY <1>3 DEF ReadNothing, Close, Export, TypeFlags, output
  <2>2. TypeControl'
    BY <1>3 DEF ReadNothing, Close, Export, TypeControl
  <2>3. TypeReport'
    BY <1>3 DEF ReadNothing, Close, Export, Scanned, TypeReport, TypeSpace
  <2> QED
    BY <1>3, <2>1, <2>2, <2>3 DEF ReadNothing, Close, Export, space
<1>4. CASE OutOfTime
  <2>1. TypeFlags'
    BY <1>4 DEF OutOfTime, TypeFlags, output
  <2>2. TypeControl'
    BY <1>4 DEF OutOfTime, TypeControl
  <2>3. TypeReport'
    BY <1>4 DEF OutOfTime, TypeReport, Record, Code
  <2> QED
    BY <1>4, <2>1, <2>2, <2>3 DEF OutOfTime, space
<1>5. CASE Launch
  <2>1. TypeFlags'
    BY <1>5 DEF Launch, TypeFlags
  <2>2. TypeControl'
    BY <1>5 DEF Launch, TypeControl
  <2>3. TypeSpace'
    BY <1>5 DEF Launch, TypeSpace
  <2>4. TypeRun'
    BY <1>5 DEF Launch, TypeRun
  <2>5. TypeOutput'
    BY <1>5 DEF Launch, TypeOutput
  <2> QED
    BY <1>5, <2>1, <2>2, <2>3, <2>4, <2>5 DEF Launch
<1>6. CASE Harden
  <2>1. TypeFlags'
    BY <1>6 DEF Harden, TypeFlags, output
  <2>2. TypeControl'
    BY <1>6 DEF Harden, TypeControl
  <2>3. TypeSpace'
    <3>1. primary \in Pid \cup {0} /\ primary < fresh
      BY DEF TypeRun
    <3>2. proc' = [proc EXCEPT ![primary] = "running"] /\ UNCHANGED <<parent, fresh, tree>>
      BY <1>6 DEF Harden
    <3>3. proc' \in [Pid -> {"none", "stopped", "running", "killed", "zombie", "gone"}]
      BY <3>2 DEF TypeSpace
    <3>4. \A p \in Pid : proc'[p] = IF p = primary THEN "running" ELSE proc[p]
      BY <3>2 DEF TypeSpace
    <3>5. \A p \in Pid : proc'[p] = "none" <=> p >= fresh'
      BY <3>1, <3>2, <3>4 DEF TypeSpace
    <3> QED
      BY <3>2, <3>3, <3>5 DEF TypeSpace
  <2> QED
    BY <1>6, <2>1, <2>2, <2>3 DEF Harden
<1>7. CASE ReadOutput \/ TimesOut
  <2>1. TypeFlags'
    BY <1>7 DEF ReadOutput, TimesOut, Retain, TypeFlags
  <2>2. TypeControl'
    BY <1>7 DEF ReadOutput, TimesOut, TypeControl, Cleaning
  <2>3. TypeOutput'
    BY <1>7, Retaining DEF ReadOutput, TimesOut, TypeOutput
  <2> QED
    BY <1>7, <2>1, <2>2, <2>3 DEF ReadOutput, TimesOut, space
<1>8. CASE Drain
  <2>1. TypeFlags'
    BY <1>8 DEF Drain, Retain, TypeFlags, control
  <2>2. TypeOutput'
    BY <1>8, Retaining DEF Drain, TypeOutput
  <2> QED
    BY <1>8, <2>1, <2>2 DEF Drain, space
<1>9. CASE PrimaryEnds \/ PrimaryReaped
  <2>1. TypeFlags'
    BY <1>9 DEF PrimaryEnds, PrimaryReaped, TypeFlags, output
  <2>2. TypeControl'
    BY <1>9 DEF PrimaryEnds, PrimaryReaped, TypeControl, Cleaning
  <2>3. TypeSpace'
    BY <1>9 DEF PrimaryEnds, PrimaryReaped, Reap, TypeSpace
  <2>4. TypeRun'
    BY <1>9 DEF PrimaryEnds, PrimaryReaped, Polled, TypeRun, Code
  <2> QED
    BY <1>9, <2>1, <2>2, <2>3, <2>4 DEF PrimaryEnds, PrimaryReaped
<1>10. CASE GraceEnds
  <2>1. TypeFlags'
    BY <1>10 DEF GraceEnds, TypeFlags, output
  <2>2. TypeControl'
    BY <1>10 DEF GraceEnds, Scan, TypeControl, Cleaning, Scanning
  <2>3. TypeListing'
    BY <1>10 DEF GraceEnds, Scan, TypeListing
  <2> QED
    BY <1>10, <2>1, <2>2, <2>3 DEF GraceEnds, space
<1>11. CASE Grace
  <2>1. TypeFlags'
    BY <1>11 DEF Grace, TypeFlags, output
  <2>2. TypeControl'
    BY <1>11 DEF Grace, Scan, TypeControl, Cleaning, Scanning
  <2>3. TypeSpace'
    BY <1>11 DEF Grace, ReapAdopted, TypeSpace
  <2>4. TypeRun'
    BY <1>11 DEF Grace, Polled, TypeRun, Code
  <2>5. TypeListing'
    BY <1>11 DEF Grace, Scan, TypeListing
  <2> QED
    BY <1>11, <2>1, <2>2, <2>3, <2>4, <2>5 DEF Grace
<1>12. CASE Prove
  <2>1. TypeFlags'
    BY <1>12 DEF Prove, TypeFlags, output
  <2>2. TypeControl'
    BY <1>12 DEF Prove, Scan, TypeControl, Cleaning, Scanning
  <2>3. TypeSpace'
    BY <1>12 DEF Prove, ReapAdopted, TypeSpace
  <2>4. TypeListing'
    BY <1>12 DEF Prove, Scan, TypeListing
  <2> QED
    BY <1>12, <2>1, <2>2, <2>3, <2>4 DEF Prove
<1>13. CASE ScanEntry
  <2>1. TypeFlags'
    BY <1>13 DEF ScanEntry, TypeFlags, control, output
  <2>2. TypeListing'
    BY <1>13 DEF ScanEntry, TypeListing
  <2> QED
    BY <1>13, <2>1, <2>2 DEF ScanEntry, space
<1>14. CASE Kill \/ ProveAgain \/ Respond \/ NamespaceDies
  <2>1. TypeFlags'
    BY <1>14 DEF Kill, ProveAgain, Respond, NamespaceDies, TypeFlags, output
  <2>2. TypeControl'
    BY <1>14 DEF Kill, ProveAgain, Respond, NamespaceDies, TypeControl, Cleaning
  <2>3. TypeSpace'
    BY <1>14 DEF Kill, ProveAgain, Respond, NamespaceDies, KillSeen, TypeSpace
  <2> QED
    BY <1>14, <2>1, <2>2, <2>3 DEF Kill, ProveAgain, Respond, NamespaceDies
<1>15. CASE EndCheck
  <2>1. TypeFlags'
    BY <1>15 DEF EndCheck, TypeFlags, output
  <2>2. TypeControl'
    BY <1>15 DEF EndCheck, TypeControl
  <2>3. TypeReport'
    BY <1>15 DEF EndCheck, Trimmed, TypeReport, Record, TypeFlags, TypeOutput, TypeRun
  <2> QED
    BY <1>15, <2>1, <2>2, <2>3 DEF EndCheck, space
<1>16. CASE HardenFails
  <2>1. TypeFlags'
    BY <1>16 DEF HardenFails, Raise, TypeFlags, output
  <2>2. TypeControl'
    BY <1>16 DEF HardenFails, Raise, TypeControl, Cleaning
  <2>3. TypeSpace'
    <3>1. primary \in Pid \cup {0} /\ primary < fresh
      BY DEF TypeRun
    <3>2. proc' = [proc EXCEPT ![primary] = "gone"] /\ UNCHANGED <<parent, fresh, tree>>
      BY <1>16 DEF HardenFails, Reap
    <3>3. proc' \in [Pid -> {"none", "stopped", "running", "killed", "zombie", "gone"}]
      BY <3>2 DEF TypeSpace
    <3>4. \A p \in Pid : proc'[p] = IF p = primary THEN "gone" ELSE proc[p]
      BY <3>2 DEF TypeSpace
    <3>5. \A p \in Pid : proc'[p] = "none" <=> p >= fresh'
      BY <3>1, <3>2, <3>4 DEF TypeSpace
    <3> QED
      BY <3>2, <3>3, <3>5 DEF TypeSpace
  <2>4. TypeRun'
    BY <1>16 DEF HardenFails, TypeRun, Code
  <2> QED
    BY <1>16, <2>1, <2>2, <2>3, <2>4 DEF HardenFails
<1>17. CASE \E p \in Pid : Fork(p)
  <2>1. TypeFlags'
    BY <1>17 DEF Fork, TypeFlags, control, output
  <2>2. TypeSpace'
    BY <1>17 DEF Fork, TypeSpace
  <2>3. TypeRun'
    BY <1>17 DEF Fork, TypeRun, run
  <2> QED
    BY <1>17, <2>1, <2>2, <2>3 DEF Fork
<1>18. CASE \E p \in Pid : Exit(p)
  <2>1. TypeFlags'
    BY <1>18 DEF Exit, TypeFlags, control, output
  <2>2. TypeSpace'
    BY <1>18 DEF Exit, TypeSpace
  <2>3. TypeRun'
    BY <1>18 DEF Exit, TypeRun, Code
  <2> QED
    BY <1>18, <2>1, <2>2, <2>3 DEF Exit
<1>19. CASE \E p \in Pid : ReapChild(p) \/ \E t \in Tree : WriteTree(p, t)
  <2>1. TypeFlags'
    BY <1>19 DEF ReapChild, WriteTree, TypeFlags, control, output
  <2>2. TypeSpace'
    BY <1>19 DEF ReapChild, WriteTree, TypeSpace
  <2> QED
    BY <1>19, <2>1, <2>2 DEF ReapChild, WriteTree
<1>20. CASE \E p \in Pid : Produce(p)
  <2>1. TypeFlags'
    BY <1>20 DEF Produce, TypeFlags, control
  <2>2. TypeOutput'
    BY <1>20 DEF Produce, TypeOutput
  <2> QED
    BY <1>20, <2>1, <2>2 DEF Produce, space
<1> QED
  BY <1>1, <1>2, <1>3, <1>4, <1>5, <1>6, <1>7, <1>8, <1>9, <1>10, <1>11, <1>12, <1>13, <1>14,
     <1>15, <1>16, <1>17, <1>18, <1>19, <1>20
     DEF NextInside, SupervisorStep, Failure, ProcessStep

LEMMA SafetyStep == ASSUME IInv, NextInside PROVE ListingInv' /\ EmptyInv' /\ ExportInv'
<1> USE TreeAssumption
    DEF IInv, TypeInside, TypeSpace, ListingInv, EmptyInv, ExportInv, Empty, Scanning, Cleaning
<1>1. CASE Grace \/ GraceEnds \/ Prove
  BY <1>1 DEF Grace, GraceEnds, Prove, Scan, report
<1>2. CASE ScanEntry
  BY <1>2 DEF ScanEntry, control, report
<1>3. CASE Proven
  BY <1>3 DEF Proven, ScanEnds, space, report
<1>4. CASE Export
  BY <1>4 DEF Export, Scanned, space
<1>5. CASE ProcessStep
  <2>1. ~Empty
    BY <1>5 DEF ProcessStep, Fork, Exit, ReapChild, WriteTree, Produce
  <2>2. UNCHANGED <<pc, at, seen, candidate>>
    BY <1>5
       DEF ProcessStep, Fork, Exit, ReapChild, WriteTree, Produce, control, listing,
           report
  <2> QED
    BY <2>1, <2>2
<1>6. CASE Launch \/ Harden \/ PrimaryEnds \/ Kill \/ PrimaryReaped \/ ProveAgain
  BY <1>6 DEF Launch, Harden, PrimaryEnds, Kill, PrimaryReaped, ProveAgain, report
<1>7. CASE \/ ReadOutput \/ TimesOut \/ GraceAgain \/ CleanupFails
           \/ Drain \/ DrainFails \/ EndCheck \/ Close
  BY <1>7
     DEF ReadOutput, TimesOut, GraceAgain, CleanupFails, Drain, DrainFails, EndCheck,
         Close, Raise, control, space, report
<1>8. CASE Respond \/ NamespaceDies
  BY <1>8 DEF Respond, NamespaceDies, report
<1>9. CASE \/ ReadNothing \/ Materialize \/ OutOfTime \/ Refuse
           \/ HardenFails \/ Breaks \/ Elsewhere \/ Tick
  BY <1>9
     DEF ReadNothing, Materialize, OutOfTime, Refuse, HardenFails, Breaks, Elsewhere,
         Tick, Raise, space, listing, report
<1>10. CASE \E b \in BOOLEAN : ReadRequest(b)
  BY <1>10 DEF ReadRequest, space, report
<1> QED
  BY <1>1, <1>2, <1>3, <1>4, <1>5, <1>6, <1>7, <1>8, <1>9, <1>10
     DEF NextInside, SupervisorStep, Failure

\* Nothing outside does more to the namespace than to kill it.
LEMMA ServiceStep == ASSUME [Next]_vars PROVE [NextInside]_inside
<1>1. CASE UNCHANGED vars
  BY <1>1 DEF vars
<1>2. CASE Prepare \/ PrepareFails \/ Ask \/ UnitStarts \/ LauncherEnds
  BY <1>2 DEF Prepare, PrepareFails, Ask, UnitStarts, LauncherEnds
<1>3. CASE Inspect \/ InspectFails \/ Feed \/ StreamEnds \/ StreamCut
  BY <1>3 DEF Inspect, InspectFails, Feed, StreamEnds, StreamCut
<1>4. CASE FindGroup \/ GroupEmpty \/ Unproven \/ Judge \/ Overdue
  BY <1>4 DEF FindGroup, GroupEmpty, Unproven, Judge, Overdue
<1>5. CASE LauncherFails \/ StreamFails \/ ClientDies
  BY <1>5 DEF LauncherFails, StreamFails, ClientDies, NextInside
<1>6. CASE Abort \/ FinalKill
  BY <1>6 DEF Abort, FinalKill, KillUnit, NextInside
<1>7. CASE \/ Inside(Receive) \/ Inside(EndOfInput) \/ Inside(SupervisorStep) \/ Inside(Failure)
           \/ Inside(Tick) \/ Inside(ProcessStep) \/ Inside(NamespaceDies)
  BY <1>7 DEF Inside, Receive, EndOfInput, NextInside
<1> QED
  BY <1>1, <1>2, <1>3, <1>4, <1>5, <1>6, <1>7 DEF Next

\* Seen from within, an execution of SandboxExecutor is one of sandbox-init.
THEOREM Implements == Spec => SpecInside
<1>1. Init => InitInside
  BY DEF Init
<1> QED
  BY <1>1, ServiceStep, PTL DEF Spec, SpecInside

LEMMA Inductive == SpecInside => []IInv
<1>1. InitInside => IInv
  BY InitInv
<1>2. IInv /\ [NextInside]_inside => IInv'
  <2> SUFFICES ASSUME IInv, [NextInside]_inside PROVE IInv'
    OBVIOUS
  <2>1. CASE NextInside
    BY <2>1, TypeStep, SafetyStep DEF IInv
  <2>2. CASE UNCHANGED inside
    <3>1. UNCHANGED <<control, space, run, output, listing, report>>
      BY <2>2 DEF inside
    <3>2. TypeFlags'
      BY <3>1 DEF IInv, TypeInside, TypeFlags, control, output
    <3>3. UNCHANGED <<run, fresh>>
      BY <3>1 DEF space
    <3>4. TypeInside'
      BY <3>1, <3>2, <3>3, Unchanged DEF IInv, TypeInside
    <3>5. UNCHANGED <<pc, at, seen, proc, tree, candidate>>
      BY <3>1 DEF control, listing, space, report
    <3> QED
      BY <3>4, <3>5 DEF IInv, ListingInv, EmptyInv, ExportInv, Empty
  <2> QED
    BY <2>1, <2>2
<1> QED
  BY <1>1, <1>2, PTL DEF SpecInside

\* Candidate export is unreachable before the cleanup proof, and final.
THEOREM ExportFinal == Spec => []ExportIsFinal
<1>1. IInv => ExportIsFinal
  BY DEF IInv, ExportInv, ExportIsFinal
<1> QED
  BY <1>1, Implements, Inductive, PTL

\* Whatever has a command to work on has received a request, and it is only
\* sent to a unit whose limits were verified.
LimitsInv ==
  /\ client = "stream" => verified
  /\ fed => verified
  /\ fresh > 2 \/ pc \notin {"read", "report", "exited", "dead"} => fed

THEOREM LimitsFirst == Spec => []LimitsBeforeWork
<1>1. Init => LimitsInv
  BY DEF Init, InitInside, LimitsInv
<1>2. IInv /\ LimitsInv /\ [Next]_vars => LimitsInv'
  <2> SUFFICES ASSUME IInv, LimitsInv, [Next]_vars PROVE LimitsInv'
    OBVIOUS
  <2>1. CASE Inside(SupervisorStep) \/ Inside(Failure) \/ Inside(Tick)
    <3>1. \/ pc = "report" /\ pc' = "exited" /\ fresh' = fresh
          \/ pc \notin {"read", "report", "exited", "dead"}
      BY <2>1
         DEF Inside, SupervisorStep, Failure, Tick, Materialize, Launch, OutOfTime,
             Harden, ReadOutput, PrimaryEnds, TimesOut, Grace, GraceEnds, GraceAgain,
             ScanEntry, Kill, PrimaryReaped, Prove, ProveAgain, Proven, CleanupFails,
             Drain, DrainFails, EndCheck, Close, Export, Respond, Refuse, HardenFails,
             Breaks, Scanning, Cleaning
    <3> QED
      BY <2>1, <3>1 DEF Inside, outside, LimitsInv
  <2>2. CASE Inside(ProcessStep)
    <3>1. PICK p \in Pid : Exists(p)
      BY <2>2 DEF Inside, ProcessStep, Fork, Exit, ReapChild, WriteTree, Produce
    <3>2. fresh > 2
      BY <3>1 DEF IInv, TypeInside, TypeSpace
    <3> QED
      BY <2>2, <3>2 DEF Inside, outside, LimitsInv
  <2>3. CASE Inside(Receive) \/ Inside(EndOfInput) \/ Inside(NamespaceDies)
    BY <2>3
       DEF Inside, Receive, EndOfInput, ReadNothing, NamespaceDies, space, outside,
           LimitsInv
  <2>4. CASE Abort \/ FinalKill
    <3>1. fresh' = fresh /\ (pc' = pc \/ pc' = "dead")
      BY <2>4
         DEF Abort, FinalKill, KillUnit, NamespaceDies, Elsewhere, inside, control,
             space
    <3> QED
      BY <2>4, <3>1 DEF Abort, FinalKill, Goto, LimitsInv
  <2>5. CASE LauncherFails \/ StreamFails \/ ClientDies
    BY <2>5 DEF LauncherFails, StreamFails, ClientDies, Elsewhere, Goto, space, LimitsInv
  <2>6. CASE \/ Prepare \/ PrepareFails \/ Ask \/ UnitStarts
             \/ LauncherEnds \/ Inspect \/ InspectFails
    BY <2>6
       DEF Prepare, PrepareFails, Ask, UnitStarts, LauncherEnds, Inspect, InspectFails,
           Goto, inside, control, space, LimitsInv
  <2>7. CASE \/ Feed \/ StreamEnds \/ StreamCut \/ FindGroup
             \/ GroupEmpty \/ Unproven \/ Judge \/ Overdue
    BY <2>7
       DEF Feed, StreamEnds, StreamCut, FindGroup, GroupEmpty, Unproven, Judge,
           Overdue, Goto, inside, control, space, LimitsInv
  <2>8. CASE UNCHANGED vars
    BY <2>8 DEF vars, inside, outside, control, space, LimitsInv
  <2> QED
    BY <2>1, <2>2, <2>3, <2>4, <2>5, <2>6, <2>7, <2>8 DEF Next
<1>3. LimitsInv => LimitsBeforeWork
  BY DEF LimitsInv, LimitsBeforeWork
<1> QED
  BY <1>1, <1>2, <1>3, Implements, Inductive, PTL DEF Spec

THEOREM TypeCorrect == Spec => []TypeOK
<1> DEFINE Outer == /\ client \in Stage /\ launcher \in {"none", "up", "success", "failure"}
                    /\ {asked, started, verified, group, fed, cut, overdue} \subseteq BOOLEAN
<1>1. Init => Outer
  BY DEF Init, Stage
<1>2. Outer /\ [Next]_vars => Outer'
  <2> SUFFICES ASSUME Outer, [Next]_vars PROVE Outer'
    OBVIOUS
  <2>1. CASE Prepare \/ PrepareFails \/ Ask \/ UnitStarts \/ LauncherEnds \/ LauncherFails
    BY <2>1
       DEF Prepare, PrepareFails, Ask, UnitStarts, LauncherEnds, LauncherFails, Goto,
           Stage
  <2>2. CASE \/ Inspect \/ InspectFails \/ Feed \/ StreamEnds
             \/ StreamCut \/ StreamFails \/ Abort
    BY <2>2
       DEF Inspect, InspectFails, Feed, StreamEnds, StreamCut, StreamFails, Abort,
           Goto, Stage
  <2>3. CASE \/ FinalKill \/ FindGroup \/ GroupEmpty \/ Unproven
             \/ Judge \/ ClientDies \/ Overdue
    BY <2>3
       DEF FinalKill, FindGroup, GroupEmpty, Unproven, Judge, ClientDies, Overdue,
           Goto, Stage, Running
  <2>4. CASE \/ Inside(Receive) \/ Inside(EndOfInput) \/ Inside(SupervisorStep) \/ Inside(Failure)
             \/ Inside(Tick) \/ Inside(ProcessStep) \/ Inside(NamespaceDies) \/ UNCHANGED vars
    BY <2>4 DEF Inside, outside, vars
  <2> QED
    BY <2>1, <2>2, <2>3, <2>4 DEF Next
<1>3. IInv /\ Outer => TypeOK
  BY DEF IInv, TypeOK
<1> QED
  BY <1>1, <1>2, <1>3, Implements, Inductive, PTL DEF Spec


\* A status is only taken for the primary's while the primary can still tell it:
\* nobody else reaps it before.
ReapInv ==
  /\ pc \in Cleaning \cup {"harden", "watch", "drain"} => primary \in Pid
  /\ primary \in Pid =>
       /\ parent[primary] = 1
       /\ proc[primary] \in {"stopped", "running", "killed"} => told = "none"
       /\ proc[primary] = "zombie" => status # "none"
       /\ proc[primary] = "gone" /\ ~Over => told # "none"
  /\ pc = "harden" => proc[primary] = "stopped"
  /\ pc \in {"harden", "watch"} => told = "none"
  /\ told # "none" => told = status
  /\ pc \in {"prove", "proveScan", "drain"} => told # "none"

\* Every record is truthful, and so will be the one of the present check.
TruthInv ==
  /\ lost => limited
  /\ \A i \in 1 .. Len(records) : Truthful(records[i])

LEMMA ReapStep == ASSUME IInv, ReapInv, NextInside PROVE ReapInv'
<1> USE DEF ReapInv, IInv, TypeInside, TypeRun, TypeSpace, Cleaning, Scanning, Over, Code
<1>1. CASE Launch
  BY <1>1 DEF Launch
<1>2. CASE Harden
  BY <1>2 DEF Harden, run
<1>3. CASE HardenFails
  BY <1>3 DEF HardenFails, Reap, Raise
<1>4. CASE PrimaryEnds \/ PrimaryReaped
  BY <1>4 DEF PrimaryEnds, PrimaryReaped, Reap, Polled
<1>5. CASE Grace
  BY <1>5 DEF Grace, Polled, ReapAdopted, Scan
<1>6. CASE Prove
  BY <1>6 DEF Prove, ReapAdopted, Scan, run
<1>7. CASE Kill \/ ProveAgain
  <2>1. /\ pc \in Cleaning /\ pc' \in {"wait", "prove"}
        /\ pc' = "prove" => pc = "proveScan"
    BY <1>7 DEF Kill, ProveAgain
  <2>2. UNCHANGED <<primary, status, told, parent>>
    BY <1>7 DEF Kill, ProveAgain, run
  <2>3. \A p \in Pid : proc'[p] = proc[p] \/ (proc[p] = "running" /\ proc'[p] = "killed")
    BY <1>7 DEF Kill, ProveAgain, KillSeen
  <2>4. primary \in Pid
    BY <2>1
  <2>5. /\ proc[primary] = "running" => told = "none"
        /\ proc'[primary] = proc[primary] \/ (proc[primary] = "running" /\ proc'[primary] = "killed")
    BY <2>3, <2>4
  <2>6. /\ parent'[primary'] = 1
        /\ proc'[primary'] \in {"stopped", "running", "killed"} => told' = "none"
        /\ proc'[primary'] = "zombie" => status' # "none"
        /\ proc'[primary'] = "gone" /\ ~Over' => told' # "none"
    BY <2>1, <2>2, <2>4, <2>5
  <2>7. /\ told' # "none" => told' = status'
        /\ pc' = "prove" => told' # "none"
    BY <2>1, <2>2
  <2> QED
    BY <2>1, <2>2, <2>4, <2>6, <2>7
<1>8. CASE ProcessStep
  <2> PICK p \in Pid : \/ Fork(p) \/ Exit(p) \/ ReapChild(p) \/ Produce(p)
                        \/ \E t \in Tree : WriteTree(p, t)
    BY <1>8 DEF ProcessStep
  <2>1. CASE Fork(p)
    BY <2>1 DEF Fork, control, run
  <2>2. CASE Exit(p)
    BY <2>2 DEF Exit, control
  <2>3. CASE ReapChild(p)
    BY <2>3 DEF ReapChild, control, run
  <2>4. CASE Produce(p) \/ \E t \in Tree : WriteTree(p, t)
    BY <2>4 DEF Produce, WriteTree, control, space, run
  <2> QED
    BY <2>1, <2>2, <2>3, <2>4
<1>9. CASE Respond \/ NamespaceDies
  <2>1. pc' \in {"exited", "dead"} /\ UNCHANGED <<primary, status, told, parent>>
    BY <1>9 DEF Respond, NamespaceDies, run
  <2>2. \A p \in Pid : proc'[p] = proc[p] \/ proc'[p] = "gone"
    BY <1>9 DEF Respond, NamespaceDies
  <2>3. \A p \in Pid : proc'[p] \in {"stopped", "running", "killed", "zombie"} => proc'[p] = proc[p]
    BY <2>2
  <2> QED
    BY <2>1, <2>3
<1>10. CASE \/ ReadOutput \/ TimesOut \/ GraceEnds \/ GraceAgain \/ ScanEntry
            \/ Proven \/ CleanupFails \/ Breaks \/ Tick \/ Elsewhere
  BY <1>10
     DEF ReadOutput, TimesOut, GraceEnds, GraceAgain, ScanEntry, Proven, CleanupFails,
         Breaks, Tick, Elsewhere, Scan, Raise, control, space, run
<1>11. CASE \/ ReadNothing \/ Materialize \/ OutOfTime \/ Drain \/ DrainFails
            \/ EndCheck \/ Close \/ Export \/ Refuse
  BY <1>11
     DEF ReadNothing, Materialize, OutOfTime, Drain, DrainFails, EndCheck, Close,
         Export, Refuse, control, space, run
<1>12. CASE \E b \in BOOLEAN : ReadRequest(b)
  BY <1>12 DEF ReadRequest, space, run
<1> QED
  BY <1>1, <1>2, <1>3, <1>4, <1>5, <1>6, <1>7, <1>8, <1>9, <1>10, <1>11, <1>12
     DEF NextInside, SupervisorStep, Failure

LEMMA TruthStep == ASSUME IInv, ReapInv, TruthInv, NextInside PROVE TruthInv'
<1> USE DEF TruthInv, IInv, TypeInside
<1>1. CASE ReadOutput \/ Drain
  BY <1>1 DEF ReadOutput, Drain, Retain, report
<1>2. CASE Launch \/ TimesOut
  BY <1>2 DEF Launch, TimesOut, report
<1>3. CASE EndCheck
  <2> DEFINE over == Trimmed < kept
             rec  == [code |-> told, timed |-> timed, limited |-> limited \/ over,
                      started |-> TRUE, size |-> Trimmed, really |-> status, lost |-> lost \/ over]
  <2>1. records' = Append(records, rec) /\ UNCHANGED <<lost, limited>>
    BY <1>3 DEF EndCheck, output
  <2>2. Truthful(rec)
    BY <1>3 DEF EndCheck, Truthful, ReapInv
  <2> QED
    BY <2>1, <2>2
<1>4. CASE OutOfTime
  BY <1>4 DEF OutOfTime, output, Truthful
<1>5. CASE \/ Materialize \/ Harden \/ PrimaryEnds \/ Grace \/ GraceEnds \/ GraceAgain
           \/ ScanEntry \/ Kill \/ PrimaryReaped \/ Prove \/ ProveAgain
  BY <1>5
     DEF Materialize, Harden, PrimaryEnds, Grace, GraceEnds, GraceAgain, ScanEntry,
         Kill, PrimaryReaped, Prove, ProveAgain, output, report
<1>6. CASE \/ Proven \/ CleanupFails \/ DrainFails \/ Close \/ Export
           \/ Respond \/ Refuse \/ HardenFails \/ Breaks
  BY <1>6
     DEF Proven, CleanupFails, DrainFails, Close, Export, Respond, Refuse, HardenFails,
         Breaks, output, report
<1>7. CASE ReadNothing \/ Elsewhere \/ NamespaceDies \/ Tick \/ ProcessStep
  BY <1>7
     DEF ReadNothing, Elsewhere, NamespaceDies, Tick, ProcessStep, Fork, Exit,
         ReapChild, WriteTree, Produce, output, report
<1>8. CASE \E b \in BOOLEAN : ReadRequest(b)
  BY <1>8 DEF ReadRequest, output, report
<1> QED
  BY <1>2, <1>1, <1>3, <1>4, <1>5, <1>6, <1>7, <1>8 DEF NextInside, SupervisorStep, Failure

\* The records say of each check how it really ended, and that output was lost
\* if it was.
THEOREM RecordsTruthful == Spec => [](\A r \in ToSet(records) : Truthful(r))
<1>1. InitInside => ReapInv /\ TruthInv
  BY DEF InitInside, ReapInv, TruthInv, Cleaning, Scanning
<1>2. IInv /\ ReapInv /\ TruthInv /\ [NextInside]_inside => ReapInv' /\ TruthInv'
  <2> SUFFICES ASSUME IInv, ReapInv, TruthInv, [NextInside]_inside PROVE ReapInv' /\ TruthInv'
    OBVIOUS
  <2>1. CASE NextInside
    BY <2>1, ReapStep, TruthStep
  <2>2. CASE UNCHANGED inside
    BY <2>2 DEF inside, control, space, run, output, report, ReapInv, TruthInv, Over
  <2> QED
    BY <2>1, <2>2
<1>3. IInv /\ TruthInv => \A r \in ToSet(records) : Truthful(r)
  BY DEF TruthInv, ToSet
<1> QED
  BY <1>1, <1>2, <1>3, Implements, Inductive, PTL DEF SpecInside

-----------------------------------------------------------------------------
(***************************************************************************)
(* The records of a batch add up: induction over their number, for a set   *)
(* of numbers.                                                             *)
(***************************************************************************)
LEMMA Least ==
  ASSUME NEW T, T \subseteq Nat, T # {}
  PROVE  \E m \in T : \A n \in T : m <= n
<1> DEFINE R == OpToRel(<, Nat)
<1>1. IsWellFoundedOn(R, Nat)
  BY NatLessThanWellFounded
<1>2. \A x, y \in Nat : x < y => <<x, y>> \in R
  BY DEF OpToRel
<1> HIDE DEF R
<1>3. PICK m \in T : \A y \in T : ~ (<<y, m>> \in R)
  BY <1>1, WFMin
<1>4. ASSUME NEW n \in T PROVE m <= n
  <2>1. ~ (n < m)
    BY <1>2, <1>3
  <2> QED
    BY <2>1
<1> QED
  BY <1>4

LEMMA Induct ==
  ASSUME NEW T, 0 \in T, \A n \in Nat : n \in T => n + 1 \in T
  PROVE  Nat \subseteq T
<1> SUFFICES ASSUME Nat \ T # {} PROVE FALSE
  OBVIOUS
<1>1. PICK m \in Nat \ T : \A n \in Nat \ T : m <= n
  BY Least
<1>2. m # 0 /\ m - 1 \in Nat
  BY <1>1
<1>3. m - 1 \in T
  BY <1>1, <1>2
<1> QED
  BY <1>1, <1>2, <1>3

\* How Total adds up the first n sizes.
Adding(f, list, n) == f = [i \in 0 .. n |-> IF i = 0 THEN 0 ELSE f[i - 1] + list[i].size]

LEMMA AddingIs ==
  ASSUME NEW list, NEW n \in Nat, NEW f, Adding(f, list, n)
  PROVE  f[0] = 0 /\ \A i \in 1 .. n : f[i] = f[i - 1] + list[i].size
<1>1. \A i \in 0 .. n : f[i] = IF i = 0 THEN 0 ELSE f[i - 1] + list[i].size
  BY DEF Adding
<1>2. 0 \in 0 .. n /\ \A i \in 1 .. n : i \in 0 .. n /\ i # 0
  OBVIOUS
<1> QED
  BY <1>1, <1>2, Zenon

LEMMA AddingExists == ASSUME NEW list PROVE \A n \in Nat : \E f : Adding(f, list, n)
<1> DEFINE T == {n \in Nat : \E f : Adding(f, list, n)}
<1>1. 0 \in T
  <2>1. Adding([i \in 0 .. 0 |-> 0], list, 0)
    BY DEF Adding
  <2> QED
    BY <2>1
<1>2. ASSUME NEW n \in Nat, n \in T PROVE n + 1 \in T
  <2>1. PICK f : Adding(f, list, n)
    BY <1>2
  <2> DEFINE Plus(sum, i) == sum + list[i].size
             g == [i \in 0 .. n + 1 |-> IF i <= n THEN f[i] ELSE Plus(f[n], n + 1)]
  <2>2. \A i \in 0 .. n : f[i] = IF i = 0 THEN 0 ELSE Plus(f[i - 1], i)
    BY <2>1 DEF Adding
  <2> HIDE DEF Plus
  <2>3. \A i \in 0 .. n + 1 : g[i] = IF i = 0 THEN 0 ELSE Plus(g[i - 1], i)
    <3> TAKE i \in 0 .. n + 1
    <3>1. CASE i = 0
      <4>1. 0 \in 0 .. n /\ 0 <= n /\ g[0] = f[0]
        OBVIOUS
      <4> QED
        BY <2>2, <3>1, <4>1
    <3>2. CASE i # 0 /\ i <= n
      <4>1. /\ i \in 0 .. n /\ i - 1 \in 0 .. n /\ i \in 0 .. n + 1
            /\ i - 1 \in 0 .. n + 1 /\ i - 1 <= n
        BY <3>2
      <4>2. g[i] = f[i] /\ g[i - 1] = f[i - 1]
        BY <3>2, <4>1
      <4> QED
        BY <2>2, <3>2, <4>1, <4>2
    <3>3. CASE i = n + 1
      <4>1. i - 1 = n /\ ~(i <= n) /\ n \in 0 .. n + 1 /\ g[n] = f[n] /\ i # 0
        BY <3>3
      <4> QED
        BY <3>3, <4>1
    <3> QED
      BY <3>1, <3>2, <3>3
  <2> HIDE DEF g
  <2>4. Adding(g, list, n + 1)
    BY <2>3 DEF Adding, g, Plus
  <2> QED
    BY <2>4
<1> HIDE DEF T
<1>3. Nat \subseteq T
  BY <1>1, <1>2, Induct
<1> QED
  BY <1>3 DEF T

LEMMA TotalUnfolds ==
  ASSUME NEW list, Len(list) \in Nat
  PROVE  \E f : /\ f[0] = 0 /\ Total(list) = f[Len(list)]
                /\ \A i \in 1 .. Len(list) : f[i] = f[i - 1] + list[i].size
<1> DEFINE n == Len(list)
           f == CHOOSE f : Adding(f, list, n)
<1>1. Adding(f, list, n)
  BY AddingExists
<1>2. Total(list) = f[n]
  BY DEF Total, Adding
<1> HIDE DEF f
<1>3. f[0] = 0 /\ \A i \in 1 .. n : f[i] = f[i - 1] + list[i].size
  BY <1>1, AddingIs
<1> QED
  BY <1>2, <1>3, Zenon

LEMMA TotalGrows ==
  ASSUME NEW list \in Seq(Record), NEW rec \in Record
  PROVE  Total(Append(list, rec)) = Total(list) + rec.size
<1> DEFINE n == Len(list)
           longer == Append(list, rec)
<1>1. /\ n \in Nat /\ Len(longer) = n + 1 /\ longer[n + 1] = rec
      /\ \A i \in 1 .. n : longer[i] = list[i] /\ i \in 1 .. n + 1
  OBVIOUS
<1> HIDE DEF longer
<1>2. PICK f : /\ f[0] = 0 /\ Total(list) = f[n]
               /\ \A i \in 1 .. n : f[i] = f[i - 1] + list[i].size
  BY <1>1, TotalUnfolds
<1>3. PICK g : /\ g[0] = 0 /\ Total(longer) = g[n + 1]
               /\ \A i \in 1 .. n + 1 : g[i] = g[i - 1] + longer[i].size
  <2>1. Len(longer) \in Nat
    BY <1>1
  <2> QED
    BY <1>1, <2>1, TotalUnfolds
<1> DEFINE T == {i \in Nat : i <= n => g[i] = f[i]}
<1>4. 0 \in T
  BY <1>2, <1>3
<1>5. ASSUME NEW i \in Nat, i \in T PROVE i + 1 \in T
  <2> SUFFICES ASSUME i + 1 <= n PROVE g[i + 1] = f[i + 1]
    OBVIOUS
  <2>1. i + 1 \in 1 .. n /\ (i + 1) - 1 = i /\ g[i] = f[i]
    BY <1>1, <1>5
  <2>2. f[i + 1] = f[i] + list[i + 1].size
    BY <1>2, <2>1
  <2>3. g[i + 1] = g[i] + list[i + 1].size
    BY <1>1, <1>3, <2>1
  <2> QED
    BY <2>1, <2>2, <2>3
<1> HIDE DEF T
<1>6. Nat \subseteq T
  BY <1>4, <1>5, Induct
<1>7. g[n] = f[n]
  BY <1>1, <1>6 DEF T
<1>8. g[n + 1] = g[n] + rec.size
  <2>1. n + 1 \in 1 .. n + 1 /\ (n + 1) - 1 = n
    BY <1>1
  <2> QED
    BY <1>1, <1>3, <2>1
<1> QED
  BY <1>2, <1>3, <1>7, <1>8 DEF longer

LEMMA TotalOfNone == Total(<<>>) = 0
<1>1. Len(<<>>) = 0 /\ 0 \in Nat
  OBVIOUS
<1>2. \E f : f[0] = 0 /\ Total(<<>>) = f[Len(<<>>)]
  BY <1>1, TotalUnfolds
<1> QED
  BY <1>1, <1>2

-----------------------------------------------------------------------------
\* While a check of a batch is to be recorded there is room for one.
Before == Cleaning \cup {"prepare", "launch", "harden", "watch", "drain"}

\* The batch is over: all its checks are recorded, or the last one says why not.
Done ==
  /\ Len(records) \in 1 .. Checks
  /\ Len(records) < Checks =>
       Last(records).timed \/ Last(records).limited \/ Last(records).code = "stop"

\* What the records retain is what the batch no longer has left.
BatchInv ==
  /\ pc = "read" => records = <<>> /\ raw = RawMax
  /\ \A i \in 1 .. Len(records) :
       ~records[i].started => records[i].timed /\ ~records[i].limited /\ records[i].size = 0
  /\ batch => /\ Total(records) + raw = RawMax /\ Total(records) \in Nat
              /\ pc \in Before => Len(records) < Checks
              /\ pc = "export" \/ outcome = "result" => Done
  /\ outcome = "result" => pc \in {"report", "exited", "dead"}

LEMMA InitBatch == InitInside => BatchInv
BY DEF InitInside, BatchInv

\* A step that records nothing only has to say where it leads.
LEMMA BatchStays ==
  ASSUME BatchInv, UNCHANGED <<batch, raw, records>>,
         pc' = "read" => pc = "read",
         pc' \in Before => pc \in Before,
         outcome' = "result" => outcome = "result" \/ pc = "export",
         pc' = "export" => pc = "export",
         outcome' = "result" => pc' \in {"report", "exited", "dead"}
  PROVE  BatchInv'
BY DEF BatchInv, Done

LEMMA BatchStep == ASSUME IInv, BatchInv, NextInside PROVE BatchInv'
<1> USE DEF Cleaning, Scanning, Before
<1>0. /\ raw \in Nat /\ records \in Seq(Record) /\ kept \in Nat
      /\ timed \in BOOLEAN /\ limited \in BOOLEAN /\ lost \in BOOLEAN /\ batch \in BOOLEAN
      /\ told \in Code \cup {"none"} /\ status \in Code \cup {"none"}
  BY DEF IInv, TypeInside, TypeReport, TypeOutput, TypeFlags, TypeRun
<1>1. CASE \E b \in BOOLEAN : ReadRequest(b)
  <2>1. /\ pc = "read" /\ pc' = "prepare" /\ UNCHANGED report /\ records = <<>> /\ raw = RawMax
        /\ outcome # "result"
    BY <1>1 DEF ReadRequest, BatchInv
  <2>2. Total(records) = 0 /\ Len(records) = 0
    BY <2>1, TotalOfNone
  <2>3. Total(records)' = 0
    BY <2>1, <2>2 DEF report
  <2> QED
    BY <1>0, <2>1, <2>2, <2>3, BoundAssumption DEF BatchInv, report
<1>2. CASE EndCheck
  <2> DEFINE over == Trimmed < kept
             rec  == [code |-> told, timed |-> timed, limited |-> limited \/ over,
                      started |-> TRUE, size |-> Trimmed, really |-> status, lost |-> lost \/ over]
  <2>1. /\ records' = Append(records, rec) /\ pc = "drain" /\ UNCHANGED <<batch, outcome>>
        /\ pc' = IF batch /\ ~rec.timed /\ ~rec.limited /\ told # "stop"
                    /\ Len(records) + 1 < Checks
                 THEN "launch" ELSE "export"
        /\ raw' = IF batch THEN raw - Trimmed ELSE raw
    BY <1>2 DEF EndCheck
  <2>2. Trimmed \in Nat /\ (batch => Trimmed <= raw)
    BY <1>0 DEF Trimmed
  <2>3. rec \in Record
    BY <1>0, <2>2 DEF Record
  <2>4. rec.size = Trimmed /\ rec.started = TRUE /\ rec.code = told
    OBVIOUS
  <2> HIDE DEF rec
  <2>5. Total(records') = Total(records) + Trimmed
    BY <1>0, <2>1, <2>3, <2>4, TotalGrows
  <2>6. /\ Len(records') = Len(records) + 1 /\ Last(records') = rec
        /\ \A i \in 1 .. Len(records') : records'[i] = rec \/ (i \in 1 .. Len(records)
                                                             /\ records'[i] = records[i])
    BY <1>0, <2>1, <2>3 DEF Last
  <2>7. Total(records)' = Total(records')
    BY DEF Total
  <2>8. ASSUME batch PROVE Total(records)' + raw' = RawMax /\ Total(records)' \in Nat
    <3>1. Total(records) + raw = RawMax /\ Total(records) \in Nat
      BY <2>8 DEF BatchInv
    <3> QED
      BY <1>0, <2>1, <2>2, <2>5, <2>7, <2>8, <3>1
  <2>9. ASSUME batch PROVE (pc' \in Before => Len(records') < Checks) /\ (pc' = "export" => Done')
    <3>1. Len(records) < Checks /\ Len(records) \in Nat
      BY <1>0, <2>1, <2>9 DEF BatchInv
    <3>2. pc' = "export" => rec.timed \/ rec.limited \/ rec.code = "stop" \/ Len(records) + 1 >= Checks
      BY <2>1, <2>4, <2>9, <3>1, BoundAssumption
    <3> QED
      BY <2>1, <2>6, <3>1, <3>2, BoundAssumption DEF Done
  <2>10. outcome' # "result"
    BY <2>1 DEF BatchInv
  <2> QED
    BY <2>1, <2>4, <2>6, <2>8, <2>9, <2>10 DEF BatchInv
<1>3. CASE OutOfTime
  <2> DEFINE rec == [code |-> "zero", timed |-> TRUE, limited |-> FALSE, started |-> FALSE,
                     size |-> 0, really |-> "zero", lost |-> FALSE]
  <2>1. /\ records' = Append(records, rec) /\ pc = "launch" /\ UNCHANGED <<batch, outcome, raw>>
        /\ pc' = "export" /\ batch
    BY <1>3 DEF OutOfTime, output
  <2>2. rec \in Record /\ rec.size = 0 /\ rec.timed = TRUE /\ rec.limited = FALSE
    BY DEF Record, Code
  <2> HIDE DEF rec
  <2>3. Total(records') = Total(records) + 0
    BY <1>0, <2>1, <2>2, TotalGrows
  <2>4. /\ Len(records') = Len(records) + 1 /\ Last(records') = rec
        /\ \A i \in 1 .. Len(records') : records'[i] = rec \/ (i \in 1 .. Len(records)
                                                             /\ records'[i] = records[i])
    BY <1>0, <2>1, <2>2 DEF Last
  <2>5. Total(records)' = Total(records')
    BY DEF Total
  <2>6. /\ Total(records) + raw = RawMax /\ Total(records) \in Nat /\ Len(records) < Checks
        /\ Len(records) \in Nat /\ outcome # "result"
    BY <1>0, <2>1 DEF BatchInv
  <2>7. Total(records)' + raw' = RawMax /\ Total(records)' \in Nat
    BY <1>0, <2>1, <2>3, <2>5, <2>6
  <2>8. Done'
    BY <2>2, <2>4, <2>6, BoundAssumption DEF Done
  <2> QED
    BY <2>1, <2>2, <2>4, <2>6, <2>7, <2>8 DEF BatchInv
<1>4. CASE Export
  BY <1>4, BatchStays DEF Export, BatchInv
<1>5. CASE ReadNothing \/ Close
  BY <1>5, BatchStays DEF ReadNothing, Close, BatchInv
<1>6. CASE \/ Materialize \/ Launch \/ Harden \/ ReadOutput \/ PrimaryEnds \/ TimesOut
           \/ Grace \/ GraceEnds \/ GraceAgain \/ Kill \/ PrimaryReaped
  <2>1. /\ pc \in Before /\ pc' \in Before /\ UNCHANGED <<batch, report>>
        /\ pc' # "export" /\ pc' # "read"
    BY <1>6
       DEF Materialize, Launch, Harden, ReadOutput, PrimaryEnds, TimesOut, Grace, GraceEnds,
           GraceAgain, Kill, PrimaryReaped, Scan
  <2> QED
    BY <2>1, BatchStays DEF BatchInv, report
<1>7. CASE \/ ScanEntry \/ Prove \/ ProveAgain \/ Proven \/ CleanupFails \/ Drain \/ DrainFails
           \/ HardenFails \/ Breaks
  <2>1. /\ pc \in Before /\ pc' \in Before \cup {"close"} /\ UNCHANGED <<batch, report>>
    BY <1>7
       DEF ScanEntry, Prove, ProveAgain, Proven, CleanupFails, Drain, DrainFails, HardenFails,
           Breaks, Scan, Raise, control
  <2> QED
    BY <2>1, BatchStays DEF BatchInv, report
<1>8. CASE Respond \/ NamespaceDies \/ Refuse
  BY <1>8, BatchStays DEF Respond, NamespaceDies, Refuse, BatchInv, report
<1>9. CASE Elsewhere \/ Tick
  BY <1>9, BatchStays DEF Elsewhere, Tick, BatchInv, report
<1>10. CASE ProcessStep
  <2>1. UNCHANGED <<pc, batch, report>>
    BY <1>10 DEF ProcessStep, Fork, Exit, ReapChild, WriteTree, Produce, control
  <2> QED
    BY <2>1, BatchStays DEF BatchInv, report
<1> QED
  BY <1>1, <1>2, <1>3, <1>4, <1>5, <1>6, <1>7, <1>8, <1>9, <1>10
     DEF NextInside, SupervisorStep, Failure

-----------------------------------------------------------------------------
\* The response is written once.
LEMMA ResponseStays ==
  ASSUME BatchInv, [NextInside]_inside, outcome = "result"
  PROVE  outcome' = "result"
<1>0. pc \in {"report", "exited", "dead"}
  BY DEF BatchInv
<1>1. CASE UNCHANGED inside \/ Respond \/ NamespaceDies \/ Elsewhere \/ ProcessStep
  BY <1>1
     DEF inside, report, Respond, NamespaceDies, Elsewhere, ProcessStep, Fork, Exit, ReapChild,
         WriteTree, Produce
<1>2. ASSUME NextInside PROVE Respond \/ NamespaceDies \/ Elsewhere \/ ProcessStep
  BY <1>0, <1>2
     DEF NextInside, SupervisorStep, Failure, ReadRequest, ReadNothing, Materialize, Launch,
         OutOfTime, Harden, ReadOutput, PrimaryEnds, TimesOut, Grace, GraceEnds, GraceAgain,
         ScanEntry, Kill, PrimaryReaped, Prove, ProveAgain, Proven, CleanupFails, Drain,
         DrainFails, EndCheck, Close, Export, Refuse, HardenFails, Breaks, Tick, Scanning, Cleaning
<1> QED
  BY <1>1, <1>2

\* What is accepted is the response of a supervisor that has exported.
Judged == client = "accepted" => outcome = "result"

LEMMA JudgedStep == ASSUME BatchInv, Judged, [Next]_vars PROVE Judged'
<1>1. outcome = "result" => outcome' = "result"
  BY ServiceStep, ResponseStays
<1>2. CASE Judge
  BY <1>1, <1>2 DEF Judge, ResultParses, Judged, Goto
<1>3. CASE \/ Prepare \/ PrepareFails \/ Inspect \/ InspectFails \/ StreamEnds \/ StreamCut
           \/ StreamFails \/ Abort \/ FinalKill \/ FindGroup \/ GroupEmpty \/ Unproven
           \/ ClientDies
  <2>1. client' # "accepted"
    BY <1>3
       DEF Prepare, PrepareFails, Inspect, InspectFails, StreamEnds, StreamCut, StreamFails,
           Abort, FinalKill, FindGroup, GroupEmpty, Unproven, ClientDies, Goto
  <2> QED
    BY <2>1 DEF Judged
<1>4. CASE \/ Ask \/ UnitStarts \/ LauncherEnds \/ LauncherFails \/ Feed \/ Overdue
           \/ Inside(Receive) \/ Inside(EndOfInput) \/ Inside(SupervisorStep) \/ Inside(Failure)
           \/ Inside(Tick) \/ Inside(ProcessStep) \/ Inside(NamespaceDies) \/ UNCHANGED vars
  <2>1. client' = client
    BY <1>4
       DEF Ask, UnitStarts, LauncherEnds, LauncherFails, Feed, Overdue, Inside, outside, vars
  <2> QED
    BY <1>1, <2>1 DEF Judged
<1> QED
  BY <1>2, <1>3, <1>4 DEF Next

\* What the executor accepts says of each check how it really ended, names
\* output that was thrown away, and is a batch result its parser takes: however
\* processes were reaped and output was read (parse_validation_batch_result).
THEOREM RecordsAlwaysTrue == Spec => []RecordsAreTrue
<1>1. Init => BatchInv /\ Judged
  BY InitBatch DEF Init, Judged
<1>2. IInv /\ BatchInv /\ Judged /\ [Next]_vars => BatchInv' /\ Judged'
  <2> SUFFICES ASSUME IInv, BatchInv, Judged, [Next]_vars PROVE BatchInv' /\ Judged'
    OBVIOUS
  <2>1. CASE NextInside
    BY <2>1, BatchStep, JudgedStep
  <2>2. CASE UNCHANGED inside
    <3>1. UNCHANGED <<batch, raw, records, pc, outcome>>
      BY <2>2 DEF inside, control, report
    <3>2. BatchInv'
      BY <3>1, BatchStays DEF BatchInv
    <3> QED
      BY <3>2, JudgedStep
  <2> QED
    BY <2>1, <2>2, ServiceStep
<1>3. /\ \A r \in ToSet(records) : Truthful(r)
      /\ IInv /\ BatchInv /\ Judged
      => RecordsAreTrue
  <2> SUFFICES ASSUME IInv, BatchInv, Judged, batch, client = "accepted" PROVE WellFormed
    BY DEF RecordsAreTrue
  <2>1. Done /\ Total(records) + raw = RawMax /\ Total(records) \in Nat
    BY DEF BatchInv, Judged
  <2>2. raw \in Nat
    BY DEF IInv, TypeInside, TypeReport
  <2>3. Total(records) <= RawMax
    BY <2>1, <2>2, BoundAssumption
  <2>4. \A r \in ToSet(records) : ~r.started => r.timed /\ ~r.limited /\ r.size = 0
    BY DEF BatchInv, ToSet
  <2> QED
    BY <2>1, <2>3, <2>4 DEF WellFormed, Done
<1> QED
  BY <1>1, <1>2, <1>3, Implements, Inductive, RecordsTruthful, PTL DEF Spec
=============================================================================
