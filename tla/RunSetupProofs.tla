--------------------------- MODULE RunSetupProofs ---------------------------
(***************************************************************************)
(* Proofs about the preparation of a run, for any number of changes of the *)
(* repository and the system, any clock, and any generations of the login: *)
(* the snapshot is one state of the repository, the run is let in by a     *)
(* receipt for the system it has read, and nothing it retains holds a      *)
(* login.  The three rest on three strengthenings with little in common,   *)
(* each of them kept by every step.                                        *)
(***************************************************************************)
EXTENDS RunSetup, TLAPS

USE BoundAssumption, ValidityAssumption

\* Every change counts, so there are stamps enough for the change times.
Counted ==
  /\ \A e \in Entry : repo[e].ctime \in 0 .. changes
  /\ \A p \in Part : part[p] \in 0 .. changes

------------------------------------------------------------------------------
\* The snapshot.  An entry seen twice with the same change time was the same
\* all the time between: at every moment of the extraction it had that value.
Between == pc \in Reads \/ (pc = "scan" /\ pass \in {3, 4})
Held(e) == \A m \in moments : m[e] = trusted[e].value

\* A reading is of now, or its change time is past.
IsPast(r, e) == /\ r[e].ctime <= repo[e].ctime
                /\ r[e].ctime = repo[e].ctime => r[e] = repo[e]

\* What git has read was true at one of the moments.
Witnessed(e, v) == \E m \in moments : m[e] = v

Settled == {"install", "boundary", "runtime", "verify", "acquire", "screen", "prepare",
            "rescreen", "configure", "start", "build", "ready", "previewed", "interrupted",
            "unsettled"}

Idling   == /\ pc \in Reads \cup {"lock", "preflight"} => now = NoPass
            /\ pc \in {"lock", "preflight"} => pass = 1
Past     == pc = "scan" => \A e \in Entry : now[e] # NoPass[e] => IsPast(now, e)
Current  == pc \in Reads => Values \in moments
Steady   == Between => \A e \in Entry : /\ IsPast(trusted, e)
                                        /\ trusted[e].ctime = repo[e].ctime => Held(e)
SeenHeld == Between => \A e \in Entry : now[e] # NoPass[e] /\ now[e] = trusted[e] => Held(e)
Found    == /\ Between /\ pc # "shape" => Witnessed("config", 1)
            /\ Between /\ pc \notin {"shape", "commit"} => Witnessed("head", snap.commit)
            /\ Between /\ pc \notin {"shape", "commit", "tree"} => Witnessed("head", snap.tree)
OneState == pc \in Settled => /\ snap.commit = snap.tree
                              /\ moments = {[config |-> 1, head |-> snap.commit]}

SourceInv == Idling /\ Past /\ Current /\ Steady /\ SeenHeld /\ Found /\ OneState

------------------------------------------------------------------------------
\* The receipt.  Versions only grow, so a part read equal before and after the
\* gates was the same during all of them.
Testing == Gates \cup {"again"}
Bound   == Part \ {"runtime"}

ReceiptInv ==
  /\ qpc \in {"idle", "install", "boundary"} => under = NoVersions
  /\ qpc \in {"idle", "install", "boundary"} \cup Testing => qagain["runtime"] = -1
  /\ qpc \in {"idle", "install", "boundary"} \cup Gates => qagain = NoReading
  /\ qpc \in {"install", "boundary"} \cup Testing => qseen["host"] \in 0 .. part["host"]
  /\ qpc \in {"boundary"} \cup Testing => qseen["install"] \in 0 .. part["install"]
  /\ qpc \in Testing => qseen["boundary"] \in 0 .. part["boundary"]
  /\ qpc \in Testing => \A p \in Bound : under[p] \subseteq qseen[p] .. part[p]
  /\ qpc = "again" => \A p \in Bound : /\ under[p] # {}
                                       /\ qagain[p] # -1 => under[p] \subseteq qseen[p] .. qagain[p]
  /\ qpc \in {"runtime", "issue"} => \A p \in Bound : under[p] = {qagain[p]}
  /\ receipt # NoReceipt => \A p \in Bound : receipt.under[p] = {receipt.binding[p]}
  /\ admitted # NoReceipt => /\ ~Undecided /\ pc # "lock"
                             /\ \A p \in Bound : admitted.under[p] = {seen[p]}

------------------------------------------------------------------------------
\* The screening.  From the first screening on the run knows all generations
\* there have been, and from the second on none of them is in its inputs.
Early  == Undecided \/ pc = "acquire"
Cleared == {"configure", "start", "build", "ready"}

ScreenInv ==
  /\ Early => known = {} /\ gen = 0 /\ secret = NoSecret
  /\ Early \/ pc \in {"screen", "prepare", "rescreen", "previewed"} => retained = {}
  /\ pc \in {"screen", "prepare", "rescreen"} \cup Cleared => known = 0 .. gen
  /\ pc \in Cleared => ~Collides(known)
  /\ pc = "interrupted" => 0 .. gen \subseteq known \cup {gen}
  /\ InputsScreened

IInv == TypeOK /\ Counted /\ SourceInv /\ ReceiptInv /\ ScreenInv

------------------------------------------------------------------------------
\* Types.
LEMMA TypeRepository ==
  ASSUME TypeOK, Counted, NEW e \in Entry, RepositoryChanges(e)
  PROVE  TypeOK' /\ Counted'
<1>1. /\ changes < MaxChange /\ changes' = changes + 1
      /\ UNCHANGED <<part, clock, receipt, process, qualifier>>
  BY DEF RepositoryChanges
<1>2. PICK v \in 0 .. 1 :
        repo' = [repo EXCEPT ![e] = [value |-> v, ctime |-> @.ctime + 1]]
  BY DEF RepositoryChanges
<1>3. /\ repo[e].ctime \in 0 .. changes /\ changes \in 0 .. MaxChange
      /\ repo \in [Entry -> [value : 0 .. 1, ctime : Stamp \cup {-1}]]
  BY DEF TypeOK, TypeOutside, Counted, Witness
<1>4. changes' \in 0 .. MaxChange /\ repo[e].ctime + 1 \in 0 .. changes'
      /\ repo[e].ctime + 1 \in Stamp
  BY <1>1, <1>3 DEF Stamp
<1>5. [value |-> v, ctime |-> repo[e].ctime + 1] \in [value : 0 .. 1, ctime : Stamp \cup {-1}]
  BY <1>4
<1>6. repo' \in Witness
  BY <1>2, <1>3, <1>5 DEF Witness
<1>7. \A d \in Entry : repo'[d].value \in 0 .. 1 /\ repo[d].value \in 0 .. 1
  BY <1>3, <1>6 DEF Witness
<1>8. [Values EXCEPT ![e] = repo'[e].value] \in [Entry -> 0 .. 1]
  BY <1>7 DEF Values
<1>9. moments' \subseteq [Entry -> 0 .. 1]
  BY <1>8 DEF RepositoryChanges, TypeOK, TypeOutside
<1>10. TypeOutside'
  BY <1>1, <1>4, <1>6, <1>9 DEF TypeOK, TypeOutside
<1>11. Counted'
  <2>1. \A p \in Part : part'[p] \in 0 .. changes'
    BY <1>1, <1>3 DEF Counted
  <2>2. \A d \in Entry : repo'[d].ctime \in 0 .. changes'
    <3> SUFFICES ASSUME NEW d \in Entry PROVE repo'[d].ctime \in 0 .. changes'
      OBVIOUS
    <3>1. CASE d = e
      BY <1>2, <1>3, <1>4, <3>1
    <3>2. CASE d # e
      <4>1. repo'[d] = repo[d]
        BY <1>2, <1>3, <3>2
      <4>2. repo[d].ctime \in 0 .. changes
        BY DEF Counted
      <4> QED
        BY <1>1, <1>3, <4>1, <4>2
    <3> QED
      BY <3>1, <3>2
  <2> QED
    BY <2>1, <2>2 DEF Counted
<1>12. TypeSource' /\ TypeScreening' /\ TypeReceipts'
  BY <1>1 DEF TypeOK, TypeSource, TypeScreening, TypeReceipts, process, source, screening, qualifier
<1> QED
  BY <1>10, <1>11, <1>12 DEF TypeOK

LEMMA TypeSystem ==
  ASSUME TypeOK, Counted, NEW p \in Part, SystemChanges(p)
  PROVE  TypeOK' /\ Counted'
<1>1. /\ changes < MaxChange /\ changes' = changes + 1 /\ part' = [part EXCEPT ![p] = @ + 1]
      /\ UNCHANGED <<repo, clock, receipt, process, moments, qualifier>>
  BY DEF SystemChanges
<1>2. changes \in 0 .. MaxChange /\ part \in [Part -> Stamp] /\ \A q \in Part : part[q] \in 0 .. changes
  BY DEF TypeOK, TypeOutside, Counted
<1>3. \A q \in Part : part'[q] \in 0 .. changes' /\ part'[q] \in Stamp
  BY <1>1, <1>2 DEF Stamp
<1>4. TypeOutside'
  BY <1>1, <1>2, <1>3 DEF TypeOK, TypeOutside
<1>5. Counted'
  BY <1>1, <1>2, <1>3 DEF Counted
<1>6. TypeSource' /\ TypeScreening' /\ TypeReceipts'
  BY <1>1 DEF TypeOK, TypeSource, TypeScreening, TypeReceipts, process, source, screening, qualifier
<1> QED
  BY <1>4, <1>5, <1>6 DEF TypeOK

LEMMA TypeTick == ASSUME TypeOK, Counted, Tick PROVE TypeOK' /\ Counted'
<1>1. clock' \in 0 .. MaxClock
  BY DEF Tick, TypeOK, TypeOutside
<1>2. UNCHANGED <<repo, part, changes, receipt, process, moments, qualifier>>
  BY DEF Tick
<1> QED
  BY <1>1, <1>2 DEF TypeOK, TypeOutside, TypeSource, TypeScreening, TypeReceipts, Counted,
                    process, source, screening, qualifier

\* The qualifier only touches its own readings and the receipt.
LEMMA TypeQualify == ASSUME TypeOK, Counted, Qualify PROVE TypeOK' /\ Counted'
<1>1. UNCHANGED World
  BY DEF Qualify, Inspect, Gate, InspectAgain, Compare, HashRuntime, Issue, QualifyFails
<1>2. TypeOutside' /\ Counted' /\ TypeSource' /\ TypeScreening'
  BY <1>1 DEF TypeOK, TypeOutside, Counted, TypeSource, TypeScreening, World, outside, process,
              source, screening
<1>3. NoReading \in Reading /\ NoVersions \in [Part -> SUBSET Stamp]
  BY DEF NoReading, NoVersions, Reading
<1>4. part \in [Part -> Stamp] /\ clock \in 0 .. MaxClock
  BY DEF TypeOK, TypeOutside
<1>5. admitted' = admitted /\ seen' = seen
  BY <1>1 DEF World, process
<1>6. Idle => qpc' \in QSteps /\ qseen' \in Reading /\ qagain' \in Reading
              /\ under' \in [Part -> SUBSET Stamp]
  BY <1>3 DEF Idle, QSteps
<1>7. TypeReceipts'
  <2>1. ASSUME NEW step \in {"idle", "install", "boundary"}, NEW p \in Part, Inspect(step, p)
        PROVE  TypeReceipts'
    <3>1. qpc' \in QSteps
      BY <2>1 DEF Inspect, AfterQ, QSteps, Gates
    <3> QED
      BY <1>4, <1>5, <2>1, <3>1 DEF Inspect, TypeOK, TypeReceipts, Reading
  <2>2. ASSUME NEW g \in Gates, Gate(g) PROVE TypeReceipts'
    <3>1. qpc' \in QSteps
      BY <2>2 DEF Gate, AfterQ, QSteps, Gates
    <3>2. under' \in [Part -> SUBSET Stamp]
      BY <1>4, <2>2 DEF Gate, TypeOK, TypeReceipts
    <3> QED
      BY <1>5, <2>2, <3>1, <3>2 DEF Gate, TypeOK, TypeReceipts
  <2>3. ASSUME NEW p \in Part, InspectAgain(p) PROVE TypeReceipts'
    BY <1>4, <1>5, <2>3 DEF InspectAgain, TypeOK, TypeReceipts, Reading
  <2>4. CASE Compare
    BY <1>5, <1>6, <2>4 DEF Compare, TypeOK, TypeReceipts, QSteps
  <2>5. CASE HashRuntime
    BY <1>4, <1>5, <2>5 DEF HashRuntime, TypeOK, TypeReceipts, Reading, QSteps, Part
  <2>6. CASE Issue
    <3>1. receipt' \in Receipts
      BY <1>4, <2>6 DEF Issue, Receipts, TypeOK, TypeReceipts
    <3> QED
      BY <1>5, <1>6, <2>6, <3>1 DEF Issue, TypeOK, TypeReceipts
  <2>7. CASE QualifyFails
    BY <1>5, <1>6, <2>7 DEF QualifyFails, TypeOK, TypeReceipts
  <2> QED
    BY <2>1, <2>2, <2>3, <2>4, <2>5, <2>6, <2>7 DEF Qualify, Part
<1> QED
  BY <1>2, <1>7 DEF TypeOK

\* Ways on for the run, and what they leave alone.
LEMMA EndType ==
  ASSUME TypeSource, NEW how \in {"refused", "install", "previewed", "interrupted", "unsettled"},
         End(how)
  PROVE  TypeSource'
<1>1. NoPass \in Witness
  BY DEF NoPass, Witness
<1> QED
  BY <1>1 DEF End, TypeSource, Steps

LEMMA GotoType == ASSUME TypeSource, NEW step \in Steps, Goto(step) PROVE TypeSource'
BY DEF Goto, TypeSource, source

\* The steps up to the receipt know nothing of the login.
LEMMA TypeReading ==
  ASSUME TypeOK,
         \/ Take \/ Preflight \/ (\E e \in Entry : Stat(e)) \/ PassDone \/ VerifyShape
         \/ Resolve("commit", "tree") \/ Resolve("tree", "objects") \/ ReadObjects
         \/ ProveInstall \/ ProveBoundary \/ ProveRuntime \/ VerifyReceipt
  PROVE  TypeSource' /\ TypeReceipts' /\ (moments' = moments \/ moments' = {Values})
         /\ UNCHANGED <<outside, screening>>
<1>1. /\ part \in [Part -> Stamp] /\ repo \in Witness
      /\ TypeSource /\ TypeReceipts
  BY DEF TypeOK, TypeOutside
<1>2. ASSUME NEW step \in Steps, NEW p \in Part, NEW next \in Steps, Look(step, p, next)
      PROVE  TypeSource' /\ TypeReceipts' /\ UNCHANGED <<outside, screening, moments>>
  <2>1. TypeSource'
    BY <1>1, <1>2, GotoType DEF Look
  <2> QED
    BY <1>1, <1>2, <2>1 DEF Look, TypeReceipts, Reading, Elsewhere, qualifier
<1>3. CASE Take \/ ReadObjects
  <2>1. TypeSource'
    BY <1>1, <1>3, GotoType DEF Take, ReadObjects, Steps
  <2> QED
    BY <1>1, <1>3, <2>1 DEF Take, ReadObjects, TypeReceipts, Elsewhere, qualifier
<1>4. CASE Preflight \/ ProveInstall \/ ProveBoundary \/ ProveRuntime
  BY <1>2, <1>4 DEF Preflight, ProveInstall, ProveBoundary, ProveRuntime, Steps, Part
<1>5. ASSUME NEW e \in Entry, Stat(e)
      PROVE  TypeSource' /\ TypeReceipts' /\ UNCHANGED <<outside, screening, moments>>
  <2>1. now' \in Witness
    BY <1>1, <1>5 DEF Stat, Witness, TypeSource
  <2> QED
    BY <1>1, <1>5, <2>1 DEF Stat, TypeSource, TypeReceipts, Elsewhere, qualifier
<1>6. CASE PassDone
  <2>1. UNCHANGED <<Elsewhere, seen, admitted, screening>> /\ moments' \in {moments, {Values}}
    BY <1>6 DEF PassDone
  <2>2. NoPass \in Witness
    BY DEF NoPass, Witness
  <2>3. TypeSource'
    <3>1. CASE \E how \in {"refused", "install", "previewed"} : End(how)
      BY <1>1, <3>1, EndType
    <3>2. CASE pass \in {1, 3} /\ first' = now /\ now' = NoPass /\ pass' = pass + 1 /\ pc' = "scan"
               /\ UNCHANGED <<trusted, snap>>
      BY <1>1, <2>2, <3>2 DEF TypeSource, Steps
    <3>3. CASE trusted' = now /\ first' = NoPass /\ now' = NoPass /\ pass' = 3 /\ pc' = "shape"
               /\ UNCHANGED snap
      BY <1>1, <2>2, <3>3 DEF TypeSource, Steps
    <3> QED
      BY <1>6, <3>1, <3>2, <3>3 DEF PassDone
  <2> QED
    BY <1>1, <2>1, <2>3 DEF TypeReceipts, Elsewhere, qualifier
<1>7. CASE VerifyShape
  <2>1. TypeSource'
    BY <1>1, <1>7, EndType, GotoType DEF VerifyShape, Steps
  <2> QED
    BY <1>1, <1>7, <2>1 DEF VerifyShape, TypeReceipts, Elsewhere, qualifier
<1>8. ASSUME NEW field \in {"commit", "tree"}, NEW next \in {"tree", "objects"}, Resolve(field, next)
      PROVE  TypeSource' /\ TypeReceipts' /\ UNCHANGED <<outside, screening, moments>>
  <2>1. repo["head"].value \in {-1, 0, 1}
    BY <1>1 DEF Witness, Entry
  <2>2. snap' \in [commit : {-1, 0, 1}, tree : {-1, 0, 1}]
    BY <1>1, <1>8, <2>1 DEF Resolve, TypeSource
  <2> QED
    BY <1>1, <1>8, <2>2 DEF Resolve, TypeSource, Steps, TypeReceipts, Elsewhere, qualifier
<1>9. CASE VerifyReceipt
  <2>1. TypeSource'
    BY <1>1, <1>9, EndType, GotoType DEF VerifyReceipt, Steps
  <2> QED
    BY <1>1, <1>9, <2>1 DEF VerifyReceipt, TypeReceipts, Elsewhere, qualifier
<1> QED
  BY <1>3, <1>4, <1>5, <1>6, <1>7, <1>8, <1>9

\* The steps from the receipt on know nothing of the outside.
LEMMA TypeScreened ==
  ASSUME TypeOK,
         \/ Acquire \/ Screen \/ Prepare \/ Rescreen \/ Configure \/ Start \/ Build
         \/ SettleAtEnd \/ Fails
  PROVE  TypeSource' /\ TypeScreening' /\ UNCHANGED <<Elsewhere, seen, admitted, moments>>
<1>1. TypeSource /\ TypeScreening /\ gen \in Gen /\ known \subseteq Gen /\ retained \subseteq Surface
  BY DEF TypeOK, TypeScreening
<1>2. TypeSource'
  <2>1. CASE Acquire \/ Screen \/ Prepare \/ Rescreen \/ Configure \/ Start \/ Build \/ SettleAtEnd
    <3>1. \/ \E how \in {"refused", "install", "previewed", "interrupted", "unsettled"} : End(how)
          \/ \E step \in Steps : Goto(step)
      BY <2>1 DEF Acquire, Screen, Prepare, Rescreen, Configure, Start, Build, SettleAtEnd, Steps
    <3> QED
      BY <1>1, <3>1, EndType, GotoType
  <2>2. CASE Fails
    BY <1>1, <2>2, EndType DEF Fails
  <2> QED
    BY <2>1, <2>2
<1>3. UNCHANGED <<Elsewhere, seen, admitted, moments>>
  BY DEF Acquire, Screen, Prepare, Rescreen, Configure, Start, Build, SettleAtEnd, Fails
<1>4. Inputs \subseteq Surface /\ \A k : Clear(Inputs, k) \subseteq Surface
  BY DEF Inputs, Surface, Clear
<1>5. TypeScreening'
  <2>1. CASE Acquire
    <3>1. secret' \in [at : Surface \cup {"nowhere"}, gen : Gen \cup {-1}]
      BY <2>1 DEF Acquire, NoSecret
    <3> QED
      BY <1>1, <2>1, <3>1 DEF Acquire, TypeScreening
  <2>2. CASE Screen
    BY <1>1, <1>4, <2>2 DEF Screen, TypeScreening, End, Goto
  <2>3. CASE Prepare
    BY <1>1, <2>3 DEF Prepare, Probe, TypeScreening, End, Goto
  <2>4. CASE Rescreen
    BY <1>1, <1>4, <2>4 DEF Rescreen, TypeScreening, End, Goto
  <2>5. CASE Configure
    BY <1>1, <2>5 DEF Configure, TypeScreening, End, Goto, Surface
  <2>6. CASE Start
    BY <1>1, <2>6 DEF Start, TypeScreening, Goto, Surface
  <2>7. CASE Build
    <3>1. retained' \subseteq Surface
      BY <1>1, <2>7 DEF Build, Surface
    <3>2. gen' \in Gen /\ known' \in {known, known \cup {gen'}} /\ secret' = secret
      BY <2>7 DEF Build, Probe
    <3>3. known' \subseteq Gen
      BY <1>1, <3>2
    <3>4. \/ pc' \in {"refused", "interrupted", "unsettled"}
          \/ known' = known \cup {gen'}
      BY <2>7 DEF Build, End
    <3> QED
      BY <1>1, <3>1, <3>2, <3>3, <3>4 DEF TypeScreening
  <2>8. CASE Fails
    BY <1>1, <2>8 DEF Fails, TypeScreening, End, screening
  <2>9. CASE SettleAtEnd
    <3>1. retained' \subseteq Surface
      BY <1>1, <2>9 DEF SettleAtEnd, Surface
    <3>2. gen' \in Gen /\ known' \in {known, known \cup {gen, gen'}} /\ secret' = secret
          /\ pc' \in {"refused", "unsettled"}
      BY <2>9 DEF SettleAtEnd, Probe, End
    <3>3. known' \subseteq Gen
      BY <1>1, <3>2
    <3> QED
      BY <1>1, <3>1, <3>2, <3>3 DEF TypeScreening
  <2> QED
    BY <2>1, <2>2, <2>3, <2>4, <2>5, <2>6, <2>7, <2>8, <2>9
<1> QED
  BY <1>2, <1>3, <1>5

LEMMA TypeRun == ASSUME TypeOK, Counted, Run PROVE TypeOK' /\ Counted'
<1>1. CASE \/ Acquire \/ Screen \/ Prepare \/ Rescreen \/ Configure \/ Start \/ Build
           \/ SettleAtEnd \/ Fails
  <2>1. TypeSource' /\ TypeScreening' /\ UNCHANGED <<Elsewhere, seen, admitted, moments>>
    BY <1>1, TypeScreened
  <2> QED
    BY <2>1 DEF TypeOK, TypeOutside, TypeReceipts, Counted, Elsewhere, outside, qualifier
<1>2. CASE \/ Take \/ Preflight \/ (\E e \in Entry : Stat(e)) \/ PassDone \/ VerifyShape
           \/ Resolve("commit", "tree") \/ Resolve("tree", "objects") \/ ReadObjects
           \/ ProveInstall \/ ProveBoundary \/ ProveRuntime \/ VerifyReceipt
  <2>1. TypeSource' /\ TypeReceipts' /\ (moments' = moments \/ moments' = {Values})
        /\ UNCHANGED <<outside, screening>>
    BY <1>2, TypeReading
  <2>2. Values \in [Entry -> 0 .. 1]
    BY DEF Values, TypeOK, TypeOutside, Witness
  <2>3. TypeOutside' /\ Counted'
    BY <2>1, <2>2 DEF TypeOK, TypeOutside, Counted, outside
  <2>4. TypeScreening'
    <3>1. pc \notin {"refused", "interrupted", "unsettled"}
      BY <1>2 DEF Take, Preflight, Stat, PassDone, VerifyShape, Resolve, ReadObjects, ProveInstall,
                  ProveBoundary, ProveRuntime, VerifyReceipt, Look
    <3> QED
      BY <2>1, <3>1 DEF TypeOK, TypeScreening, screening
  <2> QED
    BY <2>1, <2>3, <2>4 DEF TypeOK
<1> QED
  BY <1>1, <1>2 DEF Run

LEMMA TypeNext == ASSUME TypeOK, Counted, [Next]_vars PROVE TypeOK' /\ Counted'
<1>1. CASE UNCHANGED vars
  BY <1>1 DEF vars, TypeOK, TypeOutside, TypeSource, TypeScreening, TypeReceipts, Counted,
              outside, process, source, screening, qualifier
<1> QED
  BY <1>1, TypeRun, TypeQualify, TypeTick, TypeSystem, TypeRepository DEF Next

------------------------------------------------------------------------------
\* The screening.  Early steps and the outside do not touch it.
LEMMA ScreenUntouched ==
  ASSUME TypeOK, ScreenInv, UNCHANGED screening,
         \/ pc' = pc
         \/ Early /\ (pc' \in Steps /\ (Early' \/ pc' \in {"refused", "previewed"}))
         \/ pc \notin {"interrupted", "unsettled"} /\ pc' = "refused"
  PROVE  ScreenInv'
<1>1. UNCHANGED <<gen, known, secret, retained>>
  BY DEF screening
<1>2. pc \in {"interrupted", "unsettled"} \/ InputsScreened'
  BY <1>1 DEF ScreenInv, InputsScreened
<1>3. CASE pc' = pc
  BY <1>1, <1>3 DEF ScreenInv, InputsScreened, Early, Undecided, Collides
<1>4. CASE pc \notin {"interrupted", "unsettled"} /\ pc' = "refused"
  BY <1>2, <1>4 DEF ScreenInv, Early, Undecided, Reads, Cleared
<1>5. CASE Early /\ (Early' \/ pc' = "previewed")
  <2>1. /\ pc' \notin {"screen", "prepare", "rescreen", "interrupted"} \cup Cleared
        /\ pc \notin {"interrupted", "unsettled"}
    BY <1>5 DEF Early, Undecided, Reads, Cleared
  <2> QED
    BY <1>1, <1>2, <1>5, <2>1 DEF ScreenInv
<1>6. Early => pc \notin {"interrupted", "unsettled"}
  BY DEF Early, Undecided, Reads
<1> QED
  BY <1>3, <1>4, <1>5, <1>6

LEMMA ScreenStep == ASSUME TypeOK, TypeOK', ScreenInv, [Next]_vars PROVE ScreenInv'
<1>1. gen \in Nat /\ gen \in Gen /\ known \subseteq Gen
  BY DEF TypeOK, TypeScreening, Gen
<1>2. CASE UNCHANGED vars \/ Tick \/ Qualify \/ (\E p \in Part : SystemChanges(p))
           \/ (\E e \in Entry : RepositoryChanges(e))
  <2>1. UNCHANGED process
    BY <1>2 DEF vars, Tick, Qualify, SystemChanges, RepositoryChanges, Inspect, Gate, InspectAgain,
                Compare, HashRuntime, Issue, QualifyFails, World
  <2> QED
    BY <2>1, ScreenUntouched DEF process
<1>3. CASE \/ Take \/ Preflight \/ (\E e \in Entry : Stat(e)) \/ PassDone \/ VerifyShape
           \/ Resolve("commit", "tree") \/ Resolve("tree", "objects") \/ ReadObjects
           \/ ProveInstall \/ ProveBoundary \/ ProveRuntime \/ VerifyReceipt
  <2>1. UNCHANGED screening
    BY <1>3, TypeReading
  <2>2. Early /\ (Early' \/ pc' \in {"refused", "previewed"})
    <3>1. CASE Take \/ Preflight \/ ProveInstall \/ ProveBoundary \/ ProveRuntime \/ ReadObjects
      BY <3>1 DEF Take, Preflight, ProveInstall, ProveBoundary, ProveRuntime, ReadObjects, Look,
                  Goto, Early, Undecided, Reads
    <3>2. CASE (\E e \in Entry : Stat(e)) \/ VerifyShape \/ VerifyReceipt
               \/ Resolve("commit", "tree") \/ Resolve("tree", "objects")
      BY <3>2 DEF Stat, VerifyShape, VerifyReceipt, Resolve, End, Goto, Early, Undecided, Reads
    <3>3. CASE PassDone
      BY <3>3 DEF PassDone, End, Early, Undecided, Reads
    <3> QED
      BY <1>3, <3>1, <3>2, <3>3
  <2>3. pc' \in Steps
    BY DEF TypeOK, TypeSource
  <2> QED
    BY <2>1, <2>2, <2>3, ScreenUntouched
<1>4. CASE Fails
  BY <1>4, ScreenUntouched DEF Fails, Over, End
<1>5. CASE Acquire
  <2>1. known = {} /\ gen = 0 /\ retained = {} /\ pc' = "screen" /\ known' = {gen}
        /\ gen' = gen /\ retained' = {}
    BY <1>5 DEF Acquire, ScreenInv, Early, Goto
  <2>2. known' = 0 .. gen'
    BY <2>1
  <2> QED
    BY <2>1, <2>2 DEF ScreenInv, InputsScreened, Early, Undecided, Reads, Cleared
<1>6. CASE Screen
  <2>1. retained = {} /\ known = 0 .. gen /\ UNCHANGED <<gen, known, secret>>
    BY <1>6 DEF Screen, ScreenInv
  <2>2. CASE pc' = "refused" /\ retained' = Clear(Inputs, known)
    BY <2>1, <2>2
       DEF Clear, Collides, ScreenInv, InputsScreened, Early, Undecided, Reads, Cleared
  <2>3. CASE pc' = "prepare" /\ retained' = retained
    BY <2>1, <2>3 DEF ScreenInv, InputsScreened, Early, Undecided, Reads, Cleared
  <2> QED
    BY <1>6, <2>2, <2>3 DEF Screen, End, Goto
<1>7. CASE Prepare
  <2>1. retained = {} /\ known = 0 .. gen /\ UNCHANGED <<secret, retained>>
    BY <1>7 DEF Prepare, ScreenInv
  <2>2. CASE pc' = "refused"
    BY <2>1, <2>2 DEF ScreenInv, InputsScreened, Early, Undecided, Reads, Cleared
  <2>3. CASE pc' = "rescreen" /\ known' = known \cup {gen'} /\ gen' \in {gen, gen + 1}
    <3>1. known' = 0 .. gen'
      BY <1>1, <2>1, <2>3
    <3> QED
      BY <2>1, <2>3, <3>1 DEF ScreenInv, InputsScreened, Early, Undecided, Reads, Cleared
  <2> QED
    BY <1>7, <2>2, <2>3 DEF Prepare, Probe, End, Goto
<1>8. CASE Rescreen
  <2>1. known = 0 .. gen /\ UNCHANGED <<gen, known, secret>>
    BY <1>8 DEF Rescreen, ScreenInv
  <2>2. retained' = Clear(Inputs, known) /\ (Collides(known) => pc' = "refused")
        /\ pc' \in {"refused", "configure"}
    BY <1>8 DEF Rescreen, End, Goto
  <2>3. InputsScreened'
    BY <2>1, <2>2 DEF Clear, Collides, InputsScreened
  <2> QED
    BY <2>1, <2>2, <2>3 DEF ScreenInv, Collides, Early, Undecided, Reads, Cleared
<1>9. CASE Configure \/ Start
  <2>1. known = 0 .. gen /\ ~Collides(known) /\ UNCHANGED <<gen, known, secret>>
    BY <1>9 DEF Configure, Start, ScreenInv, Cleared
  <2>2. pc' \in {"start", "build"}
    BY <1>9, <2>1 DEF Configure, Start, Goto
  <2> QED
    BY <2>1, <2>2 DEF ScreenInv, InputsScreened, Collides, Early, Undecided, Reads, Cleared
<1>10. CASE Build
  <2>1. known = 0 .. gen /\ ~Collides(known) /\ UNCHANGED secret /\ gen' \in {gen, gen + 1}
    BY <1>10 DEF Build, Probe, ScreenInv, Cleared
  <2>3. CASE pc' = "ready" /\ known' = known \cup {gen'} /\ ~Collides(known')
    <3>1. known' = 0 .. gen'
      BY <1>1, <2>1, <2>3
    <3> QED
      BY <2>1, <2>3, <3>1 DEF ScreenInv, InputsScreened, Collides, Early, Undecided, Reads, Cleared
  <2>4. CASE pc' = "refused" /\ known' = known \cup {gen'} /\ Collides(known')
             /\ retained' = IF secret.at = "rendered" THEN retained \ {"rendered"} ELSE {"rendered"}
    BY <2>1, <2>4 DEF ScreenInv, InputsScreened, Early, Undecided, Reads, Cleared
  <2>5. CASE pc' = "refused" /\ known' = known /\ retained' = {"rendered"}
    BY <2>1, <2>5 DEF ScreenInv, InputsScreened, Collides, Early, Undecided, Reads, Cleared
  <2>6. CASE pc' = "interrupted" /\ known' \in {known, known \cup {gen'}} /\ retained' = retained
    <3>1. 0 .. gen' \subseteq known' \cup {gen'}
      BY <1>1, <2>1, <2>6
    <3> QED
      BY <2>6, <3>1 DEF ScreenInv, InputsScreened, Early, Undecided, Reads, Cleared
  <2> QED
    BY <1>10, <2>3, <2>4, <2>5, <2>6 DEF Build, End, Goto
<1>11. CASE SettleAtEnd
  <2>1. 0 .. gen \subseteq known \cup {gen} /\ UNCHANGED secret /\ gen' \in {gen, gen + 1}
    BY <1>11 DEF SettleAtEnd, Probe, ScreenInv
  <2>2. CASE /\ pc' = "refused" /\ known' = known \cup {gen, gen'}
             /\ retained' = IF ~Collides(known') THEN retained
                            ELSE IF secret.at = "rendered" THEN {} ELSE {"rendered"}
    <3>1. 0 .. gen' \subseteq known'
      BY <1>1, <2>1, <2>2
    <3>2. InputsScreened'
      BY <2>1, <2>2, <3>1 DEF Collides, InputsScreened
    <3> QED
      BY <2>2, <3>2 DEF ScreenInv, Early, Undecided, Reads, Cleared
  <2>3. CASE pc' = "unsettled" /\ retained' = {"rendered"}
    BY <2>3 DEF ScreenInv, InputsScreened, Early, Undecided, Reads, Cleared
  <2> QED
    BY <1>11, <2>2, <2>3 DEF SettleAtEnd, End
<1> QED
  BY <1>2, <1>3, <1>4, <1>5, <1>6, <1>7, <1>8, <1>9, <1>10, <1>11 DEF Next, Run

------------------------------------------------------------------------------
\* The receipt.  Steps of the run that read nothing of the system, and steps
\* of others, leave the qualifier alone.
Admitted == admitted # NoReceipt => /\ ~Undecided /\ pc # "lock"
                                    /\ \A p \in Bound : admitted.under[p] = {seen[p]}

LEMMA ReceiptRun ==
  ASSUME ReceiptInv, UNCHANGED <<part, receipt, qualifier>>, Admitted'
  PROVE  ReceiptInv'
BY DEF ReceiptInv, Admitted, qualifier

LEMMA AdmittedStep == ASSUME TypeOK, ReceiptInv, Run PROVE Admitted'
<1>1. CASE VerifyReceipt
  <2>1. CASE admitted' = receipt /\ receipt # NoReceipt /\ receipt.binding = seen /\ pc' = "acquire"
             /\ seen' = seen
    BY <2>1 DEF Admitted, ReceiptInv, Undecided, Reads
  <2>2. CASE admitted' = admitted
    BY <1>1, <2>2 DEF VerifyReceipt, Admitted, ReceiptInv, Undecided
  <2> QED
    BY <1>1, <2>1, <2>2 DEF VerifyReceipt, Goto
<1>2. CASE Undecided /\ admitted' = admitted
  BY <1>2 DEF Admitted, ReceiptInv
<1>3. CASE ~Undecided /\ UNCHANGED <<admitted, seen>> /\ (~Undecided')
  BY <1>3 DEF Admitted, ReceiptInv, Undecided
<1>4. CASE \/ Take \/ Preflight \/ (\E e \in Entry : Stat(e)) \/ PassDone \/ VerifyShape
           \/ Resolve("commit", "tree") \/ Resolve("tree", "objects") \/ ReadObjects
           \/ ProveInstall \/ ProveBoundary \/ ProveRuntime
  <2>1. Undecided /\ admitted' = admitted
    BY <1>4 DEF Take, Preflight, Stat, PassDone, VerifyShape, Resolve, ReadObjects, ProveInstall,
                ProveBoundary, ProveRuntime, Look, Undecided, Reads
  <2> QED
    BY <1>2, <2>1
<1>5. CASE Acquire \/ Screen \/ Prepare \/ Rescreen \/ Configure \/ Start \/ Build \/ SettleAtEnd
  <2>1. ~Undecided /\ UNCHANGED <<admitted, seen>>
    BY <1>5 DEF Acquire, Screen, Prepare, Rescreen, Configure, Start, Build, SettleAtEnd, Undecided,
                Reads
  <2>2. pc' \in {"screen", "prepare", "rescreen", "configure", "start", "build", "ready", "refused",
                 "interrupted", "unsettled"}
    BY <1>5 DEF Acquire, Screen, Prepare, Rescreen, Configure, Start, Build, SettleAtEnd, End, Goto
  <2> QED
    BY <1>3, <2>1, <2>2 DEF Undecided, Reads
<1>6. CASE Fails
  BY <1>6 DEF Fails, End, Admitted, ReceiptInv, Undecided, Reads
<1> QED
  BY <1>1, <1>4, <1>5, <1>6 DEF Run

\* Versions only grow.
LEMMA ReceiptSystem ==
  ASSUME TypeOK, ReceiptInv, NEW p \in Part, SystemChanges(p)
  PROVE  ReceiptInv'
<1>1. part' = [part EXCEPT ![p] = @ + 1] /\ UNCHANGED <<receipt, process, qualifier>>
  BY DEF SystemChanges
<1>2. part \in [Part -> Nat]
  BY DEF TypeOK, TypeOutside, Stamp
<1>3. \A q \in Part : part'[q] \in Nat /\ part[q] <= part'[q]
  BY <1>1, <1>2
<1>4. \A q \in Part : \A i : i \in 0 .. part[q] => i \in 0 .. part'[q]
  BY <1>2, <1>3
<1>5. \A q \in Part, i \in Int : i .. part[q] \subseteq i .. part'[q]
  BY <1>2, <1>3
<1>6. \A q \in Part : qseen[q] \in Int
  BY DEF TypeOK, TypeReceipts, Reading, Stamp
<1>7. qpc' \in Testing => \A q \in Bound : under'[q] \subseteq qseen'[q] .. part'[q]
  <2> SUFFICES ASSUME qpc' \in Testing, NEW q \in Bound
               PROVE  under'[q] \subseteq qseen'[q] .. part'[q]
    OBVIOUS
  <2>1. under[q] \subseteq qseen[q] .. part[q] /\ q \in Part
    BY <1>1 DEF ReceiptInv, qualifier, Bound
  <2>2. qseen[q] .. part[q] \subseteq qseen[q] .. part'[q]
    BY <1>5, <1>6, <2>1
  <2> QED
    BY <1>1, <2>1, <2>2 DEF qualifier
<1>8. /\ qpc \in {"install", "boundary"} \cup Testing => qseen["host"] \in 0 .. part'["host"]
      /\ qpc \in {"boundary"} \cup Testing => qseen["install"] \in 0 .. part'["install"]
      /\ qpc \in Testing => qseen["boundary"] \in 0 .. part'["boundary"]
  BY <1>4 DEF ReceiptInv, Part
<1> QED
  BY <1>1, <1>7, <1>8 DEF ReceiptInv, qualifier, process, Undecided

\* The steps of the qualifier.
LEMMA InspectReceipt ==
  ASSUME TypeOK, ReceiptInv, NEW step, NEW p,
         <<step, p>> \in {<<"idle", "host">>, <<"install", "install">>, <<"boundary", "boundary">>},
         Inspect(step, p)
  PROVE  ReceiptInv'
<1>1. /\ qpc = step /\ qpc' = AfterQ(step) /\ qseen' = [qseen EXCEPT ![p] = part[p]]
      /\ UNCHANGED <<World, receipt, qagain, under>>
  BY DEF Inspect
<1>2. part' = part /\ admitted' = admitted /\ seen' = seen /\ pc' = pc
  BY <1>1 DEF World, outside, process
<1>3. qseen \in [Part -> Stamp \cup {-1}] /\ \A q \in Part : part[q] \in 0 .. part[q]
  BY DEF TypeOK, TypeReceipts, TypeOutside, Reading, Stamp
<1>4. Admitted'
  BY <1>2 DEF ReceiptInv, Admitted, Undecided
<1>5. under = NoVersions /\ qagain = NoReading /\ qagain["runtime"] = -1
  BY <1>1 DEF ReceiptInv
<1>6. \A q \in Part : under[q] = {}
  BY <1>5 DEF NoVersions
<1>7. CASE step = "idle" /\ p = "host"
  <2>1. qpc' = "install" /\ qseen'["host"] \in 0 .. part["host"]
    BY <1>1, <1>3, <1>7 DEF AfterQ, Part
  <2> QED
    BY <1>1, <1>2, <1>4, <1>5, <2>1 DEF ReceiptInv, Admitted, Testing, Gates
<1>8. CASE step = "install" /\ p = "install"
  <2>1. qpc' = "boundary" /\ qseen'["install"] \in 0 .. part["install"]
        /\ qseen'["host"] = qseen["host"]
    BY <1>1, <1>3, <1>8 DEF AfterQ, Part
  <2>2. qseen["host"] \in 0 .. part["host"]
    BY <1>1, <1>8 DEF ReceiptInv
  <2> QED
    BY <1>1, <1>2, <1>4, <1>5, <2>1, <2>2 DEF ReceiptInv, Admitted, Testing, Gates
<1>9. CASE step = "boundary" /\ p = "boundary"
  <2>1. qpc' = "host" /\ qseen'["boundary"] \in 0 .. part["boundary"]
        /\ qseen'["host"] = qseen["host"] /\ qseen'["install"] = qseen["install"]
    BY <1>1, <1>3, <1>9 DEF AfterQ, Part
  <2>2. qseen["host"] \in 0 .. part["host"] /\ qseen["install"] \in 0 .. part["install"]
    BY <1>1, <1>9 DEF ReceiptInv
  <2>3. \A q \in Bound : under'[q] \subseteq qseen'[q] .. part'[q]
    BY <1>1, <1>6 DEF Bound
  <2> QED
    BY <1>1, <1>2, <1>4, <1>5, <2>1, <2>2, <2>3 DEF ReceiptInv, Admitted, Testing, Gates
<1> QED
  BY <1>7, <1>8, <1>9

\* A gate is passed with what there is, which is not older than what was read.
LEMMA GateReceipt ==
  ASSUME TypeOK, ReceiptInv, NEW g \in Gates, Gate(g)
  PROVE  ReceiptInv'
<1>1. /\ qpc = g /\ qpc' = AfterQ(g)
      /\ under' = [p \in Part |-> IF p \in Uses(g) THEN under[p] \cup {part[p]} ELSE under[p]]
      /\ UNCHANGED <<World, receipt, qseen, qagain>>
  BY DEF Gate
<1>2. part' = part /\ admitted' = admitted /\ seen' = seen /\ pc' = pc
  BY <1>1 DEF World, outside, process
<1>3. qpc \in Gates /\ qpc \in Testing
  BY <1>1 DEF Testing
<1>4. qpc' \in Testing /\ (qpc' = "again" => g = "live_claude")
  BY <1>1 DEF AfterQ, Gates, Testing
<1>5. part \in [Part -> Nat] /\ qseen \in [Part -> Int]
  BY DEF TypeOK, TypeOutside, TypeReceipts, Reading, Stamp
<1>6. \A p \in Bound : p \in Part /\ qseen[p] \in 0 .. part[p] /\ under[p] \subseteq qseen[p] .. part[p]
  BY <1>3 DEF ReceiptInv, Bound, Part
<1>7. \A p \in Bound : part[p] \in qseen[p] .. part[p]
  BY <1>5, <1>6
<1>8. \A p \in Bound : under'[p] \subseteq qseen[p] .. part[p]
  BY <1>1, <1>6, <1>7
<1>9. qagain = NoReading /\ qagain["runtime"] = -1 /\ \A p \in Part : qagain[p] = -1
  BY <1>3 DEF ReceiptInv, NoReading
<1>10. g = "live_claude" => \A p \in Bound : under'[p] # {}
  <2> SUFFICES ASSUME g = "live_claude", NEW p \in Bound PROVE part[p] \in under'[p]
    OBVIOUS
  <2>1. p \in Uses(g) /\ p \in Part
    BY DEF Uses, Bound, Part
  <2> QED
    BY <1>1, <2>1
<1>11. Admitted'
  BY <1>2 DEF ReceiptInv, Admitted, Undecided
<1>12. qpc' = "again" => \A p \in Bound : under'[p] # {} /\ qagain'[p] = -1
  BY <1>1, <1>4, <1>6, <1>9, <1>10
<1>13. qpc' \notin {"idle", "install", "boundary", "runtime", "issue"}
  BY <1>4 DEF Testing, Gates
<1>14. /\ qseen["host"] \in 0 .. part["host"] /\ qseen["install"] \in 0 .. part["install"]
       /\ qseen["boundary"] \in 0 .. part["boundary"]
  BY <1>3 DEF ReceiptInv
<1> QED
  BY <1>1, <1>2, <1>4, <1>8, <1>9, <1>11, <1>12, <1>13, <1>14 DEF ReceiptInv, Admitted

\* The second reading bounds the versions the gates were passed with.
LEMMA InspectAgainReceipt ==
  ASSUME TypeOK, ReceiptInv, NEW p \in Part \ {"runtime"}, InspectAgain(p)
  PROVE  ReceiptInv'
<1>1. /\ qpc = "again" /\ qagain' = [qagain EXCEPT ![p] = part[p]]
      /\ UNCHANGED <<World, receipt, qpc, qseen, under>>
  BY DEF InspectAgain
<1>2. part' = part /\ admitted' = admitted /\ seen' = seen /\ pc' = pc
  BY <1>1 DEF World, outside, process
<1>3. Admitted'
  BY <1>2 DEF ReceiptInv, Admitted, Undecided
<1>4. qagain \in [Part -> Stamp \cup {-1}]
  BY DEF TypeOK, TypeReceipts, Reading
<1>5. qpc \in Testing /\ qpc \notin Gates
  BY <1>1 DEF Testing, Gates
<1>6. qagain'["runtime"] = -1
  BY <1>1, <1>4, <1>5 DEF ReceiptInv, Part
<1>7. \A q \in Bound : under[q] # {} /\ (qagain'[q] # -1 => under[q] \subseteq qseen[q] .. qagain'[q])
  BY <1>1, <1>4, <1>5 DEF ReceiptInv, Bound
<1> QED
  BY <1>1, <1>2, <1>3, <1>5, <1>6, <1>7 DEF ReceiptInv, Admitted

\* Equal readings leave a single version.
LEMMA CompareReceipt == ASSUME TypeOK, ReceiptInv, Compare PROVE ReceiptInv'
<1>1. qpc = "again" /\ qagain["boundary"] # -1 /\ UNCHANGED <<World, receipt>>
  BY DEF Compare
<1>2. part' = part /\ admitted' = admitted /\ seen' = seen /\ pc' = pc
  BY <1>1 DEF World, outside, process
<1>3. Admitted'
  BY <1>2 DEF ReceiptInv, Admitted, Undecided
<1>4. CASE Idle
  BY <1>1, <1>2, <1>3, <1>4 DEF Idle, ReceiptInv, Admitted, Testing, Gates, NoReading, Part
<1>5. CASE qagain = qseen /\ qpc' = "runtime" /\ UNCHANGED <<qseen, qagain, under>>
  <2>1. \A p \in Bound : under[p] = {qagain[p]}
    <3> SUFFICES ASSUME NEW p \in Bound PROVE under[p] = {qagain[p]}
      OBVIOUS
    <3>1. qseen[p] \in 0 .. part[p] /\ p \in Part
      BY <1>1 DEF ReceiptInv, Testing, Bound, Part
    <3>2. qseen[p] \in Int /\ qseen[p] # -1
      BY <3>1 DEF TypeOK, TypeOutside, Stamp
    <3>3. under[p] # {} /\ under[p] \subseteq qseen[p] .. qseen[p]
      BY <1>1, <1>5, <3>2 DEF ReceiptInv
    <3>4. \A i \in qseen[p] .. qseen[p] : i = qseen[p]
      BY <3>2
    <3> QED
      BY <1>5, <3>3, <3>4
  <2> QED
    BY <1>1, <1>2, <1>3, <1>5, <2>1 DEF ReceiptInv, Admitted, Testing, Gates
<1> QED
  BY <1>4, <1>5 DEF Compare

LEMMA QualifyReceipt == ASSUME TypeOK, ReceiptInv, Qualify PROVE ReceiptInv'
<1>1. CASE HashRuntime
  <2>1. /\ qpc = "runtime" /\ qpc' = "issue" /\ qagain' = [qagain EXCEPT !["runtime"] = part["runtime"]]
        /\ UNCHANGED <<World, receipt, qseen, under>>
    BY <1>1 DEF HashRuntime
  <2>2. \A p \in Bound : qagain'[p] = qagain[p]
    BY <2>1 DEF Bound, TypeOK, TypeReceipts, Reading
  <2> QED
    BY <2>1, <2>2 DEF ReceiptInv, Testing, Gates, World, outside, process, Undecided
<1>2. CASE Issue
  <2>1. /\ qpc = "issue" /\ receipt' = [binding |-> qagain, issued |-> clock, under |-> under]
        /\ Idle /\ UNCHANGED World
    BY <1>2 DEF Issue
  <2>2. \A p \in Bound : receipt'.under[p] = {receipt'.binding[p]}
    BY <2>1 DEF ReceiptInv
  <2> QED
    BY <2>1, <2>2 DEF Idle, ReceiptInv, Testing, Gates, NoReading, Part, World, outside, process,
                      Undecided
<1>3. CASE QualifyFails
  BY <1>3 DEF QualifyFails, Idle, ReceiptInv, Testing, Gates, NoReading, Part, World, outside,
              process, Undecided
<1>4. CASE Inspect("idle", "host") \/ Inspect("install", "install") \/ Inspect("boundary", "boundary")
  BY <1>4, InspectReceipt
<1> QED
  BY <1>1, <1>2, <1>3, <1>4, GateReceipt, InspectAgainReceipt, CompareReceipt DEF Qualify

LEMMA ReceiptStep == ASSUME TypeOK, ReceiptInv, [Next]_vars PROVE ReceiptInv'
<1>1. CASE UNCHANGED vars \/ Tick \/ \E e \in Entry : RepositoryChanges(e)
  <2>1. UNCHANGED <<part, receipt, process, qualifier>>
    BY <1>1 DEF vars, Tick, RepositoryChanges, outside
  <2> QED
    BY <2>1 DEF ReceiptInv, process, qualifier, Undecided
<1>2. CASE Run
  <2>1. Admitted'
    BY <1>2, AdmittedStep
  <2>2. UNCHANGED Elsewhere
    BY <1>2 DEF Run, Take, Preflight, Look, Stat, PassDone, VerifyShape, Resolve, ReadObjects,
                ProveInstall, ProveBoundary, ProveRuntime, VerifyReceipt, Acquire, Screen, Prepare,
                Rescreen, Configure, Start, Build, SettleAtEnd, Fails
  <2> QED
    BY <2>1, <2>2, ReceiptRun DEF Elsewhere, outside
<1> QED
  BY <1>1, <1>2, ReceiptSystem, QualifyReceipt DEF Next

------------------------------------------------------------------------------
\* The snapshot.  A step that reads nothing of the repository and changes
\* nothing of it keeps what is known of it.
LEMMA SourceKept ==
  ASSUME SourceInv, UNCHANGED <<repo, source, moments, pc>>
  PROVE  SourceInv'
<1>1. UNCHANGED <<repo, pass, now, first, trusted, snap, moments, pc>>
  BY DEF source
<1>2. Values' = Values /\ Between' = Between
  BY <1>1 DEF Values, Between
<1>3. \A e \in Entry : /\ Held(e)' = Held(e) /\ IsPast(now, e)' = IsPast(now, e)
                       /\ IsPast(trusted, e)' = IsPast(trusted, e)
  BY <1>1 DEF Held, IsPast
<1>4. \A e, v : Witnessed(e, v)' = Witnessed(e, v)
  BY <1>1 DEF Witnessed
<1>5. Steady' /\ SeenHeld' /\ Past'
  BY <1>1, <1>2, <1>3 DEF SourceInv, Steady, SeenHeld, Past
<1>6. Found'
  BY <1>1, <1>2 DEF SourceInv, Found, Witnessed
<1> QED
  BY <1>1, <1>2, <1>5, <1>6 DEF SourceInv, Idling, Current, OneState

\* The end of the run, and everything after the extraction.
LEMMA SourceLater ==
  ASSUME OneState, UNCHANGED <<snap, moments>>,
         pc' = "refused" \/ (pc \in Settled /\ pc' \in Settled)
  PROVE  SourceInv'
BY DEF SourceInv, Idling, Past, Current, Steady, SeenHeld, Found, OneState, Between, Reads, Settled

LEMMA SourceRepository ==
  ASSUME TypeOK, SourceInv, NEW e \in Entry, RepositoryChanges(e)
  PROVE  SourceInv'
<1>1. /\ pc \in Reads \cup {"scan"}
      /\ moments' = IF pc \in Reads THEN moments \cup {[Values EXCEPT ![e] = repo'[e].value]} ELSE moments
      /\ UNCHANGED <<pc, pass, now, trusted, snap>>
  BY DEF RepositoryChanges, process, source
<1>2. PICK v \in 0 .. 1 :
        repo' = [repo EXCEPT ![e] = [value |-> v, ctime |-> @.ctime + 1]]
  BY DEF RepositoryChanges
<1>3. repo \in [Entry -> [value : 0 .. 1, ctime : Stamp \cup {-1}]]
      /\ now \in [Entry -> [value : 0 .. 1, ctime : Stamp \cup {-1}]]
      /\ trusted \in [Entry -> [value : 0 .. 1, ctime : Stamp \cup {-1}]]
  BY DEF TypeOK, TypeOutside, TypeSource, Witness
<1>4. /\ repo'[e].ctime = repo[e].ctime + 1 /\ repo[e].ctime \in Int
      /\ \A d \in Entry : d # e => repo'[d] = repo[d]
      /\ \A d \in Entry : now[d].ctime \in Int /\ trusted[d].ctime \in Int
  BY <1>2, <1>3 DEF Stamp
<1>5. \A d \in Entry : IsPast(now, d) => IsPast(now, d)'
  BY <1>1, <1>4 DEF IsPast
<1>6. \A d \in Entry : IsPast(trusted, d) => IsPast(trusted, d)'
  BY <1>1, <1>4 DEF IsPast
<1>7. Values' = [Values EXCEPT ![e] = repo'[e].value]
  <2>1. \A d \in Entry : Values'[d] = [Values EXCEPT ![e] = repo'[e].value][d]
    BY <1>4 DEF Values
  <2> QED
    BY <2>1 DEF Values
<1>8. Current'
  BY <1>1, <1>7 DEF Current
<1>9. Between' = Between
  BY <1>1 DEF Between
<1>10. Steady'
  <2> SUFFICES ASSUME Between, NEW d \in Entry
               PROVE  IsPast(trusted, d)' /\ (trusted'[d].ctime = repo'[d].ctime => Held(d)')
    BY <1>9 DEF Steady
  <2>1. IsPast(trusted, d) /\ (trusted[d].ctime = repo[d].ctime => Held(d))
    BY DEF SourceInv, Steady
  <2>2. ASSUME trusted'[d].ctime = repo'[d].ctime PROVE Held(d)'
    <3>1. d # e
      BY <1>1, <1>4, <2>1, <2>2 DEF IsPast
    <3>2. trusted[d] = repo[d] /\ Held(d)
      BY <1>1, <1>4, <2>1, <2>2, <3>1 DEF IsPast
    <3>3. [Values EXCEPT ![e] = repo'[e].value][d] = trusted[d].value
      BY <3>1, <3>2 DEF Values
    <3> QED
      BY <1>1, <3>2, <3>3 DEF Held
  <2> QED
    BY <1>6, <2>1, <2>2
<1>11. SeenHeld'
  <2>1. CASE pc \in Reads
    BY <1>1, <2>1 DEF SourceInv, Idling, SeenHeld
  <2>2. CASE pc \notin Reads
    BY <1>1, <1>9, <2>2 DEF SourceInv, SeenHeld, Held
  <2> QED
    BY <2>1, <2>2
<1>12. Found'
  BY <1>1, <1>9 DEF SourceInv, Found, Witnessed
<1>13. Past' /\ Idling'
  BY <1>1, <1>5 DEF SourceInv, Past, Idling
<1> QED
  BY <1>1, <1>8, <1>10, <1>11, <1>12, <1>13 DEF SourceInv, OneState, Settled, Reads

LEMMA SourceStat == ASSUME TypeOK, SourceInv, NEW e \in Entry, Stat(e) PROVE SourceInv'
<1>1. /\ pc = "scan" /\ now' = [now EXCEPT ![e] = repo[e]]
      /\ UNCHANGED <<repo, pc, pass, trusted, snap, moments>>
  BY DEF Stat, Elsewhere, outside
<1>2. now'[e] = repo[e] /\ \A d \in Entry : d # e => now'[d] = now[d]
  BY <1>1 DEF TypeOK, TypeSource, Witness
<1>3. repo[e].ctime \in Int
  BY DEF TypeOK, TypeOutside, Witness, Stamp
<1>4. Between' = Between /\ \A d \in Entry : Held(d)' = Held(d)
  BY <1>1 DEF Between, Held
<1>5. Past'
  BY <1>1, <1>2, <1>3 DEF SourceInv, Past, IsPast
<1>6. Steady'
  BY <1>1, <1>4 DEF SourceInv, Steady, IsPast
<1>7. SeenHeld'
  BY <1>1, <1>2, <1>4 DEF SourceInv, SeenHeld, Steady
<1>8. Found'
  BY <1>1, <1>4 DEF SourceInv, Found, Witnessed
<1> QED
  BY <1>1, <1>5, <1>6, <1>7, <1>8 DEF SourceInv, Idling, Current, OneState, Settled, Reads

\* Two equal passes: at the end of the second each entry was as it was read,
\* or it has changed since and the change time says so.
LEMMA SourceWitness ==
  ASSUME TypeOK, SourceInv, pc = "scan", \A e \in Entry : now[e] # NoPass[e],
         trusted' = now, now' = NoPass, pc' = "shape", moments' = {Values}, repo' = repo
  PROVE  SourceInv'
<1>1. \A e \in Entry : IsPast(now, e)
  BY DEF SourceInv, Past
<1>2. Values' = Values
  BY DEF Values
<1>3. Steady'
  BY <1>1 DEF Steady, IsPast, Held, Values
<1> QED
  BY <1>2, <1>3 DEF SourceInv, Idling, Past, Current, SeenHeld, Found, OneState, Reads, Settled

\* The fourth pass equals the witness: every entry was held all the time, and
\* what git has read is what it was.
LEMMA SourceSettled ==
  ASSUME TypeOK, SourceInv, pc = "scan", pass = 4, \A e \in Entry : now[e] # NoPass[e],
         trusted = now
  PROVE  snap.commit = snap.tree /\ moments = {[config |-> 1, head |-> snap.commit]}
<1>1. Between
  BY DEF Between
<1>2. \A m \in moments : m["config"] = trusted["config"].value /\ m["head"] = trusted["head"].value
  BY <1>1 DEF SourceInv, SeenHeld, Held, Entry
<1>3. (\E m \in moments : m["config"] = 1) /\ (\E m \in moments : m["head"] = snap.commit)
      /\ \E m \in moments : m["head"] = snap.tree
  BY <1>1 DEF SourceInv, Found, Witnessed, Reads
<1>4. trusted["config"].value = 1 /\ trusted["head"].value = snap.commit /\ snap.commit = snap.tree
  BY <1>2, <1>3
<1>5. \A m \in moments : m \in [{"config", "head"} -> 0 .. 1] /\ m["config"] = 1 /\ m["head"] = snap.commit
  BY <1>2, <1>4 DEF TypeOK, TypeOutside, Entry
<1>6. \A m \in moments : m = [config |-> 1, head |-> snap.commit]
  BY <1>5
<1> QED
  BY <1>3, <1>4, <1>6

LEMMA SourcePass == ASSUME TypeOK, SourceInv, PassDone PROVE SourceInv'
<1>1. pc = "scan" /\ (\A e \in Entry : now[e] # NoPass[e]) /\ repo' = repo
  BY DEF PassDone, Elsewhere, outside
<1>2. CASE /\ pass \in {1, 3} /\ now' = NoPass /\ pass' = pass + 1 /\ pc' = "scan"
           /\ UNCHANGED <<trusted, snap, moments>>
  <2>1. Between' = Between /\ \A d \in Entry : Held(d)' = Held(d)
    BY <1>1, <1>2 DEF Between, Held, Reads
  <2>2. Steady' /\ Found'
    BY <1>1, <1>2, <2>1 DEF SourceInv, Steady, Found, IsPast, Witnessed
  <2> QED
    BY <1>1, <1>2, <2>2 DEF SourceInv, Idling, Past, Current, SeenHeld, OneState, Reads, Settled
<1>3. CASE /\ trusted' = now /\ now' = NoPass /\ pc' = "shape" /\ moments' = {Values}
  BY <1>1, <1>3, SourceWitness
<1>4. CASE pass = 4 /\ Same(trusted, now) /\ (\E next \in {"install", "previewed"} : End(next))
           /\ UNCHANGED moments
  <2>1. snap.commit = snap.tree /\ moments = {[config |-> 1, head |-> snap.commit]}
    BY <1>1, <1>4, SourceSettled DEF Same
  <2>2. pc' \in {"install", "previewed"} /\ UNCHANGED <<snap, moments>>
    BY <1>4 DEF End
  <2> QED
    BY <2>1, <2>2 DEF SourceInv, Idling, Past, Current, Steady, SeenHeld, Found, OneState, Between,
                      Reads, Settled
<1>5. CASE End("refused") /\ UNCHANGED moments
  BY <1>5, SourceLater DEF SourceInv, End
<1> QED
  BY <1>2, <1>3, <1>4, <1>5 DEF PassDone

\* The readings of the extraction are of a moment each.
LEMMA SourceReads ==
  ASSUME TypeOK, SourceInv,
         VerifyShape \/ Resolve("commit", "tree") \/ Resolve("tree", "objects") \/ ReadObjects
  PROVE  SourceInv'
<1>1. CASE pc' = "refused"
  <2>1. UNCHANGED <<snap, moments>>
    BY <1>1 DEF VerifyShape, Resolve, ReadObjects, End, Goto
  <2> QED
    BY <1>1, <2>1, SourceLater DEF SourceInv
<1>2. CASE pc' # "refused"
  <2>1. /\ pc \in Reads /\ UNCHANGED <<repo, pass, now, trusted, moments>>
        /\ <<pc, pc'>> \in {<<"shape", "commit">>, <<"commit", "tree">>, <<"tree", "objects">>,
                            <<"objects", "scan">>}
        /\ pc = "shape" => Values["config"] = 1 /\ UNCHANGED snap
        /\ pc = "commit" => snap' = [snap EXCEPT !.commit = Values["head"]]
        /\ pc = "tree" => snap' = [snap EXCEPT !.tree = Values["head"]]
        /\ pc = "objects" => UNCHANGED snap
    BY <1>2 DEF VerifyShape, Resolve, ReadObjects, End, Goto, source, Elsewhere, outside, Reads,
                Values, Entry
  <2>2. Values \in moments /\ Values' = Values /\ now = NoPass /\ Between
    BY <2>1 DEF SourceInv, Current, Idling, Values, Between
  <2>3. \A d \in Entry : Held(d)' = Held(d) /\ IsPast(trusted, d)' = IsPast(trusted, d)
    BY <2>1 DEF Held, IsPast
  <2>4. Steady'
    BY <2>1, <2>2, <2>3 DEF SourceInv, Steady
  <2>5. Found'
    <3>1. snap \in [commit : {-1, 0, 1}, tree : {-1, 0, 1}]
      BY DEF TypeOK, TypeSource
    <3>2. \A d \in Entry : \E m \in moments' : m[d] = Values[d]
      BY <2>1, <2>2
    <3>3. \A d, v : Witnessed(d, v) => Witnessed(d, v)'
      BY <2>1 DEF Witnessed
    <3>4. CASE pc = "shape"
      BY <2>1, <3>2, <3>4 DEF Found, Witnessed, Entry
    <3>5. CASE pc = "commit"
      <4>1. Witnessed("config", 1) /\ snap'.commit = Values["head"]
        BY <2>1, <2>2, <3>1, <3>5 DEF SourceInv, Found
      <4>2. Witnessed("config", 1)' /\ Witnessed("head", snap.commit)'
        BY <2>1, <3>2, <4>1 DEF Witnessed, Entry
      <4> QED
        BY <2>1, <3>5, <4>2 DEF Found
    <3>6. CASE pc = "tree"
      <4>1. Witnessed("config", 1) /\ Witnessed("head", snap.commit) /\ snap'.commit = snap.commit
            /\ snap'.tree = Values["head"]
        BY <2>1, <2>2, <3>1, <3>6 DEF SourceInv, Found
      <4>2. Witnessed("config", 1)' /\ Witnessed("head", snap.commit)' /\ Witnessed("head", snap.tree)'
        BY <2>1, <3>2, <4>1 DEF Witnessed, Entry
      <4> QED
        BY <2>1, <3>6, <4>2 DEF Found
    <3>7. CASE pc = "objects"
      <4>1. Witnessed("config", 1) /\ Witnessed("head", snap.commit) /\ Witnessed("head", snap.tree)
            /\ snap' = snap
        BY <2>1, <2>2, <3>7 DEF SourceInv, Found
      <4>2. Witnessed("config", 1)' /\ Witnessed("head", snap.commit)' /\ Witnessed("head", snap.tree)'
        BY <2>1, <4>1 DEF Witnessed
      <4> QED
        BY <4>2 DEF Found
    <3> QED
      BY <2>1, <3>4, <3>5, <3>6, <3>7
  <2> QED
    BY <2>1, <2>2, <2>4, <2>5
       DEF SourceInv, Idling, Past, Current, SeenHeld, OneState, Reads, Settled
<1> QED
  BY <1>1, <1>2

LEMMA SourceStep == ASSUME TypeOK, SourceInv, [Next]_vars PROVE SourceInv'
<1>1. CASE UNCHANGED vars \/ Tick \/ Qualify \/ \E p \in Part : SystemChanges(p)
  <2>1. UNCHANGED <<repo, source, moments, pc>>
    BY <1>1 DEF vars, Tick, SystemChanges, Qualify, Inspect, Gate, InspectAgain, Compare,
                HashRuntime, Issue, QualifyFails, World, outside, process
  <2> QED
    BY <2>1, SourceKept
<1>2. CASE Take \/ Preflight
  <2>1. /\ <<pc, pc'>> \in {<<"lock", "preflight">>, <<"preflight", "scan">>} /\ UNCHANGED <<source, moments>>
    BY <1>2 DEF Take, Preflight, Look, Goto
  <2>2. now' = NoPass /\ pass' = 1
    BY <2>1 DEF SourceInv, Idling, source
  <2> QED
    BY <2>1, <2>2
       DEF SourceInv, Idling, Past, Current, Steady, SeenHeld, Found, OneState, Between, Reads, Settled
<1>3. CASE Fails
  BY <1>3, SourceLater DEF SourceInv, Fails, End
<1>4. CASE \/ ProveInstall \/ ProveBoundary \/ ProveRuntime \/ VerifyReceipt
           \/ Acquire \/ Screen \/ Prepare \/ Rescreen \/ Configure \/ Start \/ Build \/ SettleAtEnd
  <2>1. pc \in Settled /\ UNCHANGED <<snap, moments>>
    BY <1>4 DEF ProveInstall, ProveBoundary, ProveRuntime, Look, VerifyReceipt, Acquire, Screen,
                Prepare, Rescreen, Configure, Start, Build, SettleAtEnd, End, Goto, source, Settled
  <2>2. pc' \in Settled \cup {"refused"}
    BY <1>4 DEF ProveInstall, ProveBoundary, ProveRuntime, Look, VerifyReceipt, Acquire, Screen,
                Prepare, Rescreen, Configure, Start, Build, SettleAtEnd, End, Goto, Settled
  <2> QED
    BY <2>1, <2>2, SourceLater DEF SourceInv
<1> QED
  BY <1>1, <1>2, <1>3, <1>4, SourceRepository, SourceStat, SourcePass, SourceReads DEF Next, Run

------------------------------------------------------------------------------
LEMMA InitInv == Init => IInv
<1> SUFFICES ASSUME Init PROVE IInv
  OBVIOUS
<1>1. PICK c \in 0 .. 1 :
        repo = [config |-> [value |-> c, ctime |-> 0], head |-> [value |-> 0, ctime |-> 0]]
  BY DEF Init
<1>2. 0 \in Stamp /\ 0 \in Gen /\ 0 \in 0 .. MaxClock /\ 0 \in 0 .. MaxChange
  BY DEF Stamp, Gen
<1>3. repo \in Witness /\ \A e \in Entry : repo[e].ctime = 0
  BY <1>1, <1>2 DEF Witness, Entry
<1>4. TypeOutside /\ Counted
  BY <1>2, <1>3 DEF Init, TypeOutside, Counted
<1>5. NoPass \in Witness
  BY DEF NoPass, Witness
<1>6. TypeSource
  BY <1>5 DEF Init, TypeSource, Steps
<1>7. NoSecret \in [at : Surface \cup {"nowhere"}, gen : Gen \cup {-1}]
  BY DEF NoSecret
<1>8. TypeScreening
  BY <1>2, <1>7 DEF Init, TypeScreening
<1>9. NoReading \in Reading /\ NoVersions \in [Part -> SUBSET Stamp] /\ NoReceipt \in Receipts
  BY DEF NoReading, NoVersions, NoReceipt, Reading, Receipts
<1>10. TypeReceipts
  BY <1>9 DEF Init, TypeReceipts, QSteps
<1>11. SourceInv
  BY DEF Init, SourceInv, Idling, Past, Current, Steady, SeenHeld, Found, OneState, Between, Reads,
         Settled
<1>12. ReceiptInv
  BY DEF Init, ReceiptInv, NoReading, Part, Testing, Gates
<1>13. ScreenInv
  BY DEF Init, ScreenInv, InputsScreened, Early, Undecided, Reads, Cleared, NoSecret
<1> QED
  BY <1>4, <1>6, <1>8, <1>10, <1>11, <1>12, <1>13 DEF IInv, TypeOK

LEMMA Invariant == Spec => []IInv
<1>1. IInv /\ [Next]_vars => IInv'
  <2> SUFFICES ASSUME IInv, [Next]_vars PROVE IInv'
    OBVIOUS
  <2>1. TypeOK' /\ Counted'
    BY TypeNext DEF IInv
  <2> QED
    BY <2>1, SourceStep, ReceiptStep, ScreenStep DEF IInv
<1> QED
  BY InitInv, <1>1, PTL DEF Spec

\* The variables of execute_run, extract_committed_project and qualify_live
\* keep their types.
THEOREM TypeCorrect == Spec => []TypeOK
<1>1. IInv => TypeOK
  BY DEF IInv
<1> QED
  BY Invariant, <1>1, PTL

\* The snapshot _source_witness brackets with two double passes is the commit
\* and the tree of one state of the repository, whatever is done to it meanwhile.
THEOREM SnapshotAlwaysOneState == Spec => []SnapshotIsOneState
<1>1. IInv => SnapshotIsOneState
  BY DEF IInv, SourceInv, OneState, SnapshotIsOneState, TypeOK, TypeSource, Steps, Settled
<1> QED
  BY Invariant, <1>1, PTL

\* The receipt verify_live_receipt accepts was earned, gate by gate, on the
\* system that execute_run has read, although qualify_live reads it twice only.
THEOREM AlwaysStartsQualified == Spec => []StartsQualified
<1>1. IInv => StartsQualified
  BY DEF IInv, ReceiptInv, StartsQualified, Bound
<1> QED
  BY Invariant, <1>1, PTL

\* What the two screenings around prepare_codex_credential let through holds
\* no generation of the login, also none of those the probes themselves issue;
\* where build_runtime's question to the ledger broke off, once the ending of
\* execute_run has asked again.
THEOREM InputsAlwaysScreened == Spec => []InputsScreened
<1>1. IInv => InputsScreened
  BY DEF IInv, ScreenInv
<1> QED
  BY Invariant, <1>1, PTL
=============================================================================
