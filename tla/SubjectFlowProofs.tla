-------------------------- MODULE SubjectFlowProofs --------------------------
(***************************************************************************)
(* Proofs about the subject of a run, for any paths, entries, policy and   *)
(* bounds.  First what the difference of two manifests says: it touches    *)
(* exactly the paths at which they differ, and none of them twice.  Then   *)
(* one strengthening, from which the invariants of the flow follow, where  *)
(* the trees of the rounds are, and how many renames a difference has.     *)
(***************************************************************************)
EXTENDS SubjectFlow, FiniteSetTheorems, TLAPS

USE PathAssumption, EntryAssumption

------------------------------------------------------------------------------
\* Of two paths that hold the same entry, the later has the higher rank.
LEMMA RankGrows ==
  ASSUME NEW t \in Tree, NEW S \in SUBSET Path, NEW p \in S, NEW q \in S,
         p < q, t[p] = t[q]
  PROVE  Rank(p, S, t) # Rank(q, S, t)
<1> DEFINE P == {x \in S : x < p /\ t[x] = t[p]}
           Q == {x \in S : x < q /\ t[x] = t[q]}
<1>1. IsFiniteSet(Q)
  BY FS_Subset, Q \subseteq Path
<1>2. P \subseteq Q /\ p \in Q /\ p \notin P
  <2>1. p \in Nat /\ q \in Nat /\ \A x \in S : x \in Nat
    OBVIOUS
  <2>2. \A x \in S : x < p => x < q
    BY <2>1
  <2>3. ~(p < p)
    BY <2>1
  <2> QED
    BY <2>2, <2>3
<1>3. Cardinality(P) # Cardinality(Q)
  BY <1>1, <1>2, FS_Subset
<1> QED
  BY <1>3 DEF Rank

LEMMA RankInjective ==
  \A t \in Tree, S \in SUBSET Path : \A p, q \in S :
    t[p] = t[q] /\ Rank(p, S, t) = Rank(q, S, t) => p = q
<1> SUFFICES ASSUME NEW t \in Tree, NEW S \in SUBSET Path, NEW p \in S, NEW q \in S,
                    t[p] = t[q], Rank(p, S, t) = Rank(q, S, t)
             PROVE  p = q
  OBVIOUS
<1>1. p \in Nat /\ q \in Nat
  OBVIOUS
<1>2. ~(p < q) /\ ~(q < p)
  BY RankGrows
<1> QED
  BY <1>1, <1>2

\* So a removed entry is paired with one addition, and an addition with one
\* removed entry.
LEMMA RenamedOneToOne ==
  ASSUME NEW a \in Tree, NEW b \in Tree, NEW r \in Renamed(a, b), NEW s \in Renamed(a, b),
         r[1] = s[1] \/ r[2] = s[2]
  PROVE  r = s
<1>1. /\ Removed(a, b) \in SUBSET Path /\ Removed(b, a) \in SUBSET Path
      /\ r \in Removed(a, b) \X Removed(b, a) /\ s \in Removed(a, b) \X Removed(b, a)
      /\ a[r[1]] = b[r[2]] /\ a[s[1]] = b[s[2]]
      /\ Rank(r[1], Removed(a, b), a) = Rank(r[2], Removed(b, a), b)
      /\ Rank(s[1], Removed(a, b), a) = Rank(s[2], Removed(b, a), b)
  BY DEF Renamed, Removed, Entries
<1>2. r[1] = s[1] => r[2] = s[2]
  <2> SUFFICES ASSUME r[1] = s[1] PROVE r[2] = s[2]
    OBVIOUS
  <2>1. /\ r[2] \in Removed(b, a) /\ s[2] \in Removed(b, a) /\ b[r[2]] = b[s[2]]
        /\ Rank(r[2], Removed(b, a), b) = Rank(s[2], Removed(b, a), b)
    BY <1>1
  <2>2. \A x, y \in Removed(b, a) :
          b[x] = b[y] /\ Rank(x, Removed(b, a), b) = Rank(y, Removed(b, a), b) => x = y
    BY <1>1, RankInjective
  <2> QED
    BY <2>1, <2>2
<1>3. r[2] = s[2] => r[1] = s[1]
  <2> SUFFICES ASSUME r[2] = s[2] PROVE r[1] = s[1]
    OBVIOUS
  <2>1. /\ r[1] \in Removed(a, b) /\ s[1] \in Removed(a, b) /\ a[r[1]] = a[s[1]]
        /\ Rank(r[1], Removed(a, b), a) = Rank(s[1], Removed(a, b), a)
    BY <1>1
  <2>2. \A x, y \in Removed(a, b) :
          a[x] = a[y] /\ Rank(x, Removed(a, b), a) = Rank(y, Removed(a, b), a) => x = y
    BY <1>1, RankInjective
  <2> QED
    BY <2>1, <2>2
<1> QED
  BY <1>1, <1>2, <1>3

\* What a change is: a path at which both trees have an entry, the two ends of
\* a rename, or the one side of a removal or an addition.
LEMMA ChangeForms ==
  ASSUME NEW a \in Tree, NEW b \in Tree, NEW c \in Diff(a, b)
  PROVE  \/ \E p \in Modified(a, b) : c = Change(p, p)
         \/ \E r \in Renamed(a, b) : c = Change(r[1], r[2])
         \/ \E p \in Removed(a, b) : c = Change(p, NoPath) /\ \A r \in Renamed(a, b) : r[1] # p
         \/ \E p \in Removed(b, a) : c = Change(NoPath, p) /\ \A r \in Renamed(a, b) : r[2] # p
BY DEF Diff

\* A change has its old side in the first tree and its new one in the second,
\* and its paths are paths at which they differ.
LEMMA ChangeSides ==
  ASSUME NEW a \in Tree, NEW b \in Tree, NEW c \in Diff(a, b)
  PROVE  /\ c \in Changes
         /\ \A p \in Paths(c) : p \in Path /\ a[p] # b[p]
         /\ \A p \in Paths(c) : p # c.old => a[p] = NoEntry
         /\ \A p \in Paths(c) : p # c.new => b[p] = NoEntry
<1> USE DEF Change, Paths, Changes, Removed, Modified, Entries, Tree
<1>1. CASE \E p \in Modified(a, b) : c = Change(p, p)
  BY <1>1
<1>2. CASE \E r \in Renamed(a, b) : c = Change(r[1], r[2])
  <2> PICK r \in Renamed(a, b) : c = Change(r[1], r[2])
    BY <1>2
  <2>1. r[1] \in Removed(a, b) /\ r[2] \in Removed(b, a)
    BY DEF Renamed
  <2> QED
    BY <2>1
<1>3. CASE \E p \in Removed(a, b) : c = Change(p, NoPath)
  BY <1>3
<1>4. CASE \E p \in Removed(b, a) : c = Change(NoPath, p)
  BY <1>4
<1> QED
  BY <1>1, <1>2, <1>3, <1>4, ChangeForms

\* diff_manifests leaves out no difference.
LEMMA DiffCovers ==
  ASSUME NEW a \in Tree, NEW b \in Tree, NEW p \in Path, a[p] # b[p]
  PROVE  \E c \in Diff(a, b) : p \in Paths(c)
<1> USE DEF Paths, Change
<1>1. CASE p \in Modified(a, b)
  <2>1. Change(p, p) \in Diff(a, b)
    BY <1>1 DEF Diff
  <2> QED
    BY <2>1
<1>2. CASE \E r \in Renamed(a, b) : p = r[1] \/ p = r[2]
  <2> PICK r \in Renamed(a, b) : p = r[1] \/ p = r[2]
    BY <1>2
  <2>1. Change(r[1], r[2]) \in Diff(a, b)
    BY DEF Diff
  <2> QED
    BY <2>1
<1>3. CASE p \in Removed(a, b) /\ \A r \in Renamed(a, b) : p # r[1]
  <2>1. Change(p, NoPath) \in Diff(a, b)
    BY <1>3 DEF Diff
  <2> QED
    BY <2>1
<1>4. CASE p \in Removed(b, a) /\ \A r \in Renamed(a, b) : p # r[2]
  <2>1. Change(NoPath, p) \in Diff(a, b)
    BY <1>4 DEF Diff
  <2> QED
    BY <2>1
<1>5. p \in Modified(a, b) \/ p \in Removed(a, b) \/ p \in Removed(b, a)
  BY DEF Modified, Removed, Entries, Tree
<1> QED
  BY <1>1, <1>2, <1>3, <1>4, <1>5

\* diff_manifests reports a path once.
LEMMA DiffApart ==
  ASSUME NEW a \in Tree, NEW b \in Tree, NEW c \in Diff(a, b), NEW d \in Diff(a, b),
         NEW p \in Path, p \in Paths(c), p \in Paths(d)
  PROVE  c = d
<1> DEFINE M(x) == x = Change(p, p) /\ p \in Modified(a, b)
           R(x) == \E r \in Renamed(a, b) : x = Change(r[1], r[2]) /\ (p = r[1] \/ p = r[2])
           D(x) == x = Change(p, NoPath) /\ p \in Removed(a, b)
                   /\ \A r \in Renamed(a, b) : r[1] # p
           C(x) == x = Change(NoPath, p) /\ p \in Removed(b, a)
                   /\ \A r \in Renamed(a, b) : r[2] # p
<1>1. ASSUME NEW x \in Diff(a, b), p \in Paths(x)
      PROVE  M(x) \/ R(x) \/ D(x) \/ C(x)
  BY <1>1, ChangeForms DEF Paths, Change
<1>2. \A r \in Renamed(a, b) : r[1] \in Removed(a, b) /\ r[2] \in Removed(b, a)
  BY DEF Renamed
<1>3. /\ ~(p \in Removed(a, b) /\ p \in Removed(b, a))
      /\ p \in Modified(a, b) => p \notin Removed(a, b) /\ p \notin Removed(b, a)
  BY DEF Removed, Modified
<1>4. R(c) /\ R(d) => c = d
  <2> SUFFICES ASSUME R(c), R(d) PROVE c = d
    OBVIOUS
  <2>1. PICK r \in Renamed(a, b) : c = Change(r[1], r[2]) /\ (p = r[1] \/ p = r[2])
    OBVIOUS
  <2>2. PICK s \in Renamed(a, b) : d = Change(s[1], s[2]) /\ (p = s[1] \/ p = s[2])
    OBVIOUS
  <2>3. r[1] = s[1] \/ r[2] = s[2]
    BY <2>1, <2>2, <1>2, <1>3
  <2>4. r = s
    BY <2>3, RenamedOneToOne
  <2> QED
    BY <2>1, <2>2, <2>4
<1>5. /\ M(c) \/ R(c) \/ D(c) \/ C(c)
      /\ M(d) \/ R(d) \/ D(d) \/ C(d)
  BY <1>1
<1>6. /\ R(c) => ~M(d) /\ ~D(d) /\ ~C(d)
      /\ R(d) => ~M(c) /\ ~D(c) /\ ~C(c)
  BY <1>2, <1>3
<1> QED
  BY <1>3, <1>4, <1>5, <1>6

LEMMA DiffTouches ==
  ASSUME NEW a \in Tree, NEW b \in Tree
  PROVE  Touched(Diff(a, b)) = {p \in Path : a[p] # b[p]}
<1>1. \A p \in Path : a[p] # b[p] => p \in Touched(Diff(a, b))
  BY DiffCovers DEF Touched
<1>2. \A p \in Touched(Diff(a, b)) : p \in Path /\ a[p] # b[p]
  BY ChangeSides DEF Touched
<1> QED
  BY <1>1, <1>2

\* Checks that touch only declared output leave the rest as it was.
LEMMA OnlyDiscardedMeans ==
  ASSUME NEW a \in Tree, NEW b \in Tree, OnlyDiscarded(a, b)
  PROVE  \A p \in Path : b[p] # a[p] => Disposition(p) = "discard-only"
BY DiffCovers DEF OnlyDiscarded

------------------------------------------------------------------------------
\* The trees of the flow are trees.
LEMMA TreesTyped ==
  /\ \A t \in Tree : Authoritative(t) \in Tree /\ WithoutOpaque(t) \in Tree
  /\ \A t, u \in Tree : \A changes : RestoreOpaque(t, u, changes) \in Tree
  /\ \A t \in Tree : Made[t] \subseteq Tree
  /\ Committed \subseteq Tree
BY CommittedAssumption DEF Authoritative, WithoutOpaque, RestoreOpaque, Made, Tree

\* Where the run stands when the critic's bundle is being prepared.
StageInv ==
  /\ pc \in {"write", "validate", "oppose"} \cup Publishing => opposed = NoTree
  /\ pc = "oppose" => OpaqueChanges(base, current) # {}
  /\ pc \in {"build", "review"} =>
       opposed = IF OpaqueChanges(base, current) = {} THEN NoTree
                 ELSE RestoreOpaque(base, current, OpaqueChanges(base, current))
  /\ pc \in {"oppose", "build", "review"} => tested = current
  /\ pc = "review" =>
       /\ bundle.subject = current
       /\ bundle.shown = SemanticChanges(base, current)
       /\ \A c \in bundle.shown : ChangeShowable(c)
  /\ pc \in {"stopped", "over"} /\ reason = "converged" =>
       verdicts > 0 /\ bundle.subject = current
  /\ pc = "over" /\ reason = "converged" => disk.now = current
  /\ pc \notin {"stopped", "over"} => reason = "none"

\* Declared output that was committed is there until the author's first turn.
OutputInv ==
  \A p \in PathsOf("discard-only") : current[p] # base[p] => current[p] = NoEntry

IInv == TypeOK /\ ProtectedKept /\ OutputInv /\ TestedUnchanged /\ StageInv

LEMMA InitInv == Init => IInv
<1> SUFFICES ASSUME Init PROVE IInv
  OBVIOUS
<1>1. TypeOK
  BY CommittedAssumption, BoundAssumption DEF Init, TypeOK, Kept, Changes, Reasons
<1>2. ProtectedKept /\ OutputInv /\ TestedUnchanged /\ StageInv
  BY DEF Init, ProtectedKept, OutputInv, TestedUnchanged, StageInv, Publishing
<1> QED
  BY <1>1, <1>2 DEF IInv

LEMMA TypeStep == ASSUME TypeOK, [Next]_vars PROVE TypeOK'
<1> USE DEF TypeOK, Kept, Reasons, Publishing
<1>1. CASE Baseline
  BY <1>1, TreesTyped DEF Baseline, Stop, evidence
<1>2. CASE Unopaque
  BY <1>2 DEF Unopaque, Stop, evidence
<1>3. CASE Ask
  BY <1>3 DEF Ask, Stop, evidence
<1>4. CASE Write
  <2>1. candidate' \in Tree
    BY <1>4, TreesTyped DEF Write
  <2> QED
    BY <1>4, <2>1, TreesTyped DEF Write, Stop, evidence
<1>5. CASE Publish
  BY <1>5 DEF Publish, Stop, evidence, runner
<1>6. CASE Advance
  <2>1. disk' = disk \/ disk' = [disk EXCEPT !.history = Append(@, disk.now), !.now = NoTree]
    BY <1>6 DEF Advance
  <2>2. disk.now \in Kept /\ disk.staged \in Kept /\ disk.history \in Seq(Kept)
    BY DEF TypeOK
  <2>3. Append(disk.history, disk.now) \in Seq(Kept)
    BY <2>2
  <2>4. disk' \in [now : Kept, staged : Kept, history : Seq(Kept)]
    BY <2>1, <2>2, <2>3
  <2> QED
    BY <1>6, <2>4 DEF Advance, Stop, evidence, runner
<1>7. CASE Replace
  BY <1>7 DEF Replace, Stop, evidence, runner
<1>8. CASE Witness
  <2>1. journal' = journal \/ journal' = Append(journal, current)
    BY <1>8 DEF Witness
  <2>2. journal' \in Seq(Tree)
    BY <2>1
  <2> QED
    BY <1>8, <2>2 DEF Witness, Stop, runner
<1>9. CASE Validate
  BY <1>9, TreesTyped DEF Validate, Stop, evidence
<1>10. CASE Oppose
  BY <1>10, TreesTyped DEF Oppose, Stop, evidence
<1>11. CASE Build
  <2>1. SemanticChanges(base, current) \subseteq Changes
    BY ChangeSides, TreesTyped DEF SemanticChanges
  <2>2. OpaqueChanges(base, current) \subseteq Changes
    BY ChangeSides, TreesTyped DEF OpaqueChanges
  <2> QED
    BY <1>11, <2>1, <2>2 DEF Build, Stop
<1>12. CASE Review
  BY <1>12, BoundAssumption DEF Review, Stop, RoundsLeft
<1>13. CASE Final
  BY <1>13 DEF Final, evidence, runner
<1>14. CASE Breaks
  BY <1>14, BoundAssumption DEF Breaks, Fault, Stop, evidence, runner
<1>15. CASE Tamper
  BY <1>15, BoundAssumption DEF Tamper, Fault, evidence, runner
<1>16. CASE UNCHANGED vars
  BY <1>16 DEF vars, evidence, runner
<1> QED
  BY <1>1, <1>2, <1>3, <1>4, <1>5, <1>6, <1>7, <1>8, <1>9, <1>10, <1>11, <1>12, <1>13,
     <1>14, <1>15, <1>16 DEF Next

\* reconcile_candidate keeps what is protected, and drops declared output.
LEMMA PolicyStep ==
  ASSUME TypeOK, ProtectedKept, OutputInv, TestedUnchanged, [Next]_vars
  PROVE  ProtectedKept' /\ OutputInv' /\ TestedUnchanged'
<1> USE DEF TypeOK, PathsOf
<1>1. CASE Baseline
  <2>1. \/ left' = left /\ tested' = tested
        \/ tested' = base /\ left' \in Tree /\ OnlyDiscarded(base, left')
    BY <1>1, TreesTyped DEF Baseline
  <2>2. TestedUnchanged'
    <3>1. CASE left' = left /\ tested' = tested
      BY <3>1 DEF TestedUnchanged
    <3>2. CASE tested' = base /\ left' \in Tree /\ OnlyDiscarded(base, left')
      <4>1. base \in Tree
        BY TreesTyped
      <4>2. \A p \in Path : (left')[p] # base[p] => Disposition(p) = "discard-only"
        BY <3>2, <4>1, OnlyDiscardedMeans
      <4> QED
        BY <3>2, <4>2 DEF TestedUnchanged
    <3> QED
      BY <2>1, <3>1, <3>2
  <2> QED
    BY <1>1, <2>2 DEF Baseline, ProtectedKept, OutputInv
<1>2. CASE Validate
  <2>1. \/ left' = left /\ tested' = tested
        \/ tested' = current /\ left' \in Tree /\ OnlyDiscarded(current, left')
    BY <1>2, TreesTyped DEF Validate
  <2>2. TestedUnchanged'
    <3>1. CASE left' = left /\ tested' = tested
      BY <3>1 DEF TestedUnchanged
    <3>2. CASE tested' = current /\ left' \in Tree /\ OnlyDiscarded(current, left')
      <4>1. current \in Tree
        BY TreesTyped
      <4>2. \A p \in Path : (left')[p] # current[p] => Disposition(p) = "discard-only"
        BY <3>2, <4>1, OnlyDiscardedMeans
      <4> QED
        BY <3>2, <4>2 DEF TestedUnchanged
    <3> QED
      BY <2>1, <3>1, <3>2
  <2> QED
    BY <1>2, <2>2 DEF Validate, ProtectedKept, OutputInv
<1>3. CASE Write
  <2>1. candidate' \in Tree
    BY <1>3, TreesTyped DEF Write
  <2>2. CASE current' = current
    BY <1>3, <2>2 DEF Write, ProtectedKept, OutputInv, TestedUnchanged
  <2>3. CASE Protects(base, candidate') /\ current' = Authoritative(candidate')
    <3>1. base \in Tree
      BY TreesTyped
    <3>2. \A p \in Path : base[p] # (candidate')[p] => Disposition(p) # "protected"
      BY <2>1, <2>3, <3>1, DiffTouches DEF Protects
    <3>3. \A p \in Path : (current')[p] = IF Disposition(p) = "discard-only" THEN NoEntry
                                                                         ELSE (candidate')[p]
      BY <2>3 DEF Authoritative
    <3> QED
      BY <1>3, <3>2, <3>3 DEF Write, ProtectedKept, OutputInv, TestedUnchanged
  <2> QED
    BY <1>3, <2>2, <2>3 DEF Write
<1>4. CASE Unopaque \/ Ask \/ Oppose \/ Build
  BY <1>4 DEF Unopaque, Ask, Oppose, Build, ProtectedKept, OutputInv, TestedUnchanged
<1>5. CASE Review
  BY <1>5 DEF Review, ProtectedKept, OutputInv, TestedUnchanged
<1>6. CASE \/ Publish \/ Advance \/ Replace \/ Witness \/ Final \/ Breaks \/ Tamper
           \/ UNCHANGED vars
  <2>1. UNCHANGED <<base, current, tested, left>>
    BY <1>6
       DEF Publish, Advance, Replace, Witness, Final, Breaks, Tamper, vars, runner
  <2> QED
    BY <2>1 DEF ProtectedKept, OutputInv, TestedUnchanged
<1> QED
  BY <1>1, <1>2, <1>3, <1>4, <1>5, <1>6 DEF Next

LEMMA StageStep == ASSUME TypeOK, StageInv, [Next]_vars PROVE StageInv'
<1> USE DEF StageInv, Publishing, Stop
<1>1. CASE Baseline
  BY <1>1 DEF Baseline, evidence
<1>2. CASE Unopaque
  BY <1>2 DEF Unopaque, evidence
<1>3. CASE Ask
  BY <1>3 DEF Ask, evidence
<1>4. CASE Write
  BY <1>4 DEF Write, evidence
<1>5. CASE Publish
  BY <1>5 DEF Publish, evidence, runner
<1>6. CASE Advance
  BY <1>6 DEF Advance, evidence, runner
<1>7. CASE Replace
  BY <1>7 DEF Replace, evidence, runner
<1>8. CASE Witness
  BY <1>8 DEF Witness, runner
<1>9. CASE Validate
  BY <1>9 DEF Validate, evidence
<1>10. CASE Oppose
  <2> DEFINE restored == RestoreOpaque(base, current, OpaqueChanges(base, current))
  <2>1. /\ pc = "oppose" /\ UNCHANGED <<base, current, tested, bundle, verdicts, disk>>
        /\ \/ pc' = "build" /\ opposed' = restored /\ reason' = reason
           \/ pc' = "stopped" /\ reason' # "converged"
    BY <1>10 DEF Oppose, evidence
  <2>2. OpaqueChanges(base, current) # {}
    BY <2>1
  <2> QED
    BY <2>1, <2>2
<1>11. CASE Build
  <2>1. CASE pc' = "review"
    <3>1. /\ bundle'.subject = current /\ bundle'.shown = SemanticChanges(base, current)
          /\ \A c \in bundle'.shown : ChangeShowable(c)
          /\ UNCHANGED <<base, current, tested, opposed>> /\ pc = "build"
      BY <1>11, <2>1 DEF Build
    <3>2. \A c \in bundle'.shown : ChangeShowable(c)'
      BY <3>1 DEF ChangeShowable, Showable
    <3> QED
      BY <2>1, <1>11, <3>1, <3>2 DEF Build, SemanticChanges, OpaqueChanges
  <2>2. CASE pc' = "stopped" /\ reason' # "converged"
    BY <1>11, <2>2 DEF Build
  <2> QED
    BY <1>11, <2>1, <2>2 DEF Build
<1>12. CASE Review
  BY <1>12 DEF Review, RoundsLeft, TypeOK
<1>13. CASE Final
  BY <1>13 DEF Final, evidence, runner
<1>14. CASE Breaks
  BY <1>14 DEF Breaks, evidence, runner
<1>15. CASE Tamper
  <2>1. UNCHANGED <<pc, runner, evidence, reason>> /\ pc # "over"
    BY <1>15 DEF Tamper
  <2>2. \A c : ChangeShowable(c)' <=> ChangeShowable(c)
    BY <2>1 DEF ChangeShowable, Showable, runner
  <2> QED
    BY <2>1, <2>2 DEF evidence, runner
<1>16. CASE UNCHANGED vars
  <2>1. \A c : ChangeShowable(c)' <=> ChangeShowable(c)
    BY <1>16 DEF ChangeShowable, Showable, vars, runner
  <2> QED
    BY <1>16, <2>1 DEF vars, evidence, runner
<1> QED
  BY <1>1, <1>2, <1>3, <1>4, <1>5, <1>6, <1>7, <1>8, <1>9, <1>10, <1>11, <1>12, <1>13,
     <1>14, <1>15, <1>16 DEF Next

LEMMA Invariance == Spec => []IInv
<1>1. IInv /\ [Next]_vars => IInv'
  BY TypeStep, PolicyStep, StageStep DEF IInv
<1> QED
  BY <1>1, InitInv, PTL DEF Spec

\* The subject of a run keeps its types, in every step.
THEOREM TypeCorrect == Spec => []TypeOK
<1>1. IInv => TypeOK
  BY DEF IInv
<1> QED
  BY <1>1, Invariance, PTL

\* reconcile_candidate keeps every protected path as committed, in any number of
\* rounds and whatever the author moves or renames.
THEOREM ProtectedAlways == Spec => []ProtectedKept
<1>1. IInv => ProtectedKept
  BY DEF IInv
<1> QED
  BY <1>1, Invariance, PTL

\* Checks whose result is believed changed nothing but declared output.
THEOREM TestedAlways == Spec => []TestedUnchanged
<1>1. IInv => TestedUnchanged
  BY DEF IInv
<1> QED
  BY <1>1, Invariance, PTL

\* The critic is asked only about a subject whose every difference from the
\* committed tree it is shown, or the checks were shown not to depend on.
THEOREM ReviewsComplete == Spec => []ReviewComplete
<1>1. ASSUME IInv PROVE ReviewComplete
  <2> SUFFICES ASSUME pc = "review", NEW p \in Path, current[p] # base[p]
               PROVE  \/ /\ p \in Touched(bundle.shown)
                         /\ Showable(p, base) /\ Showable(p, current)
                      \/ Disposition(p) = "opaque" /\ opposed # NoTree /\ opposed[p] = base[p]
                      \/ Disposition(p) = "discard-only" /\ current[p] = NoEntry
    BY DEF ReviewComplete
  <2>1. base \in Tree /\ current \in Tree
    BY <1>1, TreesTyped DEF IInv, TypeOK
  <2>2. PICK c \in Diff(base, current) : p \in Paths(c)
    BY <2>1, DiffCovers
  <2>3. \A q \in Paths(c) : q \in Path /\ Disposition(q) # "protected"
    <3>1. \A q \in Paths(c) : q \in Path /\ base[q] # current[q]
      BY <2>1, ChangeSides
    <3> QED
      BY <1>1, <3>1 DEF IInv, ProtectedKept, PathsOf
  <2>4. CASE ClassifyChange(c) = "semantic"
    <3>1. c \in bundle.shown /\ ChangeShowable(c)
      BY <1>1, <2>4 DEF IInv, StageInv, SemanticChanges
    <3>2. p \in Touched(bundle.shown)
      BY <3>1, <2>2 DEF Touched
    <3>3. /\ p # c.old => base[p] = NoEntry
          /\ p # c.new => current[p] = NoEntry
          /\ p # NoPath
      BY <2>1, <2>2, ChangeSides DEF Paths
    <3>4. Showable(p, base) /\ Showable(p, current)
      BY <3>1, <3>3 DEF ChangeShowable, Showable
    <3> QED
      BY <3>2, <3>4
  <2>5. CASE ClassifyChange(c) = "opaque"
    <3>1. c \in OpaqueChanges(base, current)
      BY <2>5 DEF OpaqueChanges
    <3>2. opposed = RestoreOpaque(base, current, OpaqueChanges(base, current))
      BY <1>1, <3>1 DEF IInv, StageInv
    <3>3. Disposition(p) = "opaque"
      BY <2>2, <2>5 DEF ClassifyChange
    <3>4. opposed[p] = base[p]
      BY <3>1, <3>2, <2>2 DEF RestoreOpaque, Touched
    <3>5. opposed \in Tree
      BY <3>2, <2>1, TreesTyped
    <3> QED
      BY <3>3, <3>4, <3>5, ForeignAssumption
  <2>6. CASE ClassifyChange(c) = "discard-only"
    <3>1. Disposition(p) = "discard-only"
      BY <2>2, <2>6 DEF ClassifyChange
    <3> QED
      BY <1>1, <3>1 DEF IInv, OutputInv, PathsOf
  <2>7. ClassifyChange(c) \in {"semantic", "opaque", "discard-only"}
    BY <2>3 DEF ClassifyChange
  <2> QED
    BY <2>4, <2>5, <2>6, <2>7
<1> QED
  BY <1>1, Invariance, PTL

\* The tree that stands for "without the unseen changes" differs from the judged
\* subject there only, and has there what was committed.
THEOREM OpposedAlways == Spec => []OpposedIsMinimal
<1>1. ASSUME IInv PROVE OpposedIsMinimal
  <2> SUFFICES ASSUME pc = "review", opposed # NoTree, NEW p \in Path, opposed[p] # current[p]
               PROVE  Disposition(p) = "opaque" /\ p \notin Touched(bundle.shown)
                      /\ opposed[p] = base[p]
    BY DEF OpposedIsMinimal
  <2>1. base \in Tree /\ current \in Tree
    BY <1>1, TreesTyped DEF IInv, TypeOK
  <2>2. /\ opposed = RestoreOpaque(base, current, OpaqueChanges(base, current))
        /\ bundle.shown = SemanticChanges(base, current)
    BY <1>1 DEF IInv, StageInv
  <2>3. p \in Touched(OpaqueChanges(base, current)) /\ opposed[p] = base[p]
    BY <2>2 DEF RestoreOpaque
  <2>4. PICK c \in Diff(base, current) : ClassifyChange(c) = "opaque" /\ p \in Paths(c)
    BY <2>3 DEF Touched, OpaqueChanges
  <2>5. Disposition(p) = "opaque"
    BY <2>4 DEF ClassifyChange
  <2>6. ASSUME p \in Touched(bundle.shown) PROVE FALSE
    <3>1. PICK d \in Diff(base, current) : ClassifyChange(d) = "semantic" /\ p \in Paths(d)
      BY <2>2, <2>6 DEF Touched, SemanticChanges
    <3>2. c = d
      BY <2>1, <2>4, <3>1, DiffApart
    <3> QED
      BY <2>4, <3>1, <3>2
  <2> QED
    BY <2>3, <2>5, <2>6
<1> QED
  BY <1>1, Invariance, PTL

\* A review counts only for the tree that is on disk and was tested.
THEOREM ReviewsOfTested == Spec => ReviewOfTested
<1>1. IInv /\ [Next]_vars =>
        [verdicts' # verdicts => disk.now = bundle.subject /\ tested = bundle.subject]_vars
  <2> SUFFICES ASSUME IInv, Next, verdicts' # verdicts
               PROVE  disk.now = bundle.subject /\ tested = bundle.subject
    BY DEF vars, evidence
  <2>1. Review /\ verdicts' # verdicts
    BY DEF Next, Baseline, Unopaque, Ask, Write, Publish, Advance, Replace, Witness,
           Validate, Oppose, Build, Final, Breaks, Tamper, evidence
  <2> QED
    BY <2>1 DEF Review, Verified, IInv, StageInv
<1> QED
  BY <1>1, Invariance, PTL DEF Spec, ReviewOfTested

\* A reported success is on disk, and is what was judged.
THEOREM SuccessAlways == Spec => []SuccessOnDisk
<1>1. IInv => SuccessOnDisk
  BY DEF IInv, StageInv, SuccessOnDisk
<1> QED
  BY <1>1, Invariance, PTL

------------------------------------------------------------------------------
(***************************************************************************)
(* The history of the subjects on disk.                                    *)
(***************************************************************************)
\* The trees that should be on disk by now, in order: the committed one, and what was
\* journalled.
Told(n) == IF n = 1 THEN base ELSE journal[n - 1]

\* Nobody else wrote there.
Untampered ==
  /\ disk.now # Foreign /\ disk.staged # Foreign
  /\ \A i \in 1 .. Len(disk.history) : disk.history[i] # Foreign

\* The history holds the first n of them.
Archived(n) == Len(disk.history) = n /\ \A i \in 1 .. n : disk.history[i] = Told(i)

InPlace == Archived(Len(journal)) /\ disk.now = Told(Len(journal) + 1)
Moved == Archived(Len(journal) + 1)

HistInv ==
  /\ pc \notin {"advance", "replace", "stopped", "over"} => disk.staged = NoTree
  /\ pc = "replace" => disk.now = NoTree
  /\ Untampered =>
       /\ pc \notin {"replace", "witness", "stopped", "over"} => InPlace
       /\ pc \in {"replace", "witness"} => Moved
       /\ pc \in {"stopped", "over"} => InPlace \/ Moved

LEMMA InitHist == Init => HistInv
BY DEF Init, HistInv, InPlace, Archived, Told

\* A step that leaves disk and journal alone only has to say where it leads.
LEMMA HistStays ==
  ASSUME HistInv, UNCHANGED <<base, disk, journal>>,
         \/ pc' = pc
         \/ pc' \in {"stopped", "over"}
         \/ /\ pc \notin {"advance", "replace", "witness", "stopped", "over"}
            /\ pc' \notin {"advance", "replace", "witness", "stopped", "over"}
  PROVE  HistInv'
<1>1. InPlace' = InPlace /\ Moved' = Moved /\ Untampered' = Untampered
  BY DEF InPlace, Moved, Archived, Told, Untampered
<1> QED
  BY <1>1 DEF HistInv

LEMMA HistStep == ASSUME TypeOK, HistInv, [Next]_vars PROVE HistInv'
<1>0. /\ disk.now \in Kept /\ disk.staged \in Kept /\ disk.history \in Seq(Kept)
      /\ disk \in [now : Kept, staged : Kept, history : Seq(Kept)]
      /\ journal \in Seq(Tree) /\ current \in Tree /\ guard \in Tree
  BY DEF TypeOK
<1>1. CASE Publish
  <2>1. CASE UNCHANGED disk /\ pc' = "stopped"
    BY <1>1, <2>1, HistStays DEF Publish, runner, evidence
  <2>2. CASE disk' = [disk EXCEPT !.staged = current] /\ pc' = "advance"
    <3>1. /\ disk'.now = disk.now /\ disk'.history = disk.history /\ disk'.staged = current
          /\ disk.staged = NoTree /\ pc = "publish" /\ UNCHANGED <<base, journal>>
      BY <1>0, <1>1, <2>2 DEF Publish, HistInv, runner, evidence
    <3>2. Untampered' => Untampered
      BY <3>1, ForeignAssumption DEF Untampered
    <3>3. InPlace => InPlace'
      BY <3>1 DEF InPlace, Archived, Told
    <3> QED
      BY <2>2, <3>1, <3>2, <3>3 DEF HistInv
  <2> QED
    BY <1>1, <2>1, <2>2 DEF Publish, Stop
<1>2. CASE Advance
  <2>1. CASE UNCHANGED disk /\ pc' = "stopped"
    BY <1>2, <2>1, HistStays DEF Advance, runner, evidence
  <2>2. CASE /\ disk' = [disk EXCEPT !.history = Append(@, disk.now), !.now = NoTree]
             /\ pc' = "replace"
    <3>1. /\ disk'.now = NoTree /\ disk'.history = Append(disk.history, disk.now)
          /\ disk'.staged = disk.staged /\ pc = "advance" /\ UNCHANGED <<base, journal>>
      BY <1>0, <1>2, <2>2 DEF Advance, runner, evidence
    <3>2. /\ Len(disk'.history) = Len(disk.history) + 1
          /\ \A i \in 1 .. Len(disk.history) : disk'.history[i] = disk.history[i]
          /\ disk'.history[Len(disk.history) + 1] = disk.now
      BY <1>0, <3>1
    <3>3. Untampered' => Untampered
      BY <1>0, <3>1, <3>2 DEF Untampered
    <3>4. InPlace => Moved'
      BY <1>0, <3>1, <3>2 DEF InPlace, Moved, Archived, Told
    <3> QED
      BY <2>2, <3>1, <3>3, <3>4 DEF HistInv
  <2> QED
    BY <1>2, <2>1, <2>2 DEF Advance, Stop
<1>3. CASE Replace
  <2>1. CASE UNCHANGED disk /\ pc' = "stopped"
    BY <1>3, <2>1, HistStays DEF Replace, runner, evidence
  <2>2. CASE disk' = [disk EXCEPT !.now = disk.staged, !.staged = NoTree] /\ pc' = "witness"
    <3>1. /\ disk'.now = disk.staged /\ disk'.history = disk.history
          /\ disk'.staged = NoTree /\ disk.now = NoTree /\ pc = "replace"
          /\ UNCHANGED <<base, journal>>
      BY <1>0, <1>3, <2>2 DEF Replace, HistInv, runner, evidence
    <3>2. Untampered' => Untampered
      BY <3>1, ForeignAssumption DEF Untampered
    <3>3. Moved => Moved'
      BY <3>1 DEF Moved, Archived, Told
    <3> QED
      BY <2>2, <3>1, <3>2, <3>3 DEF HistInv
  <2> QED
    BY <1>3, <2>1, <2>2 DEF Replace, Stop
<1>4. CASE Witness
  <2>1. CASE UNCHANGED journal /\ pc' = "stopped"
    BY <1>4, <2>1, HistStays DEF Witness, runner
  <2>2. CASE disk.now = current /\ journal' = Append(journal, current) /\ pc' = "validate"
    <3>1. UNCHANGED <<base, disk>> /\ pc = "witness"
      BY <1>4 DEF Witness, runner
    <3>2. /\ Len(journal') = Len(journal) + 1
          /\ \A i \in 1 .. Len(journal) : journal'[i] = journal[i]
          /\ journal'[Len(journal) + 1] = current
      BY <1>0, <2>2
    <3>3. Moved => InPlace'
      BY <1>0, <2>2, <3>1, <3>2 DEF InPlace, Moved, Archived, Told
    <3>4. Untampered' = Untampered
      BY <3>1 DEF Untampered
    <3> QED
      BY <2>2, <3>1, <3>3, <3>4 DEF HistInv
  <2> QED
    BY <1>4, <2>1, <2>2 DEF Witness, Stop
<1>5. CASE Tamper
  <2>1. ~Untampered' /\ UNCHANGED pc
    BY <1>0, <1>5 DEF Tamper, Untampered
  <2>2. /\ disk.now = NoTree => disk'.now = NoTree
        /\ disk.staged = NoTree => disk'.staged = NoTree
    BY <1>0, <1>5 DEF Tamper
  <2> QED
    BY <2>1, <2>2 DEF HistInv
<1>6. CASE Baseline \/ Unopaque \/ Ask \/ Write \/ Validate \/ Oppose \/ Build \/ Review
  <2>1. /\ UNCHANGED <<base, disk, journal>>
        /\ pc \in {"baseline", "unopaque", "ask", "write", "validate", "oppose", "build", "review"}
        /\ pc' \in {"unopaque", "ask", "write", "publish", "oppose", "build", "review", "stopped"}
    BY <1>6 DEF Baseline, Unopaque, Ask, Write, Validate, Oppose, Build, Review, Stop, evidence
  <2> QED
    BY <2>1, HistStays
<1>7. CASE Final \/ Breaks \/ UNCHANGED vars
  <2>1. UNCHANGED <<base, disk, journal>> /\ (pc' = pc \/ pc' \in {"stopped", "over"})
    BY <1>7 DEF Final, Breaks, Stop, vars, evidence, runner
  <2> QED
    BY <2>1, HistStays
<1> QED
  BY <1>1, <1>2, <1>3, <1>4, <1>5, <1>6, <1>7 DEF Next

\* Two sequences in a row.
LEMMA Concatenated ==
  ASSUME NEW S, NEW s \in Seq(S), NEW t \in Seq(S)
  PROVE  /\ s \o t \in Seq(S) /\ Len(s \o t) = Len(s) + Len(t)
         /\ \A i \in 1 .. Len(s) : (s \o t)[i] = s[i]
         /\ \A i \in 1 .. Len(t) : (s \o t)[Len(s) + i] = t[i]
OBVIOUS

\* Whatever fails in publish, between its two renames too, and however many rounds there
\* are: unless somebody else wrote there, every subject that was journalled is on disk.
THEOREM HistoryAlwaysWhole == Spec => []HistoryWhole
<1>1. ASSUME TypeOK, HistInv PROVE HistoryWhole
  <2> DEFINE now == IF disk.now # NoTree THEN <<disk.now>> ELSE << >>
             staged == IF disk.staged # NoTree THEN <<disk.staged>> ELSE << >>
             known == disk.history \o now
             all == known \o staged
             n == Len(disk.history)
             told == <<base>> \o journal
  <2> SUFFICES ASSUME Foreign \notin {all[i] : i \in 1 .. Len(all)}
               PROVE  /\ Len(all) >= Len(journal) + 1
                      /\ \A i \in 1 .. Len(journal) + 1 : all[i] = told[i]
    BY DEF HistoryWhole
  <2>1. /\ disk.now \in Kept /\ disk.staged \in Kept /\ disk.history \in Seq(Kept)
        /\ journal \in Seq(Tree) /\ base \in Tree /\ n \in Nat /\ Len(journal) \in Nat
    BY <1>1, TreesTyped DEF TypeOK
  <2>2. /\ now \in Seq(Kept) /\ Len(now) \in 0 .. 1
        /\ disk.now # NoTree => Len(now) = 1 /\ now[1] = disk.now
    <3>1. CASE disk.now # NoTree
      BY <2>1, <3>1
    <3>2. CASE disk.now = NoTree
      BY <3>2
    <3> QED
      BY <3>1, <3>2
  <2>3. /\ staged \in Seq(Kept) /\ Len(staged) \in 0 .. 1
        /\ disk.staged # NoTree => Len(staged) = 1 /\ staged[1] = disk.staged
    <3>1. CASE disk.staged # NoTree
      BY <2>1, <3>1
    <3>2. CASE disk.staged = NoTree
      BY <3>2
    <3> QED
      BY <3>1, <3>2
  <2> HIDE DEF now, staged
  <2>4. /\ known \in Seq(Kept) /\ Len(known) = n + Len(now)
        /\ \A i \in 1 .. n : known[i] = disk.history[i]
        /\ \A i \in 1 .. Len(now) : known[n + i] = now[i]
    BY <2>1, <2>2, Concatenated
  <2> HIDE DEF known
  <2>5. /\ Len(all) = Len(known) + Len(staged)
        /\ \A i \in 1 .. Len(known) : all[i] = known[i]
        /\ \A i \in 1 .. Len(staged) : all[Len(known) + i] = staged[i]
    BY <2>3, <2>4, Concatenated
  <2> HIDE DEF all
  <2>6. /\ \A i \in 1 .. n : all[i] = disk.history[i] /\ i \in 1 .. Len(all)
        /\ disk.now # NoTree =>
             n + 1 \in 1 .. Len(all) /\ all[n + 1] = disk.now
        /\ disk.staged # NoTree =>
             Len(all) \in 1 .. Len(all) /\ all[Len(all)] = disk.staged
    <3>1. Len(known) \in Nat /\ n <= Len(known) /\ Len(known) <= Len(all) /\ Len(all) \in Nat
      BY <2>1, <2>2, <2>3, <2>4, <2>5
    <3>2. \A i \in 1 .. n : all[i] = disk.history[i] /\ i \in 1 .. Len(all)
      <4> TAKE i \in 1 .. n
      <4>1. i \in 1 .. Len(known) /\ i \in 1 .. Len(all)
        BY <2>1, <3>1
      <4> QED
        BY <2>4, <2>5, <4>1
    <3>3. ASSUME disk.now # NoTree
          PROVE  n + 1 \in 1 .. Len(all) /\ all[n + 1] = disk.now
      <4>1. Len(now) = 1 /\ Len(known) = n + 1 /\ n + 1 \in 1 .. Len(known)
        <5>1. Len(now) = 1
          BY <2>2, <3>3
        <5>2. Len(known) = n + 1
          BY <2>4, <5>1
        <5> QED
          BY <2>1, <5>1, <5>2
      <4>2. known[n + 1] = disk.now
        BY <2>2, <2>4, <3>3, <4>1
      <4> QED
        BY <2>1, <2>5, <3>1, <4>1, <4>2
    <3>4. ASSUME disk.staged # NoTree
          PROVE  Len(all) \in 1 .. Len(all) /\ all[Len(all)] = disk.staged
      <4>1. Len(staged) = 1 /\ Len(all) = Len(known) + 1
        BY <2>3, <2>5, <3>4
      <4> QED
        BY <2>3, <2>5, <3>1, <3>4, <4>1
    <3> QED
      BY <3>2, <3>3, <3>4
  <2>7. Untampered
    BY <2>6, ForeignAssumption DEF Untampered
  <2>8. told[1] = base /\ \A i \in 1 .. Len(journal) : told[i + 1] = journal[i]
    BY <2>1
  <2> HIDE DEF told
  <2>9. \A i \in 1 .. Len(journal) + 1 : told[i] = Told(i)
    <3> TAKE i \in 1 .. Len(journal) + 1
    <3>1. CASE i = 1
      BY <2>8, <3>1 DEF Told
    <3>2. CASE i # 1
      <4>1. i - 1 \in 1 .. Len(journal) /\ (i - 1) + 1 = i
        BY <2>1, <3>2
      <4> QED
        BY <2>8, <3>2, <4>1 DEF Told
    <3> QED
      BY <3>1, <3>2
  <2>10. Len(all) \in Nat /\ Len(all) >= n
    BY <2>1, <2>2, <2>3, <2>4, <2>5
  <2>11. CASE InPlace
    <3>1. Told(Len(journal) + 1) \in Tree
      BY <2>1 DEF Told
    <3>2. disk.now # NoTree
      BY <2>11, <3>1, ForeignAssumption DEF InPlace
    <3>3. n = Len(journal) /\ Len(all) >= n + 1
          /\ \A i \in 1 .. n : all[i] = Told(i)
      BY <2>1, <2>6, <2>10, <2>11, <3>2 DEF InPlace, Archived
    <3>4. all[n + 1] = Told(n + 1)
      BY <2>6, <2>11, <3>2, <3>3 DEF InPlace
    <3> QED
      BY <2>1, <2>9, <3>3, <3>4
  <2>12. CASE Moved
    <3>1. n = Len(journal) + 1 /\ \A i \in 1 .. n : all[i] = Told(i)
      BY <2>1, <2>6, <2>12 DEF Moved, Archived
    <3> QED
      BY <2>1, <2>9, <2>10, <3>1
  <2> QED
    BY <1>1, <2>7, <2>11, <2>12 DEF HistInv
<1>2. HistInv /\ IInv /\ [Next]_vars => HistInv'
  BY HistStep DEF IInv
<1>3. IInv => TypeOK
  BY DEF IInv
<1> QED
  BY <1>1, <1>2, <1>3, InitHist, Invariance, PTL DEF Spec

------------------------------------------------------------------------------
\* The paths that hold an entry are ranked from 0 on, without a gap.
Holding(S, t, e) == {p \in S : t[p] = e}

LEMMA HoldingFinite ==
  \A S \in SUBSET Path : \A t, e : /\ IsFiniteSet(Holding(S, t, e))
                                   /\ Cardinality(Holding(S, t, e)) \in Nat
BY FS_Subset, FS_CardinalityType DEF Holding

LEMMA RankBelow ==
  ASSUME NEW S \in SUBSET Path, NEW t, NEW e, NEW p \in Holding(S, t, e)
  PROVE  Rank(p, S, t) \in 0 .. Cardinality(Holding(S, t, e)) - 1
<1> DEFINE H == Holding(S, t, e)
           P == {q \in S : q < p /\ t[q] = t[p]}
<1>1. IsFiniteSet(H) /\ Cardinality(H) \in Nat
  BY HoldingFinite
<1>2. p \in Nat /\ p \in H /\ t[p] = e
  BY DEF Holding
<1>3. P \subseteq H /\ p \notin P
  <2>1. ~(p < p)
    BY <1>2
  <2> QED
    BY <1>2, <2>1 DEF Holding
<1> HIDE DEF H, P
<1>4. IsFiniteSet(P) /\ Cardinality(P) <= Cardinality(H) /\ Cardinality(P) # Cardinality(H)
  BY <1>1, <1>2, <1>3, FS_Subset
<1>5. Cardinality(P) \in Nat
  BY <1>4, FS_CardinalityType
<1>6. Cardinality(P) \in 0 .. Cardinality(H) - 1
  BY <1>1, <1>4, <1>5
<1> QED
  BY <1>6 DEF Rank, H, P

LEMMA Counted ==
  ASSUME NEW n \in Nat PROVE IsFiniteSet(0 .. n - 1) /\ Cardinality(0 .. n - 1) = n
<1>1. 0 \in Int /\ n - 1 \in Int
  OBVIOUS
<1>2. /\ IsFiniteSet(0 .. n - 1)
      /\ Cardinality(0 .. n - 1) = IF 0 > n - 1 THEN 0 ELSE (n - 1) - 0 + 1
  BY <1>1, FS_Interval
<1> QED
  BY <1>2

\* Different numbers below a bound, as many as the bound: each is there.
LEMMA Filled ==
  ASSUME NEW H, IsFiniteSet(H), NEW n \in Nat, n = Cardinality(H), NEW f \in [H -> 0 .. n - 1],
         \A p, q \in H : f[p] = f[q] => p = q
  PROVE  \A k \in 0 .. n - 1 : \E p \in H : f[p] = k
<1>1. f \in Injection(H, 0 .. n - 1)
  BY DEF Injection, IsInjective
<1>2. IsFiniteSet(0 .. n - 1) /\ Cardinality(0 .. n - 1) = n
  BY Counted
<1>3. f \in Surjection(H, 0 .. n - 1)
  BY <1>1, <1>2, FS_Injection
<1> QED
  BY <1>3 DEF Surjection

LEMMA RankFills ==
  ASSUME NEW S \in SUBSET Path, NEW t \in Tree, NEW e,
         NEW k \in 0 .. Cardinality(Holding(S, t, e)) - 1
  PROVE  \E p \in Holding(S, t, e) : Rank(p, S, t) = k
<1> DEFINE H == Holding(S, t, e)
           n == Cardinality(H)
           f == [p \in H |-> Rank(p, S, t)]
<1>1. IsFiniteSet(H) /\ n \in Nat
  BY HoldingFinite
<1>2. f \in [H -> 0 .. n - 1]
  BY RankBelow
<1>3. \A p, q \in H : Rank(p, S, t) = Rank(q, S, t) => p = q
  BY RankInjective DEF Holding
<1>4. \A p, q \in H : f[p] = f[q] => p = q
  BY <1>3
<1> HIDE DEF H, n, f
<1>5. \A i \in 0 .. n - 1 : \E p \in H : f[p] = i
  BY <1>1, <1>2, <1>4, Filled DEF n
<1>6. PICK p \in H : f[p] = k
  BY <1>5 DEF n, H
<1> QED
  BY <1>6 DEF f, H

\* So diff_manifests pairs as many removals and additions of an entry as there
\* are of the rarer.
LEMMA MovedCount ==
  ASSUME NEW a \in Tree, NEW b \in Tree, NEW e \in Entry
  PROVE  LET moved == {c \in Diff(a, b) : c.old # c.new /\ c.old # NoPath /\ c.new # NoPath
                                          /\ b[c.new] = e}
             gone  == {p \in Removed(a, b) : a[p] = e}
             come  == {p \in Removed(b, a) : b[p] = e}
         IN  Cardinality(moved) = IF Cardinality(gone) < Cardinality(come)
                                  THEN Cardinality(gone) ELSE Cardinality(come)
<1> DEFINE R == Removed(a, b)
           A == Removed(b, a)
           gone == Holding(R, a, e)
           come == Holding(A, b, e)
           n == IF Cardinality(gone) < Cardinality(come) THEN Cardinality(gone)
                ELSE Cardinality(come)
           moved == {c \in Diff(a, b) : c.old # c.new /\ c.old # NoPath /\ c.new # NoPath
                                        /\ b[c.new] = e}
           f == [c \in moved |-> Rank(c.old, R, a)]
<1>1. R \in SUBSET Path /\ A \in SUBSET Path /\ R \cap A = {}
  BY DEF Removed, Entries
<1>2. /\ Cardinality(gone) \in Nat /\ Cardinality(come) \in Nat /\ n \in Nat
      /\ \A k \in 0 .. n - 1 : /\ k \in 0 .. Cardinality(gone) - 1
                               /\ k \in 0 .. Cardinality(come) - 1
      /\ \A k : k \in 0 .. Cardinality(gone) - 1 /\ k \in 0 .. Cardinality(come) - 1
                => k \in 0 .. n - 1
  <2>1. Cardinality(gone) \in Nat /\ Cardinality(come) \in Nat
    BY <1>1, HoldingFinite
  <2> HIDE DEF gone, come
  <2> QED
    BY <2>1
<1>3. ASSUME NEW c \in moved
      PROVE  \E r \in Renamed(a, b) : /\ c = Change(r[1], r[2]) /\ c.old = r[1]
                                      /\ r[1] \in gone /\ r[2] \in come
                                      /\ Rank(r[1], R, a) = Rank(r[2], A, b)
  <2>1. PICK r \in Renamed(a, b) : c = Change(r[1], r[2])
    <3>1. \A p : Change(p, p).old = Change(p, p).new /\ Change(p, NoPath).new = NoPath
                 /\ Change(NoPath, p).old = NoPath
      BY DEF Change
    <3> QED
      BY <3>1, ChangeForms
  <2>2. c.old = r[1] /\ c.new = r[2]
    BY <2>1 DEF Change
  <2>3. /\ r[1] \in R /\ r[2] \in A /\ a[r[1]] = b[r[2]]
        /\ Rank(r[1], R, a) = Rank(r[2], A, b)
    BY DEF Renamed
  <2>4. b[r[2]] = e
    BY <2>2
  <2> QED
    BY <2>1, <2>2, <2>3, <2>4 DEF Holding
<1>4. f \in [moved -> 0 .. n - 1]
  <2> SUFFICES ASSUME NEW c \in moved PROVE Rank(c.old, R, a) \in 0 .. n - 1
    OBVIOUS
  <2>1. PICK r \in Renamed(a, b) : /\ c = Change(r[1], r[2]) /\ c.old = r[1]
                                   /\ r[1] \in gone /\ r[2] \in come
                                   /\ Rank(r[1], R, a) = Rank(r[2], A, b)
    BY <1>3
  <2>2. Rank(r[1], R, a) \in 0 .. Cardinality(gone) - 1
    BY <1>1, <2>1, RankBelow
  <2>3. Rank(r[2], A, b) \in 0 .. Cardinality(come) - 1
    BY <1>1, <2>1, RankBelow
  <2> HIDE DEF gone, come, R, A, n
  <2> QED
    BY <1>2, <2>1, <2>2, <2>3
<1>5. \A c, d \in moved : Rank(c.old, R, a) = Rank(d.old, R, a) => c = d
  <2> SUFFICES ASSUME NEW c \in moved, NEW d \in moved, Rank(c.old, R, a) = Rank(d.old, R, a)
               PROVE  c = d
    OBVIOUS
  <2>1. PICK r \in Renamed(a, b) : c = Change(r[1], r[2]) /\ c.old = r[1] /\ r[1] \in gone
    BY <1>3
  <2>2. PICK s \in Renamed(a, b) : d = Change(s[1], s[2]) /\ d.old = s[1] /\ s[1] \in gone
    BY <1>3
  <2>3. r[1] = s[1]
    <3>1. /\ r[1] \in R /\ s[1] \in R /\ a[r[1]] = a[s[1]]
          /\ Rank(r[1], R, a) = Rank(s[1], R, a)
      BY <2>1, <2>2 DEF Holding
    <3>2. \A x, y \in R : a[x] = a[y] /\ Rank(x, R, a) = Rank(y, R, a) => x = y
      BY <1>1, RankInjective
    <3> HIDE DEF R
    <3> QED
      BY <3>1, <3>2
  <2>4. r = s
    BY <2>3, RenamedOneToOne
  <2> QED
    BY <2>1, <2>2, <2>4
<1>6. \A k \in 0 .. n - 1 : \E c \in moved : Rank(c.old, R, a) = k
  <2> SUFFICES ASSUME NEW k \in 0 .. n - 1 PROVE \E c \in moved : Rank(c.old, R, a) = k
    OBVIOUS
  <2>1. k \in 0 .. Cardinality(gone) - 1 /\ k \in 0 .. Cardinality(come) - 1
    BY <1>2
  <2>2. PICK p \in gone : Rank(p, R, a) = k
    BY <1>1, <2>1, RankFills
  <2>3. PICK q \in come : Rank(q, A, b) = k
    BY <1>1, <2>1, RankFills
  <2>4. p \in R /\ q \in A /\ a[p] = e /\ b[q] = e
    BY DEF Holding
  <2>5. <<p, q>> \in Renamed(a, b)
    BY <2>2, <2>3, <2>4 DEF Renamed
  <2>6. Change(p, q) \in Diff(a, b)
    BY <2>5 DEF Diff
  <2>7. Change(p, q).old = p /\ Change(p, q).new = q
    BY DEF Change
  <2>8. p # q /\ p # NoPath /\ q # NoPath
    BY <1>1, <2>4
  <2>9. Change(p, q) \in moved
    BY <2>4, <2>6, <2>7, <2>8
  <2> QED
    BY <2>2, <2>7, <2>9
<1> HIDE DEF moved, n
<1>7. f \in Injection(moved, 0 .. n - 1) /\ f \in Surjection(moved, 0 .. n - 1)
  BY <1>4, <1>5, <1>6 DEF Injection, IsInjective, Surjection
<1> HIDE DEF f
<1>8. IsFiniteSet(0 .. n - 1) /\ Cardinality(0 .. n - 1) = n
  BY <1>2, Counted
<1>9. Cardinality(moved) = n
  BY <1>7, <1>8, FS_Injection
<1> QED
  BY <1>9 DEF moved, n, Holding

\* The delta that the checks and the critic work from is exact: it turns the
\* committed tree into the candidate, no path is in two changes, and an entry
\* that moved is a rename as often as there are two ends to pair
\* (diff_manifests).
THEOREM DeltaAlwaysExact == Spec => []DeltaExact
<1>1. ASSUME NEW a \in Tree, NEW b \in Tree
      PROVE  Applied(a, b, Diff(a, b)) = b
  <2>1. ASSUME NEW p \in Path
        PROVE  b[p] = IF \E c \in Diff(a, b) : c.new = p THEN b[p]
                      ELSE IF \E c \in Diff(a, b) : c.old = p THEN NoEntry ELSE a[p]
    <3>1. ASSUME NEW c \in Diff(a, b), c.old = p, \A d \in Diff(a, b) : d.new # p
          PROVE  b[p] = NoEntry
      BY <3>1, ChangeSides DEF Paths
    <3>2. ASSUME \A d \in Diff(a, b) : d.new # p /\ d.old # p
          PROVE  b[p] = a[p]
      BY <3>2, DiffCovers DEF Paths
    <3> QED
      BY <3>1, <3>2
  <2> QED
    BY <2>1 DEF Applied, Tree
<1>2. ASSUME NEW a \in Tree, NEW b \in Tree
      PROVE  \A c, d \in Diff(a, b) : c # d => Paths(c) \cap Paths(d) = {}
  <2> SUFFICES ASSUME NEW c \in Diff(a, b), NEW d \in Diff(a, b), NEW p,
                      p \in Paths(c), p \in Paths(d)
               PROVE  c = d
    OBVIOUS
  <2>1. p \in Path
    BY ChangeSides
  <2> QED
    BY <2>1, DiffApart
<1>3. TypeOK => base \in Tree /\ candidate \in Tree
  BY TreesTyped DEF TypeOK
<1>4. TypeOK => DeltaExact
  BY <1>1, <1>2, <1>3, MovedCount DEF DeltaExact
<1> QED
  BY <1>4, TypeCorrect, PTL
=============================================================================
