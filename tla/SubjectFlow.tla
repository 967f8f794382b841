---------------------------- MODULE SubjectFlow ----------------------------
(***************************************************************************)
(* What happens to the subject in a run: the committed tree is validated,  *)
(* the author writes a candidate, the path policy reduces it to the        *)
(* authoritative subject, the subject guard advances the tree kept on disk,*)
(* the checks run on copies of it, and the critic judges a bundle derived  *)
(* from it (runner.py, _AuthoritativeSubjectGuard of workflow.py, and      *)
(* build_review_bundle of prompts.py).                                     *)
(*                                                                         *)
(* Around it: an author and checks that leave any tree behind, checks whose*)
(* behaviour on a tree is theirs to choose, a failure or a Ctrl-C at any   *)
(* step, and a foreign hand that changes the directories on disk.          *)
(***************************************************************************)
EXTENDS Manifests, Sequences

CONSTANTS Committed,   \* the trees the run may start from
          Sensitive,   \* paths whose content is never shown (_sensitive_path)
          SecretEntry, \* entries whose content holds a known secret
          Context,     \* review_context_paths, shown though unchanged
          Behaviour,   \* what the checks can do: _validation_behavior_signature
          NoTree,      \* a directory that is not there
          Foreign,     \* a tree that nobody of this run wrote
          MaxRound,    \* settings.max_rounds
          MaxEdit,     \* bound: paths an author or a check changes at a time
          MaxFault     \* bound: failures and foreign changes

ASSUME CommittedAssumption == \A t \in Committed : t \in Tree /\ Builds(t)
ASSUME ShownAssumption ==
  Sensitive \subseteq Path /\ SecretEntry \subseteq Entry /\ Context \subseteq Path
ASSUME ForeignAssumption == NoTree \notin Tree /\ Foreign \notin Tree /\ NoTree # Foreign
ASSUME BoundAssumption == MaxRound \in Nat \ {0} /\ MaxEdit \in Nat /\ MaxFault \in Nat

VARIABLES
  pc,         \* the step of LoopRunner.run, and of publish within it
  base,       \* the committed tree
  current,    \* the runner's authoritative subject
  candidate,  \* the author's workspace
  round,
  behaviour,  \* the behaviour the last full validation showed
  tested,     \* the last subject the checks ran on
  left,       \* what they left of their copy of it, until that is thrown away
  opposed,    \* the counterfactual tree that passed in this round
  guard,      \* _AuthoritativeSubjectGuard._current
  disk,       \* subjects/current, the staging directory and subjects/history
  journal,    \* the subjects journalled, one per round
  bundle,     \* the latest review bundle
  verdicts,   \* how many reviews were journalled
  reason,     \* why the run ended
  faults

runner == <<base, current, candidate, round, behaviour, tested, left, opposed>>
evidence == <<journal, bundle, verdicts>>
vars == <<pc, runner, guard, disk, evidence, reason, faults>>

Kept == Tree \cup {NoTree, Foreign}
Publishing == {"publish", "advance", "replace", "witness"}
Changes == [old : Path \cup {NoPath}, new : Path \cup {NoPath}]
Reasons == {"none", "converged", "round_cap_reached", "failed_or_interrupted",
            "protected_subject_path_changed", "validation_mutated_subject",
            "review_content_withheld", "review_bundle_too_large",
            "out_of_band_change", "runner_internal_error"}

TypeOK ==
  /\ pc \in {"baseline", "unopaque", "ask", "write", "validate", "oppose", "build",
             "review", "stopped", "over"} \cup Publishing
  /\ base \in Committed /\ current \in Tree /\ candidate \in Tree
  /\ round \in 1 .. MaxRound
  /\ behaviour \in Behaviour \cup {NoTree}
  /\ tested \in Tree /\ left \in Tree \cup {NoTree}
  /\ opposed \in Tree \cup {NoTree}
  /\ guard \in Tree
  /\ disk \in [now : Kept, staged : Kept, history : Seq(Kept)]
  /\ journal \in Seq(Tree)
  /\ bundle \in [subject : Tree \cup {NoTree}, shown : SUBSET Changes, opaque : SUBSET Changes]
  /\ verdicts \in Nat
  /\ reason \in Reasons
  /\ faults \in 0 .. MaxFault

------------------------------------------------------------------------------
Stop(why) == pc' = "stopped" /\ reason' = why

\* _AuthoritativeSubjectGuard.verify
Verified(subject) == guard = subject /\ disk.now = subject

\* What a confined process can make of the tree it was given.
Made ==
  [t \in Tree |->
     {s \in Tree : Builds(s) /\ Cardinality({p \in Path : s[p] # t[p]}) <= MaxEdit}]

\* The baseline: the committed tree, as it is.
Baseline ==
  /\ pc = "baseline"
  /\ \E made \in Made[base] :
       \/ /\ OnlyDiscarded(base, made)
          /\ behaviour' \in Behaviour /\ tested' = base /\ left' = made
          /\ pc' = IF WithoutOpaque(base) = base THEN "ask" ELSE "unopaque"
          /\ UNCHANGED reason
       \/ /\ ~OnlyDiscarded(base, made)
          /\ Stop("validation_mutated_subject")
          /\ UNCHANGED <<behaviour, tested, left>>
  /\ UNCHANGED <<base, current, candidate, round, opposed, guard, disk, evidence, faults>>

\* The baseline again without its opaque entries: the checks must not notice.
Unopaque ==
  /\ pc = "unopaque"
  /\ left' = NoTree
  /\ \E made \in Made[WithoutOpaque(base)] :
       \/ /\ OnlyDiscarded(WithoutOpaque(base), made)
          /\ \E b \in Behaviour :
               \/ b = behaviour /\ pc' = "ask" /\ UNCHANGED reason
               \/ b # behaviour /\ Stop("review_content_withheld")
       \/ /\ ~OnlyDiscarded(WithoutOpaque(base), made)
          /\ Stop("validation_mutated_subject")
  /\ UNCHANGED <<base, current, candidate, round, behaviour, tested, opposed, guard, disk,
                 evidence, faults>>

\* A round starts: the tree on disk is verified before the author is given it.
Ask ==
  /\ pc = "ask"
  /\ candidate' = current /\ left' = NoTree /\ opposed' = NoTree
  /\ \/ Verified(current) /\ pc' = "write" /\ UNCHANGED reason
     \/ ~Verified(current) /\ Stop("out_of_band_change")
  /\ UNCHANGED <<base, current, round, behaviour, tested, guard, disk, evidence, faults>>

\* The author's turn ends; reconcile_candidate decides what of it counts.
Write ==
  /\ pc = "write"
  /\ candidate' \in Made[candidate]
  /\ \/ /\ Protects(base, candidate')
        /\ current' = Authoritative(candidate')
        /\ pc' = "publish" /\ UNCHANGED reason
     \/ /\ ~Protects(base, candidate')
        /\ Stop("protected_subject_path_changed") /\ UNCHANGED current
  /\ UNCHANGED <<base, round, behaviour, tested, left, opposed, guard, disk, evidence, faults>>

------------------------------------------------------------------------------
\* _AuthoritativeSubjectGuard.publish, in its steps on disk.

\* The old tree is verified, the new one written beside it and read back.
Publish ==
  /\ pc = "publish"
  /\ \/ /\ disk.now = guard
        /\ disk' = [disk EXCEPT !.staged = current]
        /\ pc' = "advance" /\ UNCHANGED reason
     \/ /\ disk.now # guard
        /\ Stop("out_of_band_change") /\ UNCHANGED disk
  /\ UNCHANGED <<runner, guard, evidence, faults>>

\* Mutant: the old tree is removed to make room.
AdvanceRemoving ==
  /\ pc = "advance"
  /\ disk' = [disk EXCEPT !.now = NoTree]
  /\ pc' = "replace" /\ UNCHANGED reason
  /\ UNCHANGED <<runner, guard, evidence, faults>>

\* The old tree moves into the history.
Advance ==
  /\ pc = "advance"
  /\ \/ /\ disk.now # NoTree
        /\ disk' = [disk EXCEPT !.history = Append(@, disk.now), !.now = NoTree]
        /\ pc' = "replace" /\ UNCHANGED reason
     \/ /\ disk.now = NoTree
        /\ Stop("out_of_band_change") /\ UNCHANGED disk
  /\ UNCHANGED <<runner, guard, evidence, faults>>

\* The new one takes its place.
Replace ==
  /\ pc = "replace"
  /\ \/ /\ disk.staged # NoTree
        /\ disk' = [disk EXCEPT !.now = disk.staged, !.staged = NoTree]
        /\ pc' = "witness" /\ UNCHANGED reason
     \/ /\ disk.staged = NoTree
        /\ Stop("out_of_band_change") /\ UNCHANGED disk
  /\ UNCHANGED <<runner, guard, evidence, faults>>

\* The guard moves on and verifies; then the round's subject is journalled.
Witness ==
  /\ pc = "witness"
  /\ guard' = current
  /\ \/ /\ disk.now = current
        /\ journal' = Append(journal, current)
        /\ pc' = "validate" /\ UNCHANGED reason
     \/ /\ disk.now # current
        /\ Stop("out_of_band_change") /\ UNCHANGED journal
  /\ UNCHANGED <<runner, disk, bundle, verdicts, faults>>

------------------------------------------------------------------------------
\* The checks run on a copy; then the tree on disk, then what they left behind
\* are verified.
Validate ==
  /\ pc = "validate"
  /\ \/ /\ ~Verified(current)
        /\ Stop("out_of_band_change") /\ UNCHANGED <<behaviour, tested, left>>
     \/ /\ Verified(current)
        /\ \E made \in Made[current] :
             \/ /\ OnlyDiscarded(current, made)
                /\ behaviour' \in Behaviour /\ tested' = current /\ left' = made
                /\ pc' = IF OpaqueChanges(base, current) = {} THEN "build" ELSE "oppose"
                /\ UNCHANGED reason
             \/ /\ ~OnlyDiscarded(current, made)
                /\ Stop("validation_mutated_subject")
                /\ UNCHANGED <<behaviour, tested, left>>
  /\ UNCHANGED <<base, current, candidate, round, opposed, guard, disk, evidence, faults>>

\* The counterfactual: opaque changes undone, the checks must behave the same.
\* SubjectManifest.build may refuse the restored tree, which nothing catches.
\* clean: the checks left nothing but discarded paths; what they left is not kept.
Oppose ==
  LET restored == RestoreOpaque(base, current, OpaqueChanges(base, current))
  IN /\ pc = "oppose"
     /\ left' = NoTree
     /\ \/ /\ ~Builds(restored)
           /\ Stop("runner_internal_error") /\ UNCHANGED opposed
        \/ /\ Builds(restored)
           /\ \E clean \in {OnlyDiscarded(restored, made) : made \in Made[restored]},
                b \in Behaviour :
                \/ /\ clean /\ b = behaviour
                   /\ opposed' = restored
                   /\ \/ Verified(current) /\ pc' = "build" /\ UNCHANGED reason
                      \/ ~Verified(current) /\ Stop("out_of_band_change")
                \/ /\ clean /\ b # behaviour
                   /\ Stop("review_content_withheld") /\ UNCHANGED opposed
                \/ /\ ~clean
                   /\ Stop("validation_mutated_subject") /\ UNCHANGED opposed
     /\ UNCHANGED <<base, current, candidate, round, behaviour, tested, guard, disk,
                    evidence, faults>>

\* build_review_bundle: every semantic change with both its sides in full, the
\* opaque ones by name and hash, and the configured context.
Showable(p, t) == t[p] # NoEntry => p \notin Sensitive /\ t[p] \notin SecretEntry

ChangeShowable(c) ==
  /\ c.old # NoPath => Showable(c.old, base)
  /\ c.new # NoPath => Showable(c.new, current)

Build ==
  LET shown  == SemanticChanges(base, current)
      opaque == OpaqueChanges(base, current)
      small  == Cardinality(shown) + Cardinality(opaque) <= MaxFiles
      clear  == /\ \A c \in shown : ChangeShowable(c)
                /\ \A p \in Context : Showable(p, current)
  IN /\ pc = "build"
     /\ left' = NoTree
     /\ \/ /\ small /\ clear
           /\ bundle' = [subject |-> current, shown |-> shown, opaque |-> opaque]
           /\ pc' = "review" /\ UNCHANGED reason
        \/ /\ ~small
           /\ Stop(IF shown = {} THEN "review_bundle_too_large" ELSE "review_content_withheld")
           /\ UNCHANGED bundle
        \/ /\ small /\ ~clear
           /\ Stop("review_content_withheld") /\ UNCHANGED bundle
     /\ UNCHANGED <<base, current, candidate, round, behaviour, tested, opposed, guard, disk,
                    journal, verdicts, faults>>

RoundsLeft == round < MaxRound

\* The critic answers; its review counts if the tree on disk is still the one.
Review ==
  /\ pc = "review"
  /\ \/ /\ Verified(current)
        /\ verdicts' = verdicts + 1
        /\ \/ Stop("converged") /\ UNCHANGED round
           \/ ~RoundsLeft /\ Stop("round_cap_reached") /\ UNCHANGED round
           \/ RoundsLeft /\ round' = round + 1 /\ pc' = "ask" /\ UNCHANGED reason
     \/ ~Verified(current) /\ Stop("out_of_band_change") /\ UNCHANGED <<verdicts, round>>
  /\ UNCHANGED <<base, current, candidate, behaviour, tested, left, opposed, guard, disk,
                 journal, bundle, faults>>

\* Mutant: the result is delivered without a look at the disk.
FinalUnverified ==
  /\ pc = "stopped"
  /\ pc' = "over"
  /\ UNCHANGED <<runner, guard, disk, evidence, reason, faults>>

\* _materialize_final and _post_result_failure: the result stands if the tree
\* on disk is the subject it names; a result that is not a success stands anyway.
Final ==
  /\ pc = "stopped"
  /\ pc' = "over"
  /\ reason' = IF disk.now # current /\ reason = "converged" THEN "out_of_band_change"
                                                            ELSE reason
  /\ UNCHANGED <<runner, guard, disk, evidence, faults>>

------------------------------------------------------------------------------
Fault == faults < MaxFault /\ faults' = faults + 1

\* Any step can fail or be interrupted.
Breaks ==
  /\ pc \notin {"stopped", "over"} /\ Fault
  /\ Stop("failed_or_interrupted")
  /\ UNCHANGED <<runner, guard, disk, evidence>>

\* Somebody else's write in the run directory.
Tamper ==
  /\ pc # "over" /\ Fault
  /\ \/ disk.now # NoTree /\ disk' = [disk EXCEPT !.now = Foreign]
     \/ disk.staged # NoTree /\ disk' = [disk EXCEPT !.staged = Foreign]
  /\ UNCHANGED <<pc, runner, guard, evidence, reason>>

Init ==
  /\ pc = "baseline" /\ base \in Committed /\ current = base /\ candidate = base
  /\ round = 1 /\ behaviour = NoTree
  /\ tested = base /\ left = NoTree /\ opposed = NoTree
  /\ guard = base
  /\ disk = [now |-> base, staged |-> NoTree, history |-> << >>]
  /\ journal = << >> /\ verdicts = 0
  /\ bundle = [subject |-> NoTree, shown |-> {}, opaque |-> {}]
  /\ reason = "none" /\ faults = 0

Next ==
  \/ Baseline \/ Unopaque \/ Ask \/ Write
  \/ Publish \/ Advance \/ Replace \/ Witness
  \/ Validate \/ Oppose \/ Build \/ Review \/ Final
  \/ Breaks \/ Tamper

Spec == Init /\ [][Next]_vars

------------------------------------------------------------------------------
\* The delta is exact (diff_manifests): it turns the committed tree into the
\* candidate, no path is in two changes, and an entry that moved is reported as
\* a rename as often as there are two ends to pair.
Applied(t, s, changes) ==
  [p \in Path |-> IF \E c \in changes : c.new = p THEN s[p]
                  ELSE IF \E c \in changes : c.old = p THEN NoEntry ELSE t[p]]
DeltaExact ==
  LET delta == Diff(base, candidate)
      moved(e) == {c \in delta : c.old # c.new /\ c.old # NoPath /\ c.new # NoPath
                                 /\ candidate[c.new] = e}
      gone(e) == {p \in Removed(base, candidate) : base[p] = e}
      come(e) == {p \in Removed(candidate, base) : candidate[p] = e}
  IN pc = "publish" =>
       /\ Applied(base, candidate, delta) = candidate
       /\ \A c, d \in delta : c # d => Paths(c) \cap Paths(d) = {}
       /\ \A e \in Entry :
            Cardinality(moved(e)) = IF Cardinality(gone(e)) < Cardinality(come(e))
                                    THEN Cardinality(gone(e)) ELSE Cardinality(come(e))

\* However many rounds go by and however entries are moved about, the subject
\* holds at every protected path what was committed there (reconcile_candidate).
ProtectedKept ==
  \A p \in PathsOf("protected") : current[p] = base[p]

\* Whatever differs from the committed tree when the critic is asked, it is
\* shown in full on both sides; or it is declared opaque and the checks behaved
\* the same in this round on a tree that has the committed entry there; or it is
\* declared output, which is not in the subject (build_review_bundle).
ReviewComplete ==
  pc = "review" =>
    \A p \in Path : current[p] # base[p] =>
      \/ /\ p \in Touched(bundle.shown)
         /\ Showable(p, base) /\ Showable(p, current)
      \/ Disposition(p) = "opaque" /\ opposed # NoTree /\ opposed[p] = base[p]
      \/ Disposition(p) = "discard-only" /\ current[p] = NoEntry

\* The counterfactual undoes the unseen changes and nothing else: where it
\* differs from the judged subject, the path is opaque, unshown, and back to what
\* was committed (_restore_opaque_base_entries).
OpposedIsMinimal ==
  pc = "review" /\ opposed # NoTree =>
    \A p \in Path : opposed[p] # current[p] =>
      Disposition(p) = "opaque" /\ p \notin Touched(bundle.shown) /\ opposed[p] = base[p]

\* Checks that are believed left the subject they were given as it was, up to
\* declared output (verify_validation_mutation).
TestedUnchanged ==
  left # NoTree => \A p \in Path : left[p] # tested[p] => Disposition(p) = "discard-only"

\* The history is whole: unless somebody else wrote there, the trees of the
\* rounds before are in it in order, and the runner's latest is on disk even
\* between the two renames (publish).
HistoryWhole ==
  LET all == disk.history \o (IF disk.now # NoTree THEN <<disk.now>> ELSE << >>)
                          \o (IF disk.staged # NoTree THEN <<disk.staged>> ELSE << >>)
  IN Foreign \notin {all[i] : i \in 1 .. Len(all)} =>
       /\ Len(all) >= Len(journal) + 1
       /\ \A i \in 1 .. Len(journal) + 1 : all[i] = (<<base>> \o journal)[i]

\* A review is journalled for the tree that is on disk, that the checks ran on,
\* and that the bundle was derived from, even if the directory was changed while
\* the critic was at work (the guard around critic.review).
ReviewOfTested ==
  [][verdicts' # verdicts => disk.now = bundle.subject /\ tested = bundle.subject]_vars

\* A run that reports success leaves on disk the very subject that was judged
\* last (_materialize_final).
SuccessOnDisk ==
  pc = "over" /\ reason = "converged" =>
    verdicts > 0 /\ disk.now = bundle.subject /\ current = bundle.subject

------------------------------------------------------------------------------
\* README.md: "each opaque candidate delta is tested with the prior opaque
\* entries restored": the restored subject can always be built.
OpaqueDeltaTested == reason # "runner_internal_error"
=============================================================================
