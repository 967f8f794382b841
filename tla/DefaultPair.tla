----------------------------- MODULE DefaultPair -----------------------------
(***************************************************************************)
(* How the default credential profile comes to exist (credentials.py):     *)
(* auto_enroll_default_cli_credentials imports a wholly absent pair from   *)
(* the operator's vendor logins, repair_default_cli_credentials rotates or *)
(* completes it.  Both write three files that have to agree and create up  *)
(* to two account directories, and undo what they did when anything fails. *)
(*                                                                         *)
(* Every access to the default profile is made under the profile lock, so  *)
(* op, pc and the memory of the call belong to its one holder.  A write, a *)
(* directory creation, a read of a vendor login and each half of a tree    *)
(* removal are steps of their own: each may fail before or after it took   *)
(* effect, and the process may die between any two of them.                *)
(***************************************************************************)
EXTENDS DefaultProfile

\* In marker: there is none.  In standard: no login that can be used.
NoPair == [v \in Vendor |-> Absent]
Pairs  == [Vendor -> Gen]
Drafts == [Vendor -> Gen \cup {Absent}]

VARIABLES
  tree,     \* codex/default and claude/default exist
  file,     \* auth.json, credentials.json
  pending,  \* what a crashed run left: nothing, transaction directories, a journal
  target,   \* the new pair that journal names, or NoPair
  op,       \* the call that holds the profile lock
  data,     \* the vendor logins it has read
  had,      \* which account directories it found
  old,      \* the files and the marker it found
  undo,     \* rollback_new_pair
  result,   \* how the last call ended
  before,   \* history: the store when the call took the lock
  hurt,     \* history: failed steps of the call
  paired    \* history: pairs imported together or committed by a run

stored == <<tree, file, marker, pending, target>>
call == <<op, pc, who, data, had, old, undo, result>>
profileVars == <<stored, standard, call, before, hurt, paired, faults>>

Steps   == {"idle", "look", "source", "lock", "check", "write", "mark",
            "unmark", "restore", "remark", "sweep", "cleanup"}
Results == {"none", "reused", "imported", "refused", "failed", "crashed"}
Saved   == [file : Drafts, marker : Pairs \cup {NoPair}]
Store   == [tree : [Vendor -> BOOLEAN], file : Drafts, marker : Pairs \cup {NoPair},
            pending : {"none", "directories", "journal"}, target : Pairs \cup {NoPair}]

Now == [tree |-> tree, file |-> file, marker |-> marker, pending |-> pending, target |-> target]

ProfileTypeOK ==
  /\ Now \in Store /\ before \in Store
  /\ standard \in Drafts /\ data \in Drafts
  /\ op \in {"none", "enroll", "repair"} /\ pc \in Steps /\ who \in Vendor
  /\ had \in [Vendor -> BOOLEAN] /\ old \in Saved /\ undo \in BOOLEAN
  /\ result \in Results
  /\ hurt \in 0 .. MaxFault /\ faults \in 0 .. MaxFault
  /\ paired \subseteq Pairs

-----------------------------------------------------------------------------
\* What the two calls and auth status read.

Wholly == /\ \A v \in Vendor : tree[v]
          /\ marker # NoPair
Untouched == /\ \A v \in Vendor : ~tree[v]
             /\ marker = NoPair /\ pending # "journal"

\* The marker compared with one of the two files only.
ReusableOneHash == /\ Wholly
                   /\ \A v \in Vendor : file[v] # Absent
                   /\ pending = "journal" \/ marker["claude"] = file["claude"]

\* An existing profile that enrolment accepts; a journal names both
\* generations of a mixed pair and is left to the run that follows.
Reusable == /\ Wholly
            /\ \A v \in Vendor : file[v] # Absent
            /\ pending = "journal" \/ marker = file

\* default_cli_credential_pair_state.
PairState ==
  CASE Untouched -> "absent"
    [] ~Untouched /\ ~Reusable -> "repair_required"
    [] ~Untouched /\ Reusable /\ pending # "none" -> "recovery_pending"
    [] OTHER -> "ready"

GoOn(step, v) == pc' = step /\ who' = v

\* Every lock is released; the files stay as they are.
End(r) == /\ GoOn("idle", "codex") /\ op' = "none" /\ result' = r
          /\ data' = NoPair /\ old' = [file |-> NoPair, marker |-> NoPair]
          /\ had' = [v \in Vendor |-> TRUE] /\ undo' = FALSE

Keep == UNCHANGED <<op, data, had, old, undo, result>>

\* The except clauses: a failed import removes what it may have created, a
\* failed repair puts the files back once it may have written one of them,
\* and removes the directories it did not find.
Unwind ==
  CASE op = "enroll" /\ undo -> GoOn("unmark", "codex") /\ Keep
    [] op = "repair" /\ pc \in {"write", "mark"} -> GoOn("restore", "codex") /\ Keep
    [] op = "repair" /\ pc \notin {"write", "mark"} -> GoOn("cleanup", "codex") /\ Keep
    [] OTHER -> End("failed")

Fault == /\ faults < MaxFault
         /\ faults' = faults + 1 /\ hurt' = hurt + 1

\* A step of the try block: it takes effect, or it raises, before or after.
Attempt(effect, step, v) ==
  \/ /\ effect /\ GoOn(step, v) /\ Keep
     /\ UNCHANGED <<hurt, faults, paired>>
  \/ /\ effect \/ UNCHANGED stored
     /\ Fault /\ Unwind
     /\ UNCHANGED paired

\* A step of a rollback: an error is remembered and the next step is tried.
Try(effect, step, v) ==
  /\ \/ effect /\ UNCHANGED <<hurt, faults>>
     \/ (effect \/ UNCHANGED stored) /\ Fault
  /\ IF step = "idle" THEN End("failed") ELSE GoOn(step, v) /\ Keep
  /\ UNCHANGED paired

PutFile(v, g)  == file' = [file EXCEPT ![v] = g] /\ UNCHANGED <<tree, marker, pending, target>>
PutMarker(m)   == marker' = m /\ UNCHANGED <<tree, file, pending, target>>
MakeTree(v)    == tree' = [tree EXCEPT ![v] = TRUE] /\ UNCHANGED <<file, marker, pending, target>>
Silent         == UNCHANGED stored

-----------------------------------------------------------------------------
\* The calls.

\* auth init, auth init --repair, or a run that bootstraps; the flock on
\* the profile directory.
TakeProfile(o) ==
  /\ pc = "idle" /\ op' = o /\ GoOn("look", "codex")
  /\ before' = Now /\ hurt' = 0 /\ result' = "none"
  /\ UNCHANGED <<stored, standard, data, had, old, undo, paired, faults>>

\* An existing profile is judged as a pair and never written.
Enroll ==
  /\ pc = "look" /\ op = "enroll"
  /\ \/ /\ ~Untouched
        /\ End(IF Reusable THEN "reused" ELSE "refused")
     \/ /\ Untouched
        /\ undo' = TRUE /\ GoOn("source", "codex")
        /\ UNCHANGED <<op, data, had, old, result>>
  /\ UNCHANGED <<stored, standard, before, hurt, paired, faults>>

\* A repair that wants both account files where it finds a directory.
RepairWantsWhole ==
  /\ pc = "look" /\ op = "repair"
  /\ \/ (pending # "none" \/ \E v \in Vendor : tree[v] /\ file[v] = Absent) /\ End("refused")
     \/ /\ pending = "none" /\ \A v \in Vendor : tree[v] => file[v] # Absent
        /\ had' = tree /\ GoOn("source", "codex")
        /\ UNCHANGED <<op, data, old, undo, result>>
  /\ UNCHANGED <<stored, standard, before, hurt, paired, faults>>

\* Repair never competes with a run that crash recovery can still finish.
Repair ==
  /\ pc = "look" /\ op = "repair"
  /\ \/ pending # "none" /\ End("refused")
     \/ /\ pending = "none"
        /\ had' = tree /\ GoOn("source", "codex")
        /\ UNCHANGED <<op, data, old, undo, result>>
  /\ UNCHANGED <<stored, standard, before, hurt, paired, faults>>

\* A login taken as it is.
SourceUnvalidated(v) ==
  /\ pc = "source" /\ who = v
  /\ data' = [data EXCEPT ![v] = standard[v]]
  /\ IF v = "codex" THEN GoOn("source", "claude") ELSE GoOn("lock", "claude")
  /\ UNCHANGED <<stored, standard, op, had, old, undo, result, before, hurt, paired, faults>>

\* Both vendor logins are read and validated before anything is created.
Source(v) ==
  /\ pc = "source" /\ who = v
  /\ \/ /\ standard[v] # Absent
        /\ data' = [data EXCEPT ![v] = standard[v]]
        /\ IF v = "codex" THEN GoOn("source", "claude") ELSE GoOn("lock", "claude")
        /\ UNCHANGED <<op, had, old, undo, result>>
     \/ standard[v] = Absent /\ Unwind
  /\ UNCHANGED <<stored, standard, before, hurt, paired, faults>>

\* _lock_credential_account creates the account directory it locks.
Lock(v) ==
  /\ pc = "lock" /\ who = v
  /\ Attempt(MakeTree(v), IF v = "claude" THEN "lock" ELSE "check", "codex")
  /\ UNCHANGED <<standard, before>>

\* Under both account locks: no transaction, and an import meets no file.
Check ==
  /\ pc = "check"
  /\ IF pending # "none" \/ (op = "enroll" /\ file # NoPair)
       THEN Unwind
       ELSE /\ old' = [file |-> file, marker |-> marker]
            /\ GoOn("write", "codex")
            /\ UNCHANGED <<op, data, had, undo, result>>
  /\ UNCHANGED <<stored, standard, before, hurt, paired, faults>>

Write(v) ==
  /\ pc = "write" /\ who = v
  /\ Attempt(PutFile(v, data[v]), IF v = "codex" THEN "write" ELSE "mark", "claude")
  /\ UNCHANGED <<standard, before>>

\* The marker commits the pair.
WriteMarker ==
  /\ pc = "mark"
  /\ \/ PutMarker(data) /\ paired' = paired \cup {data} /\ End("imported")
        /\ UNCHANGED <<hurt, faults>>
     \/ /\ \/ PutMarker(data) /\ paired' = paired \cup {data}
           \/ Silent /\ UNCHANGED paired
        /\ Fault /\ Unwind
  /\ UNCHANGED <<standard, before>>

-----------------------------------------------------------------------------
\* Rollback.

\* Import: the marker goes before the two trees.
Unmark ==
  /\ pc = "unmark"
  /\ Try(PutMarker(NoPair), "sweep", "codex")
  /\ UNCHANGED <<standard, before>>

\* Repair: each file back to what it was, or away.
Restore(v) ==
  /\ pc = "restore" /\ who = v
  /\ Try(PutFile(v, old.file[v]), IF v = "codex" THEN "restore" ELSE "remark", "claude")
  /\ UNCHANGED <<standard, before>>

\* A rollback that puts back the files and not the marker.
RemarkSkipped ==
  /\ pc = "remark"
  /\ Try(Silent, "sweep", "codex")
  /\ UNCHANGED <<standard, before>>

Remark ==
  /\ pc = "remark"
  /\ Try(PutMarker(old.marker), "sweep", "codex")
  /\ UNCHANGED <<standard, before>>

Created(v) == tree[v] /\ (op = "enroll" \/ ~had[v])

\* The step after the removal of v's tree; a repair tries its trees again
\* on the way out.
AfterRemoval(v) ==
  IF v = "codex" THEN pc ELSE IF op = "repair" /\ pc = "sweep" THEN "cleanup" ELSE "idle"
NextTree(v) == IF v = "codex" THEN "claude" ELSE "codex"

\* _remove_relative_tree: rmtree empties the directory and removes it; an
\* error in either half leaves the rest.
Remove(v) ==
  /\ pc \in {"sweep", "cleanup"} /\ who = v
  /\ \/ /\ ~Created(v)
        /\ IF AfterRemoval(v) = "idle" THEN End("failed")
                                        ELSE GoOn(AfterRemoval(v), NextTree(v)) /\ Keep
        /\ UNCHANGED <<stored, hurt, faults, paired>>
     \/ /\ Created(v) /\ file[v] # Absent
        /\ PutFile(v, Absent) /\ GoOn(pc, v) /\ Keep
        /\ UNCHANGED <<hurt, faults, paired>>
     \/ /\ Created(v) /\ file[v] # Absent /\ faults < MaxFault
        /\ Silent /\ Fault
        /\ IF AfterRemoval(v) = "idle" THEN End("failed")
                                        ELSE GoOn(AfterRemoval(v), NextTree(v)) /\ Keep
        /\ UNCHANGED paired
     \/ /\ Created(v) /\ file[v] = Absent
        /\ Try(tree' = [tree EXCEPT ![v] = FALSE] /\ UNCHANGED <<file, marker, pending, target>>,
               AfterRemoval(v), NextTree(v))
  /\ UNCHANGED <<standard, before>>

\* The process dies; the kernel drops its locks.
CallCrashes ==
  /\ pc # "idle" /\ faults < MaxFault
  /\ faults' = faults + 1 /\ hurt' = hurt + 1
  /\ End("crashed")
  /\ UNCHANGED <<stored, standard, before, paired>>

-----------------------------------------------------------------------------
\* The operator's own vendor CLIs, and runs on the committed pair, which
\* CredentialPair models.

Login(v) ==
  /\ \E g \in Gen : g > standard[v] /\ standard' = [standard EXCEPT ![v] = g]
  /\ UNCHANGED <<stored, call, before, hurt, paired, faults>>

Logout(v) ==
  /\ standard[v] # Absent /\ faults < MaxFault
  /\ standard' = [standard EXCEPT ![v] = Absent] /\ faults' = faults + 1
  /\ UNCHANGED <<stored, call, before, hurt, paired>>

\* A run crashed on the committed pair: before its journal, or while it
\* replaces the pair by a later one.
RunCrashes ==
  /\ pc = "idle" /\ PairState = "ready" /\ faults < MaxFault
  /\ \/ pending' = "directories" /\ UNCHANGED <<file, marker, target, paired>>
     \/ \E new \in Pairs :
          /\ \A v \in Vendor : new[v] >= file[v]
          /\ new # file
          /\ pending' = "journal" /\ target' = new /\ paired' = paired \cup {new}
          /\ file' \in {[v \in Vendor |-> IF v \in W THEN new[v] ELSE file[v]] : W \in SUBSET Vendor}
          /\ marker' = IF file' = new THEN new ELSE marker
  /\ faults' = faults + 1
  /\ UNCHANGED <<tree, standard, call, before, hurt>>

RunRecovers ==
  /\ pc = "idle" /\ pending # "none"
  /\ pending' = "none" /\ target' = NoPair
  /\ IF pending = "journal" THEN file' = target /\ marker' = target
                            ELSE UNCHANGED <<file, marker>>
  /\ UNCHANGED <<tree, standard, call, before, hurt, paired, faults>>

ProfileInit ==
  /\ tree = [v \in Vendor |-> FALSE] /\ file = NoPair /\ marker = NoPair /\ pending = "none" /\ target = NoPair
  /\ standard \in Drafts
  /\ op = "none" /\ pc = "idle" /\ who = "codex" /\ data = NoPair
  /\ had = [v \in Vendor |-> TRUE] /\ old = [file |-> NoPair, marker |-> NoPair]
  /\ undo = FALSE /\ result = "none"
  /\ before = Now /\ hurt = 0 /\ paired = {} /\ faults = 0

Proceed == \/ Enroll \/ Repair \/ Check \/ WriteMarker \/ Unmark \/ Remark
           \/ \E v \in Vendor : Source(v) \/ Lock(v) \/ Write(v) \/ Restore(v) \/ Remove(v)

ProfileNext ==
  \/ \E o \in {"enroll", "repair"} : TakeProfile(o)
  \/ Proceed \/ CallCrashes
  \/ \E v \in Vendor : Login(v) \/ Logout(v)
  \/ RunCrashes \/ RunRecovers

ProfileSpec == ProfileInit /\ [][ProfileNext]_profileVars

\* A call that holds the lock goes on, the operator signs in where nobody
\* is signed in, and keeps running the repair that auth status names.
ProfileFairSpec ==
  /\ ProfileSpec /\ WF_profileVars(Proceed) /\ SF_profileVars(TakeProfile("repair"))
  /\ \A v \in Vendor : WF_profileVars(standard[v] = Absent /\ Login(v))

-----------------------------------------------------------------------------
\* "Ordinary failures roll back every target created by this call", and a
\* repair has "ordinary rollback": a call that ends without success after at
\* most one failed step leaves the store exactly as it took it, whichever
\* directories, files and marker were there.
FailureUndone ==
  [][pc # "idle" /\ pc' = "idle" /\ result' \notin {"imported", "crashed"} /\ hurt' <= 1
       => Now' = before]_profileVars

\* Whatever failed or crashed in the middle of an import or a repair, the
\* files that auth status calls ready are two halves of one pair: imported
\* together, or committed together by a run.
ReadyIsPaired == PairState = "ready" => file \in paired

\* An import never touches an account file it found, on the way out least of
\* all, and no call touches the files of a crashed run, which recovery needs.
ExistingKept ==
  op = "enroll" \/ (op = "repair" /\ before.pending # "none") =>
    /\ \A v \in Vendor : before.file[v] # Absent => file[v] = before.file[v]
    /\ before.marker # NoPair => marker = before.marker

\* What every call promises the owner of the two files, whatever fails.
PairsAreSafe == ReadyIsPaired /\ ExistingKept

\* auth status names auth init --repair when it reports repair_required: with
\* no crashed run in the way, repeating it gets to a usable pair from every
\* state that failed rollbacks and crashes leave.
RepairCompletes ==
  (PairState = "repair_required" /\ pending = "none") ~> (PairState = "ready")
=============================================================================
