----------------------------- MODULE Manifests -----------------------------
(***************************************************************************)
(* Subject manifests, their exact difference, and the path policy that     *)
(* decides what a difference means (manifests.py, models.py, validation.py *)
(* and two helpers of runner.py).  A manifest is a function from paths to  *)
(* entries; an entry is known by everything but its path (kind, mode and   *)
(* content), which is what makes a removal and an addition a rename.       *)
(*                                                                         *)
(* Paths are numbered in byte order.  Which patterns a path matches is     *)
(* fixed before the author runs; glob matching itself is not modelled.     *)
(***************************************************************************)
EXTENDS Naturals, FiniteSets

CONSTANTS Path,      \* paths, as their ranks in byte order
          Inside,    \* pairs <<p, q>>: q would be below p, were p a directory
          Entry,     \* what an entry can be: kind, mode and content
          NoEntry,   \* nothing at a path
          NoPath,    \* the missing side of a creation or a deletion
          Matches,   \* the declarations each path matches
          MaxFiles   \* Limits.max_files

Declaration == {"git", "protected", "opt-in", "discard", "opaque"}

ASSUME PathAssumption == Path \subseteq Nat /\ IsFiniteSet(Path) /\ NoPath \notin Path
ASSUME InsideAssumption == Inside \subseteq Path \X Path
ASSUME EntryAssumption == NoEntry \notin Entry
ASSUME MatchesAssumption == Matches \in [Path -> SUBSET Declaration]
ASSUME LimitAssumption == MaxFiles \in Nat

Tree == [Path -> Entry \cup {NoEntry}]
Entries(t) == {p \in Path : t[p] # NoEntry}

\* SubjectManifest.build: no file or symlink contains another entry, and the
\* limits hold.
Builds(t) ==
  /\ \A c \in Inside : ~(c[1] \in Entries(t) /\ c[2] \in Entries(t))
  /\ Cardinality(Entries(t)) <= MaxFiles

------------------------------------------------------------------------------
\* PathPolicy.classify: protection first, a Git control path whatever the
\* opt-ins say.
Disposition(p) ==
  CASE "git" \in Matches[p] \/ ("protected" \in Matches[p] /\ "opt-in" \notin Matches[p])
         -> "protected"
    [] OTHER -> IF "discard" \in Matches[p] THEN "discard-only"
                ELSE IF "opaque" \in Matches[p] THEN "opaque" ELSE "semantic"

PathsOf(kind) == {p \in Path : Disposition(p) = kind}

------------------------------------------------------------------------------
\* diff_manifests

Change(old, new) == [old |-> old, new |-> new]
Paths(c) == {c.old, c.new} \ {NoPath}

Removed(a, b) == Entries(a) \ Entries(b)
Modified(a, b) == {p \in Entries(a) \cap Entries(b) : a[p] # b[p]}

\* How many paths of S come before p and hold the same entry of t.
Rank(p, S, t) == Cardinality({q \in S : q < p /\ t[q] = t[p]})

\* Mutant: the path an entry moved to stays on offer.
RenamedUnpopped(a, b) ==
  {r \in Removed(a, b) \X Removed(b, a) :
     a[r[1]] = b[r[2]] /\ Rank(r[2], Removed(b, a), b) = 0}

\* The removed entries, in path order, each take the first added path left that
\* holds the same entry.
Renamed(a, b) ==
  {r \in Removed(a, b) \X Removed(b, a) :
     /\ a[r[1]] = b[r[2]]
     /\ Rank(r[1], Removed(a, b), a) = Rank(r[2], Removed(b, a), b)}

Diff(a, b) ==
  LET renamed == Renamed(a, b)
  IN {Change(p, p) : p \in Modified(a, b)}
     \cup {Change(r[1], r[2]) : r \in renamed}
     \cup {Change(p, NoPath) : p \in {q \in Removed(a, b) : \A r \in renamed : r[1] # q}}
     \cup {Change(NoPath, p) : p \in {q \in Removed(b, a) : \A r \in renamed : r[2] # q}}

\* Mutant: one opaque side makes a change opaque.
ClassifyChangeByEither(c) ==
  LET kinds == {Disposition(p) : p \in Paths(c)}
  IN CASE "protected" \in kinds     -> "protected"
       [] kinds = {"discard-only"}  -> "discard-only"
       [] "opaque" \in kinds        -> "opaque"
       [] OTHER                     -> "semantic"

\* PathPolicy.classify_change: a change is discard-only or opaque only if every
\* path it touches is.
ClassifyChange(c) ==
  LET kinds == {Disposition(p) : p \in Paths(c)}
  IN CASE "protected" \in kinds     -> "protected"
       [] kinds = {"discard-only"}  -> "discard-only"
       [] kinds = {"opaque"}        -> "opaque"
       [] OTHER                     -> "semantic"

------------------------------------------------------------------------------
\* reconcile_candidate

Touched(changes) == UNION {Paths(c) : c \in changes}

Protects(base, candidate) ==
  \A p \in Touched(Diff(base, candidate)) : Disposition(p) # "protected"

Authoritative(candidate) ==
  [p \in Path |-> IF Disposition(p) = "discard-only" THEN NoEntry ELSE candidate[p]]

SemanticChanges(base, subject) ==
  {c \in Diff(base, subject) : ClassifyChange(c) = "semantic"}

OpaqueChanges(base, subject) ==
  {c \in Diff(base, subject) : ClassifyChange(c) = "opaque"}

------------------------------------------------------------------------------
\* verify_validation_mutation: the checks may leave only declared output behind.
OnlyDiscarded(subject, result) ==
  \A c \in Diff(subject, result) : \A p \in Paths(c) : Disposition(p) = "discard-only"

\* The two subjects that opaque entries are tested against.
WithoutOpaque(t) ==
  [p \in Path |-> IF Disposition(p) = "opaque" THEN NoEntry ELSE t[p]]

RestoreOpaque(base, subject, changes) ==
  [p \in Path |-> IF p \in Touched(changes) THEN base[p] ELSE subject[p]]
=============================================================================
