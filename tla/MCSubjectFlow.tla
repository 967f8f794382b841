--------------------------- MODULE MCSubjectFlow ---------------------------
(***************************************************************************)
(* Six paths in byte order: a protected harness, a build output, an opaque *)
(* file, a path that would be inside that file, a second opaque file and a *)
(* source file; two contents.                                              *)
(***************************************************************************)
EXTENDS SubjectFlow, TLC

CONSTANTS a, b

MCPath == 1 .. 6
MCInside == {<<3, 4>>}
MCMatches == <<{"protected", "discard"}, {"discard"}, {"opaque"}, {}, {"opaque"}, {"protected", "opt-in"}>>

T(f) == [p \in MCPath |-> IF f[p] = 0 THEN NoEntry ELSE IF f[p] = 1 THEN a ELSE b]

MCCommitted ==
  {T(<<1, 0, 0, 0, 0, 1>>), T(<<1, 1, 1, 0, 0, 1>>), T(<<1, 1, 1, 0, 2, 0>>)}
MCSecret == {}
MCSensitive == {4}
MCContext == {6}
MCSymmetry == Permutations(Behaviour)
=============================================================================
