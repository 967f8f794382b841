--------------------------- MODULE MCAuthorThread ---------------------------
(***************************************************************************)
(* Two turns of one thread, and another thread the CLI may fork to; the    *)
(* requested selection and another one.                                    *)
(***************************************************************************)
EXTENDS AuthorThread, TLC

MCSymmetry == Permutations(Thread) \cup Permutations(Turn)
=============================================================================
