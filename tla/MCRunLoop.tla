----------------------------- MODULE MCRunLoop -----------------------------
(* The author may report one of two threads and propose one of two trees.  *)
EXTENDS RunLoop, TLC
=============================================================================
