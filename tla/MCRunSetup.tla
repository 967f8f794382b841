----------------------------- MODULE MCRunSetup -----------------------------
\* Two changes of the repository or the system; a receipt outlives one tick.
EXTENDS RunSetup
=============================================================================
