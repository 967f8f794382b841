------------------------------ MODULE AgentTurn ------------------------------
(***************************************************************************)
(* What an author's turn and a review have in common: the adapter's step,  *)
(* the login that the vendor's CLI may refresh meanwhile, and what comes   *)
(* out of it (runtime_adapters.py).                                        *)
(***************************************************************************)
VARIABLES
  pc,        \* the step of turn or review
  gen,       \* the latest generation of the credential
  settled,   \* the latest that was reconciled
  known,     \* the latest in the secret ledger
  retained,  \* the attempt of this turn is on disk
  outcome    \* why it failed, or that a review was returned

credential == <<gen, settled, known>>
=============================================================================
