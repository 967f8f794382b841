-------------------------- MODULE MCCredentialPair --------------------------
\* Model-checking instance of CredentialPair: run identifiers are model
\* values and interchangeable.
EXTENDS CredentialPair, TLC

RunSymmetry == Permutations(Run)
=============================================================================
