---------------------------- MODULE MCDefaultPair ----------------------------
\* Two logins of each vendor; three failed steps, crashes and sign-outs.
EXTENDS DefaultPair
=============================================================================
