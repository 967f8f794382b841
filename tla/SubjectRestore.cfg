CONSTANTS
  a = a
  b = b
  Path <- MCPath
  Inside <- MCInside
  Entry = {a, b}
  NoEntry = NoEntry
  NoPath = NoPath
  Matches <- MCMatches
  MaxFiles = 4
  Committed <- MCCommitted
  Sensitive <- MCSensitive
  SecretEntry <- MCSecret
  Context <- MCContext
  Behaviour = {same, other}
  NoTree = NoTree
  Foreign = Foreign
  MaxRound = 2
  MaxEdit = 2
  MaxFault = 0
SPECIFICATION Spec
INVARIANT OpaqueDeltaTested
SYMMETRY MCSymmetry
CHECK_DEADLOCK FALSE
