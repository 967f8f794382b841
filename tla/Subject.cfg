CONSTANTS
  a = a
  b = b
  Path <- MCPath
  Inside <- MCInside
  Entry = {a, b}
  NoEntry = NoEntry
  NoPath = NoPath
  Matches <- MCMatches
  MaxFiles = 4
  Committed <- MCCommitted
  Sensitive <- MCSensitive
  SecretEntry <- MCSecret
  Context <- MCContext
  Behaviour = {same, other}
  NoTree = NoTree
  Foreign = Foreign
  MaxRound = 2
  MaxEdit = 2
  MaxFault = 1
SPECIFICATION Spec
INVARIANTS DeltaExact ReviewComplete HistoryWhole SuccessOnDisk
SYMMETRY MCSymmetry
CHECK_DEADLOCK FALSE
