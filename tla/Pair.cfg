SPECIFICATION FairSpec
CONSTANTS
  r1 = r1
  r2 = r2
  Run = {r1, r2}
  NoRun = NoRun
  MaxGen = 2
  MaxIssue = 3
  MaxFault = 2
INVARIANTS
  NeverHalfUpdated
  CrashRecoverable
  RefreshKept
PROPERTIES
  IsPairStore
  TransitionResolved
