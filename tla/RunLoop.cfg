CONSTANTS
  Tree = {t0, t1}
  Base = t0
  Thread = {th1, th2}
  None = none
  MaxRounds = 4
  Deadline = 0
  MaxGen = 1
  MaxFault = 2
SPECIFICATION Spec
INVARIANTS StallExact SuccessIsEarned ReportsAreTrue FinalizedClean
PROPERTY FirstFailureKept
