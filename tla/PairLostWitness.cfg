SPECIFICATION Spec
CONSTANTS
  r1 = r1
  r2 = r2
  Run = {r1, r2}
  NoRun = NoRun
  MaxGen = 2
  MaxIssue = 3
  MaxFault = 1
SYMMETRY RunSymmetry
INVARIANTS
  PendingTransitionRecovers
