CONSTANTS
  MaxPid = 4
  Tree = {t0, t1}
  None = none
  Checks = 2
  OutMax = 2
  RawMax = 1
  Pipe = 1
  MaxFault = 1
SPECIFICATION FairSpec
INVARIANTS ExportIsFinal RecordsAreTrue
PROPERTY SandboxEnds
