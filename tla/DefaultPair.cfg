CONSTANTS
  MaxGen = 1
  MaxFault = 3
SPECIFICATION ProfileFairSpec
INVARIANTS ProfileTypeOK PairsAreSafe
PROPERTIES FailureUndone RepairCompletes
