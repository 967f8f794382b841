CONSTANTS
  MaxChange = 2
  MaxClock = 1
  Validity = 1
  MaxGen = 2
SPECIFICATION Spec
INVARIANTS SnapshotIsOneState StartsQualified InputsScreened
