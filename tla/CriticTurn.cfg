CONSTANTS
  Model = {big, small}
  Effort = {high}
  Unset = Unset
  MaxRequest = 2
  MaxLogin = 3
SPECIFICATION ReviewSpec
INVARIANTS ReviewTypeOK NothingLeaks ReviewIsEarned
