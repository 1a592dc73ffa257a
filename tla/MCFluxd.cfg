\* All of fluxd's goroutines, at the level of what they wait for.
CONSTANTS
  Source = {containers}
  Watch = {}
SPECIFICATION Spec
INVARIANTS
  TypeOK
  NoResetLost
PROPERTIES
  StopEnds
  ResetHappens
CHECK_DEADLOCK FALSE
