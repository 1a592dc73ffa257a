\* Two services, one failing command and one crash.
CONSTANTS
  Name = {n1, n2}
  Service <- MCService
  Port = {p1, p2, p3}
  None = None
  Skip = Skip
  MaxFailures = 1
  MaxCrashes = 1
  MaxStarts = 2
SPECIFICATION Spec
INVARIANTS
  TypeOK
  NoGap
  AsWanted
  NoLeftovers
  HookedOnce
  StopClears
PROPERTIES
  StartSucceeds
CHECK_DEADLOCK FALSE
