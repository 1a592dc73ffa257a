\* A balancer that is started and stopped, and no command of it fails.
CONSTANTS
  Name = {n1}
  Service <- MCService
  Port = {p1, p2, p3}
  None = None
  Skip = Skip
  MaxFailures = 0
  MaxCrashes = 0
  MaxStarts = 2
SPECIFICATION Spec
INVARIANTS
  CleanedUp
SYMMETRY Symmetric
CHECK_DEADLOCK FALSE
