\* What a forwarder holds after the third update of one service.
CONSTANTS
  Name = {n1}
  Service <- MCOneAddress
  Port = {p1, p2, p3}
  None = None
  Skip = Skip
  MaxFailures = 0
  MaxCrashes = 0
  MaxStarts = 2
SPECIFICATION Spec
INVARIANTS
  SameInstances
SYMMETRY Symmetric
CHECK_DEADLOCK FALSE
