\* One service, of which one rule cannot be deleted.
CONSTANTS
  Name = {n1}
  Service <- MCService
  Port = {p1, p2, p3}
  None = None
  Skip = Skip
  MaxFailures = 1
  MaxCrashes = 0
  MaxStarts = 2
SPECIFICATION Spec
INVARIANTS
  NoWindow
SYMMETRY Symmetric
CHECK_DEADLOCK FALSE
