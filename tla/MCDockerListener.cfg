\* Two containers, either or both there already, and two starts.
CONSTANTS
  Id = {c1, c2}
  None = None
  Untouched = Untouched
  MaxStarts = 2
  MaxFaults = 1
SPECIFICATION Spec
INVARIANTS
  TypeOK
  CaughtUp
PROPERTIES
  BothOrNeither
  Settles
CHECK_DEADLOCK FALSE
