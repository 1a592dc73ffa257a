\* Two services, of which one is in the store; a watch that fails once.
CONSTANTS
  n1 = n1
  n2 = n2
  v1 = v1
  v2 = v2
  Name = {n1, n2}
  Value = {v1, v2}
  None = None
  Untouched = Untouched
  MaxChanges = 2
  MaxFails = 1
  MaxLate = 1
SPECIFICATION MCSpec
INVARIANTS
  TypeOK
  SendsAtOnce
  NoLitter
  FileCurrent
PROPERTIES
  FileSettles
  StopEnds
CHECK_DEADLOCK FALSE
