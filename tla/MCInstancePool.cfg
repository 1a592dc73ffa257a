\* Two instances, two connecting goroutines, two updates, and the retry timer.
CONSTANTS
  Name = {a, b}
  MaxObj = 4
  Conn = {g1, g2}
  None = None
  MaxAttempts = 1
  MaxBackoff = 1
  MaxLag = 1
  MaxUpdates = 2
SPECIFICATION Spec
INVARIANTS
  TypeOK
  NeverDry
PROPERTIES
  UpdateHeals
  RetryHappens
CHECK_DEADLOCK FALSE
