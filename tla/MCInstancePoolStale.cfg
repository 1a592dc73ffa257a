\* What becomes of an instance that failed a connection.
CONSTANTS
  Name = {a, b}
  MaxObj = 6
  Conn = {g1, g2}
  None = None
  MaxAttempts = 2
  MaxBackoff = 1
  MaxLag = 1
  MaxUpdates = 2
SPECIFICATION Spec
PROPERTIES
  Withdrawn
CHECK_DEADLOCK FALSE
