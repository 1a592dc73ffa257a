\* What a stopped watch leaves behind.
CONSTANTS
  Source = {services}
  Watch = {services}
SPECIFICATION Spec
INVARIANTS
  StopsWhole
CHECK_DEADLOCK FALSE
