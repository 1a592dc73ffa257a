\* A collection while the daemon is starting.
CONSTANTS
  Name = {n1}
  Detail = {}
  Host = {h1, h2}
  HostDirs = {hosts}
  Collector = {h2}
  None = None
  MaxRuns = 2
  MaxIndex = 2
  MaxLapses = 1
  MaxErrors = 0
SPECIFICATION StoreSpec
PROPERTIES
  KeptWhileRunning
CHECK_DEADLOCK FALSE
