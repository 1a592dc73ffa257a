\* Two services, one host, and a watch that asks for everything.
CONSTANTS
  Name = {n1, n2}
  Detail = {d1, d2}
  Host = {h1}
  HostDirs = {}
  Collector = {h1}
  None = None
  MaxRuns = 1
  MaxIndex = 2
  MaxLapses = 0
  MaxErrors = 1
  With = {"rules", "instances"}
SPECIFICATION Spec
INVARIANTS
  WatchTypeOK
  ViewCurrent
PROPERTIES
  WatchRecovers
CHECK_DEADLOCK FALSE
