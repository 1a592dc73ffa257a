\* One service, two hosts, one of them collecting, and restarts.
CONSTANTS
  Name = {n1}
  Detail = {d1}
  Host = {h1, h2}
  HostDirs = {hosts}
  Collector = {h2}
  None = None
  MaxRuns = 2
  MaxIndex = 2
  MaxLapses = 0
  MaxErrors = 1
SPECIFICATION StoreSpec
INVARIANTS
  TypeOK
  GCInv
PROPERTIES
  GCSafe
  DeadCollected
CHECK_DEADLOCK FALSE
