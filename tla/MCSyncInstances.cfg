\* The agent's reconciliation on two services' worth of keys.
CONSTANTS
  Name = {n1, n2}
  Id = {c1, c2}
  Info <- MCInfo
  Body <- MCBody
  HostIP = HostIP
  AnyIP = AnyIP
  BadPort = BadPort
  Network = "local"
  None = None
  Untouched = Untouched
SPECIFICATION Spec
INVARIANTS
  TypeOK
  InSync
  IndexOK
  SyncInv
PROPERTY KeepsPromise
SYMMETRY Symmetric
CHECK_DEADLOCK TRUE
