\* One service, two containers, with and without an address.
CONSTANTS
  Name = {n1}
  Id = {c1, c2}
  Info <- MCInfo
  Body <- MCBody
  HostIP = HostIP
  AnyIP = AnyIP
  BadPort = BadPort
  Network = "local"
  None = None
  Untouched = Untouched
SPECIFICATION ServerSpec
INVARIANTS
  ServerTypeOK
  BothInSync
  ForwardersMatch
SYMMETRY Symmetric
CHECK_DEADLOCK FALSE
