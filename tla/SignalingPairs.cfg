CONSTANTS
  h1 = h1
  h2 = h2
  c1 = c1
  c2 = c2
  c3 = c3
  None = None
  Hosts = {h1, h2}
  Clients = {c1, c2, c3}
  Scanned <- ScanFirst
  InvalidInfo = {c3}
  MaxSessions = 3
  Handlers = {t1, t2}
  MaxActive = 2
  Preemptive = TRUE
  MaxInFlight = 0
  Events = {"send"}
SPECIFICATION Spec
SYMMETRY Symmetry
INVARIANTS
  Inv
  KeysAgree
  OneClientLinks
  HostCompletesLast
  DataFromLinkedPeer
PROPERTIES
  RefinesPairing
CHECK_DEADLOCK FALSE
