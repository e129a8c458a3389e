CONSTANTS
  h1 = h1
  h2 = h2
  c1 = c1
  c2 = c2
  c3 = c3
  None = None
  Hosts = {h1}
  Clients = {c1}
  Scanned <- ScanFirst
  InvalidInfo = {}
  MaxSessions = 2
  Handlers = {t1}
  MaxActive = 4
  Preemptive = FALSE
  MaxInFlight = 3
  Events = {"close"}
SPECIFICATION Spec
SYMMETRY Symmetry
INVARIANTS
  CloseCancelsResends
CHECK_DEADLOCK FALSE
