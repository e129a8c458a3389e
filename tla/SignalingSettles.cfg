CONSTANTS
  h1 = h1
  h2 = h2
  c1 = c1
  c2 = c2
  c3 = c3
  None = None
  Hosts = {h1}
  Clients = {c1}
  Scanned <- ScanFirst
  InvalidInfo = {}
  MaxSessions = 2
  Handlers = {t1, t2}
  MaxActive = 4
  Preemptive = FALSE
  MaxInFlight = 1
  Events = {"lose", "fail", "expire", "close"}
SPECIFICATION DeadlineSpec
PROPERTIES
  StateMovesForward
  HandshakeSettles
CHECK_DEADLOCK FALSE
