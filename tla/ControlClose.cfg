CONSTANTS
  Ops = {o1, o2}
  Requests = {r1, r2}
  Closers = {k1, k2, k3}
  r1 = r1
  k1 = k1
  Within <- OnceInHandler
  None = None
  MaxActiveHandlers = 1
SPECIFICATION FairSpec
INVARIANTS
  Inv
  PermitsCounted
  UncancelledCloseWaits
PROPERTIES
  NothingStartsAfterClose
  CloseFinishes
CHECK_DEADLOCK FALSE
