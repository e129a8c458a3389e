CONSTANTS
  Ops = {o1}
  Requests = {r1}
  Closers = {k1, k2}
  r1 = r1
  k1 = k1
  Within <- Outside
  None = None
  MaxActiveHandlers = 1
SPECIFICATION Spec
SYMMETRY ControlSymmetry
INVARIANTS
  CloseWaitsForTasks
CHECK_DEADLOCK FALSE
