CONSTANTS
  Waiters = {w1}
  None = None
  Runtimes <- AnyRuntime
  MaxRaces = 1
  MaxUnread = 1
SPECIFICATION FairSpec
INVARIANTS
  Inv
  CloseIsFinal
  LinkIsReal
  CleanGoodbye
PROPERTIES
  LinkWaitReturns
  FailureReported
  DeadEndReported
CHECK_DEADLOCK FALSE
