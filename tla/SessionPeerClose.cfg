CONSTANTS
  Waiters = {w1}
  None = None
  Runtimes <- CurrentThread
  MaxRaces = 1
  MaxUnread = 1
SPECIFICATION FairSpec
PROPERTIES
  PeerCloseEnds
CHECK_DEADLOCK FALSE
