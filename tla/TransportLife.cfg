CONSTANTS
  Candidates = {k1, k2}
  None = None
  Frames = {m1}
  Waiters = {w1}
  StateCapacity = 1
  EventCapacity = 1
  MaxReceived = 1
SPECIFICATION FairTransportSpec
INVARIANTS
  TransportInv
  CandidatesKept
  CloseFlushed
PROPERTIES
  NegotiationCompletes
  TeardownEnds
  WaitForReturns
CHECK_DEADLOCK FALSE
