CONSTANTS
  Requests = {q1, q2, q3}
  Pollers = {p1, p2}
  Replies = {r1, r2}
  Json = {r1}
  None = None
SPECIFICATION FairSpec
INVARIANTS
  Inv
  NoLeak
  AnswerKept
  NoRequestLost
PROPERTIES
  StopReleases
CHECK_DEADLOCK FALSE
