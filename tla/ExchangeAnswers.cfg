CONSTANTS
  Requests = {q1, q2}
  None = None
  AckTimeout = 1
  ResponseTimeout = 2
  Capacity = 2
  MaxActiveHandlers = 2
  Prompt = TRUE
  MaxWire = 1
SPECIFICATION Spec
SYMMETRY RequestSymmetry
INVARIANTS
  Inv
  AnswersMatch
  BoundedWait
  AnswerInTimeKept
CHECK_DEADLOCK FALSE
