\* Code left behind closes the queue while COMMIT is on its way.
SPECIFICATION Spec
CONSTANTS
  Commands = {c1}
  Conns = {k1}
  None = None
  Ops = 1
  MaxTasks = 1
  MaxDepth = 1
  BatchMax = 1
  MaxAttempts = 1
  MaxAfter = 0
  MaxStrays = 1
  Defer = FALSE
CHECK_DEADLOCK FALSE
INVARIANTS AnswerTruth
