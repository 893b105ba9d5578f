\* Two commands with retries share one connection; hooks leave no code behind.
SPECIFICATION Spec
CONSTANTS
  Commands = {c1, c2}
  Conns = {k1}
  None = None
  Ops = 1
  MaxTasks = 1
  MaxDepth = 1
  BatchMax = 1
  MaxAttempts = 2
  MaxAfter = 1
  MaxStrays = 0
  Defer = TRUE
CHECK_DEADLOCK FALSE
INVARIANTS AnswerTruth AtMostOnce
PROPERTIES RefinesCommandContract
SYMMETRY Symmetry
