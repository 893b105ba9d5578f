\* One command of two operations, with a retry: nested and concurrent phases and reads.
SPECIFICATION FairSpec
CONSTANTS
  Commands = {c1}
  Conns = {k1}
  None = None
  Ops = 2
  MaxTasks = 4
  MaxDepth = 2
  BatchMax = 2
  MaxAttempts = 2
  MaxAfter = 0
  MaxStrays = 1
  Defer = FALSE
CHECK_DEADLOCK FALSE
INVARIANTS CommitIsWhole QuietAfterRelease
PROPERTIES CoreInOwnContext EveryCommandAnswers
