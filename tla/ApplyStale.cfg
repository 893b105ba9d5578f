SPECIFICATION Spec
CONSTANTS
  c1 = c1
  c2 = c2
  p1 = p1
  p2 = p2
  A = A
  B = B
  t1 = t1
  t2 = t2
  None = None
  Calls <- MCCalls
  Planners <- MCPlanners
  Tables <- OneTable
  Versions <- MCVersions
  Hashes <- MCHashes
  Desired <- MCDesired
  Promotions <- MCPromotions
  Copies <- AnyCopy
  Past = Past
  Start <- FromEither
  MaxAttempts = 1
  MaxForeignDdl = 2
SYMMETRY MCSymmetry
CHECK_DEADLOCK FALSE
INVARIANTS RunnerInv
PROPERTIES HistoryAsPlanned PromotionRehearsedOnRows
