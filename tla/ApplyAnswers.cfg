SPECIFICATION FairSpec
CONSTANTS
  c1 = c1
  c2 = c2
  p1 = p1
  p2 = p2
  A = A
  B = B
  t1 = t1
  t2 = t2
  None = None
  Calls <- MCCalls
  Planners <- OnePlanner
  Tables <- OneTable
  Versions <- MCVersions
  Hashes <- MCHashes
  Desired <- MCDesired
  Promotions <- MCPromotions
  Copies <- AnyCopy
  Past = Past
  Start <- FromApplied
  MaxAttempts = 2
  MaxForeignDdl = 0
CHECK_DEADLOCK FALSE
PROPERTIES EveryCallAnswers
