SPECIFICATION Spec
CONSTANTS
  c1 = c1
  c2 = c2
  p1 = p1
  p2 = p2
  A = A
  B = B
  t1 = t1
  t2 = t2
  None = None
  Calls <- MCCalls
  Planners <- MCPlanners
  Tables <- MCTables
  Versions <- ThreeVersions
  Hashes <- MCHashes
  Desired <- MCDesired
  Promotions <- NoPromotion
  Copies <- NoCopy
  Past = Past
  Start <- FromApplied
  MaxAttempts = 1
  MaxForeignDdl = 1
SYMMETRY MCSymmetry
CHECK_DEADLOCK FALSE
INVARIANTS TypeOK ChainUnbroken OutcomeTruth DriftIsRecorded
PROPERTIES RefinesApplyLedger NoLostForeignDdl
