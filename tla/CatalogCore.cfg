\* Two transactions over one catalog.
SPECIFICATION Spec
CONSTANTS
  a = a
  b = b
  c = c
  Rows = {a, b, c}
  Lines = {"l"}
  Txns = {t1, t2}
  Requests <- MCRequests
  Contracts <- MCContracts
  Tables <- MCTables
  Predefined = {b}
  None = None
  Keep = Keep
CHECK_DEADLOCK FALSE
INVARIANTS HierarchyIsForest CommandsDoNotDeadlock
PROPERTIES NoLostUpdate SavedAsAsked LinesKeepOwner EveryTransactionEnds
