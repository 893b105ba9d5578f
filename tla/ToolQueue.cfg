\* Three calls on one directory.
SPECIFICATION Spec
CONSTANTS
  Calls = {c1, c2, c3}
  Tools <- QueueTools
  Options <- PlainOptions
  Paths <- TwoPaths
  FileOf <- TwoFiles
  Initial = Initial
  None = None
CHECK_DEADLOCK FALSE
INVARIANTS DirectoryIsLastResult ReadsWholeTree RecordBeforeChanges
SYMMETRY Symmetry
