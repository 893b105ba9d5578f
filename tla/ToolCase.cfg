\* A file system that ignores case, and a call of any tool but promote behind another.
SPECIFICATION FairSpec
CONSTANTS
  Calls = {c1, c2}
  Tools <- CaseTools
  Options <- PermitOptions
  Paths <- TwoCases
  FileOf <- IgnoreCase
  Initial = Initial
  None = None
CHECK_DEADLOCK FALSE
INVARIANTS DirectoryIsLastResult EffectsArePermitted
PROPERTIES EveryCallIsAnswered
