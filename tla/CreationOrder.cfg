\* Models of four objects and of six nodes with privileges.
SPECIFICATION Spec
CONSTANTS
  Models <- MCModels
  Names = {"t", "v", "f"}
  Schemas = {1, 2}
  Spellings = {"plain", "other"}
  SearchPaths <- MCPaths
CHECK_DEADLOCK FALSE
INVARIANTS ListIsExact CyclesAreNamed RefusedIffCyclic LeastOrder NamesMeanTheSame PrivilegesAsWritten
