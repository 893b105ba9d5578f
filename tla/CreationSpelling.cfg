\* A grant and a REVOKE that spell their object differently.
SPECIFICATION Spec
CONSTANTS
  Models <- MCSpeltTwice
  Names = {"v"}
  Schemas = {1, 2}
  Spellings = {"plain", "other"}
  SearchPaths <- MCPaths
CHECK_DEADLOCK FALSE
INVARIANTS GrantsStay
