SPECIFICATION Spec
CONSTANTS
  PlainNames <- MCPlainNames
  HiddenNames <- MCHiddenNames
  Rank <- MCRank
  NULL = NULL
  BaseFlags <- MCBaseFlags
  Requests <- MCRequests
  LookupPaths <- MCLookupPaths
  MaxInodes = 5
  MaxAllocFailures = 1
INVARIANTS
  TypeOK
  UniqueVirtualPaths
  ListingsAreTheTree
  GrantedIsHonoured
  LookupIsNearestAncestor
  MappedPathIsBelowTarget
PROPERTIES
  SortingKeepsLookups
  CreatingIsLocal
CHECK_DEADLOCK FALSE
