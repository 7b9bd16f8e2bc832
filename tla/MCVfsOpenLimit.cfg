SPECIFICATION Spec
CONSTANTS
  PlainNames <- MCPlainNames
  HiddenNames <- MCHiddenNames
  Rank <- MCRank
  NULL = NULL
  BaseFlags <- MCBaseFlags
  Table <- MCTable
  Requests <- MCRequests
  Disks <- FewDisks
  max_count = 1
  MaxHandles = 2
  MaxChanges = 0
INVARIANTS
  HandlesWithinLimit
CHECK_DEADLOCK FALSE
