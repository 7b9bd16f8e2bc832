SPECIFICATION Spec
CONSTANTS
  PlainNames <- MCPlainNames
  HiddenNames <- MCHiddenNames
  Rank <- MCRank
  NULL = NULL
  BaseFlags <- MCBaseFlags
  Table <- MCTable
  Requests <- MCRequests
  Disks <- FewDisks
  max_count = 10
  MaxHandles = 1
  MaxChanges = 1
INVARIANTS
  FailedStatOnlyWrites
CHECK_DEADLOCK FALSE
