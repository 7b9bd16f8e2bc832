SPECIFICATION FairSpec
CONSTANTS
  PlainNames <- MCPlainNames
  HiddenNames <- MCHiddenNames
  Rank <- MCRank
  NULL = NULL
  BaseFlags <- MCBaseFlags
  Table <- MCTable
  Requests <- MCRequests
  Disks <- MCDisks
  max_count = 10
  MaxHandles = 1
  MaxChanges = 1
INVARIANTS
  TypeOK
  ReadOnlyHolds
  FiltersHold
  CheckedIsOpened
  NoHandleLeak
  CwdFitsBuffer
PROPERTIES
  ImplementsCursor
  ErrorsChangeNothing
  CallReturns
CHECK_DEADLOCK FALSE
