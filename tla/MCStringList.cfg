SPECIFICATION Spec
CONSTANTS
  PlainNames <- MCPlainNames
  HiddenNames <- MCHiddenNames
  Rank <- MCRank
  NULL = NULL
  MaxCount = 4
INVARIANTS
  SortedFlagHonest
PROPERTIES
  ImplementsBag
