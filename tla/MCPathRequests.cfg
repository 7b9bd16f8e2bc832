SPECIFICATION TypingSpec
CONSTANTS
  PlainNames <- MCPlainNames
  HiddenNames <- MCHiddenNames
  Rank <- MCRank
  NULL = NULL
  MaxPathLen = 6
  MaxDepth = 2
INVARIANTS
  SanitizeIsWalk
  CwdLosesNothing
  SplitVisitsAncestors
  HiddenIsAComponent
