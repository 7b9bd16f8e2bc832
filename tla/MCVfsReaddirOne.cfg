SPECIFICATION FairSpec
CONSTANTS
  PlainNames <- MCPlainNames
  HiddenNames <- MCHiddenNames
  Rank <- MCRank
  NULL = NULL
  Handles = {h1}
  Listings <- MCListings
  RealNames <- MCRealNames
  MaxChanges = 1
  MaxErrors = 1
INVARIANTS
  OverridingIsListed
  DiskListedOnce
PROPERTIES
  ListingFinishes
