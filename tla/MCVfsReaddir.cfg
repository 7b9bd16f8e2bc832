SPECIFICATION Spec
CONSTANTS
  PlainNames <- MCPlainNames
  HiddenNames <- MCHiddenNames
  Rank <- MCRank
  NULL = NULL
  Handles = {h1, h2}
  Listings <- ReversedListings
  RealNames <- MCRealNames
  MaxChanges = 1
  MaxErrors = 0
INVARIANTS
  ListingWalkedOnce
  OverriddenNeverListed
SYMMETRY HandleSymmetry
