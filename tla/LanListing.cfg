CONSTANTS
  k1 = k1
  k2 = k2
  k3 = k3
  Keys = {k1, k2, k3}
  d1 = d1
  d2 = d2
  Data = {d1, d2}
  Ads = {1, 2}
  MaxSettings = 2
  MaxOpen = 1
  MaxChanges = 3
  MaxSearches = 2
  MaxInFlight = 1
  MaxResults = 2
  None = None
SPECIFICATION Spec
SYMMETRY ListingSymmetry
INVARIANTS ListingTypeOK ResultsTrue ResultsOfThisSearch NothingPrivate
CHECK_DEADLOCK FALSE
