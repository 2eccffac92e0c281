SPECIFICATION MCSpec
CONSTANTS
  Ids <- ThreeIds
  States <- TwoStates
  Filters <- SomeFilters
  Limit = 1
  MaxErrs = 1
  Accounts = {1, 2}
  SnFilters <- SomeSnFilters
  SnLimit = 1
  Versions = {"v1"}
  MaxFailed = 1
  SnMaxErrs = 1
INVARIANTS TypeOK SnTypeOK
PROPERTIES ImplementsListing ListingEnds SnImplementsListing SnListingEnds
