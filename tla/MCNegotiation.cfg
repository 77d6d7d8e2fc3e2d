CONSTANTS
  None = None
  NoDefault = None
  Ids <- MCIds
  Inputs <- MCInputs
  Defaults <- MCDefaults
  Likely <- MCLikely
  OwnRegion <- MCOwnRegion
SPECIFICATION Spec
INVARIANTS TypeOK NoLocaleTwice NothingLost FilteringIsRanked MatchingIsGreedy LookupIsFirst
CHECK_DEADLOCK FALSE
