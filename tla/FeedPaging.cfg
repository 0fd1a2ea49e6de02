SPECIFICATION FairPagingSpec
CONSTANTS
  Rows <- MCRows
  Limits <- MCLimits
  DefaultPageSize = 2
  MaxPageSize = 3
  MaxFollowingFeedIDs = 1
INVARIANTS
  PagingTypeOK
  InOrder
  NothingSkipped
PROPERTIES
  PagingEnds
