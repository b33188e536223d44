SPECIFICATION StaticSpec
CONSTANTS
  Names = {"a"}
  MaxPath = 6
  MaxHeadersSize = 2
  MaxRequestSize = 2
  ZoneOffset <- MCWestOfGMT
  Conns = {k1, k2}
  Requests <- MCDateRequests
  Root <- MCRoot
  Files <- MCFiles
  max_cache_size_ = 3
  MaxIov = 2
  MaxResources = 3
  MaxResponses = 2
  MaxChanges = 1
  None = None
INVARIANT DatesAreGMT
CHECK_DEADLOCK FALSE
