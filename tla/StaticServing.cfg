SPECIFICATION StaticSpec
CONSTANTS
  Names = {"a"}
  MaxPath = 6
  MaxHeadersSize = 2
  MaxRequestSize = 2
  ZoneOffset = 0
  Conns = {k1, k2}
  Requests <- MCRequests
  Root <- MCRoot
  Files <- MCFiles
  max_cache_size_ = 3
  MaxIov = 2
  MaxResources = 3
  MaxResponses = 2
  MaxChanges = 1
  None = None
SYMMETRY MCSymmetry
INVARIANTS
  CacheConsistent
  StreamIntact
CHECK_DEADLOCK FALSE
