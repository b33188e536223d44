\* Input over its limit.
SPECIFICATION Spec
CONSTANTS
  Conns = {c1}
  Fds = {1}
  NumLoops = 1
  ReusePort = FALSE
  IdleTimers = FALSE
  BodySize = 1
  Kinds = {"ok", "part"}
  SndBuf = 1
  MaxInput = 1
  MaxOutput = 3
  MaxRequests = 3
  Resets = FALSE
  None = None
INVARIANT InputBounded
