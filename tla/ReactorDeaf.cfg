\* Input over its limit in the read that also closes the connection.
SPECIFICATION Spec
CONSTANTS
  Conns = {c1}
  Fds = {1}
  NumLoops = 1
  ReusePort = FALSE
  IdleTimers = FALSE
  BodySize = 1
  Kinds = {"part"}
  SndBuf = 1
  MaxInput = 1
  MaxOutput = 3
  MaxRequests = 2
  Resets = FALSE
  None = None
INVARIANT RegisteredIsWatched
