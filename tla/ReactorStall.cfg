\* A piece of a request that arrives together with room to write.
SPECIFICATION FairSpec
CONSTANTS
  Conns = {c1}
  Fds = {1}
  NumLoops = 1
  ReusePort = FALSE
  IdleTimers = FALSE
  BodySize = 1
  Kinds = {"ok", "part"}
  SndBuf = 1
  MaxInput = 9
  MaxOutput = 3
  MaxRequests = 3
  Resets = FALSE
  None = None
PROPERTY OutputReachesPeer
