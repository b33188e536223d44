\* A peer that resets its connection.
SPECIFICATION FairSpec
CONSTANTS
  Conns = {c1}
  Fds = {1}
  NumLoops = 1
  ReusePort = FALSE
  IdleTimers = FALSE
  BodySize = 1
  Kinds = {"ok"}
  SndBuf = 1
  MaxInput = 9
  MaxOutput = 3
  MaxRequests = 2
  Resets = TRUE
  None = None
PROPERTY ErrorReaped
