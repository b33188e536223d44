\* Well-behaved peers: complete requests, no resets.
SPECIFICATION FairSpec
CONSTANTS
  Conns = {c1, c2}
  Fds = {1, 2}
  NumLoops = 1
  ReusePort = FALSE
  IdleTimers = FALSE
  BodySize = 1
  Kinds = {"ok"}
  SndBuf = 1
  MaxInput = 9
  MaxOutput = 3
  MaxRequests = 2
  Resets = FALSE
  None = None
PROPERTIES RequestsRead FinReaped OutputDrained
