\* An idle timer that runs out.
SPECIFICATION Spec
CONSTANTS
  Conns = {c1}
  Fds = {1}
  NumLoops = 1
  ReusePort = FALSE
  IdleTimers = TRUE
  BodySize = 1
  Kinds = {"ok"}
  SndBuf = 1
  MaxInput = 9
  MaxOutput = 3
  MaxRequests = 2
  Resets = FALSE
  None = None
INVARIANT NoSelfDeadlock
