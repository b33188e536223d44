\* Requests around a close: a peer that half-closes, a request that asks for
\* the close, the keep-alive manager's book.  Run with -continue.
SPECIFICATION Spec
CONSTANTS
  Conns = {c1}
  Fds = {1}
  NumLoops = 1
  ReusePort = FALSE
  IdleTimers = FALSE
  BodySize = 1
  Kinds = {"ok", "last"}
  SndBuf = 1
  MaxInput = 9
  MaxOutput = 3
  MaxRequests = 2
  Resets = FALSE
  None = None
INVARIANTS
  HalfCloseAnswered
  CloseHonoured
  KeepAliveReleased
