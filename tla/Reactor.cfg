\* Three connections that follow each other on the only descriptor, with every
\* kind of request, input and output over their limits, short writes, resets
\* and idle timers.  When the timer has stopped the only loop and the peers have
\* nothing more to say, the system really stops.
SPECIFICATION Spec
CONSTANTS
  Conns = {c1, c2, c3}
  Fds = {1}
  NumLoops = 1
  ReusePort = FALSE
  IdleTimers = TRUE
  BodySize = 2
  Kinds = {"ok", "last", "err", "bad", "part"}
  SndBuf = 2
  MaxInput = 1
  MaxOutput = 3
  MaxRequests = 2
  Resets = TRUE
  None = None
INVARIANTS TypeOK DescriptorOwner ClosedIsReleased OutputWatched HalfClosedWhenDrained
PROPERTIES ClosedForGood
CHECK_DEADLOCK FALSE
SYMMETRY ConnSymmetry
