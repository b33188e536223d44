\* Three connections on two loops that accept for themselves (SO_REUSEPORT) and
\* share two descriptors: a descriptor comes back on the same loop, even in the
\* middle of its batch, or on another.  Input stays within its limit.
SPECIFICATION Spec
CONSTANTS
  Conns = {c1, c2, c3}
  Fds = {1, 2}
  NumLoops = 2
  ReusePort = TRUE
  IdleTimers = FALSE
  BodySize = 1
  Kinds = {"ok", "err"}
  SndBuf = 1
  MaxInput = 9
  MaxOutput = 3
  MaxRequests = 1
  Resets = TRUE
  None = None
INVARIANTS RegistrationAgrees EventsRouted
SYMMETRY ConnSymmetry
