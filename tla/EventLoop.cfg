\* Two loops, started and stopped while two foreign threads and the functors
\* themselves queue functors.
SPECIFICATION FairSpec
CONSTANTS
  NumLoops = 2
  Producers = {p1, p2}
  Functors = {g1, g2}
  None = None
INVARIANTS TypeOK FunctorsInOrder WakeupPending
PROPERTIES FunctorsRun WakeupDrained StopReturnsOnceEntered
