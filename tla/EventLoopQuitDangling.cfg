\* Quit against a loop that ends between its two halves.
SPECIFICATION FairSpec
CONSTANTS
  NumLoops = 2
  Producers = {}
  Functors = {}
  None = None
INVARIANT NoWakeupAfterDestruction
