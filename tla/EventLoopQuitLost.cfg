\* Stop called before a loop has entered Loop().
SPECIFICATION FairSpec
CONSTANTS
  NumLoops = 2
  Producers = {}
  Functors = {}
  None = None
PROPERTY StopReturns
