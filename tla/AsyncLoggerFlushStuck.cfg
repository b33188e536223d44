\* Stop can leave a caller of Flush waiting for ever.
SPECIFICATION FairSpec
CONSTANTS
  Callers = {t1, t2}
  Lines = {l1, l2, big}
  Oversize = {big}
  Capacity = 1
  MaxStarts = 2
PROPERTIES FlushNeverStuck
CHECK_DEADLOCK FALSE
