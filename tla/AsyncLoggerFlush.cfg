\* Flush can return while the thread is still writing.
SPECIFICATION FairSpec
CONSTANTS
  Callers = {t1, t2}
  Lines = {l1, l2, big}
  Oversize = {big}
  Capacity = 1
  MaxStarts = 2
PROPERTIES FlushWaits
CHECK_DEADLOCK FALSE
