\* Two threads, three lines, one of them oversize; the log is started twice.
\* When it is stopped for good and a caller waits in Flush, the system stops.
SPECIFICATION FairSpec
CONSTANTS
  Callers = {t1, t2}
  Lines = {l1, l2, big}
  Oversize = {big}
  Capacity = 1
  MaxStarts = 2
INVARIANTS LinesInOrder StopWritesAll
PROPERTIES LinesWritten FlushReturns
CHECK_DEADLOCK FALSE
