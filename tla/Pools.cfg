SPECIFICATION Spec
CONSTANTS
  Workers = {w1, w2}
  Clients = {c1}
  Tasks = {t1, t2, t3}
  NoTask = NoTask
  TimerFds = {4, 5, 6, 7, 8, 9}
  Timeouts = {1}
  MaxTicks = 1
  Limit <- MCLimit
  BlockCount <- MCBlockCount
  Sizes = {0, 1, 2, 3, 4}
  MaxBases = 4
  SizeT = 16
INVARIANTS
  AwakeForTasks
  TasksAccountedFor
  HeapConsistent
  MemoryConsistent
PROPERTIES
  PoolFinishes
  ImplementsQueue
CHECK_DEADLOCK FALSE
