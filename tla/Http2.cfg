SPECIFICATION Spec
CONSTANTS
  Frames <- MCFrames
  MaxFrames = 2
  MaxCalls = 3
  InitialTableSize = 120
  NameSizes = {1, 8}
  ValueSizes = {0, 20, 90}
  TableSizes = {0, 50, 100, 121}
  MaxEntries = 3
INVARIANTS
  FramesReassembled
  AnsweredOnce
  StreamEndsOnce
  TableUsageExact
PROPERTY InsertFits
CHECK_DEADLOCK FALSE
