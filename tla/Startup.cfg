SPECIFICATION Spec
CONSTANTS
  Reloaders = {r1, r2}
  Readers = {q1}
  Files <- MCFiles
  Content <- MCContent
  IntValues = 1073741824
  None = None
  Options <- MCOptions
  Clients = {c1, c2, c3}
  MaxThreads = 2
  MaxSockets = 2
  NoOne = NoOne
INVARIANTS
  ReloadExclusive
  ConfigWhole
  NoClientForgotten
  ReadyForConnections
CHECK_DEADLOCK FALSE
