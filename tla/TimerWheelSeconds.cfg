\* Delays in seconds, as the header documents them, checked against the wheel.

SPECIFICATION Spec
CONSTANTS
  Fds = {f1, f2}
  WheelSize = 3
  MaxCycles = 3
  Timeouts = {0, 1, 2, 3, 4, 5, 6, 7, 8, 9, 10}
  MaxUnaccounted = 3
  None = None

PROPERTY ImplementsSeconds
