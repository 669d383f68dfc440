SPECIFICATION Spec
CONSTANTS
  Threads = {main, audio}
  Second = 2
  Minute = 4
  Ten = 2
  MinClock = 5
  MaxClock = 9
  MaxCalls = 3
SYMMETRY Symmetry
INVARIANTS LinesKept StampSound
CHECK_DEADLOCK FALSE
