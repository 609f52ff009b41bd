CONSTANTS
  Players = {a, b}
  Sessions = {1, 2, 3}
  ReconnectTimes = {0, 1}
  MaxTime = 2
SYMMETRY PlayerSymmetry
SPECIFICATION Spec
INVARIANTS EntriesSound
PROPERTIES LatestState
\* The model stops where the program crashes.
CHECK_DEADLOCK FALSE
