CONSTANTS
  Cells = {g1, g2, g3}
  NoCell = none
  Pooled = {g1, g2}
  MaxUnused = 1
  Clients = {c1, c2}
  NoClient = zero
  TurnedAway = {c1}
  Leaving = {}
  MaxEvents = 2
SPECIFICATION Spec
INVARIANTS ReleaseFindsEvent
\* The program stops when an R_ASSERT fails or deleted memory is used, the
\* model also when MaxEvents events have been added.
CHECK_DEADLOCK FALSE
