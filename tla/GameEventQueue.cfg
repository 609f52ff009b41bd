CONSTANTS
  Cells = {g1, g2, g3}
  NoCell = none
  Pooled = {g1, g2}
  MaxUnused = 1
  Clients = {c1, c2}
  NoClient = zero
  TurnedAway = {c2}
  Leaving = {c1}
  MaxEvents = 3
SPECIFICATION FairSpec
INVARIANTS PoolSound BlockedKeptOut
PROPERTIES InOrder NothingLost EveryEventLeaves
\* The program stops when an R_ASSERT fails or deleted memory is used, the
\* model also when MaxEvents events have been added.
CHECK_DEADLOCK FALSE
