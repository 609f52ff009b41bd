CONSTANTS
  Ids = {i1, i2, i3, i4}
  Clients = {c1}
  SV_Client = sv
  InvalidID = none
  DefaultItems <- OneItem
  SpawnClasses = {}
  MaxOldIDs = 1
  MaxCorpses = 1
  PerformIDgen <- AnyFree
SYMMETRY IdSymmetry
SPECIFICATION Spec
INVARIANTS DestroyedBagsExist
\* The model stops when freed memory has been used.
CHECK_DEADLOCK FALSE
