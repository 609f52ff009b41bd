CONSTANTS
  Ids = {i1, i2, i3, i4}
  Clients = {c1, c2}
  SV_Client = sv
  InvalidID = none
  DefaultItems <- ItemAndTool
  SpawnClasses = {"item"}
  MaxOldIDs = 1
  MaxCorpses = 1
  PerformIDgen <- AnyFree
SYMMETRY IdSymmetry
SPECIFICATION Spec
INVARIANTS VerifyEntities PlayedEntities OwnersKnown IteratorValid
PROPERTIES BodyEmptied ItemsSurviveBags
\* The model stops when freed memory has been used.
CHECK_DEADLOCK FALSE
