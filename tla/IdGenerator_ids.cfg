CONSTANTS
  tMinValue = 1
  tMaxValue = 5
  tBlockSize = 2
  tInvalidValueID = 6
  MaxTime = 3
SPECIFICATION GeneratorSpec
PROPERTIES GivesUnusedIds FreshFirst
