\* Two players who trade one item through bags and death, a client that joins.
CONSTANTS
  Actors = {a1, a2}
  Bags = {b1, b2}
  Items = {x1}
  Remote = {q}
  server = server
  none = none
  MaxMessages = 1
SPECIFICATION FairSpec
INVARIANTS WorldsAgree MessagesMakeSense
PROPERTIES DestroyedDisappear DeadDropTheirBag
