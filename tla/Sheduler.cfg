CONSTANTS
  Objects = {o1, o2}
  NoObject = none
  Period = 1
  Batch = 1
  MaxLate = 2
  MaxItems = 2
  MaxRegistration = 2
SPECIFICATION FairSpec
INVARIANTS ListsSound
PROPERTIES KeepsPromise OncePerFrame RealtimeUpdated NobodyStarves
