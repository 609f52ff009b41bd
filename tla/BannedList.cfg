CONSTANTS
  Addresses = {a, b}
  BanTimes = {1, 3}
  Shifts <- HourOff
  MaxTime = 4
  MaxStarts = 3
SPECIFICATION FairSpec
INVARIANTS BansKept BannedStaysOut
PROPERTIES NotLiftedEarly LiftedInTime
\* The administrator may stop the server for good.
CHECK_DEADLOCK FALSE
