CONSTANTS
  Clients = {a, c}
  Joining = {a}
  Admins = {a}
  Leaving = {a, c}
  SV_Client = sv
  Nobody = nobody
  Proxies = 1
  MaxRequests = 2
  MaxPackets = 1
SPECIFICATION FairSpec
INVARIANTS Received ConfiguredOnce
PROPERTIES TransfersEnd
CHECK_DEADLOCK FALSE
