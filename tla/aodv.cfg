SPECIFICATION Spec
CONSTANTS
  Nodes = {0, 1, 2, 3}
  Topologies <- Chain
  Traffic <- OneSource
  LocalRepair = TRUE
  NETWORK_DIAMETER = 5
  TTL_START = 2
  TTL_THRESHOLD = 3
  TTL_INCREMENT = 1
  RREQ_RETRIES = 0
  INFINITY2 = 99
  MaxData = 2
  MaxRequests = 2
  MaxFaults = 2
INVARIANTS
  LoopFree
  AssertsInRepair
  NotAhead
CHECK_DEADLOCK FALSE
