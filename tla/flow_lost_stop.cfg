CONSTANTS
  xpass_hdr_size = 1
  min_ethernet_size = 2
  max_ethernet_size = 3
  FlowSizes = {3}
  Lossy = {"CREDIT_STOP"}
  TimeoutCoversRoundTrip = FALSE
  MaxMessages = 1
  MaxCredits = 5
  MaxDrops = 1
  MaxInFlight = 3
SPECIFICATION Spec
INVARIANTS
  ClosedMeansStopped
CHECK_DEADLOCK FALSE
