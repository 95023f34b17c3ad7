CONSTANTS
  xpass_hdr_size = 1
  min_ethernet_size = 2
  max_ethernet_size = 3
  FlowSizes = {3, 5}
  Lossy = {"CREDIT"}
  TimeoutCoversRoundTrip = TRUE
  MaxMessages = 1
  MaxCredits = 9
  MaxDrops = 2
  MaxInFlight = 4
SPECIFICATION FairSpec
INVARIANTS
  InFlightTilesStream
  RateIsPositive
  FctReportsFlowSize
PROPERTIES
  DataDelivered
  FlowCloses
CHECK_DEADLOCK FALSE
