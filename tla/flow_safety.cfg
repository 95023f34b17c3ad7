CONSTANTS
  xpass_hdr_size = 1
  min_ethernet_size = 2
  max_ethernet_size = 3
  FlowSizes = {1, 5}
  Lossy = {"CREDIT", "DATA", "NACK"}
  TimeoutCoversRoundTrip = FALSE
  MaxMessages = 2
  MaxCredits = 6
  MaxDrops = 2
  MaxInFlight = 3
SPECIFICATION Spec
INVARIANTS
  TypeOK
  SenderTimers
  ReceiverTimers
  NoExit
  CreditOrder
  SequenceBounds
  CreditLoopAlive
  ClosedMeansStopped
PROPERTIES
  TransferSpec
CHECK_DEADLOCK FALSE
