SPECIFICATION Spec
CONSTANTS
  Kinds <- MCKinds
  numdupacks = 2
  wnd = 4
  windowInit = 2
  CU = 4
  MWS = 4
  Lengths = {3}
  MaxSeq = 8
  MaxDrops = 2
  MaxSpurious = 1
  MaxInc = 1
  ResetAnyTime = FALSE
  MaxStops = 1
INVARIANTS
  Karn
  SenderGoesOn
  SinkExact
PROPERTY Completes
CHECK_DEADLOCK FALSE
