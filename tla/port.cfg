CONSTANTS
  CreditSizes = {1, 2}
  DataSizes = {2, 3}
  credit_q_limit = 4
  data_q_limit = 5
  max_tokens = 3
  TokenPeriod = 3
  TxPerByte = 1
  INT_MAX = 31
  SimEnd = 60
  LastArrival = 10
  MaxArrivals = 5
  MaxResets = 1
SPECIFICATION Spec
INVARIANTS
  TypeOK
  TokensInBucket
  NoLostWakeup
  LinkNotDoubleBooked
  WakeOnTime
  ByteLengthExact
  CreditsConform
PROPERTIES
  ShaperSpec
  EventuallyDrained
CHECK_DEADLOCK FALSE
