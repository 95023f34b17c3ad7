CONSTANTS
  CreditSizes = {1, 2}
  DataSizes = {2, 3}
  credit_q_limit = 4
  data_q_limit = 5
  max_tokens = 3
  TokenPeriod = 3
  TxPerByte = 1
  INT_MAX = 7
  SimEnd = 40
  LastArrival = 30
  MaxArrivals = 3
  MaxResets = 1
SPECIFICATION Spec
INVARIANTS
  TokensInBucket
CHECK_DEADLOCK FALSE
