SPECIFICATION Spec
CONSTANTS
  Flows = {"near", "far"}
  Latency <- MCLatency
  CreditSizes = {1}
  SegmentSizes = {1}
  StopSize = 1
  credit_q_limit = 2
  data_q_limit = 4
  max_tokens = 2
  TokenPeriod = 2
  TxPerByte = 1
  INT_MAX = 100
  SimEnd = 60
  FirstArrival = 5
  LastArrival = 10
  MaxCredits = 6
INVARIANTS
  NoDataLost
  CreditsApart
CHECK_DEADLOCK FALSE
