SPECIFICATION Spec
CONSTANTS
  max_credit_rate = 50
  avg_credit_size = 12
  W = 100
  w_init = 50
  min_w = 1
  Packets = {0, 8, 40}
  RoundTrips = {1, 3}
  retransmit_timeout = 4
  Gaps = {0, 2}
  Roles = {{"sender"}, {"receiver"}, {"sender", "receiver"}}
  MaxTotal = 4
  MaxWindow = 8
  MaxTime = 8
INVARIANTS
  RateBounds
  RttIsDuration
PROPERTIES
  RttRecovers
  RateRecovers
