--------------------------- MODULE CreditFeedback ---------------------------
(***************************************************************************)
(* The rate control of Agent/XPass (xpass/xpass.cc): what                  *)
(* credit_feedback_control computes from the credits counted since the     *)
(* last update, and rtt_, which both roles of an agent write: the data     *)
(* sender keeps the time of its request in it until the first credit, the  *)
(* data receiver averages round trips into it.                             *)
(*                                                                         *)
(* Rates are ints in the code and here; (int) of a quotient is \div. Time, *)
(* rtt_ and w_ are doubles in the code: time is in whole units here, rtt_  *)
(* and w_ (in units of 1/W) are rounded down. target_loss_scaling_ is 1/8, *)
(* the default.                                                            *)
(***************************************************************************)
EXTENDS Integers

CONSTANTS
  max_credit_rate,   \* bytes per unit of time
  avg_credit_size,
  W, w_init, min_w,  \* the unit of w_ is 1/W
  Packets,           \* numbers of packets announced by requests
  RoundTrips,        \* round trip times the network may show
  retransmit_timeout,
  Gaps,              \* numbers of credits lost between two that come back
  Roles,             \* sets of roles an agent may have in this simulation
  MaxTotal,          \* bound on credit_total_
  MaxWindow,         \* bound on the time since the last update
  MaxTime            \* bound on the clock: requests are made before it

ASSUME RateAssumption ==
  max_credit_rate \in Nat \ {0} /\ avg_credit_size \in Nat \ {0}
ASSUME WAssumption == W \in Nat \ {0} /\ min_w \in 1..(W \div 2) /\ w_init \in min_w..(W \div 2)
ASSUME InputAssumption ==
  /\ Packets \subseteq Nat /\ Gaps \subseteq Nat
  /\ RoundTrips \subseteq Nat \ {0} /\ retransmit_timeout \in Nat \ {0}
  /\ \E longest \in RoundTrips : \A r \in RoundTrips : r <= longest
  /\ Roles \subseteq SUBSET {"sender", "receiver"}
ASSUME BoundAssumption == MaxTotal \in Nat \ {0} /\ MaxWindow \in Nat /\ MaxTime \in Nat

VARIABLES
  roles,
  now,               \* Scheduler's clock, up to MaxTime
  rtt,               \* rtt_: a duration, or the time of a request
  asked,             \* when the last request was sent, or NEVER in other
                     \* states than CREDIT_REQUEST_SENT
  elapsed,           \* now() - last_credit_rate_update_
  cur_credit_rate, w, can_increase_w, credit_total, credit_dropped,
  disturbed,         \* history: the last event was a loss or a new message
  first              \* history: the rate is the first one of the message

rateVars == <<cur_credit_rate, w, can_increase_w, credit_total, credit_dropped>>
vars == <<roles, now, rtt, asked, elapsed, rateVars, disturbed, first>>

Least(a, b) == IF a <= b THEN a ELSE b
Most(a, b) == IF a >= b THEN a ELSE b

LongestTrip == CHOOSE r \in RoundTrips : \A s \in RoundTrips : s <= r

NEVER == -1

(* One unit of time passes. The retransmit timer of a request does not     *)
(* expire late.                                                            *)
Elapse ==
  /\ asked # NEVER => now < asked + retransmit_timeout
  /\ now' = Least(now + 1, MaxTime)
  /\ elapsed' = Least(elapsed + 1, MaxWindow)

(* alpha_, by default one half, of the maximum, or less for a message of   *)
(* fewer than 40 packets.                                                  *)
InitialRate(packets) == (max_credit_rate * Least(packets, 40)) \div 80

(* A data receiver starts with its first request.                          *)
Init ==
  /\ roles \in Roles
  /\ now = 0 /\ rtt = 0 /\ asked = NEVER /\ elapsed = 0
  /\ cur_credit_rate \in {InitialRate(n) : n \in Packets} /\ w = w_init /\ can_increase_w = FALSE
  /\ credit_total = 0 /\ credit_dropped = 0 /\ disturbed = TRUE /\ first = TRUE

-----------------------------------------------------------------------------
(* credit_feedback_control                                                 *)

(* target_loss * 8 * max_credit_rate                                       *)
TargetLoss == max_credit_rate - cur_credit_rate

(* loss_rate > target_loss                                                 *)
Congested == credit_dropped * 8 * max_credit_rate > TargetLoss * credit_total

min_rate == avg_credit_size \div rtt

(* What came back in the window, and target_loss more.                     *)
DeliveredRate ==
  IF credit_dropped >= credit_total THEN min_rate
  ELSE (avg_credit_size * (credit_total - credit_dropped) * (8 * max_credit_rate + TargetLoss))
         \div (elapsed * 8 * max_credit_rate)

CongestedRate == Least(DeliveredRate, cur_credit_rate)

(* Mutant: w_ does not grow.                                               *)
MutIncreasedW == w

IncreasedW == IF can_increase_w THEN Least(w + W \div 20, W \div 2) ELSE w

IncreasedRate(v) ==
  IF cur_credit_rate < max_credit_rate
    THEN (v * max_credit_rate + (W - v) * cur_credit_rate) \div W
    ELSE cur_credit_rate

(* Mutant: without the second clamp.                                       *)
MutClamped(r) == Least(r, max_credit_rate)

Clamped(r) == Most(Least(r, max_credit_rate), min_rate)

MayUpdate == rtt > 0 /\ elapsed >= rtt /\ credit_total > 0

ReducedW == Most(w \div 2, min_w)

credit_feedback_control ==
  /\ MayUpdate
  /\ w' = IF Congested THEN ReducedW ELSE IncreasedW
  /\ can_increase_w' = ~Congested
  /\ cur_credit_rate' = Clamped(IF Congested THEN CongestedRate ELSE IncreasedRate(IncreasedW))
  /\ credit_total' = 0 /\ credit_dropped' = 0 /\ elapsed' = 0

-----------------------------------------------------------------------------
(* The data receiver.                                                      *)

(* recv_credit_request of a later message: init() and the first rate. The  *)
(* counts are still those of the message before.                           *)
recv_credit_request(packets) ==
  /\ "receiver" \in roles
  /\ w' = w_init
  /\ elapsed' = 0
  /\ cur_credit_rate' = InitialRate(packets)
  /\ disturbed' = TRUE /\ first' = TRUE
  /\ UNCHANGED <<roles, now, rtt, asked, can_increase_w, credit_total, credit_dropped>>

(* Mutant: only the first round trip is taken.                             *)
MutUpdateRtt(r) == IF rtt > 0 THEN rtt ELSE r

update_rtt(r) == IF rtt > 0 THEN (4 * rtt + r) \div 5 ELSE r

(* recv_data, after a round trip of r: lost credits show as a gap in the   *)
(* numbers. Beyond the bound the counts stay as they are.                  *)
recv_data(lost, r) ==
  LET counted == credit_total + lost + 1 <= MaxTotal
  IN  /\ "receiver" \in roles
      /\ Elapse
      /\ r <= now'
      /\ credit_total' = IF counted THEN credit_total + lost + 1 ELSE credit_total
      /\ credit_dropped' = IF counted THEN credit_dropped + lost ELSE credit_dropped
      /\ rtt' = update_rtt(r)
      /\ disturbed' = (lost > 0)
      /\ UNCHANGED <<roles, asked, cur_credit_rate, w, can_increase_w, first>>

(* Time passes and nothing comes back, up to the next event.               *)
Idle ==
  /\ Elapse
  /\ UNCHANGED <<roles, rtt, asked, rateVars, disturbed, first>>

(* send_credit, when its feedback control gets past the early returns. At  *)
(* rate zero the next credit is never due.                                 *)
send_credit ==
  /\ "receiver" \in roles
  /\ cur_credit_rate > 0
  /\ credit_feedback_control
  /\ first' = FALSE
  /\ UNCHANGED <<roles, now, rtt, asked, disturbed>>

-----------------------------------------------------------------------------
(* The data sender.                                                        *)

(* Mutant: the time of the first try is kept.                              *)
MutRequestTime == IF asked = NEVER THEN now ELSE rtt

(* construct_credit_request keeps its time in rtt_.                        *)
request_time == now

(* advance_bytes, recv_nack or handle_sender_retransmit sends a request;   *)
(* while no credit comes the timer sends it again. The last one the bound  *)
(* leaves room for is answered.                                            *)
send_credit_request ==
  /\ "sender" \in roles
  /\ asked = NEVER \/ now = asked + retransmit_timeout
  /\ now + retransmit_timeout <= MaxTime
  /\ rtt' = request_time
  /\ asked' = now
  /\ UNCHANGED <<roles, now, elapsed, rateVars, disturbed, first>>

(* recv_credit in CREDIT_REQUEST_SENT. The credit may be a late one, of an *)
(* earlier try or of the message before, so it may come at any time.       *)
recv_first_credit ==
  /\ asked # NEVER
  /\ rtt' = now - rtt
  /\ asked' = NEVER
  /\ UNCHANGED <<roles, now, elapsed, rateVars, disturbed, first>>

Next ==
  \/ \E n \in Packets : recv_credit_request(n)
  \/ \E n \in Gaps, r \in RoundTrips : recv_data(n, r)
  \/ send_credit
  \/ send_credit_request
  \/ recv_first_credit
  \/ Idle

(* Data keeps coming, time passes and the timer of the next credit expires.*)
Fairness ==
  /\ WF_vars(Idle)
  /\ WF_vars(\E n \in Gaps, r \in RoundTrips : recv_data(n, r))
  /\ WF_vars(send_credit)

Spec == Init /\ [][Next]_vars /\ Fairness

-----------------------------------------------------------------------------
(* In an agent that only receives data, as in the scripts: xpass.h of      *)
(* cur_credit_rate_, "should always less than or equal to                  *)
(* max_credit_rate_". The second clamp, to one credit per rtt_, can break  *)
(* it only when a round trip is shorter than a credit takes at the full    *)
(* rate. Once feedback has set the rate, no loss takes it below one credit *)
(* per longest round trip, so the next credit is always due; the first     *)
(* rate of a message may be lower, and is zero for a request that          *)
(* announces no packets.                                                   *)
RateBounds ==
  roles = {"receiver"} =>
    /\ (\A r \in RoundTrips : avg_credit_size \div r <= max_credit_rate)
         => cur_credit_rate <= max_credit_rate
    /\ ~first => cur_credit_rate >= avg_credit_size \div LongestTrip

(* rtt_ (xpass.h: "weighted-average round trip time") is never negative    *)
(* nor longer than the simulation, also in an agent with both roles, where *)
(* recv_data averages into the time of a request and recv_credit subtracts *)
(* the result. In an agent that only sends, what the first credit leaves   *)
(* in it is at most retransmit_timeout_, however often the request was     *)
(* sent and whichever try is answered. In one that only receives it is     *)
(* within the round trips the network showed.                              *)
RttIsDuration ==
  /\ rtt \in 0..now
  /\ roles = {"sender"} /\ asked = NEVER => rtt <= retransmit_timeout
  /\ roles = {"receiver"} /\ rtt > 0 =>
       rtt <= LongestTrip /\ \E r \in RoundTrips : r <= rtt

(* What the requests of the other role have left in rtt_ is averaged away: *)
(* once no request is outstanding, and credits are sent, rtt_ comes back   *)
(* within the longest round trip, and with it the updates of the rate.     *)
RttRecovers ==
  "receiver" \in roles =>
    (<>[](asked = NEVER /\ cur_credit_rate > 0) => <>[](rtt <= LongestTrip))

(* Once no credits are lost and no message starts in either direction, a   *)
(* rate that is not zero comes back to the maximum or to one below it: the *)
(* truncation to int and the growth of w_ do not leave it further away,    *)
(* from whatever rate, w_ and rtt_ came before.                            *)
RateRecovers ==
  "receiver" \in roles =>
    (<>[](~disturbed /\ asked = NEVER /\ cur_credit_rate > 0)
       => <>[](cur_credit_rate >= max_credit_rate - 1))
=============================================================================
