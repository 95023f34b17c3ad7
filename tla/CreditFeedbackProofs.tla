------------------------ MODULE CreditFeedbackProofs -------------------------
(***************************************************************************)
(* Theorems about the rate control of Agent/XPass, for all rates, credit   *)
(* sizes, weights and round trip times.                                    *)
(***************************************************************************)
EXTENDS CreditFeedback, NumberTheorems

(* rtt_ is not below every round trip.                                     *)
RttFromTrips == \E r \in RoundTrips : r <= rtt

Types ==
  /\ roles \in Roles
  /\ now \in 0..MaxTime /\ rtt \in 0..now /\ asked \in Int /\ elapsed \in Nat
  /\ cur_credit_rate \in Int /\ w \in Int /\ can_increase_w \in BOOLEAN
  /\ credit_total \in Nat /\ credit_dropped \in Nat

(* A request is at most retransmit_timeout_ old, since the timer sends the *)
(* next one, and only a sender makes one; without the other role rtt_ is   *)
(* its time, and what a receiver averages is within the round trips.       *)
RttInv ==
  /\ asked # NEVER =>
       /\ "sender" \in roles /\ asked \in 0..now
       /\ now <= asked + retransmit_timeout
  /\ roles = {"sender"} =>
       IF asked = NEVER THEN rtt <= retransmit_timeout ELSE rtt = asked
  /\ roles = {"receiver"} /\ rtt > 0 => rtt <= LongestTrip /\ RttFromTrips

IInv == Types /\ RttInv /\ RateBounds

-----------------------------------------------------------------------------
LEMMA Longest ==
  /\ LongestTrip \in RoundTrips
  /\ \A r \in RoundTrips : r <= LongestTrip
  /\ \A r \in RoundTrips : r \in Nat \ {0}
<1>1. \E longest \in RoundTrips : \A r \in RoundTrips : r <= longest
  BY InputAssumption
<1> QED
  BY <1>1, InputAssumption DEF LongestTrip

LEMMA Shortest ==
  \E m \in RoundTrips : \A r \in RoundTrips : m <= r
<1>1. RoundTrips \in SUBSET Nat /\ RoundTrips # {}
  BY Longest
<1> QED
  BY <1>1, NatMinimum

(* An average of values within bounds is within them, also rounded down.   *)
LEMMA AverageBounds ==
  ASSUME NEW a \in Nat, NEW b \in Nat, NEW lo \in Nat, NEW hi \in Nat,
         lo <= a, lo <= b, a <= hi, b <= hi
  PROVE  /\ (4 * a + b) \div 5 \in Nat
         /\ lo <= (4 * a + b) \div 5 /\ (4 * a + b) \div 5 <= hi
<1>1. lo * 5 <= 4 * a + b /\ 4 * a + b <= hi * 5 /\ 4 * a + b \in Int
  OBVIOUS
<1>2. lo <= (4 * a + b) \div 5 /\ (4 * a + b) \div 5 <= hi
  BY <1>1, DivLower, DivUpper
<1>3. (4 * a + b) \div 5 \in Int
  BY <1>1, DivMod
<1> QED
  BY <1>2, <1>3

(* The first rate of a message is at most alpha_ of the maximum.           *)
LEMMA InitialRateBounds ==
  ASSUME NEW n \in Packets
  PROVE  InitialRate(n) \in Int /\ InitialRate(n) <= max_credit_rate
<1>1. n \in Nat /\ max_credit_rate \in Nat
  BY InputAssumption, RateAssumption
<1>2. Least(n, 40) \in Nat /\ Least(n, 40) <= 40
  BY <1>1 DEF Least
<1>3. max_credit_rate * Least(n, 40) <= max_credit_rate * 80
  BY <1>1, <1>2, Z3
<1>4. max_credit_rate * Least(n, 40) \in Int
  BY <1>1, <1>2
<1> QED
  BY <1>1, <1>3, <1>4, DivMod, DivUpper DEF InitialRate

(* What credit_feedback_control computes is an integer, and the clamps     *)
(* keep it between one credit per rtt_ and the maximum, or at the former.  *)
LEMMA FeedbackBounds ==
  ASSUME Types, credit_feedback_control
  PROVE  /\ cur_credit_rate' \in Int /\ w' \in Int
         /\ min_rate \in Int /\ rtt \in Nat \ {0}
         /\ cur_credit_rate' >= min_rate
         /\ cur_credit_rate' <= max_credit_rate \/ cur_credit_rate' = min_rate
<1>1. /\ rtt \in Nat \ {0} /\ elapsed \in Nat \ {0}
      /\ max_credit_rate \in Nat \ {0} /\ avg_credit_size \in Nat /\ W \in Nat \ {0} /\ min_w \in Int
      /\ cur_credit_rate \in Int /\ w \in Int /\ credit_total \in Nat /\ credit_dropped \in Nat
  BY RateAssumption, WAssumption DEF Types, credit_feedback_control, MayUpdate
<1>2. min_rate \in Int
  BY <1>1, DivMod DEF min_rate
<1>3. DeliveredRate \in Int
  <2> DEFINE num == avg_credit_size * (credit_total - credit_dropped) * (8 * max_credit_rate + TargetLoss)
             den == elapsed * 8 * max_credit_rate
  <2>1. TargetLoss \in Int
    BY <1>1 DEF TargetLoss
  <2>2. num \in Int
    BY <1>1, <2>1
  <2>3. den \in Nat \ {0}
    BY <1>1, Z3
  <2>4. num \div den \in Int
    <3> HIDE DEF num, den
    <3> QED
      BY <2>2, <2>3, DivMod
  <2> QED
    BY <1>2, <2>4 DEF DeliveredRate
<1>4. CongestedRate \in Int
  BY <1>1, <1>3 DEF CongestedRate, Least
<1>5. W \div 20 \in Int /\ W \div 2 \in Int /\ w \div 2 \in Int
  BY <1>1, DivMod
<1>6. IncreasedW \in Int /\ ReducedW \in Int
  BY <1>1, <1>5 DEF IncreasedW, ReducedW, Least, Most
<1>7. IncreasedRate(IncreasedW) \in Int
  <2> DEFINE sum == IncreasedW * max_credit_rate + (W - IncreasedW) * cur_credit_rate
  <2>1. sum \in Int
    BY <1>1, <1>6
  <2>2. sum \div W \in Int
    <3> HIDE DEF sum
    <3> QED
      BY <1>1, <2>1, DivMod
  <2> QED
    BY <1>1, <2>2 DEF IncreasedRate
<1> DEFINE r == IF Congested THEN CongestedRate ELSE IncreasedRate(IncreasedW)
<1>8. r \in Int /\ cur_credit_rate' = Clamped(r)
  BY <1>4, <1>7 DEF credit_feedback_control
<1>9. w' \in Int
  BY <1>6 DEF credit_feedback_control
<1> HIDE DEF r
<1> QED
  BY <1>1, <1>2, <1>8, <1>9 DEF Clamped, Least, Most

-----------------------------------------------------------------------------
(* The clock.                                                              *)
LEMMA ClockStep ==
  ASSUME Types, RttInv, Elapse
  PROVE  /\ now' \in 0..MaxTime /\ elapsed' \in Nat /\ now <= now'
         /\ asked # NEVER => now' <= asked + retransmit_timeout
<1>1. /\ now \in Nat /\ now <= MaxTime /\ MaxTime \in Nat /\ elapsed \in Nat /\ MaxWindow \in Nat
      /\ asked \in Int /\ retransmit_timeout \in Nat
  BY BoundAssumption, InputAssumption DEF Types
<1>2. now' = Least(now + 1, MaxTime) /\ elapsed' = Least(elapsed + 1, MaxWindow)
  BY DEF Elapse
<1>3. asked # NEVER => now < asked + retransmit_timeout
  BY DEF Elapse
<1> QED
  BY <1>1, <1>2, <1>3 DEF Least

(* Whatever rtt_ holds, an average with a round trip that has passed is no *)
(* more than the time.                                                     *)
LEMMA UpdateBounds ==
  ASSUME NEW r \in RoundTrips, NEW t \in Nat, rtt \in Nat, rtt <= t, r <= t
  PROVE  update_rtt(r) \in 0..t
<1>1. r \in Nat
  BY Longest
<1>2. (4 * rtt + r) \div 5 \in Nat /\ (4 * rtt + r) \div 5 <= t
  <2>1. 0 \in Nat /\ 0 <= rtt /\ 0 <= r
    BY <1>1
  <2> QED
    BY <1>1, <2>1, AverageBounds
<1> QED
  BY <1>1, <1>2 DEF update_rtt

LEMMA TypesStep == IInv /\ [Next]_vars => Types'
<1> SUFFICES ASSUME IInv, [Next]_vars PROVE Types'
  OBVIOUS
<1> USE DEF IInv
<1>0. now \in Nat /\ rtt \in Nat /\ rtt <= now /\ now <= MaxTime
  BY DEF Types
<1>1. ASSUME NEW n \in Packets, recv_credit_request(n) PROVE Types'
  <2>1. w_init \in Int
    BY WAssumption, DivMod
  <2> QED
    BY <1>1, <2>1, InitialRateBounds DEF recv_credit_request, Types
<1>2. ASSUME NEW n \in Gaps, NEW r \in RoundTrips, recv_data(n, r) PROVE Types'
  <2>1. n \in Nat
    BY InputAssumption
  <2>2. now' \in 0..MaxTime /\ elapsed' \in Nat /\ now <= now' /\ r <= now'
    BY <1>2, ClockStep DEF recv_data
  <2>3. rtt' \in 0..now'
    <3>1. now' \in Nat /\ rtt <= now'
      BY <1>0, <2>2, BoundAssumption
    <3>2. update_rtt(r) \in 0..now'
      BY <1>0, <2>2, <3>1, UpdateBounds
    <3> QED
      BY <1>2, <3>2 DEF recv_data
  <2>4. credit_total' \in Nat /\ credit_dropped' \in Nat
    BY <1>2, <2>1 DEF recv_data, Types
  <2> QED
    BY <1>2, <2>2, <2>3, <2>4 DEF recv_data, Types
<1>3. CASE send_credit
  <2>1. cur_credit_rate' \in Int /\ w' \in Int
    BY <1>3, FeedbackBounds DEF send_credit
  <2> QED
    BY <1>3, <2>1 DEF send_credit, credit_feedback_control, Types
<1>4. CASE send_credit_request
  <2>1. now' = now /\ rtt' = now /\ asked' = now
    BY <1>4 DEF send_credit_request, request_time
  <2> QED
    BY <1>0, <1>4, <2>1 DEF send_credit_request, Types, rateVars
<1>5. CASE recv_first_credit
  <2>1. now' = now /\ rtt' = now - rtt /\ asked' = -1
    BY <1>5 DEF recv_first_credit, NEVER
  <2>2. rtt' \in 0..now' /\ asked' \in Int
    BY <1>0, <2>1
  <2> QED
    BY <1>5, <2>2 DEF recv_first_credit, Types, rateVars
<1>6. CASE Idle
  <2>1. now' \in 0..MaxTime /\ elapsed' \in Nat /\ now <= now' /\ rtt' = rtt
    BY <1>6, ClockStep DEF Idle
  <2>2. rtt' \in 0..now'
    BY <1>0, <2>1, BoundAssumption
  <2> QED
    BY <1>6, <2>1, <2>2 DEF Idle, Types, rateVars
<1>7. CASE UNCHANGED vars
  BY <1>7 DEF vars, Types, rateVars
<1> QED
  BY <1>1, <1>2, <1>3, <1>4, <1>5, <1>6, <1>7 DEF Next

(* rtt_: a sender subtracts the time of the last try, which is at most the *)
(* timeout ago, and a receiver averages round trips.                       *)
LEMMA RttStep == IInv /\ [Next]_vars => RttInv'
<1> SUFFICES ASSUME IInv, [Next]_vars PROVE RttInv'
  OBVIOUS
<1> USE DEF IInv
<1>0. /\ now \in Nat /\ rtt \in Nat /\ asked \in Int /\ retransmit_timeout \in Nat
      /\ MaxTime \in Nat
  BY BoundAssumption, InputAssumption DEF Types
<1>1. ASSUME UNCHANGED <<roles, rtt, asked>>, now' \in Nat, now <= now',
             asked # NEVER => now' <= asked + retransmit_timeout
      PROVE  RttInv'
  BY <1>0, <1>1 DEF RttInv, RttFromTrips
<1>2. ASSUME NEW n \in Packets, recv_credit_request(n) PROVE RttInv'
  BY <1>0, <1>1, <1>2 DEF recv_credit_request, RttInv
<1>3. ASSUME NEW n \in Gaps, NEW r \in RoundTrips, recv_data(n, r) PROVE RttInv'
  <2>1. /\ "receiver" \in roles /\ asked' = asked /\ roles' = roles
        /\ rtt' = update_rtt(r)
    BY <1>3 DEF recv_data
  <2>2. /\ now' \in Nat /\ now <= now'
        /\ asked # NEVER => now' <= asked + retransmit_timeout
    BY <1>0, <1>3, ClockStep DEF recv_data
  <2>3. roles # {"sender"}
    BY <2>1
  <2>4. ASSUME roles = {"receiver"}, rtt' > 0 PROVE rtt' <= LongestTrip /\ RttFromTrips'
    <3>1. r \in Nat \ {0} /\ LongestTrip \in Nat /\ r <= LongestTrip
      BY Longest
    <3>2. PICK m \in RoundTrips : \A x \in RoundTrips : m <= x
      BY Shortest
    <3>3. m \in Nat /\ m <= r /\ \A x \in RoundTrips : x \in Nat
      BY <3>2, Longest
    <3>4. CASE rtt > 0
      <4>1. m <= rtt /\ rtt <= LongestTrip
        BY <1>0, <2>4, <3>2, <3>3, <3>4 DEF RttInv, RttFromTrips
      <4>2. m <= (4 * rtt + r) \div 5 /\ (4 * rtt + r) \div 5 <= LongestTrip
        BY <1>0, <3>1, <3>3, <4>1, AverageBounds
      <4>3. rtt' = (4 * rtt + r) \div 5
        BY <2>1, <3>4 DEF update_rtt
      <4> QED
        BY <4>2, <4>3 DEF RttFromTrips
    <3>5. CASE ~(rtt > 0)
      BY <2>1, <3>1, <3>5 DEF update_rtt, RttFromTrips
    <3> QED
      BY <3>4, <3>5
  <2> QED
    BY <1>0, <2>1, <2>2, <2>3, <2>4 DEF RttInv
<1>4. CASE send_credit
  BY <1>0, <1>1, <1>4 DEF send_credit, RttInv
<1>5. CASE send_credit_request
  <2>1. now' = now /\ rtt' = now /\ asked' = now /\ roles' = roles /\ "sender" \in roles
    BY <1>5 DEF send_credit_request, request_time
  <2>2. roles # {"receiver"} /\ asked' # NEVER
    BY <1>0, <2>1 DEF NEVER
  <2> QED
    BY <1>0, <2>1, <2>2 DEF RttInv
<1>6. CASE recv_first_credit
  <2>1. asked # NEVER /\ now' = now /\ rtt' = now - rtt /\ asked' = NEVER /\ roles' = roles
    BY <1>6 DEF recv_first_credit
  <2>2. roles # {"receiver"} /\ (roles = {"sender"} => rtt' <= retransmit_timeout)
    BY <1>0, <2>1 DEF RttInv
  <2> QED
    BY <2>1, <2>2 DEF RttInv
<1>7. CASE Idle
  BY <1>0, <1>1, <1>7, ClockStep DEF Idle
<1>8. CASE UNCHANGED vars
  BY <1>0, <1>1, <1>8 DEF vars, RttInv
<1> QED
  BY <1>2, <1>3, <1>4, <1>5, <1>6, <1>7, <1>8 DEF Next

(* The rate: a request sets the first rate, feedback clamps it with an     *)
(* rtt_ within the round trips.                                            *)
LEMMA RateStep == IInv /\ [Next]_vars => RateBounds'
<1> SUFFICES ASSUME IInv, [Next]_vars PROVE RateBounds'
  OBVIOUS
<1>0. roles' = roles
  BY DEF Next, recv_credit_request, recv_data, send_credit, send_credit_request,
     recv_first_credit, Idle, vars
<1> SUFFICES ASSUME roles = {"receiver"} PROVE RateBounds'
  BY <1>0 DEF RateBounds
<1> USE DEF IInv
<1>1. ASSUME NEW n \in Packets, recv_credit_request(n) PROVE RateBounds'
  <2>1. cur_credit_rate' = InitialRate(n) /\ first'
    BY <1>1 DEF recv_credit_request
  <2>2. InitialRate(n) <= max_credit_rate
    BY InitialRateBounds
  <2> QED
    BY <2>1, <2>2 DEF RateBounds
<1>2. CASE send_credit
  <2>1. /\ cur_credit_rate' \in Int /\ min_rate \in Int /\ rtt \in Nat \ {0}
        /\ cur_credit_rate' >= min_rate
        /\ cur_credit_rate' <= max_credit_rate \/ cur_credit_rate' = min_rate
    BY <1>2, FeedbackBounds DEF send_credit
  <2>2. rtt <= LongestTrip /\ RttFromTrips
    BY <2>1 DEF RttInv
  <2>3. LongestTrip \in Nat \ {0} /\ avg_credit_size \in Nat
    BY Longest, RateAssumption
  <2>4. avg_credit_size \div LongestTrip <= min_rate /\ avg_credit_size \div LongestTrip \in Int
    <3>1. avg_credit_size \div LongestTrip <= avg_credit_size \div rtt
      BY <2>1, <2>2, <2>3, DivAnti
    <3>2. avg_credit_size \div LongestTrip \in Int
      BY <2>3, DivMod
    <3> QED
      BY <3>1, <3>2 DEF min_rate
  <2>5. cur_credit_rate' >= avg_credit_size \div LongestTrip
    BY <2>1, <2>4
  <2>6. PICK r \in RoundTrips : r <= rtt
    BY <2>2 DEF RttFromTrips
  <2>7. r \in Nat \ {0} /\ avg_credit_size \div r \in Int
    BY <2>3, Longest, DivMod
  <2>8. min_rate <= avg_credit_size \div r
    BY <2>1, <2>3, <2>6, <2>7, DivAnti DEF min_rate
  <2>9. avg_credit_size \div r <= max_credit_rate => cur_credit_rate' <= max_credit_rate
    BY <2>1, <2>7, <2>8, RateAssumption
  <2> QED
    BY <2>5, <2>6, <2>9 DEF RateBounds
<1>3. UNCHANGED <<roles, cur_credit_rate, first>> => RateBounds'
  BY DEF RateBounds
<1> QED
  BY <1>1, <1>2, <1>3 DEF Next, recv_data, send_credit_request, recv_first_credit, Idle, vars, rateVars

LEMMA InvInit == Init => IInv
<1> SUFFICES ASSUME Init PROVE IInv
  OBVIOUS
<1>1. PICK n \in Packets : cur_credit_rate = InitialRate(n)
  BY DEF Init
<1>2. InitialRate(n) \in Int /\ InitialRate(n) <= max_credit_rate
  BY InitialRateBounds
<1>3. RateBounds
  BY <1>1, <1>2 DEF Init, RateBounds
<1>4. w_init \in Int
  BY WAssumption, DivMod
<1>5. LongestTrip \in Nat
  BY Longest
<1> QED
  <2>1. Types
    <3>1. /\ roles \in Roles /\ now = 0 /\ rtt = 0 /\ asked = -1 /\ elapsed = 0
          /\ w = w_init /\ can_increase_w = FALSE /\ credit_total = 0 /\ credit_dropped = 0
      BY DEF Init, NEVER
    <3>2. cur_credit_rate \in Int
      BY <1>1, <1>2
    <3>3. can_increase_w \in BOOLEAN
      BY <3>1, Zenon
    <3>4. now \in 0..MaxTime /\ rtt \in 0..now /\ asked \in Int /\ elapsed \in Nat
          /\ credit_total \in Nat /\ credit_dropped \in Nat
      BY <3>1, BoundAssumption
    <3> QED
      BY <1>4, <3>1, <3>2, <3>3, <3>4 DEF Types
  <2>2. RttInv
    BY <1>5, InputAssumption DEF Init, RttInv
  <2> QED
    BY <1>3, <2>1, <2>2 DEF IInv

LEMMA Invariance == Spec => []IInv
<1>1. IInv /\ [Next]_vars => IInv'
  BY TypesStep, RttStep, RateStep DEF IInv
<1> QED
  BY <1>1, InvInit, PTL DEF Spec

-----------------------------------------------------------------------------
(* In an agent that only receives data cur_credit_rate_ stays within its   *)
(* bounds, whatever credits are lost and however the round trip time       *)
(* varies: at least one credit per longest round trip once feedback has    *)
(* set it, and at most max_credit_rate_ unless a round trip is shorter     *)
(* than a credit.                                                          *)
THEOREM RateSafe == Spec => []RateBounds
<1>1. IInv => RateBounds
  BY DEF IInv
<1> QED
  BY <1>1, Invariance, PTL

(* rtt_ is between zero and the time of the simulation, in an agent with   *)
(* both roles too; after its first credit a sender has at most             *)
(* retransmit_timeout_ in it, and a receiver a time within the round trips.*)
THEOREM RttSafe == Spec => []RttIsDuration
<1>1. IInv => RttIsDuration
  BY DEF IInv, Types, RttInv, RttFromTrips, RttIsDuration
<1> QED
  BY <1>1, Invariance, PTL
=============================================================================
