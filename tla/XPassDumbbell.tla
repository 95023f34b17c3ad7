---------------------------- MODULE XPassDumbbell ----------------------------
(***************************************************************************)
(* Flows that share a bottleneck (scripts/dumbell-topology.tcl): credits   *)
(* of all flows leave through one port A, the data they call for comes     *)
(* back through port B of the same link. Both ports are XPassDropTail with *)
(* its LinkDelay; the host of a data sender answers a credit at once and   *)
(* sends its data one packet after the other. The requests of the flows    *)
(* have passed before the first credit; the access links add a constant    *)
(* latency.                                                                *)
(*                                                                         *)
(* The receivers may send credits at any time and pace: whatever they do,  *)
(* the shaping in A has to protect the data queue of B.                    *)
(***************************************************************************)
EXTENDS Integers, Sequences, FiniteSets

CONSTANTS
  Flows,
  Latency,          \* of a credit from A to the flow's sender, without A's link
  CreditSizes, SegmentSizes, StopSize,
  credit_q_limit, data_q_limit, max_tokens, TokenPeriod, TxPerByte,
  INT_MAX, SimEnd,
  FirstArrival,     \* when the first request has reached its receiver
  LastArrival,      \* bound: no credit reaches A after this time
  MaxCredits        \* bound: credits that reach A

Largest(S) == CHOOSE x \in S : \A y \in S : y <= x
Smallest(S) == CHOOSE x \in S : \A y \in S : x <= y

DataSizes == SegmentSizes \cup {StopSize}

(* token_refresh_rate_ of the scripts: for every credit there is room for  *)
(* a credit and a full segment on the link.                                *)
ASSUME ShareAssumption ==
  TokenPeriod * Smallest(CreditSizes) >=
    TxPerByte * (Largest(SegmentSizes) + Smallest(CreditSizes))
ASSUME LatencyAssumption == Latency \in [Flows -> Nat]
ASSUME SegmentAssumption == SegmentSizes \subseteq Nat \ {0} /\ StopSize \in Nat \ {0}
ASSUME BoundAssumption == MaxCredits \in Nat /\ FirstArrival \in Nat
(* What XPassDropTail assumes of the constants of a port.                  *)
ASSUME PortAssumption ==
  /\ CreditSizes \subseteq Nat \ {0}
  /\ \A s \in CreditSizes : s <= max_tokens
  /\ {credit_q_limit, data_q_limit, max_tokens, SimEnd} \subseteq Nat
  /\ {TokenPeriod, TxPerByte, INT_MAX} \subseteq Nat \ {0}
  /\ LastArrival \in 0..SimEnd

VARIABLES
  now,
  a_credit_q, a_data_q, a_tokens, a_token_bucket_clock, a_credit_timer,
  a_blocked, a_intr, a_arrivals, a_resets, a_log, a_err,
  b_credit_q, b_data_q, b_tokens, b_token_bucket_clock, b_credit_timer,
  b_blocked, b_intr, b_arrivals, b_resets, b_log, b_err,
  waiting,          \* the flows of the credits in A's queue, in its order
  credits,          \* for each flow, when its credits reach its sender
  nic,              \* for each flow, when its sender's link is idle again
  data,             \* for each flow, its packets on the way to B
  stopped,          \* the flows whose senders have sent a stop
  finished,         \* the flows whose senders have no data left
  lost              \* history: packets of the data queue that B dropped

aVars == <<a_credit_q, a_data_q, a_tokens, a_token_bucket_clock, a_credit_timer,
           a_blocked, a_intr, a_arrivals, a_resets, a_log, a_err>>
bVars == <<b_credit_q, b_data_q, b_tokens, b_token_bucket_clock, b_credit_timer,
           b_blocked, b_intr, b_arrivals, b_resets, b_log, b_err>>
pathVars == <<waiting, credits, nic, data, stopped, finished, lost>>
vars == <<now, aVars, bVars, pathVars>>

A == INSTANCE XPassDropTail WITH
       credit_q <- a_credit_q, data_q <- a_data_q, tokens <- a_tokens,
       token_bucket_clock <- a_token_bucket_clock, credit_timer <- a_credit_timer,
       blocked <- a_blocked, intr <- a_intr, arrivals <- a_arrivals,
       resets <- a_resets, log <- a_log, err <- a_err,
       MaxArrivals <- MaxCredits, MaxResets <- 0

B == INSTANCE XPassDropTail WITH
       credit_q <- b_credit_q, data_q <- b_data_q, tokens <- b_tokens,
       token_bucket_clock <- b_token_bucket_clock, credit_timer <- b_credit_timer,
       blocked <- b_blocked, intr <- b_intr, arrivals <- b_arrivals,
       resets <- b_resets, log <- b_log, err <- b_err,
       MaxArrivals <- 2 * MaxCredits, MaxResets <- 0

Init ==
  /\ A!Init /\ B!Init
  /\ waiting = <<>>
  /\ credits = [f \in Flows |-> <<>>]
  /\ nic = [f \in Flows |-> 0]
  /\ data = [f \in Flows |-> <<>>]
  /\ stopped = {} /\ finished = {} /\ lost = 0

-----------------------------------------------------------------------------
(* No event of another part is due before t.                               *)
Due(t) ==
  /\ A!MayDispatch(t) /\ B!MayDispatch(t)
  /\ \A f \in Flows :
       /\ credits[f] # <<>> => t <= Head(credits[f])
       /\ data[f] # <<>> => t <= Head(data[f]).at

(* After a step of A that leaves the flows queued in its order: the one in *)
(* front is on the link when A has forwarded a credit.                     *)
AfterA(queued) ==
  IF Len(a_log') > Len(a_log)
    THEN LET f == Head(queued)
             sent == a_log'[Len(a_log')]
         IN /\ waiting' = Tail(queued)
            /\ credits' = [credits EXCEPT ![f] =
                 Append(@, sent.at + sent.size * TxPerByte + Latency[f])]
    ELSE waiting' = queued /\ credits' = credits

(* A credit of flow f reaches A at time t; A may drop it.                  *)
CreditAtA(f, size, t) ==
  LET accepted == A!Enque(a_credit_q, size).bytes <= credit_q_limit
  IN /\ Due(t)
     /\ A!RecvCredit(size, t)
     /\ AfterA(IF accepted THEN Append(waiting, f) ELSE waiting)
     /\ UNCHANGED <<bVars, nic, data, stopped, finished, lost>>

EventAtA ==
  /\ \/ Due(a_intr) /\ A!Resume
     \/ Due(a_credit_timer) /\ A!Expire
  /\ AfterA(waiting)
  /\ UNCHANGED <<bVars, nic, data, stopped, finished, lost>>

(* recv_credit: the sender answers with one data packet, which waits for   *)
(* the host's link, and sends a stop after its last one or, from the       *)
(* second credit on, before it (early stop). Credits after the stop bring  *)
(* what data is left, the others are wasted. A sender that has data left   *)
(* when no more credits come asks again after this.                        *)
CreditAtSender(f, size, last, early) ==
  LET t == Head(credits[f])
      idle == IF nic[f] > t THEN nic[f] ELSE t
      done(n) == idle + n * TxPerByte
      segment == [at |-> done(size), size |-> size]
      stop == [at |-> done(size + StopSize), size |-> StopSize]
      stops == f \notin stopped /\ (last \/ early)
  IN /\ credits[f] # <<>>
     /\ Due(t)
     /\ now' = t
     /\ early => ~last /\ f \notin stopped /\ nic[f] > 0
     /\ credits' = [credits EXCEPT ![f] = Tail(@)]
     /\ IF f \in finished
          THEN ~last /\ ~early /\ UNCHANGED <<nic, data, stopped, finished>>
          ELSE /\ data' = [data EXCEPT ![f] =
                            @ \o IF stops THEN <<segment, stop>> ELSE <<segment>>]
               /\ nic' = [nic EXCEPT ![f] = IF stops THEN stop.at ELSE segment.at]
               /\ stopped' = IF stops THEN stopped \cup {f} ELSE stopped
               /\ finished' = IF last THEN finished \cup {f} ELSE finished
     /\ UNCHANGED <<aVars, bVars, waiting, lost>>

PacketAtB(f) ==
  LET p == Head(data[f])
  IN /\ data[f] # <<>>
     /\ Due(p.at)
     /\ B!RecvData(p.size, p.at)
     /\ data' = [data EXCEPT ![f] = Tail(@)]
     /\ lost' = IF B!Enque(b_data_q, p.size).bytes > data_q_limit THEN lost + 1 ELSE lost
     /\ UNCHANGED <<aVars, waiting, credits, nic, stopped, finished>>

EventAtB ==
  /\ Due(b_intr) /\ B!Resume
  /\ UNCHANGED <<aVars, pathVars>>

Next ==
  \/ \E f \in Flows, size \in CreditSizes, t \in FirstArrival..LastArrival : CreditAtA(f, size, t)
  \/ EventAtA
  \/ \E f \in Flows, size \in SegmentSizes, last, early \in BOOLEAN :
       CreditAtSender(f, size, last, early)
  \/ \E f \in Flows : PacketAtB(f)
  \/ EventAtB

Spec == Init /\ [][Next]_vars

-----------------------------------------------------------------------------
(* The largest backlog that A's bucket and the difference between the      *)
(* paths can pile up in B: n segments come over the senders' links in      *)
(* BurstTime(n) at least and the stops after them, while B's link sends.   *)
Spread == Largest({Latency[f] : f \in Flows}) - Smallest({Latency[f] : f \in Flows})
BurstTime(n) == ((n - 1) \div Cardinality(Flows)) * Largest(SegmentSizes)
Bursts == {n \in 1..MaxCredits :
             n * TokenPeriod * Smallest(CreditSizes) <=
               A!Depth + Spread + TxPerByte * BurstTime(n)}
SafeBuffer ==
  Largest({n * Largest(SegmentSizes) - BurstTime(n) : n \in Bursts})
    + (Cardinality(Flows) - 1) * StopSize

(* With a buffer of that size no data is lost at the bottleneck, however   *)
(* fast the receivers send credits and however the paths line up: the      *)
(* credits that A lets through are all that protects B, where nothing      *)
(* looks at credits. One byte less is not enough in the instance checked.  *)
NoDataLost == data_q_limit >= SafeBuffer => lost = 0

(* Two credits never reach a sender at the same time, so recv_credit never *)
(* finds its zero-delay credit_stop_timer_ pending ("CreditStopTimer seems *)
(* to be scheduled more than once"): what SenderMayReceive of XPassFlow    *)
(* takes for granted.                                                      *)
CreditsApart ==
  \A f \in Flows : \A i \in 1..(Len(credits[f]) - 1) : credits[f][i] < credits[f][i + 1]
=============================================================================
