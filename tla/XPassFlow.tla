------------------------------ MODULE XPassFlow ------------------------------
(***************************************************************************)
(* One ExpressPass flow: the two Agent/XPass objects of xpass/xpass.cc and *)
(* the network between them.  The agent that sends data asks for credits,  *)
(* answers every credit with one data packet and stops the credits when it *)
(* has nothing left; the agent that receives data paces credits out and    *)
(* asks for a retransmission when it sees a gap.                           *)
(*                                                                         *)
(* An agent plays both roles at once, but the roles share no field except  *)
(* rtt_, which only sets how long timers run; the model leaves the timing  *)
(* of timers free, so one flow in one direction stands for both.  The      *)
(* state of the role of the data sender comes first, then the data         *)
(* receiver's, under the names of the source without the trailing "_".     *)
(*                                                                         *)
(* The path is FIFO per queue: credits use the credit queues of the        *)
(* switches, every other packet the data queues.  Packets of the types in  *)
(* Lossy may be dropped; a drop is modelled when the packet is at the head *)
(* of its channel, which no agent can tell from an earlier drop.           *)
(***************************************************************************)
EXTENDS Integers, Sequences

CONSTANTS
  xpass_hdr_size, min_ethernet_size, max_ethernet_size,   \* in bytes
  FlowSizes,       \* numbers of bytes an application may submit at once
  Lossy,           \* the packet types the network may drop
  TimeoutCoversRoundTrip,  \* default_credit_stop_timeout_ exceeds a round trip
  MaxMessages,     \* bound: calls of advance-bytes
  MaxCredits,      \* bound: credits the data receiver sends
  MaxDrops,        \* bound: packets the network drops
  MaxInFlight      \* bound: packets in a channel

PacketTypes == {"CREDIT_REQUEST", "CREDIT", "DATA", "CREDIT_STOP", "NACK"}

ASSUME SizeAssumption ==
  /\ xpass_hdr_size \in Nat
  /\ min_ethernet_size \in Nat
  /\ max_ethernet_size \in Nat
  /\ xpass_hdr_size < max_ethernet_size
  /\ min_ethernet_size <= max_ethernet_size

ASSUME FlowAssumption ==
  /\ FlowSizes \subseteq Nat \ {0}
  /\ Lossy \subseteq PacketTypes
  /\ TimeoutCoversRoundTrip \in BOOLEAN

ASSUME BoundAssumption ==
  /\ MaxMessages \in Nat
  /\ MaxCredits \in Nat
  /\ MaxDrops \in Nat
  /\ MaxInFlight \in Nat \ {0, 1}

VARIABLES
  \* data sender
  credit_recv_state, curseq, t_seqno, credit_recved, credit_recved_rtt,
  sender_retransmit_timer,    \* TRUE while the timer is pending
  credit_stop_timer,
  restarted,                  \* history: since its last stop the sender was
                              \* restarted by a NACK with nothing left to send
  \* data receiver
  credit_send_state, recv_next, c_seqno, c_recv_next, wait_retransmission,
  cur_credit_rate,            \* 0 for zero, 1 for every positive rate
  credit_total, credit_dropped,
  send_credit_timer, fct_timer, receiver_retransmit_timer,
  \* network
  credits,                    \* credit sequence numbers on their way
  flow,                       \* CREDIT_REQUEST, DATA and CREDIT_STOP packets
  nacks,                      \* ackno's of the NACKs on their way
  \* environment and observation
  messages, drops,
  fct_bytes,                  \* flow size in the last line of fct.out
  delivered,                  \* history: positions of the bytes received in order
  err                         \* why the process stopped, or "none"

senderVars == <<credit_recv_state, curseq, t_seqno, credit_recved,
                credit_recved_rtt, sender_retransmit_timer, credit_stop_timer,
                restarted>>
rateVars == <<cur_credit_rate, credit_total, credit_dropped>>
receiverVars == <<credit_send_state, recv_next, c_seqno, c_recv_next,
                  wait_retransmission, rateVars, send_credit_timer,
                  fct_timer, receiver_retransmit_timer>>
netVars == <<credits, flow, nacks>>
envVars == <<messages, drops, fct_bytes, delivered, err>>
vars == <<senderVars, receiverVars, netVars, envVars>>

-----------------------------------------------------------------------------
(* Packets and the arithmetic of sequence numbers. *)

Greater(a, b) == IF a >= b THEN a ELSE b
Lesser(a, b) == IF a <= b THEN a ELSE b

max_segment == max_ethernet_size - xpass_hdr_size

\* Mutant: the last, short packet is not counted.
MutPktRemaining(bytes) == bytes \div max_segment

\* pkt_remaining() for a given datalen_remaining().
pkt_remaining(bytes) == (bytes + max_segment - 1) \div max_segment

CreditRequest(sendbuffer) == [type |-> "CREDIT_REQUEST", sendbuffer |-> sendbuffer]
CreditStop == [type |-> "CREDIT_STOP"]
Data(seqno, size, credit_seq) ==
  [type |-> "DATA", seqno |-> seqno, size |-> size, credit_seq |-> credit_seq]

\* Mutant: the header is not counted.
MutFrameSize(datalen) == Greater(min_ethernet_size, datalen)

\* Frames are padded to the minimum Ethernet size.
FrameSize(datalen) == Greater(min_ethernet_size, xpass_hdr_size + datalen)

datalen_remaining == curseq - t_seqno
MutNextDatalen == max_segment       \* mutant: full segments only
NextDatalen == Lesser(max_segment, datalen_remaining)

\* construct_credit_request() announces what remains at the time of the call.
construct_credit_request == CreditRequest(pkt_remaining(datalen_remaining))

\* construct_data() is called only when data is left, so its exit for an empty
\* packet is never taken.
construct_data(credit_seq) == Data(t_seqno, FrameSize(NextDatalen), credit_seq)

Running == err = "none"
FlowHas(type) == \E i \in 1..Len(flow) : flow[i].type = type

-----------------------------------------------------------------------------
(* The data sender. *)

\* command "advance-bytes" refuses a new message while one is being sent.
MayAdvance == credit_recv_state = "CLOSED"

\* advance_bytes().
AdvanceBytes(nb) ==
  /\ Running
  /\ MayAdvance
  /\ messages < MaxMessages
  /\ Len(flow) < MaxInFlight
  /\ messages' = messages + 1
  /\ curseq' = curseq + nb
  /\ flow' = Append(flow, CreditRequest(pkt_remaining(curseq + nb - t_seqno)))
  /\ err' = IF sender_retransmit_timer THEN "Couldn't schedule timer" ELSE err
  /\ sender_retransmit_timer' = TRUE
  /\ credit_recv_state' = "CREDIT_REQUEST_SENT"
  /\ UNCHANGED <<t_seqno, credit_recved, credit_recved_rtt, credit_stop_timer,
                 restarted, receiverVars, credits, nacks, drops, fct_bytes,
                 delivered>>

\* A packet can be delivered to the data sender.  credit_stop_timer_ runs with
\* no delay and two packets never leave the last link at the same time, so no
\* packet arrives while it is pending.
SenderMayReceive == Running /\ ~credit_stop_timer

\* recv_credit in states CREDIT_REQUEST_SENT and CREDIT_RECEIVING: one data
\* packet, then a stop when nothing is left or, once per rtt_, when the credits
\* of the last rtt_ cover what is left (early stop).  updateDue tells whether
\* rtt_ has passed since last_credit_recv_update_.
recv_credit_active(updateDue) ==
  LET sends == datalen_remaining > 0
      left  == IF sends THEN datalen_remaining - NextDatalen
                        ELSE datalen_remaining
      early == updateDue /\ credit_recved_rtt + 1 >= pkt_remaining(left)
      stop  == left = 0 \/ early
  IN  /\ SenderMayReceive
      /\ credits # <<>>
      /\ credit_recv_state \in {"CREDIT_REQUEST_SENT", "CREDIT_RECEIVING"}
      \* the first credit sets last_credit_recv_update_ to the present
      /\ updateDue => credit_recv_state = "CREDIT_RECEIVING"
      /\ Len(flow) < MaxInFlight
      /\ credits' = Tail(credits)
      /\ credit_recv_state' = "CREDIT_RECEIVING"
      /\ sender_retransmit_timer' =
           (credit_recv_state = "CREDIT_RECEIVING" /\ sender_retransmit_timer)
      /\ flow' = IF sends THEN Append(flow, construct_data(Head(credits)))
                          ELSE flow
      /\ t_seqno' = IF sends THEN t_seqno + NextDatalen ELSE t_seqno
      /\ credit_recved_rtt' = IF left # 0 /\ updateDue THEN 0
                              ELSE credit_recved_rtt + 1
      /\ credit_stop_timer' = stop
      /\ UNCHANGED <<curseq, credit_recved, restarted, receiverVars, nacks, envVars>>

\* recv_credit in state CREDIT_STOP_SENT: data that is left uses the credit.
recv_credit_stop_sent ==
  LET sends == datalen_remaining > 0
  IN  /\ SenderMayReceive
      /\ credits # <<>>
      /\ credit_recv_state = "CREDIT_STOP_SENT"
      /\ Len(flow) < MaxInFlight
      /\ credits' = Tail(credits)
      /\ flow' = IF sends THEN Append(flow, construct_data(Head(credits)))
                          ELSE flow
      /\ t_seqno' = IF sends THEN t_seqno + NextDatalen ELSE t_seqno
      /\ credit_recved_rtt' = credit_recved_rtt + 1
      /\ credit_recved' = credit_recved + 1
      /\ UNCHANGED <<credit_recv_state, curseq, sender_retransmit_timer,
                     credit_stop_timer, restarted, receiverVars, nacks, envVars>>

\* recv_credit in states CLOSE_WAIT and CLOSED: the credit is wasted.
recv_credit_wasted ==
  /\ SenderMayReceive
  /\ credits # <<>>
  /\ credit_recv_state \in {"CLOSE_WAIT", "CLOSED"}
  /\ credits' = Tail(credits)
  /\ credit_recved_rtt' = credit_recved_rtt + 1
  /\ UNCHANGED <<credit_recv_state, curseq, t_seqno, credit_recved,
                 sender_retransmit_timer, credit_stop_timer, restarted,
                 receiverVars, flow, nacks, envVars>>

\* sender_retransmit_timer_ after a NACK.
MutTimerAfterNack(restart) == sender_retransmit_timer   \* mutant: not set
timer_after_nack(restart) == restart \/ sender_retransmit_timer

\* recv_nack: restart the flow if it had stopped, then go back to ackno.  The
\* request is built before t_seqno_ is set back.
recv_nack ==
  LET restart == credit_recv_state \in {"CREDIT_STOP_SENT", "CLOSE_WAIT", "CLOSED"}
  IN  /\ SenderMayReceive
      /\ nacks # <<>>
      /\ Len(flow) < MaxInFlight
      /\ nacks' = Tail(nacks)
      /\ t_seqno' = Head(nacks)
      /\ flow' = IF restart THEN Append(flow, construct_credit_request) ELSE flow
      /\ credit_recv_state' = IF restart THEN "CREDIT_REQUEST_SENT"
                                         ELSE credit_recv_state
      /\ sender_retransmit_timer' = timer_after_nack(restart)
      /\ restarted' = (restarted \/ (restart /\ datalen_remaining = 0))
      /\ UNCHANGED <<curseq, credit_recved, credit_recved_rtt,
                     credit_stop_timer, receiverVars, credits, envVars>>

\* sender_retransmit_timer_ after a stop.
MutTimerAfterStop == FALSE          \* mutant: not set
timer_after_stop == TRUE

\* CreditStopTimer::expire, that is send_credit_stop().
send_credit_stop ==
  /\ Running
  /\ credit_stop_timer
  /\ Len(flow) < MaxInFlight
  /\ credit_stop_timer' = FALSE
  /\ flow' = Append(flow, CreditStop)
  /\ sender_retransmit_timer' = timer_after_stop
  /\ credit_recv_state' = "CREDIT_STOP_SENT"
  /\ restarted' = FALSE
  /\ UNCHANGED <<curseq, t_seqno, credit_recved, credit_recved_rtt,
                 receiverVars, credits, nacks, envVars>>

\* More credits are needed.
MutMustRequest ==                   \* mutant: data left after a stop is forgotten
  credit_recv_state = "CREDIT_REQUEST_SENT"
must_request ==
  \/ credit_recv_state = "CREDIT_REQUEST_SENT"
  \/ credit_recv_state = "CREDIT_STOP_SENT" /\ datalen_remaining > 0

\* handle_sender_retransmit, state CREDIT_REQUEST_SENT, and state
\* CREDIT_STOP_SENT with data left: ask (again) for credits.
retransmit_request ==
  /\ Running
  /\ sender_retransmit_timer
  /\ must_request
  /\ Len(flow) < MaxInFlight - 1     \* leaves room for the data sent meanwhile
  /\ flow' = Append(flow, construct_credit_request)
  /\ credit_recv_state' = "CREDIT_REQUEST_SENT"
  /\ UNCHANGED <<curseq, t_seqno, credit_recved, credit_recved_rtt,
                 sender_retransmit_timer, credit_stop_timer, restarted,
                 receiverVars, credits, nacks, envVars>>

\* Nothing is left to send.
MutAllSent == TRUE                  \* mutant: not checked
all_sent == datalen_remaining <= 0

\* handle_sender_retransmit, state CREDIT_STOP_SENT with no data left.
retransmit_close_wait ==
  /\ Running
  /\ sender_retransmit_timer
  /\ credit_recv_state = "CREDIT_STOP_SENT"
  /\ all_sent
  /\ credit_recv_state' = "CLOSE_WAIT"
  /\ credit_recved' = 0
  /\ UNCHANGED <<curseq, t_seqno, credit_recved_rtt, sender_retransmit_timer,
                 credit_stop_timer, restarted, receiverVars, netVars, envVars>>

\* handle_sender_retransmit, states CLOSE_WAIT (close, or send the stop again
\* when credits were counted), CREDIT_RECEIVING (nothing) and CLOSED (exit).
retransmit_close ==
  LET again == credit_recv_state = "CLOSE_WAIT" /\ credit_recved # 0
  IN  /\ Running
      /\ sender_retransmit_timer
      /\ credit_recv_state \in {"CLOSE_WAIT", "CREDIT_RECEIVING", "CLOSED"}
      /\ Len(flow) < MaxInFlight
      /\ sender_retransmit_timer' = again
      /\ restarted' = (restarted /\ ~again)
      /\ flow' = IF again THEN Append(flow, CreditStop) ELSE flow
      /\ credit_recv_state' = CASE again -> "CREDIT_STOP_SENT"
                                [] credit_recv_state = "CREDIT_RECEIVING" ->
                                     "CREDIT_RECEIVING"
                                [] OTHER -> "CLOSED"
      /\ err' = IF credit_recv_state = "CLOSED"
                THEN "Sender Retransmit triggered while closed" ELSE err
      /\ UNCHANGED <<curseq, t_seqno, credit_recved, credit_recved_rtt,
                     credit_stop_timer, receiverVars, credits, nacks,
                     messages, drops, fct_bytes, delivered>>

-----------------------------------------------------------------------------
(* The data receiver. *)

ReceiverMayReceive == Running /\ flow # <<>>

\* (int)(alpha_ * min(1, sendbuffer / 40) * max_credit_rate_): zero exactly
\* when the request announces no packets.
InitialRate(sendbuffer) == IF sendbuffer > 0 THEN 1 ELSE 0

\* c_seqno_ after construct_credit().
MutSameSeqno == c_seqno             \* mutant: the number is not advanced
next_c_seqno == Greater(1, c_seqno + 1)

\* The states in which a request starts the credits (CLOSE_WAIT falls through
\* to CLOSED), and fct_timer_ after a request.
MutStartStates == {"CLOSED"}        \* mutant: no fall-through
StartStates == {"CLOSE_WAIT", "CLOSED"}
MutFctKept == fct_timer             \* mutant: the timer is not cancelled
fct_timer_after_request == fct_timer /\ credit_send_state # "CLOSE_WAIT"

\* recv_credit_request: start sending credits unless they are being sent.
recv_credit_request ==
  LET starts == credit_send_state \in StartStates
  IN  /\ ReceiverMayReceive
      /\ Head(flow).type = "CREDIT_REQUEST"
      /\ starts => Len(credits) < MaxInFlight /\ c_seqno <= MaxCredits
      /\ flow' = Tail(flow)
      /\ fct_timer' = fct_timer_after_request
      /\ cur_credit_rate' = IF starts THEN InitialRate(Head(flow).sendbuffer)
                                      ELSE cur_credit_rate
      /\ credits' = IF starts THEN Append(credits, c_seqno) ELSE credits
      /\ c_seqno' = IF starts THEN next_c_seqno ELSE c_seqno
      /\ send_credit_timer' = (starts \/ send_credit_timer)
      /\ credit_send_state' = IF starts THEN "CREDIT_SENDING"
                                        ELSE credit_send_state
      /\ UNCHANGED <<senderVars, recv_next, c_recv_next, wait_retransmission,
                     credit_total, credit_dropped, receiver_retransmit_timer,
                     nacks, envVars>>

\* The ackno of the NACK for a gap before packet p.
construct_nack(p) == recv_next

\* Mutant: a later segment is taken for the next one.
MutProcessAck(p) ==
  LET datalen == p.size - xpass_hdr_size
      next == p.seqno >= recv_next
  IN  /\ recv_next' = IF next THEN recv_next + datalen ELSE recv_next
      /\ delivered' = IF next
                      THEN delivered \o [i \in 1..datalen |-> p.seqno + i - 1]
                      ELSE delivered
      /\ UNCHANGED <<nacks, wait_retransmission, receiver_retransmit_timer>>

\* process_ack: a gap makes the receiver ask for recv_next_ once, and again by
\* timer until the missing segment comes.
process_ack(p) ==
  LET datalen == p.size - xpass_hdr_size
      gap == p.seqno > recv_next
      ask == gap /\ ~wait_retransmission
  IN  /\ ask => Len(nacks) < MaxInFlight
      /\ nacks' = IF ask THEN Append(nacks, construct_nack(p)) ELSE nacks
      /\ wait_retransmission' = IF p.seqno = recv_next THEN FALSE
                                ELSE wait_retransmission \/ gap
      /\ receiver_retransmit_timer' =
           CASE ask -> TRUE
             [] p.seqno = recv_next /\ wait_retransmission -> FALSE
             [] OTHER -> receiver_retransmit_timer
      /\ recv_next' = IF p.seqno = recv_next
                      THEN recv_next + datalen ELSE recv_next
      /\ delivered' = IF p.seqno = recv_next
                      THEN delivered \o [i \in 1..datalen |-> p.seqno + i - 1]
                      ELSE delivered

\* The count of the credits up to the one that came back: all but it are lost.
MutCountLess(distance) ==           \* mutant: one too few are lost
  /\ credit_total' = credit_total + distance
  /\ credit_dropped' = credit_dropped + distance - 1
count_credits(distance) ==
  /\ credit_total' = credit_total + distance + 1
  /\ credit_dropped' = credit_dropped + distance

\* recv_data: credits that did not come back count as dropped.
recv_data ==
  LET p == Head(flow)
      distance == p.credit_seq - c_recv_next
  IN  /\ ReceiverMayReceive
      /\ p.type = "DATA"
      /\ flow' = Tail(flow)
      /\ IF distance < 0 \/ p.size < xpass_hdr_size
         THEN /\ err' = IF distance < 0 THEN "Credit Sequence number is reverted"
                                        ELSE "negative length packet"
              /\ UNCHANGED <<c_recv_next, credit_total, credit_dropped, nacks,
                             recv_next, wait_retransmission, delivered,
                             receiver_retransmit_timer>>
         ELSE /\ count_credits(distance)
              /\ c_recv_next' = p.credit_seq + 1
              /\ process_ack(p)
              /\ err' = err
      /\ UNCHANGED <<senderVars, credit_send_state, c_seqno, cur_credit_rate,
                     send_credit_timer, fct_timer, credits,
                     messages, drops, fct_bytes>>

\* No more credits are sent.
MutStopKeepsTimer ==                \* mutants: the timer stays pending, or
  /\ UNCHANGED send_credit_timer
  /\ credit_send_state' = "CLOSE_WAIT"
MutStopKeepsState ==                \* the state stays
  /\ send_credit_timer' = FALSE
  /\ UNCHANGED credit_send_state
stop_credits ==
  /\ send_credit_timer' = FALSE
  /\ credit_send_state' = "CLOSE_WAIT"

\* recv_credit_stop: fct_timer_.sched aborts when the timer is pending.
recv_credit_stop ==
  /\ ReceiverMayReceive
  /\ Head(flow).type = "CREDIT_STOP"
  /\ flow' = Tail(flow)
  /\ err' = IF fct_timer THEN "Couldn't schedule timer" ELSE err
  /\ fct_timer' = TRUE
  /\ stop_credits
  /\ UNCHANGED <<senderVars, recv_next, c_seqno, c_recv_next,
                 wait_retransmission, rateVars, receiver_retransmit_timer,
                 credits, nacks, messages, drops, fct_bytes,
                 delivered>>

\* feedback tells whether credit_feedback_control gets past its tests of time;
\* it keeps the rate at min_rate or more and starts a new count.
credit_feedback_control(feedback) ==
  /\ feedback => credit_total # 0
  /\ credit_total' = IF feedback THEN 0 ELSE credit_total
  /\ credit_dropped' = IF feedback THEN 0 ELSE credit_dropped
  /\ UNCHANGED cur_credit_rate

\* SendCreditTimer::expire, that is send_credit(): feedback control, one
\* credit, and the timer again.  At rate zero the delay is infinite.
send_credit(feedback) ==
  /\ Running
  /\ send_credit_timer
  /\ cur_credit_rate > 0
  /\ Len(credits) < MaxInFlight
  /\ c_seqno <= MaxCredits
  /\ credit_feedback_control(feedback)
  /\ credits' = Append(credits, c_seqno)
  /\ c_seqno' = next_c_seqno
  /\ UNCHANGED <<senderVars, credit_send_state, recv_next, c_recv_next,
                 wait_retransmission, send_credit_timer,
                 fct_timer, receiver_retransmit_timer, flow, nacks, envVars>>

\* handle_receiver_retransmit.
handle_receiver_retransmit ==
  /\ Running
  /\ receiver_retransmit_timer
  /\ wait_retransmission => Len(nacks) < MaxInFlight
  /\ nacks' = IF wait_retransmission THEN Append(nacks, recv_next) ELSE nacks
  /\ receiver_retransmit_timer' = wait_retransmission
  /\ UNCHANGED <<senderVars, credit_send_state, recv_next, c_seqno,
                 c_recv_next, wait_retransmission, rateVars,
                 send_credit_timer, fct_timer, credits, flow, envVars>>

\* handle_fct: the flow is reported and the receiver closes.  A timeout longer
\* than a round trip leaves time for the last credits, and the data they bring.
handle_fct ==
  /\ Running
  /\ fct_timer
  /\ TimeoutCoversRoundTrip => credits = <<>> /\ ~FlowHas("DATA")
  /\ fct_timer' = FALSE
  /\ fct_bytes' = recv_next - 1
  /\ credit_send_state' = "CLOSED"
  /\ UNCHANGED <<senderVars, recv_next, c_seqno, c_recv_next,
                 wait_retransmission, rateVars, send_credit_timer,
                 receiver_retransmit_timer, netVars, messages, drops,
                 delivered, err>>

-----------------------------------------------------------------------------
(* The network. *)

Drop ==
  /\ Running
  /\ drops < MaxDrops
  /\ drops' = drops + 1
  /\ UNCHANGED <<senderVars, receiverVars, messages, fct_bytes, delivered, err>>

DropCredit ==
  /\ "CREDIT" \in Lossy
  /\ credits # <<>>
  /\ Drop
  /\ credits' = Tail(credits)
  /\ UNCHANGED <<flow, nacks>>

DropFlow ==
  /\ flow # <<>>
  /\ Head(flow).type \in Lossy
  /\ Drop
  /\ flow' = Tail(flow)
  /\ UNCHANGED <<credits, nacks>>

DropNack ==
  /\ "NACK" \in Lossy
  /\ nacks # <<>>
  /\ Drop
  /\ nacks' = Tail(nacks)
  /\ UNCHANGED <<credits, flow>>

-----------------------------------------------------------------------------
Init ==
  /\ credit_recv_state = "CLOSED"
  /\ curseq = 1
  /\ t_seqno = 1
  /\ credit_recved = 0
  /\ credit_recved_rtt = 0
  /\ sender_retransmit_timer = FALSE
  /\ credit_stop_timer = FALSE
  /\ restarted = FALSE
  /\ credit_send_state = "CLOSED"
  /\ recv_next = 1
  /\ c_seqno = 1
  /\ c_recv_next = 1
  /\ wait_retransmission = FALSE
  /\ cur_credit_rate = 0
  /\ credit_total = 0
  /\ credit_dropped = 0
  /\ send_credit_timer = FALSE
  /\ fct_timer = FALSE
  /\ receiver_retransmit_timer = FALSE
  /\ credits = <<>>
  /\ flow = <<>>
  /\ nacks = <<>>
  /\ messages = 0
  /\ drops = 0
  /\ fct_bytes = 0
  /\ delivered = <<>>
  /\ err = "none"

SenderStep ==
  \/ \E updateDue \in BOOLEAN : recv_credit_active(updateDue)
  \/ recv_credit_stop_sent
  \/ recv_credit_wasted
  \/ recv_nack
  \/ send_credit_stop
  \/ retransmit_request
  \/ retransmit_close_wait
  \/ retransmit_close

ReceiverStep ==
  \/ recv_credit_request
  \/ recv_data
  \/ recv_credit_stop
  \/ \E feedback \in BOOLEAN : send_credit(feedback)
  \/ handle_receiver_retransmit
  \/ handle_fct

Next ==
  \/ \E nb \in FlowSizes : AdvanceBytes(nb)
  \/ SenderStep
  \/ ReceiverStep
  \/ DropCredit
  \/ DropFlow
  \/ DropNack

Spec == Init /\ [][Next]_vars

\* Every pending timer expires and every packet in the network is delivered
\* (or dropped): the scheduler dispatches all events.
Fairness ==
  /\ WF_vars(\E updateDue \in BOOLEAN : recv_credit_active(updateDue))
  /\ WF_vars(recv_credit_stop_sent)
  /\ WF_vars(recv_credit_wasted)
  /\ WF_vars(recv_nack)
  /\ WF_vars(send_credit_stop)
  /\ WF_vars(retransmit_request)
  /\ WF_vars(retransmit_close_wait)
  /\ WF_vars(retransmit_close)
  /\ WF_vars(recv_credit_request)
  /\ WF_vars(recv_data)
  /\ WF_vars(recv_credit_stop)
  /\ WF_vars(\E feedback \in BOOLEAN : send_credit(feedback))
  /\ WF_vars(handle_receiver_retransmit)
  /\ WF_vars(handle_fct)

FairSpec == Spec /\ Fairness

-----------------------------------------------------------------------------
(* Properties. *)

RecvStates == {"CLOSED", "CREDIT_REQUEST_SENT", "CREDIT_RECEIVING",
               "CREDIT_STOP_SENT", "CLOSE_WAIT"}
SendStates == {"CLOSED", "CREDIT_SENDING", "CLOSE_WAIT"}
Errors == {"none", "Couldn't schedule timer",
           "Sender Retransmit triggered while closed",
           "Credit Sequence number is reverted", "negative length packet"}

FlowPackets ==
  [type : {"CREDIT_REQUEST"}, sendbuffer : Int]
    \cup [type : {"CREDIT_STOP"}]
    \cup [type : {"DATA"}, seqno : Int, credit_seq : Nat,
          size : {n \in Nat : n >= xpass_hdr_size}]

SenderType ==
  /\ credit_recv_state \in RecvStates
  /\ curseq \in Nat
  /\ t_seqno \in Int
  /\ credit_recved \in Nat
  /\ credit_recved_rtt \in Nat
  /\ sender_retransmit_timer \in BOOLEAN
  /\ credit_stop_timer \in BOOLEAN
  /\ restarted \in BOOLEAN

ReceiverType ==
  /\ credit_send_state \in SendStates
  /\ recv_next \in Int
  /\ c_seqno \in Nat
  /\ c_recv_next \in Nat
  /\ wait_retransmission \in BOOLEAN
  /\ cur_credit_rate \in {0, 1}
  /\ credit_total \in Nat
  /\ credit_dropped \in Nat
  /\ send_credit_timer \in BOOLEAN
  /\ fct_timer \in BOOLEAN
  /\ receiver_retransmit_timer \in BOOLEAN

NetType ==
  /\ credits \in Seq(Nat)
  /\ flow \in Seq(FlowPackets)
  /\ nacks \in Seq(Int)

EnvType ==
  /\ messages \in 0..MaxMessages
  /\ drops \in 0..MaxDrops
  /\ fct_bytes \in Int
  /\ delivered \in Seq(Int)
  /\ err \in Errors

TypeOK == SenderType /\ ReceiverType /\ NetType /\ EnvType

\* The retransmit timer is pending exactly while a request or a stop is
\* outstanding, through restarts by NACKs, late credits and retries, and a stop
\* is only ever scheduled while credits are received.  In that state nothing
\* but credits moves the sender on: CreditLoopAlive is about it.
SenderTimers ==
  /\ sender_retransmit_timer <=>
       credit_recv_state \in {"CREDIT_REQUEST_SENT", "CREDIT_STOP_SENT",
                              "CLOSE_WAIT"}
  /\ credit_stop_timer => credit_recv_state = "CREDIT_RECEIVING"

\* The data receiver paces credits exactly in CREDIT_SENDING, reports a flow
\* exactly from CLOSE_WAIT, and repeats a NACK exactly while it waits for a
\* retransmission.
ReceiverTimers ==
  /\ send_credit_timer <=> credit_send_state = "CREDIT_SENDING"
  /\ fct_timer <=> credit_send_state = "CLOSE_WAIT"
  /\ receiver_retransmit_timer <=> wait_retransmission

\* No assertion of xpass.cc or timer-handler.cc ends the simulation.
NoExit == err = "none"

\* The numbers in credits cs on their way and in the data packets of f are all
\* in lo..(hi - 1), ascend along each channel, and are lower in the data
\* packets than in the credits.
IsData(p) == p.type = "DATA"
Ordered(f, cs, lo, hi) ==
  /\ lo <= hi
  /\ \A i \in 1..Len(cs) : lo <= cs[i] /\ cs[i] < hi
  /\ \A i, j \in 1..Len(cs) : i < j => cs[i] < cs[j]
  /\ \A i \in 1..Len(f) :
       IsData(f[i]) => lo <= f[i].credit_seq /\ f[i].credit_seq < hi
  /\ \A i, j \in 1..Len(f) :
       i < j /\ IsData(f[i]) /\ IsData(f[j]) => f[i].credit_seq < f[j].credit_seq
  /\ \A i \in 1..Len(f), j \in 1..Len(cs) :
       IsData(f[i]) => f[i].credit_seq < cs[j]

\* The credit sequence numbers that data packets bring back, and those of the
\* credits still on their way, are in the order they were sent in and never
\* below what recv_data expects: its check "Credit Sequence number is
\* reverted" cannot fail, whatever is dropped.
CreditOrder == Ordered(flow, credits, c_recv_next, c_seqno)

\* Neither side runs past the bytes the application submitted, and what a NACK
\* or a data packet says never does (curseq_ is "the highest sequence number
\* produced by app").
SequenceBounds ==
  /\ 1 <= t_seqno /\ t_seqno <= curseq
  /\ 1 <= recv_next /\ recv_next <= curseq
  /\ \A i \in 1..Len(nacks) : 1 <= nacks[i] /\ nacks[i] <= recv_next
  /\ \A i \in 1..Len(flow) : IsData(flow[i]) =>
       /\ 1 <= flow[i].seqno
       /\ flow[i].seqno + flow[i].size - xpass_hdr_size <= curseq

\* A data sender that waits for credits, which it does without a timer, gets
\* the next one: the receiver sends them at a positive rate, or a request that
\* makes it do so is on its way.  The exception is a NACK to a sender with
\* nothing left: recv_nack announces no packets before it sets t_seqno_ back,
\* the receiver starts at rate zero, and until the next stop nothing changes
\* that; the request sent again by timer finds it sending.
Announces(p) == p.type = "CREDIT_REQUEST" /\ p.sendbuffer > 0
CreditLoopAlive ==
  credit_recv_state = "CREDIT_RECEIVING" /\ ~restarted =>
    \/ credit_send_state = "CREDIT_SENDING" /\ cur_credit_rate > 0
    \/ \E i \in 1..Len(flow) : Announces(flow[i])

\* Once the data sender has closed and its last packet has arrived, no credits
\* are sent any more: closing "checks if credit stop has been delivered".
ClosedMeansStopped ==
  credit_recv_state = "CLOSED" /\ flow = <<>> =>
    credit_send_state # "CREDIT_SENDING"

\* The data packets of f carry the bytes from lo up to hi, each once and in
\* order: the first starts at lo, each starts where the one before ends, and the
\* last ends at hi.
EndOf(p) == p.seqno + p.size - xpass_hdr_size
DataAt(f) == {i \in 1..Len(f) : IsData(f[i])}
Tiles(f, lo, hi) ==
  /\ DataAt(f) = {} => lo = hi
  /\ \A i \in DataAt(f) : (\A k \in DataAt(f) : i <= k) => f[i].seqno = lo
  /\ \A i \in DataAt(f) : (\A k \in DataAt(f) : k <= i) => EndOf(f[i]) = hi
  /\ \A i, j \in DataAt(f) :
       i < j /\ (\A k \in DataAt(f) : k <= i \/ j <= k) => EndOf(f[i]) = f[j].seqno

\* While no data is lost, the data packets in flight are exactly the bytes
\* between what the receiver expects and what the sender sends next.
InFlightTilesStream == Tiles(flow, recv_next, t_seqno)

\* The flow size reported in fct.out is the number of bytes of the flow, once
\* both sides have closed.
FctReportsFlowSize ==
  /\ credit_recv_state = "CLOSED"
  /\ credit_send_state = "CLOSED"
  /\ flow = <<>> /\ nacks = <<>>
  => fct_bytes = curseq - 1

\* A receiver that sends credits sends them at a positive rate: the rate is
\* "initialized ALPHA*max_credit_rate_" and the next credit is scheduled at a
\* finite time.
RateIsPositive == credit_send_state = "CREDIT_SENDING" => cur_credit_rate > 0

\* What is delivered of the flow is a prefix of what was submitted, in order
\* and each byte once.
Transfer == INSTANCE FlowTransfer
              WITH submitted <- curseq - 1
TransferSpec == Transfer!Spec

\* The bound on credits has been used up.
CreditsExhausted == c_seqno > MaxCredits

\* Everything submitted is delivered, whatever credits are lost.
DataDelivered == recv_next < curseq ~> recv_next = curseq \/ CreditsExhausted

\* Both sides close again.
FlowCloses ==
  credit_recv_state # "CLOSED" ~>
    \/ credit_recv_state = "CLOSED" /\ credit_send_state = "CLOSED"
    \/ CreditsExhausted

=============================================================================
