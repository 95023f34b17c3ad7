-------------------------- MODULE XPassFlowProofs ----------------------------
(***************************************************************************)
(* Theorems about a flow for every value of the constants, whatever        *)
(* packets the network drops.                                              *)
(***************************************************************************)
EXTENDS XPassFlow, SequenceTheorems, NumberTheorems

-----------------------------------------------------------------------------
(* Types. *)

\* The quotient of a division by a positive number is a number.
LEMMA DivType ==
  ASSUME NEW a \in Int, NEW k \in Nat \ {0}
  PROVE  a \div k \in Int
  BY Z3

\* Sizes, and the packets built from them.
LEMMA SizeFacts ==
  /\ xpass_hdr_size \in Nat /\ min_ethernet_size \in Nat
  /\ max_segment \in Nat \ {0}
  BY SizeAssumption DEF max_segment

LEMMA RequestType ==
  ASSUME NEW n \in Int
  PROVE  CreditRequest(pkt_remaining(n)) \in FlowPackets
<1>1. n + max_segment - 1 \in Int
  BY SizeFacts
<1>2. pkt_remaining(n) \in Int
  BY <1>1, SizeFacts, DivType DEF pkt_remaining
<1> QED
  BY <1>2 DEF CreditRequest, FlowPackets

LEMMA StopType == CreditStop \in FlowPackets
  BY DEF CreditStop, FlowPackets

\* A data packet is built only when data is left.
LEMMA DataType ==
  ASSUME SenderType, datalen_remaining > 0, NEW seq \in Nat
  PROVE  /\ construct_data(seq) \in FlowPackets
         /\ NextDatalen \in Nat \ {0}
         /\ NextDatalen <= datalen_remaining
<1>1. curseq \in Nat /\ t_seqno \in Int
  BY DEF SenderType
<1>2. NextDatalen \in Nat \ {0} /\ NextDatalen <= datalen_remaining
  BY <1>1, SizeFacts DEF NextDatalen, Lesser, datalen_remaining
<1>3. FrameSize(NextDatalen) \in {n \in Nat : n >= xpass_hdr_size}
  BY <1>2, SizeFacts DEF FrameSize, Greater
<1> QED
  BY <1>1, <1>2, <1>3 DEF construct_data, Data, FlowPackets

\* The packet at the head of a channel, and the rest of it.
LEMMA FlowHead ==
  ASSUME NetType, flow # <<>>
  PROVE  Head(flow) \in FlowPackets /\ Tail(flow) \in Seq(FlowPackets)
  BY HeadTailProperties DEF NetType

LEMMA CreditHead ==
  ASSUME NetType, credits # <<>>
  PROVE  Head(credits) \in Nat /\ Tail(credits) \in Seq(Nat)
  BY HeadTailProperties DEF NetType

LEMMA NackHead ==
  ASSUME NetType, nacks # <<>>
  PROVE  Head(nacks) \in Int /\ Tail(nacks) \in Seq(Int)
  BY HeadTailProperties DEF NetType

\* Fields of a data packet.
LEMMA DataFields ==
  ASSUME NEW p \in FlowPackets, p.type = "DATA"
  PROVE  /\ p.seqno \in Int /\ p.credit_seq \in Nat
         /\ p.size \in Nat /\ p.size >= xpass_hdr_size
  BY DEF FlowPackets

LEMMA RequestFields ==
  ASSUME NEW p \in FlowPackets, p.type = "CREDIT_REQUEST"
  PROVE  p.sendbuffer \in Int
  BY DEF FlowPackets

\* What leaves the variables of a part alone keeps their types.
LEMMA SenderKept ==
  ASSUME SenderType, UNCHANGED senderVars
  PROVE  SenderType'
  BY DEF SenderType, senderVars

LEMMA ReceiverKept ==
  ASSUME ReceiverType, UNCHANGED receiverVars
  PROVE  ReceiverType'
  BY DEF ReceiverType, receiverVars, rateVars

LEMMA NetKept ==
  ASSUME NetType, UNCHANGED netVars
  PROVE  NetType'
  BY DEF NetType, netVars

LEMMA EnvKept ==
  ASSUME EnvType, UNCHANGED envVars
  PROVE  EnvType'
  BY DEF EnvType, envVars

-----------------------------------------------------------------------------
(* TypeOK is kept: the steps of the data sender. *)

LEMMA TypeAdvanceBytes ==
  ASSUME TypeOK, NEW nb \in FlowSizes, AdvanceBytes(nb)
  PROVE  TypeOK'
<1>1. SenderType /\ ReceiverType /\ NetType /\ EnvType
  BY DEF TypeOK
<1>2. nb \in Nat
  BY FlowAssumption
<1>3. curseq \in Nat /\ t_seqno \in Int
  BY <1>1 DEF SenderType
<1>4. SenderType'
  <2>1. /\ curseq' = curseq + nb
        /\ sender_retransmit_timer' = TRUE
        /\ credit_recv_state' = "CREDIT_REQUEST_SENT"
        /\ UNCHANGED <<t_seqno, credit_recved, credit_recved_rtt, credit_stop_timer,
                       restarted>>
    BY DEF AdvanceBytes
  <2> QED
    BY <1>1, <1>2, <2>1 DEF SenderType, RecvStates
<1>5. ReceiverType'
  BY <1>1, ReceiverKept DEF AdvanceBytes
<1>6. NetType'
  <2>1. curseq + nb - t_seqno \in Int
    BY <1>2, <1>3
  <2>2. CreditRequest(pkt_remaining(curseq + nb - t_seqno)) \in FlowPackets
    BY <2>1, RequestType
  <2>3. /\ flow' = Append(flow, CreditRequest(pkt_remaining(curseq + nb - t_seqno)))
        /\ credits' = credits /\ nacks' = nacks
    BY DEF AdvanceBytes
  <2> QED
    BY <1>1, <2>2, <2>3, AppendProperties DEF NetType
<1>7. EnvType'
  <2>1. /\ messages' = messages + 1 /\ messages < MaxMessages
        /\ err' \in {err, "Couldn't schedule timer"}
        /\ UNCHANGED <<drops, fct_bytes, delivered>>
    BY DEF AdvanceBytes
  <2>2. messages' \in 0..MaxMessages
    <3>1. messages \in 0..MaxMessages /\ MaxMessages \in Nat
      BY <1>1, BoundAssumption DEF EnvType
    <3>2. messages' = messages + 1 /\ messages < MaxMessages
      BY <2>1
    <3> QED
      BY <3>1, <3>2
  <2>3. err' \in Errors
    BY <1>1, <2>1 DEF EnvType, Errors
  <2> QED
    BY <1>1, <2>1, <2>2, <2>3 DEF EnvType
<1> QED
  BY <1>4, <1>5, <1>6, <1>7 DEF TypeOK

LEMMA TypeCreditActive ==
  ASSUME TypeOK, NEW updateDue \in BOOLEAN, recv_credit_active(updateDue)
  PROVE  TypeOK'
<1>1. SenderType /\ ReceiverType /\ NetType /\ EnvType
  BY DEF TypeOK
<1>2. Head(credits) \in Nat /\ Tail(credits) \in Seq(Nat)
  BY <1>1, CreditHead DEF recv_credit_active
<1>3. datalen_remaining > 0 =>
        construct_data(Head(credits)) \in FlowPackets /\ NextDatalen \in Nat
  BY <1>1, <1>2, DataType
<1>4. SenderType'
  <2>1. /\ credit_recv_state' = "CREDIT_RECEIVING"
        /\ sender_retransmit_timer' \in BOOLEAN
        /\ credit_stop_timer' \in BOOLEAN
    BY DEF recv_credit_active
  <2>2. credit_recved_rtt' \in Nat
    BY <1>1 DEF recv_credit_active, SenderType
  <2>3. t_seqno' \in Int
    BY <1>1, <1>3 DEF recv_credit_active, SenderType
  <2>4. UNCHANGED <<curseq, credit_recved, restarted>>
    BY DEF recv_credit_active
  <2> QED
    BY <1>1, <2>1, <2>2, <2>3, <2>4 DEF SenderType, RecvStates
<1>5. ReceiverType'
  BY <1>1, ReceiverKept DEF recv_credit_active
<1>6. NetType'
  <2>1. /\ credits' = Tail(credits) /\ nacks' = nacks
        /\ flow' = IF datalen_remaining > 0
                   THEN Append(flow, construct_data(Head(credits))) ELSE flow
    BY DEF recv_credit_active
  <2> QED
    BY <1>1, <1>2, <1>3, <2>1, AppendProperties DEF NetType
<1>7. EnvType'
  BY <1>1, EnvKept DEF recv_credit_active
<1> QED
  BY <1>4, <1>5, <1>6, <1>7 DEF TypeOK

LEMMA TypeCreditStopSent ==
  ASSUME TypeOK, recv_credit_stop_sent
  PROVE  TypeOK'
<1>1. SenderType /\ ReceiverType /\ NetType /\ EnvType
  BY DEF TypeOK
<1>2. Head(credits) \in Nat /\ Tail(credits) \in Seq(Nat)
  BY <1>1, CreditHead DEF recv_credit_stop_sent
<1>3. datalen_remaining > 0 =>
        construct_data(Head(credits)) \in FlowPackets /\ NextDatalen \in Nat
  BY <1>1, <1>2, DataType
<1>4. SenderType'
  BY <1>1, <1>3 DEF recv_credit_stop_sent, SenderType
<1>5. ReceiverType'
  BY <1>1, ReceiverKept DEF recv_credit_stop_sent
<1>6. NetType'
  <2>1. /\ credits' = Tail(credits) /\ nacks' = nacks
        /\ flow' = IF datalen_remaining > 0
                   THEN Append(flow, construct_data(Head(credits))) ELSE flow
    BY DEF recv_credit_stop_sent
  <2> QED
    BY <1>1, <1>2, <1>3, <2>1, AppendProperties DEF NetType
<1>7. EnvType'
  BY <1>1, EnvKept DEF recv_credit_stop_sent
<1> QED
  BY <1>4, <1>5, <1>6, <1>7 DEF TypeOK

LEMMA TypeCreditWasted ==
  ASSUME TypeOK, recv_credit_wasted
  PROVE  TypeOK'
<1>1. SenderType /\ ReceiverType /\ NetType /\ EnvType
  BY DEF TypeOK
<1>2. Tail(credits) \in Seq(Nat)
  BY <1>1, CreditHead DEF recv_credit_wasted
<1>3. SenderType'
  BY <1>1 DEF recv_credit_wasted, SenderType
<1>4. NetType'
  BY <1>1, <1>2 DEF recv_credit_wasted, NetType
<1>5. ReceiverType' /\ EnvType'
  BY <1>1, ReceiverKept, EnvKept DEF recv_credit_wasted
<1> QED
  BY <1>3, <1>4, <1>5 DEF TypeOK

\* A request for what is left is a packet.
LEMMA ConstructRequestType ==
  ASSUME SenderType
  PROVE  construct_credit_request \in FlowPackets
<1>1. datalen_remaining \in Int
  BY DEF SenderType, datalen_remaining
<1> QED
  BY <1>1, RequestType DEF construct_credit_request

LEMMA TypeNack ==
  ASSUME TypeOK, recv_nack
  PROVE  TypeOK'
<1>1. SenderType /\ ReceiverType /\ NetType /\ EnvType
  BY DEF TypeOK
<1>2. Head(nacks) \in Int /\ Tail(nacks) \in Seq(Int)
  BY <1>1, NackHead DEF recv_nack
<1>3. SenderType'
  BY <1>1, <1>2 DEF recv_nack, SenderType, RecvStates, timer_after_nack
<1>4. NetType'
  <2>1. construct_credit_request \in FlowPackets
    BY <1>1, ConstructRequestType
  <2>2. /\ nacks' = Tail(nacks) /\ credits' = credits
        /\ flow' = Append(flow, construct_credit_request) \/ flow' = flow
    BY DEF recv_nack
  <2>3. Append(flow, construct_credit_request) \in Seq(FlowPackets)
    BY <1>1, <2>1, AppendProperties DEF NetType
  <2> QED
    BY <1>1, <1>2, <2>2, <2>3 DEF NetType
<1>5. ReceiverType' /\ EnvType'
  BY <1>1, ReceiverKept, EnvKept DEF recv_nack
<1> QED
  BY <1>3, <1>4, <1>5 DEF TypeOK

LEMMA TypeSendStop ==
  ASSUME TypeOK, send_credit_stop
  PROVE  TypeOK'
<1>1. SenderType /\ ReceiverType /\ NetType /\ EnvType
  BY DEF TypeOK
<1>2. SenderType'
  BY <1>1 DEF send_credit_stop, SenderType, RecvStates, timer_after_stop
<1>3. NetType'
  BY <1>1, StopType, AppendProperties DEF send_credit_stop, NetType
<1>4. ReceiverType' /\ EnvType'
  BY <1>1, ReceiverKept, EnvKept DEF send_credit_stop
<1> QED
  BY <1>2, <1>3, <1>4 DEF TypeOK

LEMMA TypeRetransmit ==
  ASSUME TypeOK,
         retransmit_request \/ retransmit_close_wait \/ retransmit_close
  PROVE  TypeOK'
<1>1. SenderType /\ ReceiverType /\ NetType /\ EnvType
  BY DEF TypeOK
<1>2. CASE retransmit_request
  <2>1. SenderType'
    BY <1>1, <1>2 DEF retransmit_request, SenderType, RecvStates
  <2>2. NetType'
    <3>1. construct_credit_request \in FlowPackets
      BY <1>1, ConstructRequestType
    <3>2. /\ flow' = Append(flow, construct_credit_request)
          /\ credits' = credits /\ nacks' = nacks
      BY <1>2 DEF retransmit_request
    <3> QED
      BY <1>1, <3>1, <3>2, AppendProperties DEF NetType
  <2>3. ReceiverType' /\ EnvType'
    BY <1>1, <1>2, ReceiverKept, EnvKept DEF retransmit_request
  <2> QED
    BY <2>1, <2>2, <2>3 DEF TypeOK
<1>3. CASE retransmit_close_wait
  <2>1. SenderType'
    BY <1>1, <1>3 DEF retransmit_close_wait, SenderType, RecvStates
  <2>2. ReceiverType' /\ EnvType' /\ NetType'
    BY <1>1, <1>3, ReceiverKept, EnvKept, NetKept DEF retransmit_close_wait
  <2> QED
    BY <2>1, <2>2 DEF TypeOK
<1>4. CASE retransmit_close
  <2>1. SenderType'
    BY <1>1, <1>4 DEF retransmit_close, SenderType, RecvStates
  <2>2. NetType'
    <3>1. /\ flow' = Append(flow, CreditStop) \/ flow' = flow
          /\ credits' = credits /\ nacks' = nacks
      BY <1>4 DEF retransmit_close
    <3>2. Append(flow, CreditStop) \in Seq(FlowPackets)
      BY <1>1, StopType, AppendProperties DEF NetType
    <3> QED
      BY <1>1, <3>1, <3>2 DEF NetType
  <2>3. ReceiverType'
    BY <1>1, <1>4, ReceiverKept DEF retransmit_close
  <2>4. EnvType'
    BY <1>1, <1>4 DEF retransmit_close, EnvType, Errors
  <2> QED
    BY <2>1, <2>2, <2>3, <2>4 DEF TypeOK
<1> QED
  BY <1>2, <1>3, <1>4

-----------------------------------------------------------------------------
(* TypeOK is kept: the steps of the data receiver and of the network. *)

LEMMA TypeCreditRequest ==
  ASSUME TypeOK, recv_credit_request
  PROVE  TypeOK'
<1>1. SenderType /\ ReceiverType /\ NetType /\ EnvType
  BY DEF TypeOK
<1>2. Tail(flow) \in Seq(FlowPackets)
  BY <1>1, FlowHead DEF recv_credit_request, ReceiverMayReceive
<1>3. c_seqno \in Nat /\ next_c_seqno \in Nat
  BY <1>1 DEF ReceiverType, next_c_seqno, Greater
<1>4. ReceiverType'
  <2>1. /\ credit_send_state' \in {"CREDIT_SENDING", credit_send_state}
        /\ c_seqno' \in {next_c_seqno, c_seqno}
        /\ cur_credit_rate' \in {0, 1, cur_credit_rate}
        /\ UNCHANGED <<recv_next, c_recv_next, wait_retransmission, credit_total,
                       credit_dropped, receiver_retransmit_timer>>
    BY DEF recv_credit_request, InitialRate
  <2>2. send_credit_timer' \in BOOLEAN /\ fct_timer' \in BOOLEAN
    BY DEF recv_credit_request, fct_timer_after_request
  <2> QED
    BY <1>1, <1>3, <2>1, <2>2 DEF ReceiverType, SendStates
<1>5. NetType'
  <2>1. Append(credits, c_seqno) \in Seq(Nat)
    BY <1>1, <1>3, AppendProperties DEF NetType
  <2>2. /\ flow' = Tail(flow) /\ nacks' = nacks
        /\ credits' \in {Append(credits, c_seqno), credits}
    BY DEF recv_credit_request
  <2> QED
    BY <1>1, <1>2, <2>1, <2>2 DEF NetType
<1>6. SenderType' /\ EnvType'
  BY <1>1, SenderKept, EnvKept DEF recv_credit_request
<1> QED
  BY <1>4, <1>5, <1>6 DEF TypeOK

\* What process_ack does to types, for a data packet of a legal size.
LEMMA TypeProcessAck ==
  ASSUME TypeOK, NEW p \in FlowPackets, p.type = "DATA", process_ack(p)
  PROVE  /\ recv_next' \in Int
         /\ wait_retransmission' \in BOOLEAN
         /\ receiver_retransmit_timer' \in BOOLEAN
         /\ nacks' \in Seq(Int)
         /\ delivered' \in Seq(Int)
<1> DEFINE datalen == p.size - xpass_hdr_size
           bytes == [i \in 1..datalen |-> p.seqno + i - 1]
<1>1. ReceiverType /\ nacks \in Seq(Int) /\ delivered \in Seq(Int)
  BY DEF TypeOK, NetType, EnvType
<1>2. p.seqno \in Int /\ p.size \in Nat /\ p.size >= xpass_hdr_size
  BY DataFields
<1>3. datalen \in Nat
  BY <1>2, SizeFacts
<1>4. recv_next \in Int
  BY <1>1 DEF ReceiverType
<1>5. nacks' \in Seq(Int)
  <2>1. nacks' \in {Append(nacks, recv_next), nacks}
    BY DEF process_ack, construct_nack
  <2>2. Append(nacks, recv_next) \in Seq(Int)
    BY <1>1, <1>4, AppendProperties
  <2> QED
    BY <1>1, <2>1, <2>2
<1>6. recv_next' \in {recv_next + datalen, recv_next}
  BY DEF process_ack
<1>7. delivered' \in Seq(Int)
  <2>1. delivered' \in {delivered \o bytes, delivered}
    BY DEF process_ack
  <2>2. \A i \in 1..datalen : p.seqno + i - 1 \in Int
    BY <1>2, <1>3
  <2>3. bytes \in Seq(Int)
    <3> HIDE DEF datalen
    <3>1. bytes \in [1..datalen -> Int]
      BY <2>2
    <3> QED
      BY <1>3, <3>1, SeqDef, Zenon
  <2>4. delivered \o bytes \in Seq(Int)
    BY <1>1, <2>3, ConcatProperties
  <2> QED
    BY <1>1, <2>1, <2>4
<1>8. wait_retransmission' \in BOOLEAN /\ receiver_retransmit_timer' \in BOOLEAN
  BY <1>1 DEF process_ack, ReceiverType
<1> HIDE DEF datalen
<1>9. recv_next' \in Int
  BY <1>3, <1>4, <1>6
<1> QED
  BY <1>5, <1>7, <1>8, <1>9

LEMMA TypeData ==
  ASSUME TypeOK, recv_data
  PROVE  TypeOK'
<1> DEFINE p == Head(flow)
           distance == p.credit_seq - c_recv_next
<1>1. SenderType /\ ReceiverType /\ NetType /\ EnvType
  BY DEF TypeOK
<1>2. p \in FlowPackets /\ Tail(flow) \in Seq(FlowPackets)
  BY <1>1, FlowHead DEF recv_data, ReceiverMayReceive
<1>3. p.type = "DATA"
  BY DEF recv_data
<1>4. p.credit_seq \in Nat
  BY <1>2, <1>3, DataFields
<1>5. /\ flow' = Tail(flow)
      /\ UNCHANGED <<senderVars, credit_send_state, c_seqno, cur_credit_rate,
                     send_credit_timer, fct_timer, credits,
                     messages, drops, fct_bytes>>
  BY DEF recv_data
<1>6. SenderType'
  BY <1>1, <1>5, SenderKept
<1>7. CASE distance < 0 \/ p.size < xpass_hdr_size
  <2>1. /\ err' \in Errors
        /\ UNCHANGED <<c_recv_next, credit_total, credit_dropped, nacks,
                       recv_next, wait_retransmission, delivered,
                       receiver_retransmit_timer>>
    BY <1>7 DEF recv_data, Errors
  <2>2. ReceiverType'
    BY <1>1, <1>5, <2>1 DEF ReceiverType
  <2>3. NetType' /\ EnvType'
    BY <1>1, <1>2, <1>5, <2>1 DEF NetType, EnvType
  <2> QED
    BY <1>6, <2>2, <2>3 DEF TypeOK
<1>8. CASE ~(distance < 0 \/ p.size < xpass_hdr_size)
  <2>1. /\ count_credits(distance)
        /\ c_recv_next' = p.credit_seq + 1
        /\ process_ack(p)
        /\ err' = err
    BY <1>8 DEF recv_data
  <2>2. distance \in Nat
    BY <1>1, <1>4, <1>8 DEF ReceiverType
  <2> HIDE DEF p, distance
  <2>3. credit_total' \in Nat /\ credit_dropped' \in Nat /\ c_recv_next' \in Nat
    BY <1>1, <1>4, <2>1, <2>2 DEF ReceiverType, count_credits
  <2>4. /\ recv_next' \in Int
        /\ wait_retransmission' \in BOOLEAN
        /\ receiver_retransmit_timer' \in BOOLEAN
        /\ nacks' \in Seq(Int)
        /\ delivered' \in Seq(Int)
    BY <1>2, <1>3, <2>1, TypeProcessAck
  <2>5. ReceiverType'
    BY <1>1, <1>5, <2>3, <2>4 DEF ReceiverType
  <2>6. NetType' /\ EnvType'
    BY <1>1, <1>2, <1>5, <2>1, <2>4 DEF NetType, EnvType
  <2> QED
    BY <1>6, <2>5, <2>6 DEF TypeOK
<1> QED
  BY <1>7, <1>8

LEMMA TypeStop ==
  ASSUME TypeOK, recv_credit_stop
  PROVE  TypeOK'
<1>1. SenderType /\ ReceiverType /\ NetType /\ EnvType
  BY DEF TypeOK
<1>2. Tail(flow) \in Seq(FlowPackets)
  BY <1>1, FlowHead DEF recv_credit_stop, ReceiverMayReceive
<1>3. SenderType'
  BY <1>1, SenderKept DEF recv_credit_stop
<1>4. ReceiverType'
  BY <1>1 DEF recv_credit_stop, stop_credits, ReceiverType, SendStates, rateVars
<1>5. NetType'
  BY <1>1, <1>2 DEF recv_credit_stop, NetType
<1>6. EnvType'
  BY <1>1 DEF recv_credit_stop, EnvType, Errors
<1> QED
  BY <1>3, <1>4, <1>5, <1>6 DEF TypeOK

LEMMA TypeSendCredit ==
  ASSUME TypeOK, NEW feedback \in BOOLEAN, send_credit(feedback)
  PROVE  TypeOK'
<1>1. SenderType /\ ReceiverType /\ NetType /\ EnvType
  BY DEF TypeOK
<1>2. c_seqno \in Nat /\ next_c_seqno \in Nat
  BY <1>1 DEF ReceiverType, next_c_seqno, Greater
<1>3. ReceiverType'
  BY <1>1, <1>2 DEF send_credit, credit_feedback_control, ReceiverType
<1>4. NetType'
  <2>1. Append(credits, c_seqno) \in Seq(Nat)
    BY <1>1, <1>2, AppendProperties DEF NetType
  <2> QED
    BY <1>1, <2>1 DEF send_credit, NetType
<1>5. SenderType' /\ EnvType'
  BY <1>1, SenderKept, EnvKept DEF send_credit
<1> QED
  BY <1>3, <1>4, <1>5 DEF TypeOK

LEMMA TypeReceiverTimers ==
  ASSUME TypeOK, handle_receiver_retransmit \/ handle_fct
  PROVE  TypeOK'
<1>1. SenderType /\ ReceiverType /\ NetType /\ EnvType
  BY DEF TypeOK
<1>2. recv_next \in Int
  BY <1>1 DEF ReceiverType
<1>3. CASE handle_receiver_retransmit
  <2>1. ReceiverType'
    BY <1>1, <1>3 DEF handle_receiver_retransmit, ReceiverType, rateVars
  <2>2. Append(nacks, recv_next) \in Seq(Int)
    BY <1>1, <1>2, AppendProperties DEF NetType
  <2>3. NetType'
    BY <1>1, <1>3, <2>2 DEF handle_receiver_retransmit, NetType
  <2>4. SenderType' /\ EnvType'
    BY <1>1, <1>3, SenderKept, EnvKept DEF handle_receiver_retransmit
  <2> QED
    BY <2>1, <2>3, <2>4 DEF TypeOK
<1>4. CASE handle_fct
  <2>1. ReceiverType'
    BY <1>1, <1>4 DEF handle_fct, ReceiverType, SendStates, rateVars
  <2>2. EnvType'
    BY <1>1, <1>2, <1>4 DEF handle_fct, EnvType
  <2>3. SenderType' /\ NetType'
    BY <1>1, <1>4, SenderKept, NetKept DEF handle_fct
  <2> QED
    BY <2>1, <2>2, <2>3 DEF TypeOK
<1> QED
  BY <1>3, <1>4

LEMMA TypeDrop ==
  ASSUME TypeOK, DropCredit \/ DropFlow \/ DropNack
  PROVE  TypeOK'
<1>1. SenderType /\ ReceiverType /\ NetType /\ EnvType
  BY DEF TypeOK
<1>2. Drop
  BY DEF DropCredit, DropFlow, DropNack
<1>3. SenderType' /\ ReceiverType'
  BY <1>1, <1>2, SenderKept, ReceiverKept DEF Drop
<1>4. EnvType'
  BY <1>1, <1>2, BoundAssumption DEF Drop, EnvType
<1>5. CASE DropCredit
  BY <1>1, <1>3, <1>4, <1>5, CreditHead DEF DropCredit, NetType, TypeOK
<1>6. CASE DropFlow
  BY <1>1, <1>3, <1>4, <1>6, FlowHead DEF DropFlow, NetType, TypeOK
<1>7. CASE DropNack
  BY <1>1, <1>3, <1>4, <1>7, NackHead DEF DropNack, NetType, TypeOK
<1> QED
  BY <1>5, <1>6, <1>7

LEMMA TypeNext ==
  ASSUME TypeOK, [Next]_vars
  PROVE  TypeOK'
<1>1. CASE UNCHANGED vars
  BY <1>1, SenderKept, ReceiverKept, NetKept, EnvKept DEF TypeOK, vars
<1>2. CASE \E nb \in FlowSizes : AdvanceBytes(nb)
  BY <1>2, TypeAdvanceBytes
<1>3. CASE SenderStep
  BY <1>3, TypeCreditActive, TypeCreditStopSent, TypeCreditWasted, TypeNack,
     TypeSendStop, TypeRetransmit DEF SenderStep
<1>4. CASE ReceiverStep
  BY <1>4, TypeCreditRequest, TypeData, TypeStop, TypeSendCredit,
     TypeReceiverTimers DEF ReceiverStep
<1>5. CASE DropCredit \/ DropFlow \/ DropNack
  BY <1>5, TypeDrop
<1> QED
  BY <1>1, <1>2, <1>3, <1>4, <1>5 DEF Next

LEMMA TypeInit == Init => TypeOK
<1> SUFFICES ASSUME Init PROVE TypeOK
  OBVIOUS
<1>1. SenderType
  <2>1. /\ curseq = 1 /\ t_seqno = 1 /\ credit_recved = 0 /\ credit_recved_rtt = 0
    BY DEF Init
  <2>2. /\ credit_recv_state = "CLOSED"
        /\ sender_retransmit_timer \in BOOLEAN /\ credit_stop_timer \in BOOLEAN
        /\ restarted \in BOOLEAN
    BY Zenon DEF Init
  <2> QED
    BY <2>1, <2>2 DEF SenderType, RecvStates
<1>2. ReceiverType
  <2>1. /\ recv_next = 1 /\ c_seqno = 1 /\ c_recv_next = 1
        /\ cur_credit_rate = 0 /\ credit_total = 0 /\ credit_dropped = 0
    BY DEF Init
  <2>2. /\ credit_send_state = "CLOSED"
        /\ wait_retransmission \in BOOLEAN /\ send_credit_timer \in BOOLEAN
        /\ fct_timer \in BOOLEAN /\ receiver_retransmit_timer \in BOOLEAN
    BY Zenon DEF Init
  <2> QED
    BY <2>1, <2>2 DEF ReceiverType, SendStates
<1>3. NetType
  BY EmptySeq DEF Init, NetType
<1>4. EnvType
  BY EmptySeq, BoundAssumption DEF Init, EnvType, Errors
<1> QED
  BY <1>1, <1>2, <1>3, <1>4 DEF TypeOK

\* Every variable of both agents and of the network keeps its type, for every
\* choice of frame sizes, flow sizes, losses and bounds; in particular no data
\* packet is shorter than its header (the check of process_ack).
THEOREM Typing == Spec => []TypeOK
  BY TypeInit, TypeNext, PTL DEF Spec

-----------------------------------------------------------------------------
(* The timers of the data sender. *)

\* Steps of the data receiver and of the network leave the data sender alone.
LEMMA SenderAlone ==
  ASSUME ReceiverStep \/ DropCredit \/ DropFlow \/ DropNack
  PROVE  UNCHANGED senderVars
<1>1. ASSUME ReceiverStep PROVE UNCHANGED senderVars
  BY <1>1 DEF ReceiverStep, recv_credit_request, recv_data, recv_credit_stop,
     send_credit, handle_receiver_retransmit, handle_fct
<1>2. ASSUME DropCredit \/ DropFlow \/ DropNack PROVE UNCHANGED senderVars
  BY <1>2 DEF DropCredit, DropFlow, DropNack, Drop
<1> QED
  BY <1>1, <1>2

LEMMA SenderTimersNext ==
  ASSUME TypeOK, SenderTimers, [Next]_vars
  PROVE  SenderTimers'
<1>1. /\ sender_retransmit_timer \in BOOLEAN
      /\ credit_stop_timer \in BOOLEAN
  BY DEF TypeOK, SenderType
<1>2. ASSUME UNCHANGED senderVars PROVE SenderTimers'
  BY <1>2, Zenon DEF SenderTimers, senderVars
<1>3. CASE UNCHANGED vars
  BY <1>2, <1>3 DEF vars
<1>4. ASSUME NEW nb \in FlowSizes, AdvanceBytes(nb) PROVE SenderTimers'
  <2>1. /\ credit_recv_state = "CLOSED"
        /\ sender_retransmit_timer' = TRUE
        /\ credit_recv_state' = "CREDIT_REQUEST_SENT"
        /\ credit_stop_timer' = credit_stop_timer
    BY <1>4 DEF AdvanceBytes, MayAdvance
  <2> QED
    BY <2>1 DEF SenderTimers
<1>5. ASSUME NEW updateDue \in BOOLEAN, recv_credit_active(updateDue)
      PROVE  SenderTimers'
  <2>1. /\ credit_recv_state' = "CREDIT_RECEIVING"
        /\ sender_retransmit_timer' =
             (credit_recv_state = "CREDIT_RECEIVING" /\ sender_retransmit_timer)
    BY <1>5 DEF recv_credit_active
  <2> QED
    BY <2>1 DEF SenderTimers
<1>6. CASE recv_credit_stop_sent \/ recv_credit_wasted
  <2>1. UNCHANGED <<credit_recv_state, sender_retransmit_timer, credit_stop_timer>>
    BY <1>6 DEF recv_credit_stop_sent, recv_credit_wasted
  <2> QED
    BY <2>1, Zenon DEF SenderTimers
<1>7. CASE recv_nack
  <2>1. /\ credit_recv_state' =
             IF credit_recv_state \in {"CREDIT_STOP_SENT", "CLOSE_WAIT", "CLOSED"}
             THEN "CREDIT_REQUEST_SENT" ELSE credit_recv_state
        /\ sender_retransmit_timer' =
             (\/ credit_recv_state \in {"CREDIT_STOP_SENT", "CLOSE_WAIT", "CLOSED"}
              \/ sender_retransmit_timer)
        /\ credit_stop_timer' = credit_stop_timer
    BY <1>7 DEF recv_nack, timer_after_nack
  <2> QED
    BY <2>1 DEF SenderTimers
<1>8. CASE send_credit_stop
  <2>1. /\ credit_recv_state' = "CREDIT_STOP_SENT"
        /\ sender_retransmit_timer' = TRUE
        /\ credit_stop_timer' = FALSE
    BY <1>8 DEF send_credit_stop, timer_after_stop
  <2> QED
    BY <2>1 DEF SenderTimers
<1>9. CASE retransmit_request
  <2>1. /\ credit_recv_state \in {"CREDIT_REQUEST_SENT", "CREDIT_STOP_SENT"}
        /\ credit_recv_state' = "CREDIT_REQUEST_SENT"
        /\ UNCHANGED <<sender_retransmit_timer, credit_stop_timer>>
    BY <1>9 DEF retransmit_request, must_request
  <2> QED
    BY <2>1 DEF SenderTimers
<1>10. CASE retransmit_close_wait
  <2>1. /\ credit_recv_state = "CREDIT_STOP_SENT"
        /\ credit_recv_state' = "CLOSE_WAIT"
        /\ UNCHANGED <<sender_retransmit_timer, credit_stop_timer>>
    BY <1>10 DEF retransmit_close_wait
  <2> QED
    BY <2>1 DEF SenderTimers
<1>11. CASE retransmit_close
  <2> DEFINE again == credit_recv_state = "CLOSE_WAIT" /\ credit_recved # 0
  <2>1. credit_recv_state = "CLOSE_WAIT"
    BY <1>11 DEF retransmit_close, SenderTimers
  <2>2. /\ sender_retransmit_timer' = again
        /\ credit_recv_state' = IF again THEN "CREDIT_STOP_SENT" ELSE "CLOSED"
        /\ credit_stop_timer' = credit_stop_timer
    BY <1>11, <2>1 DEF retransmit_close
  <2> HIDE DEF again
  <2> QED
    BY <2>1, <2>2 DEF SenderTimers
<1>12. CASE ReceiverStep \/ DropCredit \/ DropFlow \/ DropNack
  BY <1>2, <1>12, SenderAlone
<1> QED
  BY <1>3, <1>4, <1>5, <1>6, <1>7, <1>8, <1>9, <1>10, <1>11, <1>12
  DEF Next, SenderStep

\* Whatever is lost, the data sender has its retransmit timer pending exactly
\* while it waits for an answer to a request or a stop, and its stop timer
\* only while it receives credits: handle_sender_retransmit never runs in
\* state CLOSED, and sched() in advance_bytes finds the timer idle.
THEOREM SenderTimersSafe == Spec => []SenderTimers
<1>1. Init => SenderTimers
  BY DEF Init, SenderTimers
<1> QED
  BY <1>1, Typing, SenderTimersNext, PTL DEF Spec

-----------------------------------------------------------------------------
(* The timers of the data receiver. *)

ReceiverTimerVars == <<credit_send_state, wait_retransmission, send_credit_timer,
                       fct_timer, receiver_retransmit_timer>>

LEMMA ReceiverAlone ==
  ASSUME \/ \E nb \in FlowSizes : AdvanceBytes(nb)
         \/ SenderStep \/ DropCredit \/ DropFlow \/ DropNack
  PROVE  UNCHANGED receiverVars
<1>1. ASSUME \E nb \in FlowSizes : AdvanceBytes(nb) PROVE UNCHANGED receiverVars
  BY <1>1 DEF AdvanceBytes
<1>2. ASSUME SenderStep PROVE UNCHANGED receiverVars
  BY <1>2 DEF SenderStep, recv_credit_active, recv_credit_stop_sent,
     recv_credit_wasted, recv_nack, send_credit_stop, retransmit_request,
     retransmit_close_wait, retransmit_close
<1>3. ASSUME DropCredit \/ DropFlow \/ DropNack PROVE UNCHANGED receiverVars
  BY <1>3 DEF DropCredit, DropFlow, DropNack, Drop
<1> QED
  BY <1>1, <1>2, <1>3

LEMMA ReceiverTimersNext ==
  ASSUME TypeOK, ReceiverTimers, [Next]_vars
  PROVE  ReceiverTimers'
<1>1. /\ wait_retransmission \in BOOLEAN /\ send_credit_timer \in BOOLEAN
      /\ fct_timer \in BOOLEAN /\ receiver_retransmit_timer \in BOOLEAN
      /\ credit_send_state \in SendStates
  BY DEF TypeOK, ReceiverType
<1>2. ASSUME UNCHANGED ReceiverTimerVars PROVE ReceiverTimers'
  BY <1>2, Zenon DEF ReceiverTimers, ReceiverTimerVars
<1>3. CASE UNCHANGED vars
  BY <1>2, <1>3 DEF vars, receiverVars, ReceiverTimerVars
<1>4. CASE \/ \E nb \in FlowSizes : AdvanceBytes(nb)
           \/ SenderStep \/ DropCredit \/ DropFlow \/ DropNack
  BY <1>2, <1>4, ReceiverAlone DEF receiverVars, ReceiverTimerVars
<1>5. CASE recv_credit_request
  <2>1. credit_send_state = "CREDIT_SENDING" \/ credit_send_state \in StartStates
    BY <1>1 DEF SendStates, StartStates
  <2>2. /\ UNCHANGED <<wait_retransmission, receiver_retransmit_timer>>
        /\ fct_timer' = (fct_timer /\ credit_send_state # "CLOSE_WAIT")
        /\ send_credit_timer' =
             (credit_send_state \in StartStates \/ send_credit_timer)
        /\ credit_send_state' = IF credit_send_state \in StartStates
                                THEN "CREDIT_SENDING" ELSE credit_send_state
    BY <1>5 DEF recv_credit_request, fct_timer_after_request
  <2> QED
    BY <2>1, <2>2 DEF ReceiverTimers
<1>6. CASE recv_data
  <2>1. UNCHANGED <<credit_send_state, send_credit_timer, fct_timer>>
    BY <1>6 DEF recv_data
  <2>2. CASE UNCHANGED <<wait_retransmission, receiver_retransmit_timer>>
    BY <1>2, <2>1, <2>2 DEF ReceiverTimerVars
  <2>3. CASE process_ack(Head(flow))
    <3> DEFINE seqno == Head(flow).seqno
    <3>1. receiver_retransmit_timer = wait_retransmission
      BY <1>1 DEF ReceiverTimers
    <3>2. seqno \in Int /\ recv_next \in Int
      BY <1>6, FlowHead, DataFields
      DEF recv_data, ReceiverMayReceive, TypeOK, ReceiverType
    <3>3. ASSUME seqno = recv_next
          PROVE  receiver_retransmit_timer' = wait_retransmission'
      <4>1. ~(seqno > recv_next)
        BY <3>2, <3>3
      <4>2. wait_retransmission' = FALSE
        BY <2>3, <3>3 DEF process_ack
      <4>3. receiver_retransmit_timer' =
              IF wait_retransmission THEN FALSE ELSE receiver_retransmit_timer
        BY <2>3, <3>3, <4>1 DEF process_ack
      <4> QED
        BY <1>1, <3>1, <4>2, <4>3
    <3>4. ASSUME seqno # recv_next /\ seqno > recv_next
          PROVE  receiver_retransmit_timer' = wait_retransmission'
      <4>1. wait_retransmission' = TRUE
        BY <2>3, <3>4 DEF process_ack
      <4>2. CASE wait_retransmission
        <5>1. receiver_retransmit_timer' = receiver_retransmit_timer
          BY <2>3, <3>4, <4>2 DEF process_ack
        <5> QED
          BY <1>1, <3>1, <4>1, <4>2, <5>1
      <4>3. CASE ~wait_retransmission
        <5>1. receiver_retransmit_timer' = TRUE
          BY <2>3, <3>4, <4>3 DEF process_ack
        <5> QED
          BY <4>1, <5>1
      <4> QED
        BY <4>2, <4>3
    <3>5. ASSUME seqno # recv_next /\ ~(seqno > recv_next)
          PROVE  receiver_retransmit_timer' = wait_retransmission'
      <4>1. wait_retransmission' = wait_retransmission
        BY <1>1, <2>3, <3>5 DEF process_ack
      <4>2. receiver_retransmit_timer' = receiver_retransmit_timer
        BY <2>3, <3>5 DEF process_ack
      <4> QED
        BY <3>1, <4>1, <4>2
    <3>6. receiver_retransmit_timer' = wait_retransmission'
      BY <3>3, <3>4, <3>5
    <3> QED
      BY <2>1, <3>6 DEF ReceiverTimers
  <2> QED
    BY <1>6, <2>2, <2>3 DEF recv_data
<1>7. CASE recv_credit_stop
  <2>1. /\ credit_send_state' = "CLOSE_WAIT"
        /\ send_credit_timer' = FALSE /\ fct_timer' = TRUE
        /\ UNCHANGED <<wait_retransmission, receiver_retransmit_timer>>
    BY <1>7 DEF recv_credit_stop, stop_credits
  <2> QED
    BY <2>1 DEF ReceiverTimers
<1>8. ASSUME NEW feedback \in BOOLEAN, send_credit(feedback) PROVE ReceiverTimers'
  <2>1. UNCHANGED ReceiverTimerVars
    BY <1>8 DEF send_credit, ReceiverTimerVars
  <2> QED
    BY <1>2, <2>1
<1>9. CASE handle_receiver_retransmit
  <2>1. /\ receiver_retransmit_timer' = wait_retransmission
        /\ UNCHANGED <<credit_send_state, wait_retransmission, send_credit_timer,
                       fct_timer>>
    BY <1>9 DEF handle_receiver_retransmit
  <2> QED
    BY <2>1 DEF ReceiverTimers
<1>10. CASE handle_fct
  <2>1. /\ fct_timer /\ fct_timer' = FALSE
        /\ credit_send_state' = "CLOSED"
        /\ UNCHANGED <<wait_retransmission, send_credit_timer,
                       receiver_retransmit_timer>>
    BY <1>10 DEF handle_fct
  <2> QED
    BY <2>1 DEF ReceiverTimers
<1> QED
  BY <1>3, <1>4, <1>5, <1>6, <1>7, <1>8, <1>9, <1>10 DEF Next, ReceiverStep

\* Whatever is lost, the data receiver paces credits exactly in CREDIT_SENDING,
\* has a report pending exactly in CLOSE_WAIT, and repeats a NACK exactly while
\* it waits for a retransmission.
THEOREM ReceiverTimersSafe == Spec => []ReceiverTimers
<1>1. Init => ReceiverTimers
  BY DEF Init, ReceiverTimers
<1> QED
  BY <1>1, Typing, ReceiverTimersNext, PTL DEF Spec

-----------------------------------------------------------------------------
(* The order of credits.  First what Append and Tail do to Ordered, as facts  *)
(* about sequences, then the steps.                                           *)

\* The elements of a tail and of an extended sequence.
LEMMA TailElements ==
  ASSUME NEW S, NEW s \in Seq(S), s # <<>>
  PROVE  /\ Len(s) \in Nat /\ 1 \in 1..Len(s)
         /\ Head(s) = s[1]
         /\ \A i \in 1..Len(Tail(s)) :
              i \in Nat /\ i + 1 \in 1..Len(s) /\ Tail(s)[i] = s[i + 1]
<1>1. Len(s) \in Nat /\ Len(s) # 0
  BY LenProperties, EmptySeq
<1>2. /\ Head(s) = s[1] /\ Len(Tail(s)) = Len(s) - 1
      /\ \A i \in 1..(Len(s) - 1) : Tail(s)[i] = s[i + 1]
  BY <1>1, HeadTailProperties
<1> QED
  BY <1>1, <1>2

LEMMA AppendElements ==
  ASSUME NEW S, NEW s \in Seq(S), NEW e \in S
  PROVE  \A i \in 1..Len(Append(s, e)) :
           \/ i \in 1..Len(s) /\ Append(s, e)[i] = s[i]
           \/ i = Len(s) + 1 /\ Append(s, e)[i] = e
<1>1. /\ Len(s) \in Nat
      /\ Len(Append(s, e)) = Len(s) + 1
      /\ \A i \in 1..Len(s) : Append(s, e)[i] = s[i]
      /\ Append(s, e)[Len(s) + 1] = e
  BY AppendProperties, LenProperties
<1> QED
  BY <1>1

\* A packet that carries no credit number changes nothing.
LEMMA OrderedOtherSent ==
  ASSUME NEW f \in Seq(FlowPackets), NEW cs \in Seq(Nat), NEW lo \in Nat,
         NEW hi \in Nat, NEW p \in FlowPackets, ~IsData(p), Ordered(f, cs, lo, hi)
  PROVE  Ordered(Append(f, p), cs, lo, hi)
<1> DEFINE g == Append(f, p)
<1>1. \A i \in 1..Len(g) : IsData(g[i]) => i \in 1..Len(f) /\ g[i] = f[i]
  BY AppendElements
<1> HIDE DEF g
<1>2. /\ lo <= hi
      /\ \A i \in 1..Len(cs) : lo <= cs[i] /\ cs[i] < hi
      /\ \A i, j \in 1..Len(cs) : i < j => cs[i] < cs[j]
  BY DEF Ordered
<1>3. \A i \in 1..Len(g) :
        IsData(g[i]) => lo <= g[i].credit_seq /\ g[i].credit_seq < hi
  BY <1>1 DEF Ordered
<1>4. \A i, j \in 1..Len(g) :
        i < j /\ IsData(g[i]) /\ IsData(g[j]) => g[i].credit_seq < g[j].credit_seq
  BY <1>1 DEF Ordered
<1>5. \A i \in 1..Len(g), j \in 1..Len(cs) : IsData(g[i]) => g[i].credit_seq < cs[j]
  BY <1>1 DEF Ordered
<1>6. Ordered(g, cs, lo, hi)
  BY <1>2, <1>3, <1>4, <1>5 DEF Ordered
<1> QED
  BY <1>6 DEF g

\* Neither does taking the first packet of the flow away.
LEMMA OrderedFlowTail ==
  ASSUME NEW f \in Seq(FlowPackets), NEW cs \in Seq(Nat), NEW lo \in Nat,
         NEW hi \in Nat, f # <<>>, Ordered(f, cs, lo, hi)
  PROVE  Ordered(Tail(f), cs, lo, hi)
<1> DEFINE g == Tail(f)
<1>1. \A i \in 1..Len(g) : i \in Nat /\ i + 1 \in 1..Len(f) /\ g[i] = f[i + 1]
  BY TailElements
<1> HIDE DEF g
<1>2. /\ lo <= hi
      /\ \A i \in 1..Len(cs) : lo <= cs[i] /\ cs[i] < hi
      /\ \A i, j \in 1..Len(cs) : i < j => cs[i] < cs[j]
  BY DEF Ordered
<1>3. \A i \in 1..Len(g) :
        IsData(g[i]) => lo <= g[i].credit_seq /\ g[i].credit_seq < hi
  BY <1>1 DEF Ordered
<1>4. \A i, j \in 1..Len(g) :
        i < j /\ IsData(g[i]) /\ IsData(g[j]) => g[i].credit_seq < g[j].credit_seq
  <2> SUFFICES ASSUME NEW i \in 1..Len(g), NEW j \in 1..Len(g), i < j,
                      IsData(g[i]), IsData(g[j])
               PROVE  g[i].credit_seq < g[j].credit_seq
    OBVIOUS
  <2>1. /\ i + 1 \in 1..Len(f) /\ j + 1 \in 1..Len(f)
        /\ g[i] = f[i + 1] /\ g[j] = f[j + 1]
    BY <1>1
  <2>2. i + 1 < j + 1
    BY <1>1
  <2> QED
    BY <2>1, <2>2 DEF Ordered
<1>5. \A i \in 1..Len(g), j \in 1..Len(cs) : IsData(g[i]) => g[i].credit_seq < cs[j]
  BY <1>1 DEF Ordered
<1>6. Ordered(g, cs, lo, hi)
  BY <1>2, <1>3, <1>4, <1>5 DEF Ordered
<1> QED
  BY <1>6 DEF g

\* A credit that is lost or wasted leaves the rest in order.
LEMMA OrderedCreditTail ==
  ASSUME NEW f \in Seq(FlowPackets), NEW cs \in Seq(Nat), NEW lo \in Nat,
         NEW hi \in Nat, cs # <<>>, Ordered(f, cs, lo, hi)
  PROVE  Ordered(f, Tail(cs), lo, hi)
<1> DEFINE ds == Tail(cs)
<1>1. \A i \in 1..Len(ds) : i \in Nat /\ i + 1 \in 1..Len(cs) /\ ds[i] = cs[i + 1]
  BY TailElements
<1> HIDE DEF ds
<1>2. /\ lo <= hi
      /\ \A i \in 1..Len(f) :
           IsData(f[i]) => lo <= f[i].credit_seq /\ f[i].credit_seq < hi
      /\ \A i, j \in 1..Len(f) :
           i < j /\ IsData(f[i]) /\ IsData(f[j]) => f[i].credit_seq < f[j].credit_seq
  BY DEF Ordered
<1>3. \A i \in 1..Len(ds) : lo <= ds[i] /\ ds[i] < hi
  BY <1>1 DEF Ordered
<1>4. \A i, j \in 1..Len(ds) : i < j => ds[i] < ds[j]
  <2> SUFFICES ASSUME NEW i \in 1..Len(ds), NEW j \in 1..Len(ds), i < j
               PROVE  ds[i] < ds[j]
    OBVIOUS
  <2>1. /\ i + 1 \in 1..Len(cs) /\ j + 1 \in 1..Len(cs)
        /\ ds[i] = cs[i + 1] /\ ds[j] = cs[j + 1]
    BY <1>1
  <2>2. i + 1 < j + 1
    BY <1>1
  <2> QED
    BY <2>1, <2>2 DEF Ordered
<1>5. \A i \in 1..Len(f), j \in 1..Len(ds) : IsData(f[i]) => f[i].credit_seq < ds[j]
  BY <1>1 DEF Ordered
<1>6. Ordered(f, ds, lo, hi)
  BY <1>2, <1>3, <1>4, <1>5 DEF Ordered
<1> QED
  BY <1>6 DEF ds

\* A data packet sent for the first credit carries its number.
LEMMA OrderedDataSent ==
  ASSUME NEW f \in Seq(FlowPackets), NEW cs \in Seq(Nat), NEW lo \in Nat,
         NEW hi \in Nat, cs # <<>>, NEW p \in FlowPackets, IsData(p),
         p.credit_seq = Head(cs), Ordered(f, cs, lo, hi)
  PROVE  Ordered(Append(f, p), Tail(cs), lo, hi)
<1> DEFINE g == Append(f, p)
           ds == Tail(cs)
<1>1. \A i \in 1..Len(ds) : i \in Nat /\ i + 1 \in 1..Len(cs) /\ ds[i] = cs[i + 1]
  BY TailElements
<1>2. /\ 1 \in 1..Len(cs) /\ p.credit_seq = cs[1]
  BY TailElements
<1>3. \A i \in 1..Len(g) :
        \/ i \in 1..Len(f) /\ g[i] = f[i]
        \/ i = Len(f) + 1 /\ g[i] = p
  BY AppendElements
<1>4. Len(f) \in Nat
  BY LenProperties
<1>5. Ordered(f, ds, lo, hi)
  BY OrderedCreditTail
<1> HIDE DEF g, ds
<1>6. /\ lo <= hi
      /\ \A i \in 1..Len(ds) : lo <= ds[i] /\ ds[i] < hi
      /\ \A i, j \in 1..Len(ds) : i < j => ds[i] < ds[j]
  BY <1>5 DEF Ordered
<1>7. \A i \in 1..Len(g) :
        IsData(g[i]) => lo <= g[i].credit_seq /\ g[i].credit_seq < hi
  BY <1>2, <1>3 DEF Ordered
<1>8. \A i, j \in 1..Len(g) :
        i < j /\ IsData(g[i]) /\ IsData(g[j]) => g[i].credit_seq < g[j].credit_seq
  <2> SUFFICES ASSUME NEW i \in 1..Len(g), NEW j \in 1..Len(g), i < j,
                      IsData(g[i]), IsData(g[j])
               PROVE  g[i].credit_seq < g[j].credit_seq
    OBVIOUS
  <2>1. CASE j \in 1..Len(f) /\ g[j] = f[j]
    <3>1. i \in 1..Len(f) /\ g[i] = f[i]
      <4>1. i # Len(f) + 1
        BY <1>4, <2>1
      <4> QED
        BY <1>3, <4>1
    <3> QED
      BY <2>1, <3>1 DEF Ordered
  <2>2. CASE j = Len(f) + 1 /\ g[j] = p
    <3>1. i \in 1..Len(f) /\ g[i] = f[i]
      <4>1. i # Len(f) + 1
        BY <1>4, <2>2
      <4> QED
        BY <1>3, <4>1
    <3>2. f[i].credit_seq < cs[1]
      BY <1>2, <3>1 DEF Ordered
    <3> QED
      BY <1>2, <2>2, <3>1, <3>2
  <2> QED
    BY <1>3, <2>1, <2>2
<1>9. \A i \in 1..Len(g), j \in 1..Len(ds) : IsData(g[i]) => g[i].credit_seq < ds[j]
  <2> SUFFICES ASSUME NEW i \in 1..Len(g), NEW j \in 1..Len(ds), IsData(g[i])
               PROVE  g[i].credit_seq < ds[j]
    OBVIOUS
  <2>1. CASE i \in 1..Len(f) /\ g[i] = f[i]
    BY <1>5, <2>1 DEF Ordered
  <2>2. CASE g[i] = p
    <3>1. j + 1 \in 1..Len(cs) /\ ds[j] = cs[j + 1] /\ 1 < j + 1
      BY <1>1
    <3>2. cs[1] < cs[j + 1]
      BY <1>2, <3>1 DEF Ordered
    <3> QED
      BY <1>2, <2>2, <3>1, <3>2
  <2> QED
    BY <1>3, <2>1, <2>2
<1>10. Ordered(g, ds, lo, hi)
  BY <1>6, <1>7, <1>8, <1>9 DEF Ordered
<1> QED
  BY <1>10 DEF g, ds

\* A new credit takes the next number.
LEMMA OrderedCreditSent ==
  ASSUME NEW f \in Seq(FlowPackets), NEW cs \in Seq(Nat), NEW lo \in Nat,
         NEW hi \in Nat, Ordered(f, cs, lo, hi)
  PROVE  Ordered(f, Append(cs, hi), lo, hi + 1)
<1> DEFINE ds == Append(cs, hi)
<1>1. \A i \in 1..Len(ds) :
        \/ i \in 1..Len(cs) /\ ds[i] = cs[i]
        \/ i = Len(cs) + 1 /\ ds[i] = hi
  BY AppendElements
<1>2. Len(cs) \in Nat /\ \A i \in 1..Len(cs) : cs[i] \in Nat
  BY LenProperties, ElementOfSeq
<1>3. \A i \in 1..Len(f) : f[i] \in FlowPackets
  BY ElementOfSeq
<1>4. \A i \in 1..Len(f) : IsData(f[i]) => f[i].credit_seq \in Nat
  BY <1>3, DataFields DEF IsData
<1> HIDE DEF ds
<1>5. lo <= hi + 1
  BY DEF Ordered
<1>6. \A i \in 1..Len(ds) : lo <= ds[i] /\ ds[i] < hi + 1
  <2> SUFFICES ASSUME NEW i \in 1..Len(ds)
               PROVE  lo <= ds[i] /\ ds[i] < hi + 1
    OBVIOUS
  <2>1. CASE i \in 1..Len(cs) /\ ds[i] = cs[i]
    <3>1. lo <= cs[i] /\ cs[i] < hi /\ cs[i] \in Nat
      BY <1>2, <2>1 DEF Ordered
    <3> QED
      BY <2>1, <3>1
  <2>2. CASE ds[i] = hi
    <3>1. lo <= hi
      BY DEF Ordered
    <3> QED
      BY <2>2, <3>1
  <2> QED
    BY <1>1, <2>1, <2>2
<1>7. \A i, j \in 1..Len(ds) : i < j => ds[i] < ds[j]
  <2> SUFFICES ASSUME NEW i \in 1..Len(ds), NEW j \in 1..Len(ds), i < j
               PROVE  ds[i] < ds[j]
    OBVIOUS
  <2>1. i \in 1..Len(cs) /\ ds[i] = cs[i]
    <3>1. j \in 1..Len(cs) \/ j = Len(cs) + 1
      BY <1>1
    <3>2. i # Len(cs) + 1
      BY <1>2, <3>1
    <3> QED
      BY <1>1, <3>2
  <2>2. CASE j \in 1..Len(cs) /\ ds[j] = cs[j]
    BY <2>1, <2>2 DEF Ordered
  <2>3. CASE j = Len(cs) + 1 /\ ds[j] = hi
    BY <2>1, <2>3 DEF Ordered
  <2> QED
    BY <1>1, <2>2, <2>3
<1>8. \A i \in 1..Len(f) :
        IsData(f[i]) => lo <= f[i].credit_seq /\ f[i].credit_seq < hi + 1
  BY <1>4 DEF Ordered
<1>9. \A i, j \in 1..Len(f) :
        i < j /\ IsData(f[i]) /\ IsData(f[j]) => f[i].credit_seq < f[j].credit_seq
  BY DEF Ordered
<1>10. \A i \in 1..Len(f), j \in 1..Len(ds) : IsData(f[i]) => f[i].credit_seq < ds[j]
  BY <1>1 DEF Ordered
<1>11. Ordered(f, ds, lo, hi + 1)
  BY <1>5, <1>6, <1>7, <1>8, <1>9, <1>10 DEF Ordered
<1> QED
  BY <1>11 DEF ds

\* Data that arrives raises what is expected past its credit number.
LEMMA OrderedDataReceived ==
  ASSUME NEW f \in Seq(FlowPackets), NEW cs \in Seq(Nat), NEW lo \in Nat,
         NEW hi \in Nat, f # <<>>, IsData(Head(f)), Ordered(f, cs, lo, hi)
  PROVE  /\ lo <= Head(f).credit_seq
         /\ Ordered(Tail(f), cs, Head(f).credit_seq + 1, hi)
<1> DEFINE g == Tail(f)
           n == Head(f).credit_seq
<1>1. \A i \in 1..Len(g) : i \in Nat /\ i + 1 \in 1..Len(f) /\ g[i] = f[i + 1]
  BY TailElements
<1>2. 1 \in 1..Len(f) /\ Head(f) = f[1]
  BY TailElements
<1>3. \A i \in 1..Len(f) : f[i] \in FlowPackets
  BY ElementOfSeq
<1>4. \A i \in 1..Len(f) : IsData(f[i]) => f[i].credit_seq \in Nat
  BY <1>3, DataFields DEF IsData
<1>5. \A i \in 1..Len(cs) : cs[i] \in Nat
  BY ElementOfSeq
<1>6. n \in Nat /\ lo <= n /\ n < hi
  BY <1>2, <1>4 DEF Ordered
<1>7. Ordered(g, cs, lo, hi)
  BY OrderedFlowTail
<1>8. \A i \in 1..Len(cs) : n < cs[i]
  BY <1>2 DEF Ordered
<1>9. \A i \in 1..Len(g) : IsData(g[i]) => n < g[i].credit_seq /\ g[i].credit_seq \in Nat
  <2> SUFFICES ASSUME NEW i \in 1..Len(g), IsData(g[i])
               PROVE  n < g[i].credit_seq /\ g[i].credit_seq \in Nat
    OBVIOUS
  <2>1. i + 1 \in 1..Len(f) /\ g[i] = f[i + 1] /\ 1 < i + 1
    BY <1>1
  <2>2. f[1].credit_seq < f[i + 1].credit_seq
    BY <1>2, <2>1 DEF Ordered
  <2> QED
    BY <1>2, <1>4, <2>1, <2>2
<1> HIDE DEF g, n
<1>10. Ordered(g, cs, n + 1, hi)
  <2>1. n + 1 <= hi
    BY <1>6
  <2>2. \A i \in 1..Len(cs) : n + 1 <= cs[i] /\ cs[i] < hi
    BY <1>5, <1>6, <1>7, <1>8 DEF Ordered
  <2>3. \A i \in 1..Len(g) :
          IsData(g[i]) => n + 1 <= g[i].credit_seq /\ g[i].credit_seq < hi
    BY <1>6, <1>7, <1>9 DEF Ordered
  <2> QED
    BY <1>7, <2>1, <2>2, <2>3 DEF Ordered
<1> QED
  BY <1>6, <1>10 DEF g, n

orderVars == <<flow, credits, c_recv_next, c_seqno>>

\* Packets that carry no credit number, and those that do.
LEMMA PacketKinds ==
  /\ \A n : ~IsData(CreditRequest(n))
  /\ ~IsData(CreditStop)
  /\ ~IsData(construct_credit_request)
  /\ \A n : IsData(construct_data(n)) /\ construct_data(n).credit_seq = n
  BY DEF IsData, CreditRequest, CreditStop, construct_credit_request,
     construct_data, Data

LEMMA CreditOrderSender ==
  ASSUME TypeOK, CreditOrder,
         SenderStep \/ \E nb \in FlowSizes : AdvanceBytes(nb)
  PROVE  CreditOrder'
<1>1. /\ flow \in Seq(FlowPackets) /\ credits \in Seq(Nat)
      /\ c_recv_next \in Nat /\ c_seqno \in Nat /\ SenderType /\ NetType
  BY DEF TypeOK, NetType, ReceiverType
<1>2. Ordered(flow, credits, c_recv_next, c_seqno)
  BY DEF CreditOrder
<1>3. UNCHANGED <<c_recv_next, c_seqno>>
  BY ReceiverAlone DEF receiverVars
<1>4. ASSUME NEW p \in FlowPackets, ~IsData(p), flow' = Append(flow, p),
             credits' = credits
      PROVE  CreditOrder'
  BY <1>1, <1>2, <1>3, <1>4, OrderedOtherSent DEF CreditOrder
<1>5. ASSUME credits # <<>>, credits' = Tail(credits), flow' = flow
      PROVE  CreditOrder'
  BY <1>1, <1>2, <1>3, <1>5, OrderedCreditTail DEF CreditOrder
<1>6. ASSUME credits # <<>>, credits' = Tail(credits), datalen_remaining > 0,
             flow' = Append(flow, construct_data(Head(credits)))
      PROVE  CreditOrder'
  <2>1. Head(credits) \in Nat
    BY <1>1, <1>6, CreditHead
  <2>2. construct_data(Head(credits)) \in FlowPackets
    BY <1>1, <1>6, <2>1, DataType
  <2>3. /\ IsData(construct_data(Head(credits)))
        /\ construct_data(Head(credits)).credit_seq = Head(credits)
    BY PacketKinds
  <2>4. Ordered(Append(flow, construct_data(Head(credits))), Tail(credits),
                c_recv_next, c_seqno)
    BY <1>1, <1>2, <1>6, <2>2, <2>3, OrderedDataSent
  <2> QED
    BY <1>3, <1>6, <2>4 DEF CreditOrder
<1>7. ASSUME UNCHANGED <<flow, credits>> PROVE CreditOrder'
  BY <1>2, <1>3, <1>7 DEF CreditOrder
<1>8. ASSUME NEW nb \in FlowSizes, AdvanceBytes(nb) PROVE CreditOrder'
  <2> DEFINE n == curseq + nb - t_seqno
  <2>1. n \in Int
    BY <1>1, FlowAssumption DEF SenderType
  <2>2. flow' = Append(flow, CreditRequest(pkt_remaining(n))) /\ credits' = credits
    BY <1>8 DEF AdvanceBytes
  <2> HIDE DEF n
  <2> QED
    BY <1>4, <2>1, <2>2, RequestType, PacketKinds
<1>9. ASSUME NEW updateDue \in BOOLEAN, recv_credit_active(updateDue)
      PROVE  CreditOrder'
  BY <1>5, <1>6, <1>9 DEF recv_credit_active
<1>10. CASE recv_credit_stop_sent
  BY <1>5, <1>6, <1>10 DEF recv_credit_stop_sent
<1>11. CASE recv_credit_wasted
  BY <1>5, <1>11 DEF recv_credit_wasted
<1>12. CASE recv_nack
  <2>1. construct_credit_request \in FlowPackets /\ ~IsData(construct_credit_request)
    BY <1>1, ConstructRequestType, PacketKinds
  <2> QED
    BY <1>4, <1>7, <1>12, <2>1 DEF recv_nack
<1>13. CASE send_credit_stop
  BY <1>4, <1>13, StopType, PacketKinds DEF send_credit_stop
<1>14. CASE retransmit_request
  <2>1. construct_credit_request \in FlowPackets /\ ~IsData(construct_credit_request)
    BY <1>1, ConstructRequestType, PacketKinds
  <2> QED
    BY <1>4, <1>14, <2>1 DEF retransmit_request
<1>15. CASE retransmit_close_wait
  BY <1>7, <1>15 DEF retransmit_close_wait, netVars
<1>16. CASE retransmit_close
  <2>1. /\ flow' = Append(flow, CreditStop) \/ flow' = flow
        /\ credits' = credits
    BY <1>16 DEF retransmit_close
  <2> QED
    BY <1>4, <1>7, <2>1, StopType, PacketKinds
<1> QED
  BY <1>8, <1>9, <1>10, <1>11, <1>12, <1>13, <1>14, <1>15, <1>16 DEF SenderStep

LEMMA CreditOrderReceiver ==
  ASSUME TypeOK, CreditOrder, ReceiverStep
  PROVE  CreditOrder'
<1>1. /\ flow \in Seq(FlowPackets) /\ credits \in Seq(Nat)
      /\ c_recv_next \in Nat /\ c_seqno \in Nat /\ NetType
  BY DEF TypeOK, NetType, ReceiverType
<1>2. Ordered(flow, credits, c_recv_next, c_seqno)
  BY DEF CreditOrder
<1>3. next_c_seqno = c_seqno + 1
  BY <1>1 DEF next_c_seqno, Greater
<1>4. ASSUME flow # <<>>, flow' = Tail(flow), UNCHANGED <<credits, c_recv_next, c_seqno>>
      PROVE  CreditOrder'
  BY <1>1, <1>2, <1>4, OrderedFlowTail DEF CreditOrder
<1>5. ASSUME UNCHANGED orderVars PROVE CreditOrder'
  BY <1>2, <1>5 DEF CreditOrder, orderVars
<1>6. CASE recv_credit_request
  <2>1. /\ flow # <<>> /\ flow' = Tail(flow) /\ c_recv_next' = c_recv_next
        /\ \/ credits' = Append(credits, c_seqno) /\ c_seqno' = c_seqno + 1
           \/ UNCHANGED <<credits, c_seqno>>
    BY <1>3, <1>6 DEF recv_credit_request, ReceiverMayReceive
  <2>2. CASE credits' = Append(credits, c_seqno) /\ c_seqno' = c_seqno + 1
    <3>1. Tail(flow) \in Seq(FlowPackets)
      BY <1>1, <2>1, FlowHead
    <3>2. Ordered(Tail(flow), credits, c_recv_next, c_seqno)
      BY <1>1, <1>2, <2>1, OrderedFlowTail
    <3>3. Ordered(Tail(flow), Append(credits, c_seqno), c_recv_next, c_seqno + 1)
      BY <1>1, <3>1, <3>2, OrderedCreditSent
    <3> QED
      BY <2>1, <2>2, <3>3 DEF CreditOrder
  <2>3. CASE UNCHANGED <<credits, c_seqno>>
    BY <1>4, <2>1, <2>3
  <2> QED
    BY <2>1, <2>2, <2>3
<1>7. CASE recv_data
  <2>1. /\ flow # <<>> /\ flow' = Tail(flow) /\ UNCHANGED <<credits, c_seqno>>
        /\ IsData(Head(flow))
        /\ \/ c_recv_next' = c_recv_next
           \/ c_recv_next' = Head(flow).credit_seq + 1
    BY <1>7 DEF recv_data, ReceiverMayReceive, IsData
  <2>2. CASE c_recv_next' = c_recv_next
    BY <1>4, <2>1, <2>2
  <2>3. CASE c_recv_next' = Head(flow).credit_seq + 1
    <3>1. Ordered(Tail(flow), credits, Head(flow).credit_seq + 1, c_seqno)
      BY <1>1, <1>2, <2>1, OrderedDataReceived
    <3> QED
      BY <2>1, <2>3, <3>1 DEF CreditOrder
  <2> QED
    BY <2>1, <2>2, <2>3
<1>8. CASE recv_credit_stop
  BY <1>4, <1>8 DEF recv_credit_stop, ReceiverMayReceive
<1>9. ASSUME NEW feedback \in BOOLEAN, send_credit(feedback) PROVE CreditOrder'
  <2>1. /\ credits' = Append(credits, c_seqno) /\ c_seqno' = c_seqno + 1
        /\ UNCHANGED <<flow, c_recv_next>>
    BY <1>3, <1>9 DEF send_credit
  <2>2. Ordered(flow, Append(credits, c_seqno), c_recv_next, c_seqno + 1)
    BY <1>1, <1>2, OrderedCreditSent
  <2> QED
    BY <2>1, <2>2 DEF CreditOrder
<1>10. CASE handle_receiver_retransmit \/ handle_fct
  BY <1>5, <1>10 DEF handle_receiver_retransmit, handle_fct, netVars, orderVars
<1> QED
  BY <1>6, <1>7, <1>8, <1>9, <1>10 DEF ReceiverStep

LEMMA CreditOrderNext ==
  ASSUME TypeOK, CreditOrder, [Next]_vars
  PROVE  CreditOrder'
<1>1. /\ flow \in Seq(FlowPackets) /\ credits \in Seq(Nat)
      /\ c_recv_next \in Nat /\ c_seqno \in Nat
  BY DEF TypeOK, NetType, ReceiverType
<1>2. Ordered(flow, credits, c_recv_next, c_seqno)
  BY DEF CreditOrder
<1>3. ASSUME UNCHANGED <<c_recv_next, c_seqno>>,
             \/ UNCHANGED <<flow, credits>>
             \/ flow # <<>> /\ flow' = Tail(flow) /\ credits' = credits
             \/ credits # <<>> /\ credits' = Tail(credits) /\ flow' = flow
      PROVE  CreditOrder'
  BY <1>1, <1>2, <1>3, OrderedFlowTail, OrderedCreditTail DEF CreditOrder
<1>4. CASE UNCHANGED vars
  BY <1>3, <1>4 DEF vars, receiverVars, netVars
<1>5. CASE DropCredit \/ DropFlow \/ DropNack
  <2>1. UNCHANGED <<c_recv_next, c_seqno>>
    BY <1>5, ReceiverAlone DEF receiverVars
  <2> QED
    BY <1>3, <1>5, <2>1 DEF DropCredit, DropFlow, DropNack
<1>6. CASE SenderStep \/ \E nb \in FlowSizes : AdvanceBytes(nb)
  BY <1>6, CreditOrderSender
<1>7. CASE ReceiverStep
  BY <1>7, CreditOrderReceiver
<1> QED
  BY <1>4, <1>5, <1>6, <1>7 DEF Next

\* Credit numbers come back in the order they were sent in, whatever the
\* network drops.
THEOREM CreditOrderSafe == Spec => []CreditOrder
<1>1. Init => CreditOrder
  <2> SUFFICES ASSUME Init PROVE CreditOrder
    OBVIOUS
  <2>1. c_recv_next = 1 /\ c_seqno = 1 /\ Len(flow) = 0 /\ Len(credits) = 0
    BY EmptySeq DEF Init
  <2> QED
    BY <2>1 DEF CreditOrder, Ordered
<1> QED
  BY <1>1, Typing, CreditOrderNext, PTL DEF Spec

-----------------------------------------------------------------------------
(* What the order of credits gives recv_data. *)

\* A data packet at the head of the flow passes both checks of recv_data.
LEMMA DataAccepted ==
  ASSUME TypeOK, CreditOrder, recv_data
  PROVE  /\ Head(flow).credit_seq \in Nat /\ c_recv_next \in Nat
         /\ c_recv_next <= Head(flow).credit_seq
         /\ ~(Head(flow).credit_seq - c_recv_next < 0)
         /\ ~(Head(flow).size < xpass_hdr_size)
<1>1. /\ flow \in Seq(FlowPackets) /\ credits \in Seq(Nat)
      /\ c_recv_next \in Nat /\ c_seqno \in Nat /\ NetType
  BY DEF TypeOK, NetType, ReceiverType
<1>2. flow # <<>> /\ IsData(Head(flow)) /\ Head(flow).type = "DATA"
  BY DEF recv_data, ReceiverMayReceive, IsData
<1>3. Head(flow) \in FlowPackets
  BY <1>1, <1>2, FlowHead
<1>4. /\ Head(flow).credit_seq \in Nat /\ Head(flow).size \in Nat
      /\ Head(flow).size >= xpass_hdr_size
  BY <1>2, <1>3, DataFields
<1>5. c_recv_next <= Head(flow).credit_seq
  BY <1>1, <1>2, OrderedDataReceived DEF CreditOrder
<1> QED
  BY <1>1, <1>4, <1>5, SizeFacts

\* The process never ends in a check of recv_data or process_ack.
DataNeverRefused ==
  err # "Credit Sequence number is reverted" /\ err # "negative length packet"

LEMMA DataNeverRefusedNext ==
  ASSUME TypeOK, CreditOrder, DataNeverRefused, [Next]_vars
  PROVE  DataNeverRefused'
<1>1. ASSUME err' \in {err, "Couldn't schedule timer",
                       "Sender Retransmit triggered while closed"}
      PROVE  DataNeverRefused'
  BY <1>1 DEF DataNeverRefused
<1>2. CASE UNCHANGED vars
  BY <1>1, <1>2 DEF vars, envVars
<1>3. CASE \E nb \in FlowSizes : AdvanceBytes(nb)
  BY <1>1, <1>3 DEF AdvanceBytes
<1>4. CASE SenderStep
  BY <1>1, <1>4 DEF SenderStep, recv_credit_active, recv_credit_stop_sent,
     recv_credit_wasted, recv_nack, send_credit_stop, retransmit_request,
     retransmit_close_wait, retransmit_close, envVars
<1>5. CASE recv_data
  <2>1. err' = err
    BY <1>5, DataAccepted DEF recv_data
  <2> QED
    BY <1>1, <2>1
<1>6. CASE ReceiverStep /\ ~recv_data
  BY <1>1, <1>6 DEF ReceiverStep, recv_credit_request, recv_credit_stop,
     send_credit, handle_receiver_retransmit, handle_fct, envVars
<1>7. CASE DropCredit \/ DropFlow \/ DropNack
  BY <1>1, <1>7 DEF DropCredit, DropFlow, DropNack, Drop
<1> QED
  BY <1>2, <1>3, <1>4, <1>5, <1>6, <1>7 DEF Next

\* recv_data never ends the simulation with "Credit Sequence number is
\* reverted", nor process_ack with "negative length packet".
THEOREM DataNeverRefusedSafe == Spec => []DataNeverRefused
<1>1. Init => DataNeverRefused
  BY DEF Init, DataNeverRefused
<1> QED
  BY <1>1, Typing, CreditOrderSafe, DataNeverRefusedNext, PTL DEF Spec

\* A count of credits is never all losses, so the branch of
\* credit_feedback_control for a loss rate of one is never taken.
LossRateBelowOne == credit_total > 0 => credit_dropped < credit_total

\* The inductive form of LossRateBelowOne: a count starts at zero losses and
\* every data packet adds one credit that was not lost.
LossCount ==
  \/ credit_dropped < credit_total
  \/ credit_dropped = 0 /\ credit_total = 0

LEMMA LossCountNext ==
  ASSUME TypeOK, CreditOrder, LossCount, [Next]_vars
  PROVE  LossCount'
<1>1. credit_dropped \in Nat /\ credit_total \in Nat
  BY DEF TypeOK, ReceiverType
<1>2. ASSUME UNCHANGED <<credit_total, credit_dropped>> PROVE LossCount'
  BY <1>2 DEF LossCount
<1>3. CASE UNCHANGED vars
  BY <1>2, <1>3 DEF vars, receiverVars, rateVars
<1>4. CASE \/ \E nb \in FlowSizes : AdvanceBytes(nb)
           \/ SenderStep \/ DropCredit \/ DropFlow \/ DropNack
  BY <1>2, <1>4, ReceiverAlone DEF receiverVars, rateVars
<1>5. CASE recv_data
  <2> DEFINE distance == Head(flow).credit_seq - c_recv_next
  <2>1. distance \in Nat
    BY <1>5, DataAccepted
  <2>2. count_credits(distance)
    BY <1>5, DataAccepted DEF recv_data
  <2> HIDE DEF distance
  <2> QED
    BY <1>1, <2>1, <2>2 DEF count_credits, LossCount
<1>6. ASSUME NEW feedback \in BOOLEAN, send_credit(feedback) PROVE LossCount'
  <2>1. \/ UNCHANGED <<credit_total, credit_dropped>>
        \/ credit_total' = 0 /\ credit_dropped' = 0
    BY <1>6 DEF send_credit, credit_feedback_control
  <2> QED
    BY <1>2, <2>1 DEF LossCount
<1>7. CASE recv_credit_request \/ recv_credit_stop
           \/ handle_receiver_retransmit \/ handle_fct
  BY <1>2, <1>7 DEF recv_credit_request, recv_credit_stop,
     handle_receiver_retransmit, handle_fct, rateVars
<1> QED
  BY <1>3, <1>4, <1>5, <1>6, <1>7 DEF Next, ReceiverStep

\* credit_feedback_control never sees a loss rate of one: its branch for it is
\* dead code, whatever is lost.
THEOREM LossRateSafe == Spec => []LossRateBelowOne
<1>1. Init => LossCount
  BY DEF Init, LossCount
<1>2. TypeOK /\ LossCount => LossRateBelowOne
  BY DEF TypeOK, ReceiverType, LossCount, LossRateBelowOne
<1> QED
  BY <1>1, <1>2, Typing, CreditOrderSafe, LossCountNext, PTL DEF Spec

-----------------------------------------------------------------------------
(* Requests and stops.  When neither is lost, the packets in flight settle     *)
(* whether the receiver will be sending credits once they have all arrived,    *)
(* and that is exactly whether the sender counts on credits.  Nothing weaker   *)
(* is inductive: it takes the whole queue to know that a stop which arrives    *)
(* finds the receiver sending, and so finds fct_timer_ idle.                   *)

\* The network loses neither requests nor stops.
ControlArrives == "CREDIT_REQUEST" \notin Lossy /\ "CREDIT_STOP" \notin Lossy

IsRequest(p) == p.type = "CREDIT_REQUEST"
IsStop(p) == p.type = "CREDIT_STOP"

\* A receiver that sends credits or not (s) sends them after the first n
\* packets of f: the last request or stop among them is a request.
Asked(f, s, n) ==
  \/ \E i \in 1..n : IsRequest(f[i]) /\ \A k \in (i + 1)..n : ~IsStop(f[k])
  \/ s /\ \A k \in 1..n : ~IsStop(f[k])

\* Every stop meets a receiver that sends credits, and the last packet leaves
\* it sending them or not (a).
Control(f, s, a) ==
  /\ Asked(f, s, Len(f)) <=> a
  /\ \A j \in 1..Len(f) : IsStop(f[j]) => Asked(f, s, j - 1)

Sending == credit_send_state = "CREDIT_SENDING"
Asking == credit_recv_state \in {"CREDIT_REQUEST_SENT", "CREDIT_RECEIVING"}
ControlPaired ==
  /\ Control(flow, Sending, Asking)
  /\ credit_recv_state = "CLOSE_WAIT" => credit_recved = 0

\* A packet sent last.
LEMMA AskedAppend ==
  ASSUME NEW f \in Seq(FlowPackets), NEW p \in FlowPackets, NEW s \in BOOLEAN
  PROVE  /\ Len(f) \in Nat /\ Len(Append(f, p)) = Len(f) + 1
         /\ Append(f, p)[Len(f) + 1] = p
         /\ \A n \in 0..Len(f) : Asked(Append(f, p), s, n) <=> Asked(f, s, n)
         /\ Asked(Append(f, p), s, Len(f) + 1)
              <=> IsRequest(p) \/ (Asked(f, s, Len(f)) /\ ~IsStop(p))
<1> DEFINE g == Append(f, p)
           m == Len(f)
<1>1. /\ m \in Nat /\ Len(g) = m + 1 /\ g[m + 1] = p
      /\ \A i \in 1..m : g[i] = f[i]
  BY AppendProperties, LenProperties
<1>2. IsRequest(p) => ~IsStop(p)
  BY DEF IsRequest, IsStop
<1> HIDE DEF g, m
<1>3. ASSUME NEW n \in 0..m PROVE Asked(g, s, n) <=> Asked(f, s, n)
  <2>1. \A i \in 1..n : g[i] = f[i]
    BY <1>1, <1>3
  <2>2. \A i \in 1..n : \A k \in (i + 1)..n : g[k] = f[k]
    BY <1>1, <1>3
  <2> QED
    BY <2>1, <2>2 DEF Asked
<1>4. ASSUME Asked(g, s, m + 1)
      PROVE  IsRequest(p) \/ (Asked(f, s, m) /\ ~IsStop(p))
  <2>1. CASE s /\ \A k \in 1..(m + 1) : ~IsStop(g[k])
    <3>1. /\ m + 1 \in 1..(m + 1)
          /\ \A k \in 1..m : k \in 1..(m + 1) /\ g[k] = f[k]
      BY <1>1
    <3> QED
      BY <1>1, <2>1, <3>1 DEF Asked
  <2>2. ASSUME NEW i \in 1..(m + 1), IsRequest(g[i]),
               \A k \in (i + 1)..(m + 1) : ~IsStop(g[k])
        PROVE  IsRequest(p) \/ (Asked(f, s, m) /\ ~IsStop(p))
    <3>1. CASE i = m + 1
      BY <1>1, <2>2, <3>1
    <3>2. CASE i # m + 1
      <4>1. /\ i \in 1..m /\ m + 1 \in (i + 1)..(m + 1)
            /\ \A k \in (i + 1)..m : k \in (i + 1)..(m + 1) /\ k \in 1..m
        BY <1>1, <3>2
      <4>2. ~IsStop(p) /\ IsRequest(f[i]) /\ \A k \in (i + 1)..m : ~IsStop(f[k])
        BY <1>1, <2>2, <4>1
      <4> QED
        BY <4>1, <4>2 DEF Asked
    <3> QED
      BY <3>1, <3>2
  <2> QED
    BY <1>4, <2>1, <2>2 DEF Asked
<1>5. ASSUME IsRequest(p) PROVE Asked(g, s, m + 1)
  <2>1. m + 1 \in 1..(m + 1) /\ IsRequest(g[m + 1])
        /\ \A k \in (m + 1 + 1)..(m + 1) : ~IsStop(g[k])
    BY <1>1, <1>5
  <2> QED
    BY <2>1 DEF Asked
<1>6. ASSUME Asked(f, s, m), ~IsStop(p) PROVE Asked(g, s, m + 1)
  <2>1. CASE s /\ \A k \in 1..m : ~IsStop(f[k])
    <3>1. \A k \in 1..(m + 1) : k = m + 1 \/ (k \in 1..m /\ g[k] = f[k])
      BY <1>1
    <3>2. \A k \in 1..(m + 1) : ~IsStop(g[k])
      BY <1>1, <1>6, <2>1, <3>1
    <3> QED
      BY <2>1, <3>2 DEF Asked
  <2>2. ASSUME NEW i \in 1..m, IsRequest(f[i]), \A k \in (i + 1)..m : ~IsStop(f[k])
        PROVE  Asked(g, s, m + 1)
    <3>1. \A k \in (i + 1)..(m + 1) :
            k = m + 1 \/ (k \in (i + 1)..m /\ g[k] = f[k])
      BY <1>1
    <3>2. \A k \in (i + 1)..(m + 1) : ~IsStop(g[k])
      BY <1>1, <1>6, <2>2, <3>1
    <3>3. i \in 1..(m + 1) /\ IsRequest(g[i])
      BY <1>1, <2>2
    <3> QED
      BY <3>2, <3>3 DEF Asked
  <2> QED
    BY <1>6, <2>1, <2>2 DEF Asked
<1>7. Asked(g, s, m + 1) <=> IsRequest(p) \/ (Asked(f, s, m) /\ ~IsStop(p))
  BY <1>4, <1>5, <1>6
<1> QED
  BY <1>1, <1>3, <1>7 DEF g, m

\* The first packet arrives: r tells whether the receiver sends credits then.
LEMMA AskedTail ==
  ASSUME NEW f \in Seq(FlowPackets), f # <<>>, NEW s \in BOOLEAN, NEW r \in BOOLEAN,
         r <=> IsRequest(Head(f)) \/ (s /\ ~IsStop(Head(f))),
         NEW n \in 0..Len(Tail(f))
  PROVE  Asked(Tail(f), r, n) <=> Asked(f, s, n + 1)
<1> DEFINE g == Tail(f)
<1>1. /\ Len(f) \in Nat /\ Len(g) = Len(f) - 1 /\ Len(f) # 0 /\ Head(f) = f[1]
      /\ \A i \in 1..(Len(f) - 1) : g[i] = f[i + 1]
  <2>1. Len(f) \in Nat /\ Len(f) # 0
    BY LenProperties, EmptySeq
  <2> QED
    BY <2>1, HeadTailProperties
<1>2. IsRequest(f[1]) => ~IsStop(f[1])
  BY DEF IsRequest, IsStop
<1> HIDE DEF g
<1>3. n \in Nat /\ n <= Len(f) - 1
  BY <1>1 DEF g
<1>4. /\ \A i \in 1..n : g[i] = f[i + 1] /\ i + 1 \in 2..(n + 1)
      /\ \A i \in 2..(n + 1) : i - 1 \in 1..n /\ g[i - 1] = f[i]
  <2>1. \A i \in 2..(n + 1) : i - 1 \in 1..(Len(f) - 1) /\ (i - 1) + 1 = i
    BY <1>1, <1>3
  <2> QED
    BY <1>1, <1>3, <2>1
<1>5. ASSUME Asked(g, r, n) PROVE Asked(f, s, n + 1)
  <2>1. ASSUME NEW i \in 1..n, IsRequest(g[i]), \A k \in (i + 1)..n : ~IsStop(g[k])
        PROVE  Asked(f, s, n + 1)
    <3>1. i + 1 \in 1..(n + 1) /\ IsRequest(f[i + 1])
      BY <1>3, <1>4, <2>1
    <3>2. \A k \in (i + 1 + 1)..(n + 1) : k - 1 \in (i + 1)..n /\ k \in 2..(n + 1)
      BY <1>3
    <3>3. \A k \in (i + 1 + 1)..(n + 1) : ~IsStop(f[k])
      BY <1>4, <2>1, <3>2
    <3> QED
      BY <3>1, <3>3 DEF Asked
  <2>2. ASSUME r, \A k \in 1..n : ~IsStop(g[k])
        PROVE  Asked(f, s, n + 1)
    <3>1. \A k \in 2..(n + 1) : ~IsStop(f[k])
      BY <1>4, <2>2
    <3>2. CASE IsRequest(f[1])
      <4>1. 1 \in 1..(n + 1) /\ \A k \in (1 + 1)..(n + 1) : ~IsStop(f[k])
        BY <1>3, <3>1
      <4> QED
        BY <3>2, <4>1 DEF Asked
    <3>3. CASE s /\ ~IsStop(f[1])
      <4>1. \A k \in 1..(n + 1) : k = 1 \/ k \in 2..(n + 1)
        BY <1>3
      <4>2. \A k \in 1..(n + 1) : ~IsStop(f[k])
        BY <3>1, <3>3, <4>1
      <4> QED
        BY <3>3, <4>2 DEF Asked
    <3> QED
      BY <1>1, <2>2, <3>2, <3>3
  <2> QED
    BY <1>5, <2>1, <2>2 DEF Asked
<1>6. ASSUME Asked(f, s, n + 1) PROVE Asked(g, r, n)
  <2>1. ASSUME NEW i \in 1..(n + 1), IsRequest(f[i]),
               \A k \in (i + 1)..(n + 1) : ~IsStop(f[k])
        PROVE  Asked(g, r, n)
    <3>1. CASE i = 1
      <4>1. r
        BY <1>1, <2>1, <3>1
      <4>2. \A k \in 1..n : k + 1 \in (i + 1)..(n + 1)
        BY <1>3, <3>1
      <4>3. \A k \in 1..n : ~IsStop(g[k])
        BY <1>4, <2>1, <4>2
      <4> QED
        BY <4>1, <4>3 DEF Asked
    <3>2. CASE i # 1
      <4>1. i \in 2..(n + 1)
        BY <1>3, <3>2
      <4>2. i - 1 \in 1..n /\ IsRequest(g[i - 1])
        BY <1>4, <2>1, <4>1
      <4>3. \A k \in ((i - 1) + 1)..n : k + 1 \in (i + 1)..(n + 1) /\ k \in 1..n
        BY <1>3, <4>1
      <4>4. \A k \in ((i - 1) + 1)..n : ~IsStop(g[k])
        BY <1>4, <2>1, <4>3
      <4> QED
        BY <4>2, <4>4 DEF Asked
    <3> QED
      BY <3>1, <3>2
  <2>2. ASSUME s, \A k \in 1..(n + 1) : ~IsStop(f[k]) PROVE Asked(g, r, n)
    <3>1. 1 \in 1..(n + 1) /\ \A k \in 1..n : k + 1 \in 1..(n + 1)
      BY <1>3
    <3>2. r
      BY <1>1, <2>2, <3>1
    <3>3. \A k \in 1..n : ~IsStop(g[k])
      BY <1>4, <2>2, <3>1
    <3> QED
      BY <3>2, <3>3 DEF Asked
  <2> QED
    BY <1>6, <2>1, <2>2 DEF Asked
<1> QED
  BY <1>5, <1>6 DEF g

\* What a packet sent last does to Control: a stop is sent only by a sender
\* that counts on credits.
LEMMA ControlAppend ==
  ASSUME NEW f \in Seq(FlowPackets), NEW p \in FlowPackets, NEW s \in BOOLEAN,
         NEW a \in BOOLEAN, NEW b \in BOOLEAN, Control(f, s, a),
         IsStop(p) => a, b <=> IsRequest(p) \/ (a /\ ~IsStop(p))
  PROVE  Control(Append(f, p), s, b)
<1> DEFINE g == Append(f, p)
           m == Len(f)
<1>1. /\ m \in Nat /\ Len(g) = m + 1 /\ g[m + 1] = p
      /\ \A n \in 0..m : Asked(g, s, n) <=> Asked(f, s, n)
      /\ Asked(g, s, m + 1) <=> IsRequest(p) \/ (Asked(f, s, m) /\ ~IsStop(p))
  BY AskedAppend
<1>2. \A j \in 1..m : g[j] = f[j]
  BY AppendProperties
<1>3. /\ Asked(f, s, m) <=> a
      /\ \A j \in 1..m : IsStop(f[j]) => Asked(f, s, j - 1)
  BY DEF Control
<1> HIDE DEF g, m
<1>4. ASSUME NEW j \in 1..(m + 1), IsStop(g[j]) PROVE Asked(g, s, j - 1)
  <2>1. CASE j = m + 1
    <3>1. j - 1 = m /\ m \in 0..m
      BY <1>1, <2>1
    <3>2. Asked(f, s, m)
      BY <1>1, <1>3, <1>4, <2>1
    <3> QED
      BY <1>1, <3>1, <3>2
  <2>2. CASE j # m + 1
    <3>1. j \in 1..m /\ j - 1 \in 0..m
      BY <1>1, <2>2
    <3> QED
      BY <1>1, <1>2, <1>3, <1>4, <3>1
  <2> QED
    BY <2>1, <2>2
<1>5. Asked(g, s, Len(g)) <=> b
  BY <1>1, <1>3
<1> QED
  BY <1>1, <1>4, <1>5 DEF Control, g

\* And what the arrival of the first does: a stop meets a sending receiver.
LEMMA ControlTail ==
  ASSUME NEW f \in Seq(FlowPackets), f # <<>>, NEW s \in BOOLEAN, NEW r \in BOOLEAN,
         NEW a \in BOOLEAN, Control(f, s, a),
         r <=> IsRequest(Head(f)) \/ (s /\ ~IsStop(Head(f)))
  PROVE  Control(Tail(f), r, a) /\ (IsStop(Head(f)) => s)
<1> DEFINE g == Tail(f)
           m == Len(g)
<1>1. /\ Len(f) = m + 1 /\ m \in Nat /\ Head(f) = f[1]
      /\ \A i \in 1..m : g[i] = f[i + 1]
  <2>1. Len(f) \in Nat /\ Len(f) # 0
    BY LenProperties, EmptySeq
  <2> QED
    BY <2>1, HeadTailProperties
<1>2. \A n \in 0..m : Asked(g, r, n) <=> Asked(f, s, n + 1)
  BY AskedTail
<1>3. /\ Asked(f, s, m + 1) <=> a
      /\ \A j \in 1..(m + 1) : IsStop(f[j]) => Asked(f, s, j - 1)
  BY <1>1 DEF Control
<1> HIDE DEF g, m
<1>4. m \in 0..m /\ (Asked(g, r, m) <=> a)
  BY <1>1, <1>2, <1>3
<1>5. ASSUME NEW j \in 1..m, IsStop(g[j]) PROVE Asked(g, r, j - 1)
  <2>1. j + 1 \in 1..(m + 1) /\ (j + 1) - 1 = (j - 1) + 1 /\ j - 1 \in 0..m
    BY <1>1
  <2>2. Asked(f, s, (j + 1) - 1)
    BY <1>1, <1>3, <1>5, <2>1
  <2> QED
    BY <1>2, <2>1, <2>2
<1>6. ASSUME IsStop(f[1]) PROVE s
  <2>1. 1 \in 1..(m + 1) /\ 1 - 1 = 0
    BY <1>1
  <2>2. Asked(f, s, 0)
    BY <1>3, <1>6, <2>1
  <2> QED
    BY <2>2 DEF Asked
<1> QED
  BY <1>1, <1>4, <1>5, <1>6 DEF Control, g, m

\* The three kinds of packets.
LEMMA PacketTags ==
  /\ \A n : IsRequest(CreditRequest(n)) /\ ~IsStop(CreditRequest(n))
  /\ IsRequest(construct_credit_request) /\ ~IsStop(construct_credit_request)
  /\ IsStop(CreditStop) /\ ~IsRequest(CreditStop)
  /\ \A n : ~IsRequest(construct_data(n)) /\ ~IsStop(construct_data(n))
  /\ \A p : IsData(p) => ~IsRequest(p) /\ ~IsStop(p)
  BY DEF IsRequest, IsStop, IsData, CreditRequest, CreditStop,
     construct_credit_request, construct_data, Data

LEMMA ControlSender ==
  ASSUME TypeOK, SenderTimers, ControlPaired,
         SenderStep \/ \E nb \in FlowSizes : AdvanceBytes(nb)
  PROVE  ControlPaired'
<1>1. /\ flow \in Seq(FlowPackets) /\ SenderType /\ NetType
      /\ Sending \in BOOLEAN /\ Asking \in BOOLEAN /\ Asking' \in BOOLEAN
  BY DEF TypeOK, NetType, Sending, Asking
<1>2. Control(flow, Sending, Asking)
  BY DEF ControlPaired
<1>3. Sending' = Sending
  <2>1. credit_send_state' = credit_send_state
    BY ReceiverAlone DEF receiverVars
  <2> QED
    BY <2>1 DEF Sending
<1>4. ASSUME NEW p \in FlowPackets, IsRequest(p), ~IsStop(p),
             flow' = Append(flow, p), credit_recv_state' = "CREDIT_REQUEST_SENT"
      PROVE  ControlPaired'
  <2>1. Asking' = TRUE
    BY <1>4 DEF Asking
  <2>2. Control(Append(flow, p), Sending, TRUE)
    BY <1>1, <1>2, <1>4, ControlAppend
  <2> QED
    BY <1>3, <1>4, <2>1, <2>2 DEF ControlPaired
<1>5. ASSUME UNCHANGED flow, Asking' = Asking,
             credit_recv_state' = "CLOSE_WAIT" => credit_recved' = 0
      PROVE  ControlPaired'
  BY <1>2, <1>3, <1>5 DEF ControlPaired
<1>6. ASSUME credits # <<>>, datalen_remaining > 0, Asking' = Asking,
             flow' = Append(flow, construct_data(Head(credits))),
             credit_recv_state' # "CLOSE_WAIT"
      PROVE  ControlPaired'
  <2> DEFINE p == construct_data(Head(credits))
  <2>1. p \in FlowPackets
    BY <1>1, <1>6, CreditHead, DataType
  <2>2. ~IsRequest(p) /\ ~IsStop(p)
    BY PacketTags
  <2> HIDE DEF p
  <2>3. Control(Append(flow, p), Sending, Asking)
    BY <1>1, <1>2, <2>1, <2>2, ControlAppend
  <2> QED
    BY <1>3, <1>6, <2>3 DEF ControlPaired, p
<1>7. ASSUME NEW nb \in FlowSizes, AdvanceBytes(nb) PROVE ControlPaired'
  <2> DEFINE n == curseq + nb - t_seqno
  <2>1. n \in Int
    BY <1>1, FlowAssumption DEF SenderType
  <2>2. /\ flow' = Append(flow, CreditRequest(pkt_remaining(n)))
        /\ credit_recv_state' = "CREDIT_REQUEST_SENT"
    BY <1>7 DEF AdvanceBytes
  <2> HIDE DEF n
  <2> QED
    BY <1>4, <2>1, <2>2, RequestType, PacketTags
<1>8. ASSUME NEW updateDue \in BOOLEAN, recv_credit_active(updateDue)
      PROVE  ControlPaired'
  <2>1. /\ credit_recv_state \in {"CREDIT_REQUEST_SENT", "CREDIT_RECEIVING"}
        /\ credit_recv_state' = "CREDIT_RECEIVING"
        /\ credits # <<>>
        /\ \/ flow' = flow
           \/ datalen_remaining > 0 /\ flow' = Append(flow, construct_data(Head(credits)))
    BY <1>8 DEF recv_credit_active
  <2>2. Asking' = Asking /\ credit_recv_state' # "CLOSE_WAIT"
    BY <2>1 DEF Asking
  <2> QED
    BY <1>5, <1>6, <2>1, <2>2
<1>9. CASE recv_credit_stop_sent
  <2>1. /\ credit_recv_state = "CREDIT_STOP_SENT"
        /\ credit_recv_state' = credit_recv_state
        /\ credits # <<>>
        /\ \/ flow' = flow
           \/ datalen_remaining > 0 /\ flow' = Append(flow, construct_data(Head(credits)))
    BY <1>9 DEF recv_credit_stop_sent
  <2>2. Asking' = Asking /\ credit_recv_state' # "CLOSE_WAIT"
    BY <2>1 DEF Asking
  <2> QED
    BY <1>5, <1>6, <2>1, <2>2
<1>10. CASE recv_credit_wasted
  <2>1. UNCHANGED <<credit_recv_state, credit_recved, flow>>
    BY <1>10 DEF recv_credit_wasted
  <2>2. /\ Asking' = Asking
        /\ credit_recv_state' = "CLOSE_WAIT" => credit_recved' = 0
    BY <2>1 DEF Asking, ControlPaired
  <2> QED
    BY <1>5, <2>1, <2>2
<1>11. CASE recv_nack
  <2> DEFINE restart ==
        credit_recv_state \in {"CREDIT_STOP_SENT", "CLOSE_WAIT", "CLOSED"}
  <2>1. /\ flow' = IF restart THEN Append(flow, construct_credit_request) ELSE flow
        /\ credit_recv_state' = IF restart THEN "CREDIT_REQUEST_SENT"
                                           ELSE credit_recv_state
    BY <1>11 DEF recv_nack
  <2>2. CASE restart
    <3>1. /\ construct_credit_request \in FlowPackets
          /\ IsRequest(construct_credit_request)
          /\ ~IsStop(construct_credit_request)
      BY <1>1, ConstructRequestType, PacketTags
    <3> QED
      BY <1>4, <2>1, <2>2, <3>1
  <2>3. CASE ~restart
    <3>1. UNCHANGED <<flow, credit_recv_state>> /\ credit_recv_state' # "CLOSE_WAIT"
      BY <2>1, <2>3
    <3>2. Asking' = Asking
      BY <3>1 DEF Asking
    <3> QED
      BY <1>5, <3>1, <3>2
  <2> QED
    BY <2>2, <2>3
<1>12. CASE send_credit_stop
  <2>1. /\ flow' = Append(flow, CreditStop)
        /\ credit_recv_state' = "CREDIT_STOP_SENT"
        /\ credit_stop_timer
    BY <1>12 DEF send_credit_stop
  <2>2. Asking = TRUE /\ Asking' = FALSE
    BY <2>1 DEF SenderTimers, Asking
  <2>3. Control(Append(flow, CreditStop), Sending, FALSE)
    BY <1>1, <1>2, <2>2, StopType, PacketTags, ControlAppend
  <2> QED
    BY <1>3, <2>1, <2>2, <2>3 DEF ControlPaired
<1>13. CASE retransmit_request
  <2>1. /\ construct_credit_request \in FlowPackets
        /\ IsRequest(construct_credit_request)
        /\ ~IsStop(construct_credit_request)
    BY <1>1, ConstructRequestType, PacketTags
  <2> QED
    BY <1>4, <1>13, <2>1 DEF retransmit_request
<1>14. CASE retransmit_close_wait
  <2>1. /\ UNCHANGED flow
        /\ credit_recv_state = "CREDIT_STOP_SENT"
        /\ credit_recv_state' = "CLOSE_WAIT" /\ credit_recved' = 0
    BY <1>14 DEF retransmit_close_wait, netVars
  <2>2. Asking' = Asking
    BY <2>1 DEF Asking
  <2> QED
    BY <1>5, <2>1, <2>2
<1>15. CASE retransmit_close
  <2>1. credit_recv_state = "CLOSE_WAIT" /\ credit_recved = 0
    BY <1>15 DEF retransmit_close, SenderTimers, ControlPaired
  <2>2. UNCHANGED flow /\ credit_recv_state' = "CLOSED"
    BY <1>15, <2>1 DEF retransmit_close
  <2>3. Asking' = Asking
    BY <2>1, <2>2 DEF Asking
  <2> QED
    BY <1>5, <2>2, <2>3
<1> QED
  BY <1>7, <1>8, <1>9, <1>10, <1>11, <1>12, <1>13, <1>14, <1>15 DEF SenderStep

\* A stop that arrives finds the receiver sending credits.
LEMMA ControlReceiver ==
  ASSUME TypeOK, ReceiverTimers, ControlPaired,
         ReceiverStep \/ DropCredit \/ DropFlow \/ DropNack, ControlArrives
  PROVE  ControlPaired' /\ (recv_credit_stop => Sending)
<1>1. /\ flow \in Seq(FlowPackets) /\ NetType /\ credit_send_state \in SendStates
      /\ Sending \in BOOLEAN /\ Asking \in BOOLEAN /\ Sending' \in BOOLEAN
  BY DEF TypeOK, NetType, ReceiverType, Sending, Asking
<1>2. Control(flow, Sending, Asking)
  BY DEF ControlPaired
<1>3. UNCHANGED <<credit_recv_state, credit_recved>> /\ Asking' = Asking
  BY SenderAlone DEF senderVars, Asking
<1>4. ASSUME flow # <<>>, flow' = Tail(flow),
             Sending' <=> IsRequest(Head(flow)) \/ (Sending /\ ~IsStop(Head(flow)))
      PROVE  ControlPaired' /\ (IsStop(Head(flow)) => Sending)
  <2>1. PICK r \in BOOLEAN : r = Sending'
    BY <1>1
  <2>2. Control(Tail(flow), r, Asking) /\ (IsStop(Head(flow)) => Sending)
    BY <1>1, <1>2, <1>4, <2>1, ControlTail
  <2> QED
    BY <1>3, <1>4, <2>1, <2>2 DEF ControlPaired
<1>5. ASSUME UNCHANGED flow, Sending' = Sending PROVE ControlPaired'
  BY <1>2, <1>3, <1>5 DEF ControlPaired
<1>6. ASSUME recv_credit_stop PROVE ControlPaired' /\ Sending
  <2>1. /\ flow # <<>> /\ flow' = Tail(flow) /\ Head(flow).type = "CREDIT_STOP"
        /\ credit_send_state' = "CLOSE_WAIT"
    BY <1>6 DEF recv_credit_stop, ReceiverMayReceive, stop_credits
  <2>2. IsStop(Head(flow)) /\ ~IsRequest(Head(flow)) /\ ~Sending'
    BY <2>1 DEF IsStop, IsRequest, Sending
  <2> QED
    BY <1>4, <2>1, <2>2
<1>7. ASSUME recv_credit_request PROVE ControlPaired'
  <2>1. /\ flow # <<>> /\ flow' = Tail(flow) /\ Head(flow).type = "CREDIT_REQUEST"
        /\ credit_send_state' = IF credit_send_state \in StartStates
                                THEN "CREDIT_SENDING" ELSE credit_send_state
    BY <1>7 DEF recv_credit_request, ReceiverMayReceive
  <2>2. Sending'
    BY <1>1, <2>1 DEF SendStates, StartStates, Sending
  <2>3. IsRequest(Head(flow))
    BY <2>1 DEF IsRequest
  <2> QED
    BY <1>4, <2>1, <2>2, <2>3
<1>8. ASSUME recv_data PROVE ControlPaired'
  <2>1. /\ flow # <<>> /\ flow' = Tail(flow) /\ IsData(Head(flow))
        /\ credit_send_state' = credit_send_state
    BY <1>8 DEF recv_data, ReceiverMayReceive, IsData
  <2>2. Sending' = Sending /\ ~IsRequest(Head(flow)) /\ ~IsStop(Head(flow))
    BY <2>1, PacketTags DEF Sending
  <2> QED
    BY <1>4, <2>1, <2>2
<1>9. ASSUME DropFlow PROVE ControlPaired'
  <2>1. /\ flow # <<>> /\ flow' = Tail(flow) /\ Head(flow).type \in Lossy
        /\ credit_send_state' = credit_send_state
    BY <1>9, ReceiverAlone DEF DropFlow, receiverVars
  <2>2. Sending' = Sending /\ ~IsRequest(Head(flow)) /\ ~IsStop(Head(flow))
    BY <2>1 DEF ControlArrives, IsRequest, IsStop, Sending
  <2> QED
    BY <1>4, <2>1, <2>2
<1>10. ASSUME \/ \E feedback \in BOOLEAN : send_credit(feedback)
              \/ handle_receiver_retransmit \/ DropCredit \/ DropNack
       PROVE  ControlPaired'
  <2>1. UNCHANGED <<flow, credit_send_state>>
    BY <1>10, ReceiverAlone
    DEF send_credit, handle_receiver_retransmit, DropCredit, DropNack, receiverVars
  <2> QED
    BY <1>5, <2>1 DEF Sending
<1>11. ASSUME handle_fct PROVE ControlPaired'
  <2>1. fct_timer /\ UNCHANGED flow /\ credit_send_state' = "CLOSED"
    BY <1>11 DEF handle_fct, netVars
  <2>2. Sending' = Sending
    BY <2>1 DEF ReceiverTimers, Sending
  <2> QED
    BY <1>5, <2>1, <2>2
<1> QED
  BY <1>6, <1>7, <1>8, <1>9, <1>10, <1>11 DEF ReceiverStep

LEMMA ControlNext ==
  ASSUME TypeOK, SenderTimers, ReceiverTimers, ControlPaired, ControlArrives,
         [Next]_vars
  PROVE  ControlPaired'
<1>1. CASE UNCHANGED vars
  BY <1>1 DEF vars, senderVars, receiverVars, netVars, ControlPaired, Sending, Asking
<1> QED
  BY <1>1, ControlSender, ControlReceiver DEF Next

LEMMA ControlInit == Init => ControlPaired
<1> SUFFICES ASSUME Init PROVE ControlPaired
  OBVIOUS
<1>1. Len(flow) = 0 /\ ~Sending /\ ~Asking /\ credit_recv_state # "CLOSE_WAIT"
  BY EmptySeq DEF Init, Sending, Asking
<1> QED
  BY <1>1 DEF ControlPaired, Control, Asked

LEMMA ControlSafe ==
  ASSUME ControlArrives
  PROVE  Spec => []ControlPaired
  BY ControlInit, ControlNext, Typing, SenderTimersSafe, ReceiverTimersSafe, PTL
  DEF Spec

\* While requests and stops arrive, a data sender that has closed has stopped
\* its receiver: no credits are paced for a flow that is over.
THEOREM ClosedSafe ==
  ASSUME ControlArrives
  PROVE  Spec => []ClosedMeansStopped
<1>1. ControlPaired => ClosedMeansStopped
  <2> SUFFICES ASSUME ControlPaired, credit_recv_state = "CLOSED", flow = <<>>, Sending
               PROVE  FALSE
    BY DEF ClosedMeansStopped, Sending
  <2>1. ~Asked(flow, Sending, Len(flow)) /\ Len(flow) = 0
    BY EmptySeq DEF ControlPaired, Control, Asking
  <2> QED
    BY <2>1 DEF Asked
<1> QED
  BY <1>1, ControlSafe, PTL

LEMMA NoExitNext ==
  ASSUME TypeOK, SenderTimers, ReceiverTimers, CreditOrder, ControlPaired,
         ControlArrives, NoExit, [Next]_vars
  PROVE  NoExit'
<1>1. ASSUME err' = err PROVE NoExit'
  BY <1>1 DEF NoExit
<1>2. CASE UNCHANGED vars
  BY <1>1, <1>2 DEF vars, envVars
<1>3. CASE \E nb \in FlowSizes : AdvanceBytes(nb)
  <2>1. ~sender_retransmit_timer
    BY <1>3 DEF AdvanceBytes, MayAdvance, SenderTimers
  <2> QED
    BY <1>1, <1>3, <2>1 DEF AdvanceBytes
<1>4. CASE retransmit_close
  <2>1. credit_recv_state # "CLOSED"
    BY <1>4 DEF retransmit_close, SenderTimers
  <2> QED
    BY <1>1, <1>4, <2>1 DEF retransmit_close
<1>5. CASE SenderStep /\ ~retransmit_close
  BY <1>1, <1>5 DEF SenderStep, recv_credit_active, recv_credit_stop_sent,
     recv_credit_wasted, recv_nack, send_credit_stop, retransmit_request,
     retransmit_close_wait, envVars
<1>6. CASE recv_data
  <2>1. err' = err
    BY <1>6, DataAccepted DEF recv_data
  <2> QED
    BY <1>1, <2>1
<1>7. CASE recv_credit_stop
  <2>1. Sending
    BY <1>7, ControlReceiver DEF ReceiverStep
  <2>2. ~fct_timer
    BY <2>1 DEF Sending, ReceiverTimers
  <2> QED
    BY <1>1, <1>7, <2>2 DEF recv_credit_stop
<1>8. CASE ReceiverStep /\ ~recv_data /\ ~recv_credit_stop
  BY <1>1, <1>8 DEF ReceiverStep, recv_credit_request, send_credit,
     handle_receiver_retransmit, handle_fct, envVars
<1>9. CASE DropCredit \/ DropFlow \/ DropNack
  BY <1>1, <1>9 DEF DropCredit, DropFlow, DropNack, Drop
<1> QED
  BY <1>2, <1>3, <1>4, <1>5, <1>6, <1>7, <1>8, <1>9 DEF Next

\* While requests and stops arrive, no check of xpass.cc or of a timer ends
\* the simulation, whatever credits, data and NACKs are lost: not the exits of
\* recv_data, process_ack and handle_sender_retransmit, and not sched() on a
\* pending timer in advance_bytes or recv_credit_stop.
THEOREM NoExitSafe ==
  ASSUME ControlArrives
  PROVE  Spec => []NoExit
<1>1. Init => NoExit
  BY DEF Init, NoExit
<1> QED
  BY <1>1, NoExitNext, ControlSafe, Typing, SenderTimersSafe, ReceiverTimersSafe,
     CreditOrderSafe, PTL DEF Spec

-----------------------------------------------------------------------------
(* The byte stream.  A data packet does not carry its length: process_ack       *)
(* takes it from the size of the frame, which construct_data pads to            *)
(* min_ethernet_size.  So the bounds of the stream hold when no frame is        *)
(* padded, and that is the hypothesis: all lengths are multiples of a unit      *)
(* that fills the smallest frame.                                               *)

\* A unit of length that needs no padding and divides every message.
Unit(u) ==
  /\ u \in Nat \ {0}
  /\ min_ethernet_size <= xpass_hdr_size + u
  /\ \E k \in Nat : max_segment = k * u
  /\ \A nb \in FlowSizes : \E k \in Nat : nb = k * u

\* No data frame is padded.
NoPadding == \E u \in Nat : Unit(u)

\* A sequence number up to hi, a whole number of units into the stream, and a
\* data packet between two of them.
Position(u, n, hi) == n \in Int /\ 1 <= n /\ n <= hi /\ \E k \in Int : n = 1 + k * u
Segment(u, p, hi) ==
  /\ Position(u, p.seqno, hi)
  /\ Position(u, EndOf(p), hi)
  /\ p.seqno < EndOf(p)

Placed(u) ==
  /\ Position(u, curseq, curseq)
  /\ Position(u, t_seqno, curseq)
  /\ Position(u, recv_next, curseq)
  /\ \A i \in 1..Len(nacks) : Position(u, nacks[i], recv_next)
  /\ \A i \in 1..Len(flow) : IsData(flow[i]) => Segment(u, flow[i], curseq)

LEMMA PositionLater ==
  ASSUME NEW u, NEW n, NEW hi \in Int, NEW hj \in Int, hi <= hj, Position(u, n, hi)
  PROVE  Position(u, n, hj)
  BY DEF Position

LEMMA SegmentLater ==
  ASSUME NEW u, NEW p, NEW hi \in Int, NEW hj \in Int, hi <= hj, Segment(u, p, hi)
  PROVE  Segment(u, p, hj)
  BY PositionLater DEF Segment

\* Whole units past a position.
LEMMA PositionPlus ==
  ASSUME NEW u \in Nat \ {0}, NEW n \in Int, NEW hi \in Int, NEW k \in Nat,
         Position(u, n, hi)
  PROVE  Position(u, n + k * u, n + k * u)
<1>1. PICK q \in Int : n = 1 + q * u
  BY DEF Position
<1>2. k * u \in Nat
  BY Z3
<1>3. 1 <= n
  BY DEF Position
<1>4. q + k \in Int /\ n + k * u = 1 + (q + k) * u
  BY <1>1, Z3
<1> HIDE <1>1
<1>5. n + k * u \in Int /\ 1 <= n + k * u
  BY <1>2, <1>3
<1> QED
  BY <1>4, <1>5 DEF Position

\* What is left between two positions is at least a unit.
LEMMA PositionGap ==
  ASSUME NEW u \in Nat \ {0}, NEW n \in Int, NEW m \in Int,
         Position(u, n, m), Position(u, m, m), n < m
  PROVE  n + u <= m
<1>1. PICK q \in Int : n = 1 + q * u
  BY DEF Position
<1>2. PICK r \in Int : m = 1 + r * u
  BY DEF Position
<1>3. q < r
  <2> SUFFICES ASSUME r <= q PROVE FALSE
    OBVIOUS
  <2>1. r * u <= q * u
    BY MulMono
  <2>2. r * u \in Int /\ q * u \in Int
    OBVIOUS
  <2> QED
    BY <1>1, <1>2, <2>1, <2>2
<1>4. (q + 1) * u <= r * u
  BY <1>3, MulMono
<1>5. (q + 1) * u = q * u + u /\ q * u \in Int /\ r * u \in Int
  BY Z3
<1> QED
  BY <1>1, <1>2, <1>4, <1>5

\* The packet construct_data builds is the next segment of the stream, unpadded.
LEMMA NextSegment ==
  ASSUME NEW u, Unit(u), SenderType, Placed(u), datalen_remaining > 0, NEW c \in Nat
  PROVE  /\ construct_data(c) \in FlowPackets
         /\ IsData(construct_data(c))
         /\ construct_data(c).seqno = t_seqno
         /\ EndOf(construct_data(c)) = t_seqno + NextDatalen
         /\ Segment(u, construct_data(c), curseq)
         /\ Position(u, t_seqno + NextDatalen, curseq)
<1>1. u \in Nat \ {0} /\ min_ethernet_size <= xpass_hdr_size + u
  BY DEF Unit
<1>2. PICK k \in Nat : max_segment = k * u
  BY DEF Unit
<1>3. curseq \in Nat /\ t_seqno \in Int
  BY DEF SenderType
<1>4. Position(u, curseq, curseq) /\ Position(u, t_seqno, curseq) /\ t_seqno < curseq
  BY <1>3 DEF Placed, datalen_remaining
<1>5. t_seqno + u <= curseq
  <2>1. curseq \in Int
    BY <1>3
  <2> QED
    BY <1>1, <1>3, <1>4, <2>1, PositionGap, Zenon
<1>6. max_segment \in Nat \ {0} /\ xpass_hdr_size \in Nat /\ min_ethernet_size \in Nat
  BY SizeFacts
<1>7. u <= max_segment
  <2> SUFFICES ASSUME k < 1 PROVE FALSE
    <3>1. ASSUME 1 <= k PROVE 1 * u <= k * u
      BY <1>1, <3>1, MulMono
    <3> QED
      BY <1>1, <1>2, <3>1
  <2> QED
    BY <1>1, <1>2, <1>6
<1> DEFINE d == NextDatalen
<1>8. d \in Nat /\ u <= d /\ t_seqno + d <= curseq
  BY <1>1, <1>3, <1>5, <1>6, <1>7 DEF NextDatalen, Lesser, datalen_remaining
<1>9. Position(u, t_seqno + d, curseq)
  <2>1. CASE d = max_segment
    <3>1. Position(u, t_seqno + k * u, t_seqno + k * u)
      BY <1>1, <1>3, <1>4, PositionPlus
    <3>2. t_seqno + d \in Int /\ Position(u, t_seqno + d, t_seqno + d)
      BY <1>2, <1>3, <1>8, <2>1, <3>1
    <3> QED
      BY <1>3, <1>8, <3>2, PositionLater
  <2>2. CASE d = curseq - t_seqno
    <3>1. t_seqno + d = curseq
      BY <1>3, <2>2
    <3> QED
      BY <1>4, <3>1
  <2> QED
    BY <2>1, <2>2 DEF NextDatalen, Lesser, datalen_remaining
<1>10. FrameSize(d) = xpass_hdr_size + d
  BY <1>1, <1>6, <1>8 DEF FrameSize, Greater
<1>11. /\ construct_data(c).seqno = t_seqno
       /\ construct_data(c).size = FrameSize(d)
       /\ IsData(construct_data(c))
  BY DEF construct_data, Data, IsData
<1>12. EndOf(construct_data(c)) = t_seqno + d /\ t_seqno < t_seqno + d
  BY <1>1, <1>3, <1>6, <1>8, <1>10, <1>11 DEF EndOf
<1>13. construct_data(c) \in FlowPackets
  BY DataType
<1> QED
  BY <1>4, <1>9, <1>11, <1>12, <1>13 DEF Segment

\* Elements of a channel after a packet joined or left it.
LEMMA PlacedFlow ==
  ASSUME NEW u, NEW f \in Seq(FlowPackets), NEW hi,
         \A i \in 1..Len(f) : IsData(f[i]) => Segment(u, f[i], hi)
  PROVE  /\ \A p \in FlowPackets :
              (IsData(p) => Segment(u, p, hi)) =>
                \A i \in 1..Len(Append(f, p)) :
                  IsData(Append(f, p)[i]) => Segment(u, Append(f, p)[i], hi)
         /\ f # <<>> => \A i \in 1..Len(Tail(f)) :
                          IsData(Tail(f)[i]) => Segment(u, Tail(f)[i], hi)
<1>1. ASSUME NEW p \in FlowPackets, IsData(p) => Segment(u, p, hi),
             NEW i \in 1..Len(Append(f, p)), IsData(Append(f, p)[i])
      PROVE  Segment(u, Append(f, p)[i], hi)
  BY <1>1, AppendElements
<1>2. ASSUME f # <<>>, NEW i \in 1..Len(Tail(f)), IsData(Tail(f)[i])
      PROVE  Segment(u, Tail(f)[i], hi)
  BY <1>2, TailElements
<1> QED
  BY <1>1, <1>2

LEMMA PlacedNacks ==
  ASSUME NEW u, NEW s \in Seq(Int), NEW r \in Int,
         \A i \in 1..Len(s) : Position(u, s[i], r)
  PROVE  /\ Position(u, r, r) => \A i \in 1..Len(Append(s, r)) :
                                   Position(u, Append(s, r)[i], r)
         /\ s # <<>> => /\ Position(u, Head(s), r)
                        /\ \A i \in 1..Len(Tail(s)) : Position(u, Tail(s)[i], r)
<1>1. ASSUME Position(u, r, r), NEW i \in 1..Len(Append(s, r))
      PROVE  Position(u, Append(s, r)[i], r)
  BY <1>1, AppendElements
<1>2. ASSUME s # <<>> PROVE /\ Position(u, Head(s), r)
                            /\ \A i \in 1..Len(Tail(s)) : Position(u, Tail(s)[i], r)
  BY <1>2, TailElements
<1> QED
  BY <1>1, <1>2

\* The steps of the sender.
LEMMA PlacedSender ==
  ASSUME TypeOK, NEW u, Unit(u), Placed(u),
         SenderStep \/ \E nb \in FlowSizes : AdvanceBytes(nb)
  PROVE  Placed(u)'
<1>1. /\ flow \in Seq(FlowPackets) /\ nacks \in Seq(Int) /\ SenderType /\ NetType
      /\ curseq \in Nat /\ t_seqno \in Int /\ recv_next \in Int
  BY DEF TypeOK, NetType, SenderType, ReceiverType
<1>2. /\ Position(u, curseq, curseq) /\ Position(u, t_seqno, curseq)
      /\ Position(u, recv_next, curseq)
      /\ \A i \in 1..Len(nacks) : Position(u, nacks[i], recv_next)
      /\ \A i \in 1..Len(flow) : IsData(flow[i]) => Segment(u, flow[i], curseq)
  BY DEF Placed
<1>3. recv_next' = recv_next
  BY ReceiverAlone DEF receiverVars
<1>4. ASSUME curseq' = curseq, nacks' = nacks, t_seqno' = t_seqno,
             flow' = flow \/ \E p \in FlowPackets : ~IsData(p) /\ flow' = Append(flow, p)
      PROVE  Placed(u)'
  <2>1. \A i \in 1..Len(flow') : IsData(flow'[i]) => Segment(u, flow'[i], curseq)
    BY <1>1, <1>2, <1>4, PlacedFlow
  <2> QED
    BY <1>2, <1>3, <1>4, <2>1 DEF Placed
<1>5. ASSUME credits # <<>>, datalen_remaining > 0, UNCHANGED <<curseq, nacks>>,
             t_seqno' = t_seqno + NextDatalen,
             flow' = Append(flow, construct_data(Head(credits)))
      PROVE  Placed(u)'
  <2> DEFINE p == construct_data(Head(credits))
  <2>1. Head(credits) \in Nat
    BY <1>1, <1>5, CreditHead
  <2>2. /\ p \in FlowPackets /\ Segment(u, p, curseq)
        /\ Position(u, t_seqno + NextDatalen, curseq)
    BY <1>1, <1>5, <2>1, NextSegment
  <2> HIDE DEF p
  <2>3. \A i \in 1..Len(Append(flow, p)) :
          IsData(Append(flow, p)[i]) => Segment(u, Append(flow, p)[i], curseq)
    BY <1>1, <1>2, <2>2, PlacedFlow
  <2>4. \A i \in 1..Len(flow') : IsData(flow'[i]) => Segment(u, flow'[i], curseq)
    BY <1>5, <2>3 DEF p
  <2> QED
    BY <1>2, <1>3, <1>5, <2>2, <2>4 DEF Placed
<1>6. ASSUME NEW nb \in FlowSizes, AdvanceBytes(nb) PROVE Placed(u)'
  <2> DEFINE n == curseq + nb - t_seqno
             p == CreditRequest(pkt_remaining(n))
  <2>1. n \in Int /\ nb \in Nat
    BY <1>1, FlowAssumption
  <2>2. p \in FlowPackets /\ ~IsData(p)
    <3> HIDE DEF n
    <3> QED
      BY <2>1, RequestType, PacketKinds
  <2>3. /\ flow' = Append(flow, p) /\ curseq' = curseq + nb
        /\ UNCHANGED <<nacks, t_seqno>>
    BY <1>6 DEF AdvanceBytes
  <2> HIDE DEF n, p
  <2>4. PICK k \in Nat : nb = k * u
    BY DEF Unit
  <2>5. Position(u, curseq + k * u, curseq + k * u)
    <3>1. u \in Nat \ {0} /\ curseq \in Int
      BY <1>1 DEF Unit
    <3> QED
      BY <1>2, <3>1, PositionPlus
  <2>6. PICK c \in Int : c = curseq' /\ curseq <= c
    BY <1>1, <2>1, <2>3
  <2>7. Position(u, c, c) /\ Position(u, t_seqno, c) /\ Position(u, recv_next, c)
    <3>1. curseq \in Int
      BY <1>1
    <3> QED
      BY <1>2, <2>3, <2>4, <2>5, <2>6, <3>1, PositionLater
  <2>8. \A i \in 1..Len(flow) : IsData(flow[i]) => Segment(u, flow[i], c)
    <3>1. curseq \in Int
      BY <1>1
    <3> QED
      BY <1>2, <2>6, <3>1, SegmentLater
  <2>9. \A i \in 1..Len(flow') : IsData(flow'[i]) => Segment(u, flow'[i], c)
    BY <1>1, <2>2, <2>3, <2>8, PlacedFlow
  <2> QED
    BY <1>2, <1>3, <2>3, <2>6, <2>7, <2>9 DEF Placed
<1>7. ASSUME NEW updateDue \in BOOLEAN, recv_credit_active(updateDue) PROVE Placed(u)'
  BY <1>4, <1>5, <1>7 DEF recv_credit_active
<1>8. CASE recv_credit_stop_sent
  BY <1>4, <1>5, <1>8 DEF recv_credit_stop_sent
<1>9. CASE recv_credit_wasted
  BY <1>4, <1>9 DEF recv_credit_wasted
<1>10. construct_credit_request \in FlowPackets /\ ~IsData(construct_credit_request)
  BY <1>1, ConstructRequestType, PacketKinds
<1>11. CASE recv_nack
  <2>1. /\ nacks # <<>> /\ nacks' = Tail(nacks) /\ t_seqno' = Head(nacks)
        /\ curseq' = curseq
        /\ flow' = flow \/ flow' = Append(flow, construct_credit_request)
    BY <1>11 DEF recv_nack
  <2>2. /\ Position(u, Head(nacks), recv_next)
        /\ \A i \in 1..Len(Tail(nacks)) : Position(u, Tail(nacks)[i], recv_next)
    BY <1>1, <1>2, <2>1, PlacedNacks
  <2>3. Position(u, Head(nacks), curseq)
    <3>1. curseq \in Int /\ recv_next <= curseq
      BY <1>1, <1>2 DEF Position
    <3> QED
      BY <1>1, <2>2, <3>1, PositionLater
  <2>4. \A i \in 1..Len(flow') : IsData(flow'[i]) => Segment(u, flow'[i], curseq)
    BY <1>1, <1>2, <1>10, <2>1, PlacedFlow
  <2> QED
    BY <1>2, <1>3, <2>1, <2>2, <2>3, <2>4 DEF Placed
<1>12. CASE send_credit_stop
  BY <1>4, <1>12, StopType, PacketKinds DEF send_credit_stop
<1>13. CASE retransmit_request
  BY <1>4, <1>10, <1>13 DEF retransmit_request
<1>14. CASE retransmit_close_wait
  BY <1>4, <1>14 DEF retransmit_close_wait, netVars
<1>15. CASE retransmit_close
  <2>1. /\ flow' = Append(flow, CreditStop) \/ flow' = flow
        /\ UNCHANGED <<curseq, nacks, t_seqno>>
    BY <1>15 DEF retransmit_close
  <2> QED
    BY <1>4, <2>1, StopType, PacketKinds
<1> QED
  BY <1>6, <1>7, <1>8, <1>9, <1>11, <1>12, <1>13, <1>14, <1>15 DEF SenderStep

\* A data packet is the segment its fields say.
LEMMA SegmentHead ==
  ASSUME TypeOK, NEW u, Placed(u), flow # <<>>, IsData(Head(flow))
  PROVE  /\ Segment(u, Head(flow), curseq)
         /\ Head(flow).seqno \in Int
         /\ Head(flow).size - xpass_hdr_size \in Nat \ {0}
         /\ EndOf(Head(flow)) = Head(flow).seqno + (Head(flow).size - xpass_hdr_size)
<1>1. flow \in Seq(FlowPackets) /\ NetType
  BY DEF TypeOK, NetType
<1>2. Segment(u, Head(flow), curseq)
  BY <1>1, TailElements DEF Placed
<1>3. Head(flow) \in FlowPackets
  BY <1>1, FlowHead
<1>4. /\ Head(flow).seqno \in Int /\ Head(flow).size \in Nat
      /\ Head(flow).size >= xpass_hdr_size /\ xpass_hdr_size \in Nat
  BY <1>3, DataFields, SizeFacts DEF IsData
<1>5. Head(flow).seqno < EndOf(Head(flow))
  BY <1>2 DEF Segment
<1> QED
  BY <1>2, <1>4, <1>5 DEF EndOf

\* The steps of the receiver and the network.
LEMMA PlacedReceiver ==
  ASSUME TypeOK, NEW u, Unit(u), Placed(u),
         ReceiverStep \/ DropCredit \/ DropFlow \/ DropNack
  PROVE  Placed(u)'
<1>1. /\ flow \in Seq(FlowPackets) /\ nacks \in Seq(Int) /\ NetType
      /\ curseq \in Nat /\ t_seqno \in Int /\ recv_next \in Int
  BY DEF TypeOK, NetType, SenderType, ReceiverType
<1>2. /\ Position(u, curseq, curseq) /\ Position(u, t_seqno, curseq)
      /\ Position(u, recv_next, curseq)
      /\ \A i \in 1..Len(nacks) : Position(u, nacks[i], recv_next)
      /\ \A i \in 1..Len(flow) : IsData(flow[i]) => Segment(u, flow[i], curseq)
  BY DEF Placed
<1>3. UNCHANGED <<curseq, t_seqno>>
  BY SenderAlone DEF senderVars
<1>4. ASSUME recv_next' = recv_next,
             nacks' = nacks \/ nacks' = Append(nacks, recv_next)
               \/ (nacks # <<>> /\ nacks' = Tail(nacks)),
             flow' = flow \/ (flow # <<>> /\ flow' = Tail(flow))
      PROVE  Placed(u)'
  <2>1. \A i \in 1..Len(flow') : IsData(flow'[i]) => Segment(u, flow'[i], curseq)
    BY <1>1, <1>2, <1>4, PlacedFlow
  <2>2. Position(u, recv_next, recv_next)
    BY <1>1, <1>2 DEF Position
  <2>3. \A i \in 1..Len(nacks') : Position(u, nacks'[i], recv_next)
    BY <1>1, <1>2, <1>4, <2>2, PlacedNacks
  <2> QED
    BY <1>2, <1>3, <1>4, <2>1, <2>3 DEF Placed
<1>5. CASE recv_data
  <2> DEFINE p == Head(flow)
             d == p.size - xpass_hdr_size
  <2>1. flow # <<>> /\ flow' = Tail(flow) /\ IsData(p)
    BY <1>5 DEF recv_data, ReceiverMayReceive, IsData
  <2>2. CASE UNCHANGED <<nacks, recv_next>>
    BY <1>4, <2>1, <2>2
  <2>3. CASE process_ack(p)
    <3>1. /\ nacks' = nacks \/ nacks' = Append(nacks, recv_next)
          /\ recv_next' = IF p.seqno = recv_next THEN recv_next + d ELSE recv_next
      BY <2>3 DEF process_ack, construct_nack
    <3>2. /\ Segment(u, p, curseq) /\ p.seqno \in Int /\ d \in Nat \ {0}
          /\ EndOf(p) = p.seqno + d
      BY <2>1, SegmentHead
    <3>3. CASE p.seqno # recv_next
      BY <1>4, <2>1, <3>1, <3>3
    <3>4. CASE p.seqno = recv_next
      <4>1. ~(p.seqno > recv_next)
        BY <3>2, <3>4
      <4>2. nacks' = nacks
        BY <2>3, <4>1 DEF process_ack
      <4>3. Position(u, EndOf(p), curseq)
        BY <3>2 DEF Segment
      <4> HIDE DEF p, d
      <4>4. recv_next' = EndOf(p) /\ EndOf(p) \in Int /\ recv_next <= EndOf(p)
        BY <1>1, <3>1, <3>2, <3>4
      <4>5. \A i \in 1..Len(nacks) : Position(u, nacks[i], EndOf(p))
        BY <1>1, <1>2, <4>4, PositionLater
      <4>6. \A i \in 1..Len(flow') : IsData(flow'[i]) => Segment(u, flow'[i], curseq)
        BY <1>1, <1>2, <2>1, PlacedFlow
      <4> QED
        BY <1>2, <1>3, <4>2, <4>3, <4>4, <4>5, <4>6 DEF Placed
    <3> QED
      BY <3>3, <3>4
  <2> QED
    BY <1>5, <2>2, <2>3 DEF recv_data
<1>6. CASE recv_credit_request \/ recv_credit_stop
  BY <1>4, <1>6 DEF recv_credit_request, recv_credit_stop, ReceiverMayReceive
<1>7. CASE \/ \E feedback \in BOOLEAN : send_credit(feedback)
           \/ handle_receiver_retransmit \/ handle_fct
  BY <1>4, <1>7 DEF send_credit, handle_receiver_retransmit, handle_fct, netVars
<1>8. CASE DropCredit \/ DropFlow \/ DropNack
  <2>1. recv_next' = recv_next
    BY <1>8, ReceiverAlone DEF receiverVars
  <2> QED
    BY <1>4, <1>8, <2>1 DEF DropCredit, DropFlow, DropNack
<1> QED
  BY <1>5, <1>6, <1>7, <1>8 DEF ReceiverStep

LEMMA PlacedNext ==
  ASSUME TypeOK, NEW u, Unit(u), Placed(u), [Next]_vars
  PROVE  Placed(u)'
<1>1. CASE UNCHANGED vars
  BY <1>1 DEF vars, senderVars, receiverVars, netVars, Placed
<1> QED
  BY <1>1, PlacedSender, PlacedReceiver DEF Next

LEMMA PlacedInit ==
  ASSUME NEW u, Unit(u), Init
  PROVE  Placed(u)
<1>1. /\ curseq = 1 /\ t_seqno = 1 /\ recv_next = 1
      /\ Len(nacks) = 0 /\ Len(flow) = 0
  BY EmptySeq DEF Init
<1>2. Position(u, 1, 1)
  <2>1. u \in Nat
    BY DEF Unit
  <2>2. 0 \in Int /\ 1 = 1 + 0 * u
    BY <2>1
  <2> QED
    BY <2>2 DEF Position
<1> QED
  BY <1>1, <1>2 DEF Placed

\* The bounds, for some unit.
StreamPlaced == \E u \in Nat : Unit(u) /\ Placed(u)

LEMMA StreamPlacedSafe ==
  ASSUME NoPadding
  PROVE  Spec => []StreamPlaced
<1>1. PICK u \in Nat : Unit(u)
  BY DEF NoPadding
<1>2. Init => StreamPlaced
  BY <1>1, PlacedInit DEF StreamPlaced
<1>3. TypeOK /\ StreamPlaced /\ [Next]_vars => StreamPlaced'
  <2> SUFFICES ASSUME TypeOK, StreamPlaced, [Next]_vars PROVE StreamPlaced'
    OBVIOUS
  <2>1. PICK v \in Nat : Unit(v) /\ Placed(v)
    BY DEF StreamPlaced
  <2>2. Placed(v)'
    BY <2>1, PlacedNext
  <2>3. Unit(v)'
    BY <2>1 DEF Unit
  <2> QED
    BY <2>2, <2>3 DEF StreamPlaced
<1> QED
  BY <1>2, <1>3, Typing, PTL DEF Spec

\* Whatever is lost, and however often NACKs set the sender back, neither side
\* runs past the bytes the application submitted.
THEOREM SequenceBoundsSafe ==
  ASSUME NoPadding
  PROVE  Spec => []SequenceBounds
<1>1. TypeOK /\ StreamPlaced => SequenceBounds
  <2> SUFFICES ASSUME TypeOK, NEW u \in Nat, Placed(u) PROVE SequenceBounds
    BY DEF StreamPlaced
  <2>1. /\ 1 <= t_seqno /\ t_seqno <= curseq /\ 1 <= recv_next /\ recv_next <= curseq
        /\ \A i \in 1..Len(nacks) : 1 <= nacks[i] /\ nacks[i] <= recv_next
    BY DEF Placed, Position
  <2>2. \A i \in 1..Len(flow) : IsData(flow[i]) =>
          1 <= flow[i].seqno /\ EndOf(flow[i]) <= curseq
    BY DEF Placed, Segment, Position
  <2> QED
    BY <2>1, <2>2 DEF SequenceBounds, EndOf
<1> QED
  BY <1>1, StreamPlacedSafe, Typing, PTL

-----------------------------------------------------------------------------
(* The flow implements the byte stream of FlowTransfer. *)

\* What has been delivered is what recv_next_ counts.
Counted == Len(delivered) = recv_next - 1

\* Either the stream stands still, or bytes are submitted, or the next segment
\* is delivered.
StreamStep ==
  \/ UNCHANGED <<curseq, recv_next, delivered>>
  \/ /\ \E nb \in FlowSizes : curseq' = curseq + nb
     /\ UNCHANGED <<recv_next, delivered>>
  \/ \E d \in Nat \ {0} :
       /\ recv_next + d <= curseq /\ curseq' = curseq
       /\ recv_next' = recv_next + d
       /\ delivered' = delivered \o [i \in 1..d |-> recv_next + i - 1]

LEMMA StreamSteps ==
  ASSUME TypeOK, StreamPlaced, [Next]_vars
  PROVE  StreamStep
<1>1. /\ curseq \in Nat /\ recv_next \in Int
  BY DEF TypeOK, SenderType, ReceiverType
<1>2. CASE UNCHANGED vars
  BY <1>2 DEF vars, senderVars, receiverVars, envVars, StreamStep
<1>3. CASE \E nb \in FlowSizes : AdvanceBytes(nb)
  <2>1. UNCHANGED recv_next
    BY <1>3, ReceiverAlone DEF receiverVars
  <2> QED
    BY <1>3, <2>1 DEF AdvanceBytes, StreamStep
<1>4. CASE SenderStep
  <2>1. UNCHANGED recv_next
    BY <1>4, ReceiverAlone DEF receiverVars
  <2>2. UNCHANGED <<curseq, delivered>>
    BY <1>4 DEF SenderStep, recv_credit_active, recv_credit_stop_sent,
       recv_credit_wasted, recv_nack, send_credit_stop, retransmit_request,
       retransmit_close_wait, retransmit_close, envVars
  <2> QED
    BY <2>1, <2>2 DEF StreamStep
<1>5. CASE recv_data
  <2> DEFINE p == Head(flow)
             d == p.size - xpass_hdr_size
  <2>1. UNCHANGED curseq
    BY <1>5 DEF recv_data, senderVars
  <2>2. CASE UNCHANGED <<recv_next, delivered>>
    BY <2>1, <2>2 DEF StreamStep
  <2>3. CASE process_ack(p) /\ p.seqno = recv_next
    <3>1. PICK u \in Nat : Placed(u)
      BY DEF StreamPlaced
    <3>2. flow # <<>> /\ IsData(p)
      BY <1>5 DEF recv_data, ReceiverMayReceive, IsData
    <3>3. Segment(u, p, curseq) /\ d \in Nat \ {0} /\ EndOf(p) = p.seqno + d
      BY <3>1, <3>2, SegmentHead
    <3>4. EndOf(p) <= curseq
      BY <3>3 DEF Segment, Position
    <3>5. /\ recv_next' = recv_next + d
          /\ delivered' = delivered \o [i \in 1..d |-> recv_next + i - 1]
      BY <2>3 DEF process_ack
    <3> HIDE DEF p, d
    <3>6. recv_next + d <= curseq
      BY <2>3, <3>3, <3>4
    <3> QED
      BY <2>1, <3>3, <3>5, <3>6 DEF StreamStep
  <2>4. CASE process_ack(p) /\ p.seqno # recv_next
    <3>1. UNCHANGED <<recv_next, delivered>>
      BY <2>4 DEF process_ack
    <3> QED
      BY <2>1, <3>1 DEF StreamStep
  <2> QED
    BY <1>5, <2>2, <2>3, <2>4 DEF recv_data
<1>6. CASE ReceiverStep /\ ~recv_data
  BY <1>6 DEF ReceiverStep, recv_credit_request, recv_credit_stop, send_credit,
     handle_receiver_retransmit, handle_fct, envVars, senderVars, StreamStep
<1>7. CASE DropCredit \/ DropFlow \/ DropNack
  BY <1>7 DEF DropCredit, DropFlow, DropNack, Drop, senderVars, receiverVars, StreamStep
<1> QED
  BY <1>2, <1>3, <1>4, <1>5, <1>6, <1>7 DEF Next

\* A segment from n on as a sequence.
LEMMA BytesSeq ==
  ASSUME NEW n \in Int, NEW d \in Nat
  PROVE  /\ [i \in 1..d |-> n + i - 1] \in Seq(Int)
         /\ Len([i \in 1..d |-> n + i - 1]) = d
<1> DEFINE bytes == [i \in 1..d |-> n + i - 1]
<1>1. \A i \in 1..d : n + i - 1 \in Int
  OBVIOUS
<1>2. bytes \in [1..d -> Int]
  BY <1>1
<1>3. bytes \in Seq(Int)
  BY <1>2, SeqDef, Zenon
<1>4. DOMAIN bytes = 1..d
  OBVIOUS
<1> HIDE DEF bytes
<1>5. Len(bytes) = d
  BY <1>3, <1>4, LenProperties
<1> QED
  BY <1>3, <1>5 DEF bytes

LEMMA CountedNext ==
  ASSUME TypeOK, Counted, StreamStep
  PROVE  Counted'
<1>1. delivered \in Seq(Int) /\ recv_next \in Int
  BY DEF TypeOK, EnvType, ReceiverType
<1>2. CASE UNCHANGED <<recv_next, delivered>>
  BY <1>2 DEF Counted
<1>3. ASSUME NEW d \in Nat \ {0}, recv_next' = recv_next + d,
             delivered' = delivered \o [i \in 1..d |-> recv_next + i - 1]
      PROVE  Counted'
  <2>1. /\ [i \in 1..d |-> recv_next + i - 1] \in Seq(Int)
        /\ Len([i \in 1..d |-> recv_next + i - 1]) = d
    BY <1>1, BytesSeq
  <2>2. Len(delivered') = Len(delivered) + d
    BY <1>1, <1>3, <2>1, ConcatProperties
  <2> QED
    BY <1>1, <1>3, <2>2 DEF Counted
<1> QED
  BY <1>2, <1>3 DEF StreamStep

\* A step of the flow is a step of the byte stream.
LEMMA TransferStep ==
  ASSUME TypeOK, Counted, StreamStep
  PROVE  Transfer!Next \/ UNCHANGED <<curseq - 1, delivered>>
<1>1. curseq \in Nat /\ recv_next \in Int /\ delivered \in Seq(Int)
  BY DEF TypeOK, SenderType, ReceiverType, EnvType
<1>2. Len(delivered) \in Nat /\ Len(delivered) = recv_next - 1
  BY <1>1, LenProperties DEF Counted
<1>3. CASE UNCHANGED <<curseq, recv_next, delivered>>
  BY <1>3
<1>4. ASSUME NEW nb \in FlowSizes, curseq' = curseq + nb, delivered' = delivered
      PROVE  Transfer!Next
  <2>1. nb \in Nat
    BY FlowAssumption
  <2>2. curseq' - 1 = (curseq - 1) + nb
    BY <1>1, <1>4, <2>1
  <2> QED
    BY <1>4, <2>2 DEF Transfer!Next, Transfer!Submit
<1>5. ASSUME NEW d \in Nat \ {0}, recv_next + d <= curseq, curseq' = curseq,
             delivered' = delivered \o [i \in 1..d |-> recv_next + i - 1]
      PROVE  Transfer!Next
  <2>1. d \in 1..(curseq - 1) /\ Len(delivered) + d <= curseq - 1
    BY <1>1, <1>2, <1>5
  <2>2. \A i \in 1..d : recv_next + i - 1 = Len(delivered) + i
    BY <1>1, <1>2
  <2>3. [i \in 1..d |-> recv_next + i - 1] = [i \in 1..d |-> Len(delivered) + i]
    BY <2>2
  <2>4. delivered' = delivered \o [i \in 1..d |-> Len(delivered) + i]
    BY <1>5, <2>3
  <2> QED
    BY <1>5, <2>1, <2>4 DEF Transfer!Next, Transfer!Deliver
<1> QED
  BY <1>3, <1>4, <1>5 DEF StreamStep

\* Whatever is lost, the receiver hands over the bytes submitted, in order, each
\* once and none that was not submitted: the flow implements FlowTransfer, with
\* curseq_ - 1 as the number of bytes submitted.
THEOREM TransferRefinement ==
  ASSUME NoPadding
  PROVE  Spec => TransferSpec
<1>1. Init => Counted /\ Transfer!Init
  BY EmptySeq DEF Init, Counted, Transfer!Init
<1>2. TypeOK /\ StreamPlaced /\ Counted /\ [Next]_vars
        => Counted' /\ [Transfer!Next]_<<curseq - 1, delivered>>
  BY StreamSteps, CountedNext, TransferStep
<1> QED
  BY <1>1, <1>2, StreamPlacedSafe, Typing, PTL DEF Spec, TransferSpec, Transfer!Spec

-----------------------------------------------------------------------------
(* The stream in flight while no data is lost. *)

DataArrives == "DATA" \notin Lossy

\* A packet of another kind sent last changes nothing.
LEMMA TilesOtherSent ==
  ASSUME NEW f \in Seq(FlowPackets), NEW p \in FlowPackets, ~IsData(p),
         NEW lo, NEW hi, Tiles(f, lo, hi)
  PROVE  Tiles(Append(f, p), lo, hi)
<1> DEFINE g == Append(f, p)
<1>1. /\ \A i \in DataAt(g) : i \in DataAt(f) /\ g[i] = f[i]
      /\ \A i \in DataAt(f) : i \in DataAt(g)
  <2>1. \A i \in 1..Len(f) : g[i] = f[i] /\ i \in 1..Len(g)
    BY AppendProperties, LenProperties
  <2>2. \A i \in 1..Len(g) : i \in 1..Len(f) \/ g[i] = p
    BY AppendElements
  <2> QED
    BY <2>1, <2>2 DEF DataAt
<1>2. DataAt(g) = DataAt(f)
  BY <1>1
<1> HIDE DEF g
<1>3. Tiles(g, lo, hi)
  BY <1>1, <1>2 DEF Tiles
<1> QED
  BY <1>3 DEF g

\* The next segment sent last.
LEMMA TilesDataSent ==
  ASSUME NEW f \in Seq(FlowPackets), NEW p \in FlowPackets, IsData(p),
         NEW lo, NEW hi, Tiles(f, lo, hi), p.seqno = hi
  PROVE  Tiles(Append(f, p), lo, EndOf(p))
<1> DEFINE g == Append(f, p)
           m == Len(f) + 1
<1>1. /\ m \in Nat /\ m \in DataAt(g) /\ g[m] = p
      /\ \A i \in DataAt(f) : i \in DataAt(g) /\ g[i] = f[i] /\ i \in Int /\ i < m
      /\ \A i \in DataAt(g) : i \in DataAt(f) \/ i = m
  <2>1. /\ Len(f) \in Nat /\ Len(g) = m /\ g[m] = p
        /\ \A i \in 1..Len(f) : g[i] = f[i]
    BY AppendProperties, LenProperties
  <2> HIDE DEF g
  <2>2. m \in 1..Len(g) /\ \A i \in 1..Len(f) : i \in 1..Len(g) /\ i \in Int /\ i < m
    BY <2>1
  <2>3. \A i \in 1..Len(g) : i \in 1..Len(f) \/ i = m
    BY <2>1
  <2> QED
    BY <2>1, <2>2, <2>3 DEF DataAt
<1> HIDE DEF g, m
<1>2. \A i \in DataAt(f) : ~(m <= i) /\ i <= m
  BY <1>1
<1>3. ASSUME NEW i \in DataAt(g), \A k \in DataAt(g) : i <= k PROVE g[i].seqno = lo
  <2>1. CASE i = m
    <3>1. DataAt(f) = {}
      BY <1>1, <1>2, <1>3, <2>1
    <3> QED
      BY <1>1, <2>1, <3>1 DEF Tiles
  <2>2. CASE i \in DataAt(f)
    BY <1>1, <1>3, <2>2 DEF Tiles
  <2> QED
    BY <1>1, <2>1, <2>2
<1>4. ASSUME NEW i \in DataAt(g), \A k \in DataAt(g) : k <= i PROVE EndOf(g[i]) = EndOf(p)
  BY <1>1, <1>2, <1>4
<1>5. ASSUME NEW i \in DataAt(g), NEW j \in DataAt(g), i < j,
             \A k \in DataAt(g) : k <= i \/ j <= k
      PROVE  EndOf(g[i]) = g[j].seqno
  <2>1. i \in DataAt(f)
    <3>1. ASSUME i = m PROVE FALSE
      BY <1>1, <1>5, <3>1
    <3> QED
      BY <1>1, <3>1
  <2>2. CASE j \in DataAt(f)
    BY <1>1, <1>5, <2>1, <2>2 DEF Tiles
  <2>3. CASE j = m
    <3>1. \A k \in DataAt(f) : k <= i
      BY <1>1, <1>2, <1>5, <2>3
    <3>2. EndOf(f[i]) = hi
      BY <2>1, <3>1 DEF Tiles
    <3> QED
      BY <1>1, <2>1, <2>3, <3>2
  <2> QED
    BY <1>1, <2>2, <2>3
<1>6. Tiles(g, lo, EndOf(p))
  BY <1>1, <1>3, <1>4, <1>5 DEF Tiles
<1> QED
  BY <1>6 DEF g

\* The positions of data in a flow whose first packet has arrived.
LEMMA DataAtTail ==
  ASSUME NEW f \in Seq(FlowPackets), f # <<>>
  PROVE  /\ \A i \in DataAt(Tail(f)) :
              i \in Nat /\ i + 1 \in DataAt(f) /\ Tail(f)[i] = f[i + 1] /\ 1 <= i
         /\ \A i \in DataAt(f) :
              i \in Nat /\ (i = 1 \/ (i - 1 \in DataAt(Tail(f)) /\ Tail(f)[i - 1] = f[i]))
         /\ 1 \in DataAt(f) <=> IsData(Head(f))
<1> DEFINE g == Tail(f)
<1>1. /\ Len(f) \in Nat /\ Len(g) = Len(f) - 1 /\ Len(f) # 0 /\ Head(f) = f[1]
      /\ \A i \in 1..(Len(f) - 1) : g[i] = f[i + 1]
  <2>1. Len(f) \in Nat /\ Len(f) # 0
    BY LenProperties, EmptySeq
  <2> QED
    BY <2>1, HeadTailProperties
<1> HIDE DEF g
<1>2. /\ \A i \in 1..Len(g) : i \in Nat /\ i + 1 \in 1..Len(f) /\ g[i] = f[i + 1] /\ 1 <= i
      /\ 1 \in 1..Len(f)
  BY <1>1
<1>3. \A i \in 1..Len(f) : i \in Nat /\ (i = 1 \/ i - 1 \in 1..Len(g))
  BY <1>1
<1>4. \A i \in 1..Len(f) : i = 1 \/ (i - 1 \in 1..Len(g) /\ g[i - 1] = f[i])
  <2>1. \A i \in 1..Len(f) : (i - 1) + 1 = i
    BY <1>1
  <2> QED
    BY <1>2, <1>3, <2>1
<1>5. \A i \in DataAt(g) :
        i \in Nat /\ i + 1 \in DataAt(f) /\ g[i] = f[i + 1] /\ 1 <= i
  BY <1>2 DEF DataAt
<1>6. \A i \in DataAt(f) :
        i \in Nat /\ (i = 1 \/ (i - 1 \in DataAt(g) /\ g[i - 1] = f[i]))
  BY <1>3, <1>4 DEF DataAt
<1>7. 1 \in DataAt(f) <=> IsData(Head(f))
  BY <1>1, <1>2 DEF DataAt
<1> QED
  BY <1>5, <1>6, <1>7 DEF g

\* The first packet arrives: when it is data, it is the next expected.
LEMMA TilesTail ==
  ASSUME NEW f \in Seq(FlowPackets), f # <<>>, NEW lo, NEW hi, Tiles(f, lo, hi),
         NEW lp, lp = IF IsData(Head(f)) THEN EndOf(Head(f)) ELSE lo
  PROVE  /\ IsData(Head(f)) => Head(f).seqno = lo
         /\ Tiles(Tail(f), lp, hi)
<1> DEFINE g == Tail(f)
<1>1. /\ \A i \in DataAt(g) :
           i \in Nat /\ i + 1 \in DataAt(f) /\ g[i] = f[i + 1] /\ 1 <= i
      /\ \A i \in DataAt(f) :
           i \in Nat /\ (i = 1 \/ (i - 1 \in DataAt(g) /\ g[i - 1] = f[i]))
      /\ 1 \in DataAt(f) <=> IsData(Head(f))
  BY DataAtTail
<1>2. Head(f) = f[1]
  BY TailElements
<1> HIDE DEF g
<1>3. \A i \in DataAt(f) : 1 <= i
  <2>1. \A i \in DataAt(f) : i - 1 \in DataAt(g) => 1 <= i - 1
    BY <1>1
  <2> QED
    BY <1>1, <2>1
<1>4. IsData(Head(f)) => Head(f).seqno = lo
  BY <1>1, <1>2, <1>3 DEF Tiles
<1>5. ASSUME DataAt(g) = {} PROVE lp = hi
  <2>1. CASE IsData(Head(f))
    <3>1. \A k \in DataAt(f) : k <= 1
      BY <1>1, <1>5
    <3>2. EndOf(f[1]) = hi
      BY <1>1, <2>1, <3>1 DEF Tiles
    <3> QED
      BY <1>2, <2>1, <3>2
  <2>2. CASE ~IsData(Head(f))
    <3>1. DataAt(f) = {}
      BY <1>1, <1>5, <2>2
    <3> QED
      BY <2>2, <3>1 DEF Tiles
  <2> QED
    BY <2>1, <2>2
<1>6. ASSUME NEW i \in DataAt(g), \A k \in DataAt(g) : i <= k PROVE g[i].seqno = lp
  <2>1. i + 1 \in DataAt(f) /\ g[i] = f[i + 1] /\ i \in Nat /\ 1 < i + 1
    BY <1>1
  <2>2. \A k \in DataAt(f) : k # 1 => i + 1 <= k
    <3> SUFFICES ASSUME NEW k \in DataAt(f), k # 1 PROVE i + 1 <= k
      OBVIOUS
    <3>1. k \in Nat /\ k - 1 \in DataAt(g)
      BY <1>1
    <3>2. i <= k - 1
      BY <1>6, <3>1
    <3> QED
      BY <2>1, <3>1, <3>2
  <2>3. CASE IsData(Head(f))
    <3>1. 1 \in DataAt(f) /\ \A k \in DataAt(f) : k <= 1 \/ i + 1 <= k
      BY <1>1, <2>2, <2>3
    <3>2. EndOf(f[1]) = f[i + 1].seqno
      BY <2>1, <3>1 DEF Tiles
    <3> QED
      BY <1>2, <2>1, <2>3, <3>2
  <2>4. CASE ~IsData(Head(f))
    <3>1. \A k \in DataAt(f) : i + 1 <= k
      BY <1>1, <2>2, <2>4
    <3>2. f[i + 1].seqno = lo
      BY <2>1, <3>1 DEF Tiles
    <3> QED
      BY <2>1, <2>4, <3>2
  <2> QED
    BY <2>3, <2>4
<1>7. ASSUME NEW i \in DataAt(g), \A k \in DataAt(g) : k <= i PROVE EndOf(g[i]) = hi
  <2>1. i + 1 \in DataAt(f) /\ g[i] = f[i + 1] /\ i \in Nat /\ 1 <= i
    BY <1>1
  <2>2. ASSUME NEW k \in DataAt(f) PROVE k <= i + 1
    <3>1. k \in Nat /\ (k = 1 \/ k - 1 \in DataAt(g))
      BY <1>1
    <3>2. k = 1 \/ k - 1 <= i
      BY <1>7, <3>1
    <3> QED
      BY <2>1, <3>1, <3>2
  <2> QED
    BY <2>1, <2>2 DEF Tiles
<1>8. ASSUME NEW i \in DataAt(g), NEW j \in DataAt(g), i < j,
             \A k \in DataAt(g) : k <= i \/ j <= k
      PROVE  EndOf(g[i]) = g[j].seqno
  <2>1. /\ i + 1 \in DataAt(f) /\ g[i] = f[i + 1] /\ i \in Nat /\ 1 <= i
        /\ j + 1 \in DataAt(f) /\ g[j] = f[j + 1] /\ j \in Nat
    BY <1>1
  <2>2. i + 1 < j + 1
    BY <1>8, <2>1
  <2>3. ASSUME NEW k \in DataAt(f) PROVE k <= i + 1 \/ j + 1 <= k
    <3>1. k \in Nat /\ (k = 1 \/ k - 1 \in DataAt(g))
      BY <1>1
    <3>2. k = 1 \/ k - 1 <= i \/ j <= k - 1
      BY <1>8, <3>1
    <3> QED
      BY <2>1, <3>1, <3>2
  <2> QED
    BY <2>1, <2>2, <2>3 DEF Tiles
<1>9. Tiles(g, lp, hi)
  BY <1>5, <1>6, <1>7, <1>8 DEF Tiles
<1> QED
  BY <1>4, <1>9 DEF g

\* Nothing is missing: the packets in flight carry the stream without a gap, so
\* the receiver has never asked for a retransmission.
Smooth ==
  /\ Tiles(flow, recv_next, t_seqno)
  /\ nacks = <<>>
  /\ ~wait_retransmission

LEMMA SmoothSender ==
  ASSUME TypeOK, StreamPlaced, Smooth,
         SenderStep \/ \E nb \in FlowSizes : AdvanceBytes(nb)
  PROVE  Smooth'
<1>1. flow \in Seq(FlowPackets) /\ SenderType /\ NetType /\ curseq \in Nat /\ t_seqno \in Int
  BY DEF TypeOK, NetType, SenderType
<1>2. Tiles(flow, recv_next, t_seqno) /\ nacks = <<>> /\ ~wait_retransmission
  BY DEF Smooth
<1>3. UNCHANGED <<recv_next, wait_retransmission>>
  BY ReceiverAlone DEF receiverVars
<1>4. ASSUME nacks' = nacks, t_seqno' = t_seqno,
             flow' = flow \/ \E p \in FlowPackets : ~IsData(p) /\ flow' = Append(flow, p)
      PROVE  Smooth'
  <2>1. Tiles(flow', recv_next, t_seqno)
    BY <1>1, <1>2, <1>4, TilesOtherSent
  <2> QED
    BY <1>2, <1>3, <1>4, <2>1 DEF Smooth
<1>5. ASSUME credits # <<>>, datalen_remaining > 0, nacks' = nacks,
             t_seqno' = t_seqno + NextDatalen,
             flow' = Append(flow, construct_data(Head(credits)))
      PROVE  Smooth'
  <2> DEFINE p == construct_data(Head(credits))
  <2>1. PICK u \in Nat : Unit(u) /\ Placed(u)
    BY DEF StreamPlaced
  <2>2. Head(credits) \in Nat
    BY <1>1, <1>5, CreditHead
  <2>3. /\ p \in FlowPackets /\ IsData(p) /\ p.seqno = t_seqno
        /\ EndOf(p) = t_seqno + NextDatalen
    BY <1>1, <1>5, <2>1, <2>2, NextSegment
  <2> HIDE DEF p
  <2>4. Tiles(Append(flow, p), recv_next, EndOf(p))
    BY <1>1, <1>2, <2>3, TilesDataSent
  <2> QED
    BY <1>2, <1>3, <1>5, <2>3, <2>4 DEF Smooth, p
<1>6. ASSUME NEW nb \in FlowSizes, AdvanceBytes(nb) PROVE Smooth'
  <2> DEFINE n == curseq + nb - t_seqno
             p == CreditRequest(pkt_remaining(n))
  <2>1. n \in Int
    BY <1>1, FlowAssumption
  <2>2. p \in FlowPackets /\ ~IsData(p)
    <3> HIDE DEF n
    <3> QED
      BY <2>1, RequestType, PacketKinds
  <2>3. flow' = Append(flow, p) /\ UNCHANGED <<nacks, t_seqno>>
    BY <1>6 DEF AdvanceBytes
  <2> HIDE DEF n, p
  <2> QED
    BY <1>4, <2>2, <2>3
<1>7. ASSUME NEW updateDue \in BOOLEAN, recv_credit_active(updateDue) PROVE Smooth'
  BY <1>4, <1>5, <1>7 DEF recv_credit_active
<1>8. CASE recv_credit_stop_sent
  BY <1>4, <1>5, <1>8 DEF recv_credit_stop_sent
<1>9. CASE recv_credit_wasted
  BY <1>4, <1>9 DEF recv_credit_wasted
<1>10. ~recv_nack
  BY <1>2 DEF recv_nack
<1>11. CASE send_credit_stop
  BY <1>4, <1>11, StopType, PacketKinds DEF send_credit_stop
<1>12. CASE retransmit_request
  <2>1. construct_credit_request \in FlowPackets /\ ~IsData(construct_credit_request)
    BY <1>1, ConstructRequestType, PacketKinds
  <2> QED
    BY <1>4, <1>12, <2>1 DEF retransmit_request
<1>13. CASE retransmit_close_wait
  BY <1>4, <1>13 DEF retransmit_close_wait, netVars
<1>14. CASE retransmit_close
  <2>1. /\ flow' = Append(flow, CreditStop) \/ flow' = flow
        /\ UNCHANGED <<nacks, t_seqno>>
    BY <1>14 DEF retransmit_close
  <2> QED
    BY <1>4, <2>1, StopType, PacketKinds
<1> QED
  BY <1>6, <1>7, <1>8, <1>9, <1>10, <1>11, <1>12, <1>13, <1>14 DEF SenderStep

LEMMA SmoothReceiver ==
  ASSUME TypeOK, ReceiverTimers, CreditOrder, StreamPlaced, Smooth, DataArrives,
         ReceiverStep \/ DropCredit \/ DropFlow \/ DropNack
  PROVE  Smooth'
<1>1. flow \in Seq(FlowPackets) /\ NetType /\ recv_next \in Int
  BY DEF TypeOK, NetType, ReceiverType
<1>2. Tiles(flow, recv_next, t_seqno) /\ nacks = <<>> /\ ~wait_retransmission
  BY DEF Smooth
<1>3. t_seqno' = t_seqno
  BY SenderAlone DEF senderVars
<1>4. ASSUME UNCHANGED <<recv_next, nacks, wait_retransmission>>,
             flow' = flow \/ (flow # <<>> /\ ~IsData(Head(flow)) /\ flow' = Tail(flow))
      PROVE  Smooth'
  <2>1. Tiles(flow', recv_next, t_seqno)
    BY <1>1, <1>2, <1>4, TilesTail
  <2> QED
    BY <1>2, <1>3, <1>4, <2>1 DEF Smooth
<1>5. CASE recv_data
  <2> DEFINE p == Head(flow)
             d == p.size - xpass_hdr_size
  <2>1. flow # <<>> /\ flow' = Tail(flow) /\ IsData(p) /\ process_ack(p)
    BY <1>5, DataAccepted DEF recv_data, ReceiverMayReceive, IsData
  <2>2. p.seqno = recv_next /\ Tiles(Tail(flow), EndOf(p), t_seqno)
    BY <1>1, <1>2, <2>1, TilesTail
  <2>3. EndOf(p) = p.seqno + d
    BY <2>1, SegmentHead DEF StreamPlaced
  <2>4. ~(p.seqno > recv_next)
    BY <1>1, <2>2
  <2>5. nacks' = nacks /\ ~wait_retransmission' /\ recv_next' = recv_next + d
    BY <2>1, <2>2, <2>4 DEF process_ack
  <2> HIDE DEF p, d
  <2>6. recv_next' = EndOf(p)
    BY <2>2, <2>3, <2>5
  <2> QED
    BY <1>2, <1>3, <2>1, <2>2, <2>5, <2>6 DEF Smooth
<1>6. CASE recv_credit_request \/ recv_credit_stop
  <2>1. flow # <<>> /\ ~IsData(Head(flow)) /\ flow' = Tail(flow)
    BY <1>6 DEF recv_credit_request, recv_credit_stop, ReceiverMayReceive, IsData
  <2>2. UNCHANGED <<recv_next, nacks, wait_retransmission>>
    BY <1>6 DEF recv_credit_request, recv_credit_stop
  <2> QED
    BY <1>4, <2>1, <2>2
<1>7. ~handle_receiver_retransmit
  BY <1>2 DEF handle_receiver_retransmit, ReceiverTimers
<1>8. CASE (\E feedback \in BOOLEAN : send_credit(feedback)) \/ handle_fct
  BY <1>4, <1>8 DEF send_credit, handle_fct, netVars
<1>9. CASE DropCredit \/ DropFlow \/ DropNack
  <2>1. UNCHANGED <<recv_next, wait_retransmission>>
    BY <1>9, ReceiverAlone DEF receiverVars
  <2>2. ~DropNack
    BY <1>2 DEF DropNack
  <2>3. DropFlow => ~IsData(Head(flow))
    BY DEF DropFlow, DataArrives, IsData
  <2> QED
    BY <1>4, <1>9, <2>1, <2>2, <2>3 DEF DropCredit, DropFlow
<1> QED
  BY <1>5, <1>6, <1>7, <1>8, <1>9 DEF ReceiverStep

LEMMA SmoothNext ==
  ASSUME TypeOK, ReceiverTimers, CreditOrder, StreamPlaced, Smooth, DataArrives,
         [Next]_vars
  PROVE  Smooth'
<1>1. CASE UNCHANGED vars
  BY <1>1 DEF vars, senderVars, receiverVars, netVars, Smooth
<1> QED
  BY <1>1, SmoothSender, SmoothReceiver DEF Next

LEMMA SmoothSafe ==
  ASSUME NoPadding, DataArrives
  PROVE  Spec => []Smooth
<1>1. Init => Smooth
  <2> SUFFICES ASSUME Init PROVE Smooth
    OBVIOUS
  <2>1. Len(flow) = 0 /\ recv_next = t_seqno /\ nacks = <<>> /\ ~wait_retransmission
    BY EmptySeq DEF Init
  <2>2. DataAt(flow) = {}
    BY <2>1 DEF DataAt
  <2> QED
    BY <2>1, <2>2 DEF Smooth, Tiles
<1> QED
  BY <1>1, SmoothNext, StreamPlacedSafe, Typing, ReceiverTimersSafe, CreditOrderSafe,
     PTL DEF Spec

\* While no data is lost, whatever credits, requests and stops are, the data in
\* flight is exactly what lies between recv_next_ and t_seqno_.
THEOREM InFlightSafe ==
  ASSUME NoPadding, DataArrives
  PROVE  Spec => []InFlightTilesStream
<1>1. Smooth => InFlightTilesStream
  BY DEF Smooth, InFlightTilesStream
<1> QED
  BY <1>1, SmoothSafe, PTL

-----------------------------------------------------------------------------
(* The rate of the credits while no data is lost. *)

\* What makes RateIsPositive inductive: every request in flight announces
\* packets, because a sender that asks, or asks again, has data left.
Announced(f) == \A i \in 1..Len(f) : IsRequest(f[i]) => f[i].sendbuffer > 0
RatePositive ==
  /\ Announced(flow)
  /\ credit_recv_state = "CREDIT_REQUEST_SENT" => t_seqno < curseq
  /\ RateIsPositive

\* Bytes left make packets left.
LEMMA PacketsLeft ==
  ASSUME NEW n \in Int, n > 0
  PROVE  pkt_remaining(n) > 0
<1>1. max_segment \in Nat \ {0}
  BY SizeFacts
<1>2. n + max_segment - 1 \in Int /\ 1 * max_segment <= n + max_segment - 1
  BY <1>1
<1>3. 1 <= (n + max_segment - 1) \div max_segment
  BY <1>1, <1>2, DivLower
<1>4. pkt_remaining(n) \in Int
  BY <1>1, <1>2, DivType DEF pkt_remaining
<1> QED
  BY <1>3, <1>4 DEF pkt_remaining

LEMMA AnnouncedSent ==
  ASSUME NEW f \in Seq(FlowPackets), Announced(f), NEW p \in FlowPackets,
         IsRequest(p) => p.sendbuffer > 0
  PROVE  Announced(Append(f, p))
  BY AppendElements DEF Announced

LEMMA AnnouncedTail ==
  ASSUME NEW f \in Seq(FlowPackets), Announced(f), f # <<>>
  PROVE  Announced(Tail(f)) /\ (IsRequest(Head(f)) => Head(f).sendbuffer > 0)
  BY TailElements DEF Announced

LEMMA RateSender ==
  ASSUME TypeOK, SenderTimers, SequenceBounds, Smooth, RatePositive,
         SenderStep \/ \E nb \in FlowSizes : AdvanceBytes(nb)
  PROVE  RatePositive'
<1>1. /\ flow \in Seq(FlowPackets) /\ SenderType /\ NetType
      /\ curseq \in Nat /\ t_seqno \in Int /\ t_seqno <= curseq
  BY DEF TypeOK, NetType, SenderType, SequenceBounds
<1>2. Announced(flow) /\ RateIsPositive
  BY DEF RatePositive
<1>3. RateIsPositive'
  <2>1. UNCHANGED <<credit_send_state, cur_credit_rate>>
    BY ReceiverAlone DEF receiverVars, rateVars
  <2> QED
    BY <1>2, <2>1 DEF RateIsPositive
<1>4. ASSUME flow' = flow \/ \E p \in FlowPackets :
                               (IsRequest(p) => p.sendbuffer > 0) /\ flow' = Append(flow, p),
             credit_recv_state' = "CREDIT_REQUEST_SENT" => t_seqno' < curseq'
      PROVE  RatePositive'
  <2>1. Announced(flow')
    BY <1>1, <1>2, <1>4, AnnouncedSent
  <2>2. Announced(flow)'
    BY <2>1 DEF Announced
  <2> QED
    BY <1>3, <1>4, <2>2 DEF RatePositive
<1>5. ASSUME NEW nb \in FlowSizes, AdvanceBytes(nb) PROVE RatePositive'
  <2> DEFINE n == curseq + nb - t_seqno
             p == CreditRequest(pkt_remaining(n))
  <2>1. nb \in Nat \ {0}
    BY FlowAssumption
  <2>2. n \in Int /\ n > 0
    BY <1>1, <2>1
  <2>3. p \in FlowPackets /\ p.sendbuffer > 0
    <3> HIDE DEF n
    <3>1. pkt_remaining(n) > 0
      BY <2>2, PacketsLeft
    <3> QED
      BY <2>2, <3>1, RequestType DEF CreditRequest
  <2>4. flow' = Append(flow, p) /\ curseq' = curseq + nb /\ t_seqno' = t_seqno
    BY <1>5 DEF AdvanceBytes
  <2>5. t_seqno' < curseq'
    BY <1>1, <2>1, <2>4
  <2> HIDE DEF p
  <2> QED
    BY <1>4, <2>3, <2>4, <2>5
<1>6. ASSUME credits # <<>>, datalen_remaining > 0
      PROVE  /\ construct_data(Head(credits)) \in FlowPackets
             /\ ~IsRequest(construct_data(Head(credits)))
  BY <1>1, <1>6, CreditHead, DataType, PacketTags
<1>7. ASSUME NEW updateDue \in BOOLEAN, recv_credit_active(updateDue)
      PROVE  RatePositive'
  <2>1. /\ credit_recv_state' = "CREDIT_RECEIVING" /\ credits # <<>>
        /\ \/ flow' = flow
           \/ datalen_remaining > 0 /\ flow' = Append(flow, construct_data(Head(credits)))
    BY <1>7 DEF recv_credit_active
  <2> QED
    BY <1>4, <1>6, <2>1
<1>8. CASE recv_credit_stop_sent
  <2>1. /\ credit_recv_state' = "CREDIT_STOP_SENT" /\ credits # <<>>
        /\ \/ flow' = flow
           \/ datalen_remaining > 0 /\ flow' = Append(flow, construct_data(Head(credits)))
    BY <1>8 DEF recv_credit_stop_sent
  <2> QED
    BY <1>4, <1>6, <2>1
<1>9. CASE recv_credit_wasted
  <2>1. /\ credit_recv_state' \in {"CLOSE_WAIT", "CLOSED"} /\ flow' = flow
    BY <1>9 DEF recv_credit_wasted
  <2> QED
    BY <1>4, <2>1
<1>10. ~recv_nack
  BY DEF recv_nack, Smooth
<1>11. CASE send_credit_stop
  <2>1. flow' = Append(flow, CreditStop) /\ credit_recv_state' = "CREDIT_STOP_SENT"
    BY <1>11 DEF send_credit_stop
  <2> QED
    BY <1>4, <2>1, StopType, PacketTags
<1>12. CASE retransmit_request
  <2>1. t_seqno < curseq
    BY <1>1, <1>12 DEF retransmit_request, must_request, datalen_remaining, RatePositive
  <2>2. datalen_remaining \in Int /\ datalen_remaining > 0
    BY <1>1, <2>1 DEF datalen_remaining
  <2>3. pkt_remaining(datalen_remaining) > 0
    BY <2>2, PacketsLeft
  <2>4. /\ construct_credit_request \in FlowPackets
        /\ construct_credit_request.sendbuffer > 0
    BY <1>1, <2>3, ConstructRequestType DEF construct_credit_request, CreditRequest
  <2>5. /\ flow' = Append(flow, construct_credit_request)
        /\ UNCHANGED <<t_seqno, curseq>>
    BY <1>12 DEF retransmit_request
  <2> QED
    BY <1>4, <2>1, <2>4, <2>5
<1>13. CASE retransmit_close_wait
  <2>1. flow' = flow /\ credit_recv_state' = "CLOSE_WAIT"
    BY <1>13 DEF retransmit_close_wait, netVars
  <2> QED
    BY <1>4, <2>1
<1>14. CASE retransmit_close
  <2>1. /\ flow' = Append(flow, CreditStop) \/ flow' = flow
        /\ credit_recv_state' \in {"CREDIT_STOP_SENT", "CREDIT_RECEIVING", "CLOSED"}
    BY <1>14 DEF retransmit_close
  <2> QED
    BY <1>4, <2>1, StopType, PacketTags
<1> QED
  BY <1>5, <1>7, <1>8, <1>9, <1>10, <1>11, <1>12, <1>13, <1>14 DEF SenderStep

LEMMA RateReceiver ==
  ASSUME TypeOK, ReceiverTimers, RatePositive,
         ReceiverStep \/ DropCredit \/ DropFlow \/ DropNack
  PROVE  RatePositive'
<1>1. flow \in Seq(FlowPackets) /\ credit_send_state \in SendStates
  BY DEF TypeOK, NetType, ReceiverType
<1>2. /\ Announced(flow) /\ RateIsPositive
      /\ credit_recv_state = "CREDIT_REQUEST_SENT" => t_seqno < curseq
  BY DEF RatePositive
<1>3. UNCHANGED <<credit_recv_state, t_seqno, curseq>>
  BY SenderAlone DEF senderVars
<1>4. ASSUME flow' = flow \/ (flow # <<>> /\ flow' = Tail(flow)), RateIsPositive'
      PROVE  RatePositive'
  <2>1. Announced(flow')
    BY <1>1, <1>2, <1>4, AnnouncedTail
  <2>2. Announced(flow)'
    BY <2>1 DEF Announced
  <2> QED
    BY <1>2, <1>3, <1>4, <2>2 DEF RatePositive
<1>5. ASSUME UNCHANGED <<credit_send_state, cur_credit_rate>> PROVE RateIsPositive'
  BY <1>2, <1>5 DEF RateIsPositive
<1>6. CASE recv_credit_request
  <2>1. flow # <<>> /\ flow' = Tail(flow) /\ IsRequest(Head(flow))
    BY <1>6 DEF recv_credit_request, ReceiverMayReceive, IsRequest
  <2>2. Head(flow).sendbuffer > 0
    BY <1>1, <1>2, <2>1, AnnouncedTail
  <2>3. CASE credit_send_state \in StartStates
    <3>1. cur_credit_rate' = 1
      BY <1>6, <2>2, <2>3 DEF recv_credit_request, InitialRate
    <3>2. RateIsPositive'
      BY <3>1 DEF RateIsPositive
    <3> QED
      BY <1>4, <2>1, <3>2
  <2>4. CASE credit_send_state \notin StartStates
    <3>1. UNCHANGED <<credit_send_state, cur_credit_rate>>
      BY <1>6, <2>4 DEF recv_credit_request
    <3> QED
      BY <1>4, <1>5, <2>1, <3>1
  <2> QED
    BY <2>3, <2>4
<1>7. CASE recv_data
  BY <1>4, <1>5, <1>7 DEF recv_data, ReceiverMayReceive
<1>8. CASE recv_credit_stop
  <2>1. flow # <<>> /\ flow' = Tail(flow) /\ credit_send_state' = "CLOSE_WAIT"
    BY <1>8 DEF recv_credit_stop, ReceiverMayReceive, stop_credits
  <2>2. RateIsPositive'
    BY <2>1 DEF RateIsPositive
  <2> QED
    BY <1>4, <2>1, <2>2
<1>9. CASE (\E feedback \in BOOLEAN : send_credit(feedback)) \/ handle_receiver_retransmit
  <2>1. UNCHANGED <<credit_send_state, cur_credit_rate, flow>>
    BY <1>9 DEF send_credit, credit_feedback_control, handle_receiver_retransmit, rateVars
  <2> QED
    BY <1>4, <1>5, <2>1
<1>10. CASE handle_fct
  <2>1. flow' = flow /\ credit_send_state' = "CLOSED"
    BY <1>10 DEF handle_fct, netVars
  <2>2. RateIsPositive'
    BY <2>1 DEF RateIsPositive
  <2> QED
    BY <1>4, <2>1, <2>2
<1>11. CASE DropCredit \/ DropFlow \/ DropNack
  <2>1. UNCHANGED <<credit_send_state, cur_credit_rate>>
    BY <1>11, ReceiverAlone DEF receiverVars, rateVars
  <2> QED
    BY <1>4, <1>5, <1>11, <2>1 DEF DropCredit, DropFlow, DropNack
<1> QED
  BY <1>6, <1>7, <1>8, <1>9, <1>10, <1>11 DEF ReceiverStep

\* While no data is lost, a receiver that sends credits sends them at a positive
\* rate, whatever credits, requests and stops are lost: no request announces an
\* empty send buffer, so the first credit is followed by others.
THEOREM RatePositiveSafe ==
  ASSUME NoPadding, DataArrives
  PROVE  Spec => []RateIsPositive
<1>1. Init => RatePositive
  <2> SUFFICES ASSUME Init PROVE RatePositive
    OBVIOUS
  <2>1. /\ Len(flow) = 0 /\ credit_recv_state = "CLOSED" /\ credit_send_state = "CLOSED"
    BY EmptySeq DEF Init
  <2> QED
    BY <2>1 DEF RatePositive, Announced, RateIsPositive
<1>2. TypeOK /\ SenderTimers /\ ReceiverTimers /\ SequenceBounds /\ Smooth
      /\ RatePositive /\ [Next]_vars => RatePositive'
  <2>1. ASSUME RatePositive, UNCHANGED vars PROVE RatePositive'
    BY <2>1 DEF vars, senderVars, receiverVars, rateVars, netVars, RatePositive,
       RateIsPositive, Announced
  <2> QED
    BY <2>1, RateSender, RateReceiver DEF Next
<1>3. RatePositive => RateIsPositive
  BY DEF RatePositive
<1> QED
  BY <1>1, <1>2, <1>3, SmoothSafe, SequenceBoundsSafe, Typing, SenderTimersSafe,
     ReceiverTimersSafe, PTL DEF Spec

-----------------------------------------------------------------------------
(* The credits that a data sender waits for, with data lost. *)

\* The receiver never asks for what is not there: a NACK, and a sender that
\* waits for its first credit, have data behind them.
Owed ==
  /\ credit_recv_state = "CREDIT_REQUEST_SENT" => t_seqno < curseq
  /\ \A i \in 1..Len(nacks) : nacks[i] < curseq
  /\ wait_retransmission => recv_next < curseq

LEMMA OwedSender ==
  ASSUME TypeOK, SequenceBounds, Owed,
         SenderStep \/ \E nb \in FlowSizes : AdvanceBytes(nb)
  PROVE  Owed'
<1>1. /\ nacks \in Seq(Int) /\ NetType /\ curseq \in Nat /\ t_seqno \in Int /\ recv_next \in Int
      /\ t_seqno <= curseq
  BY DEF TypeOK, NetType, SenderType, ReceiverType, SequenceBounds
<1>2. UNCHANGED <<wait_retransmission, recv_next>>
  BY ReceiverAlone DEF receiverVars
<1>3. ASSUME NEW nb \in FlowSizes, AdvanceBytes(nb) PROVE Owed'
  <2>1. nb \in Nat \ {0}
    BY FlowAssumption
  <2>2. curseq' = curseq + nb /\ t_seqno' = t_seqno /\ nacks' = nacks
    BY <1>3 DEF AdvanceBytes
  <2>3. \A i \in 1..Len(nacks) : nacks[i] \in Int
    BY <1>1
  <2> QED
    BY <1>1, <1>2, <2>1, <2>2, <2>3 DEF Owed
<1>4. ASSUME UNCHANGED <<nacks, curseq>>,
             credit_recv_state' = "CREDIT_REQUEST_SENT" => t_seqno' < curseq
      PROVE  Owed'
  BY <1>2, <1>4 DEF Owed
<1>5. CASE recv_nack
  <2>1. nacks # <<>> /\ nacks' = Tail(nacks) /\ t_seqno' = Head(nacks) /\ curseq' = curseq
    BY <1>5 DEF recv_nack
  <2>2. Head(nacks) < curseq /\ \A i \in 1..Len(Tail(nacks)) : Tail(nacks)[i] < curseq
    BY <1>1, <2>1, TailElements DEF Owed
  <2> QED
    BY <1>2, <2>1, <2>2 DEF Owed
<1>6. CASE retransmit_request
  <2>1. t_seqno < curseq
    BY <1>1, <1>6 DEF retransmit_request, must_request, datalen_remaining, Owed
  <2> QED
    BY <1>4, <1>6, <2>1 DEF retransmit_request
<1>7. ASSUME NEW updateDue \in BOOLEAN, recv_credit_active(updateDue) PROVE Owed'
  BY <1>4, <1>7 DEF recv_credit_active
<1>8. CASE recv_credit_stop_sent \/ recv_credit_wasted \/ send_credit_stop
  BY <1>4, <1>8 DEF recv_credit_stop_sent, recv_credit_wasted, send_credit_stop
<1>9. CASE retransmit_close_wait \/ retransmit_close
  BY <1>4, <1>9 DEF retransmit_close_wait, retransmit_close, netVars
<1> QED
  BY <1>3, <1>5, <1>6, <1>7, <1>8, <1>9 DEF SenderStep

LEMMA OwedReceiver ==
  ASSUME TypeOK, SequenceBounds, Owed,
         ReceiverStep \/ DropCredit \/ DropFlow \/ DropNack
  PROVE  Owed'
<1>1. /\ flow \in Seq(FlowPackets) /\ nacks \in Seq(Int) /\ NetType
      /\ curseq \in Nat /\ recv_next \in Int
  BY DEF TypeOK, NetType, SenderType, ReceiverType
<1>2. UNCHANGED <<curseq, t_seqno, credit_recv_state>>
  BY SenderAlone DEF senderVars
<1>3. ASSUME \/ nacks' = nacks
             \/ nacks' = Append(nacks, recv_next) /\ recv_next < curseq
             \/ nacks # <<>> /\ nacks' = Tail(nacks),
             wait_retransmission' => recv_next' < curseq
      PROVE  Owed'
  <2> DEFINE Below(s) == \A i \in 1..Len(s) : s[i] < curseq
  <2>1. Below(nacks)
    BY DEF Owed
  <2>2. recv_next < curseq => Below(Append(nacks, recv_next))
    BY <1>1, <2>1, AppendElements
  <2>3. nacks # <<>> => Below(Tail(nacks))
    BY <1>1, <2>1, TailElements
  <2>4. \A i \in 1..Len(nacks') : nacks'[i] < curseq
    BY <1>3, <2>1, <2>2, <2>3
  <2> QED
    BY <1>2, <1>3, <2>4 DEF Owed
<1>4. CASE recv_data
  <2> DEFINE p == Head(flow)
  <2>1. flow # <<>> /\ IsData(p)
    BY <1>4 DEF recv_data, ReceiverMayReceive, IsData
  <2>2. CASE UNCHANGED <<nacks, recv_next, wait_retransmission>>
    BY <1>3, <2>2 DEF Owed
  <2>3. CASE process_ack(p)
    <3>1. p \in FlowPackets /\ p.seqno \in Int /\ p.size \in Nat /\ p.size >= xpass_hdr_size
      BY <1>1, <2>1, FlowHead, DataFields DEF IsData
    <3>2. p.seqno + p.size - xpass_hdr_size <= curseq
      <4>1. p = flow[1] /\ 1 \in 1..Len(flow)
        BY <1>1, <2>1, TailElements
      <4> QED
        BY <2>1, <4>1 DEF SequenceBounds
    <3>3. p.seqno > recv_next => recv_next < curseq
      <4> HIDE DEF p
      <4> QED
        BY <1>1, <3>1, <3>2, SizeAssumption
    <3>4. /\ nacks' = nacks \/ (nacks' = Append(nacks, recv_next) /\ p.seqno > recv_next)
          /\ wait_retransmission' => /\ p.seqno # recv_next
                                     /\ wait_retransmission \/ p.seqno > recv_next
          /\ p.seqno # recv_next => recv_next' = recv_next
      BY <2>3 DEF process_ack, construct_nack
    <3> QED
      BY <1>3, <3>3, <3>4 DEF Owed
  <2> QED
    BY <1>4, <2>2, <2>3 DEF recv_data
<1>5. CASE handle_receiver_retransmit
  <2>1. /\ nacks' = nacks \/ (nacks' = Append(nacks, recv_next) /\ wait_retransmission)
        /\ UNCHANGED <<wait_retransmission, recv_next>>
    BY <1>5 DEF handle_receiver_retransmit
  <2> QED
    BY <1>3, <2>1 DEF Owed
<1>6. CASE recv_credit_request \/ recv_credit_stop \/ handle_fct
  BY <1>3, <1>6 DEF recv_credit_request, recv_credit_stop, handle_fct, netVars, Owed
<1>7. CASE \E feedback \in BOOLEAN : send_credit(feedback)
  BY <1>3, <1>7 DEF send_credit, Owed
<1>8. CASE DropCredit \/ DropFlow \/ DropNack
  <2>1. UNCHANGED <<wait_retransmission, recv_next>>
    BY <1>8, ReceiverAlone DEF receiverVars
  <2> QED
    BY <1>3, <1>8, <2>1 DEF DropCredit, DropFlow, DropNack, Owed
<1> QED
  BY <1>4, <1>5, <1>6, <1>7, <1>8 DEF ReceiverStep

\* A request that announces no packets is one of a restart with nothing left
\* (d), or a stop comes after it.
HasStop(f) == \E i \in 1..Len(f) : IsStop(f[i])
Covered(f, d) ==
  \A i \in 1..Len(f) : IsRequest(f[i]) /\ ~Announces(f[i]) =>
    d \/ \E j \in (i + 1)..Len(f) : IsStop(f[j])

\* What makes CreditLoopAlive inductive: a rate of zero and a request for
\* nothing are those of a restart, or a stop puts an end to them.
Supplied ==
  /\ Covered(flow, restarted)
  /\ Sending /\ ~(cur_credit_rate > 0) => restarted \/ HasStop(flow)

LEMMA CoveredSent ==
  ASSUME NEW f \in Seq(FlowPackets), NEW p \in FlowPackets, NEW d, NEW e, Covered(f, d), d => e,
         IsRequest(p) => Announces(p) \/ e
  PROVE  Covered(Append(f, p), e) /\ (HasStop(f) => HasStop(Append(f, p)))
<1> DEFINE g == Append(f, p)
<1>1. /\ Len(f) \in Nat /\ Len(g) = Len(f) + 1
      /\ \A i \in 1..Len(f) : g[i] = f[i]
      /\ g[Len(f) + 1] = p
  BY AppendProperties, LenProperties
<1> HIDE DEF g
<1>2. ASSUME NEW i \in 1..Len(g), IsRequest(g[i]), ~Announces(g[i])
      PROVE  e \/ \E j \in (i + 1)..Len(g) : IsStop(g[j])
  <2>1. CASE i = Len(f) + 1
    BY <1>1, <1>2, <2>1
  <2>2. CASE i \in 1..Len(f)
    <3>1. d \/ \E j \in (i + 1)..Len(f) : IsStop(f[j])
      BY <1>1, <1>2, <2>2 DEF Covered
    <3>2. \A j \in (i + 1)..Len(f) : j \in (i + 1)..Len(g) /\ g[j] = f[j]
      BY <1>1, <2>2
    <3> QED
      BY <3>1, <3>2
  <2> QED
    BY <1>1, <2>1, <2>2
<1>3. HasStop(f) => HasStop(g)
  BY <1>1 DEF HasStop
<1> QED
  BY <1>2, <1>3 DEF Covered, g

LEMMA CoveredStop ==
  ASSUME NEW f \in Seq(FlowPackets)
  PROVE  \A d : Covered(Append(f, CreditStop), d) /\ HasStop(Append(f, CreditStop))
<1> DEFINE g == Append(f, CreditStop)
<1>1. /\ Len(f) \in Nat /\ Len(g) = Len(f) + 1 /\ g[Len(f) + 1] = CreditStop
  BY AppendProperties, LenProperties, StopType
<1> HIDE DEF g
<1>2. IsStop(g[Len(g)]) /\ ~IsRequest(g[Len(g)]) /\ Len(g) \in 1..Len(g)
  BY <1>1, PacketTags
<1>3. ASSUME NEW i \in 1..Len(g), IsRequest(g[i])
      PROVE  \E j \in (i + 1)..Len(g) : IsStop(g[j])
  <2>1. Len(g) \in (i + 1)..Len(g)
    BY <1>1, <1>2, <1>3
  <2> QED
    BY <1>2, <2>1
<1> QED
  BY <1>2, <1>3 DEF Covered, HasStop, g

LEMMA CoveredTail ==
  ASSUME NEW f \in Seq(FlowPackets), f # <<>>, NEW d, Covered(f, d)
  PROVE  /\ Covered(Tail(f), d)
         /\ IsRequest(Head(f)) /\ ~Announces(Head(f)) => d \/ HasStop(Tail(f))
         /\ HasStop(f) /\ ~IsStop(Head(f)) => HasStop(Tail(f))
<1> DEFINE g == Tail(f)
<1>1. /\ Len(f) \in Nat /\ Len(f) >= 1 /\ Len(g) = Len(f) - 1
      /\ Head(f) = f[1] /\ \A i \in 1..Len(g) : g[i] = f[i + 1]
  <2>1. Len(f) \in Nat /\ Len(f) # 0
    BY LenProperties, EmptySeq
  <2> QED
    BY <2>1, HeadTailProperties
<1> HIDE DEF g
<1>2. ASSUME NEW i \in 1..Len(f), NEW j \in (i + 1)..Len(f), IsStop(f[j])
      PROVE  j - 1 \in i..Len(g) /\ IsStop(g[j - 1])
  <2>1. j - 1 \in 1..Len(g) /\ j - 1 \in i..Len(g) /\ (j - 1) + 1 = j
    BY <1>1
  <2> QED
    BY <1>1, <1>2, <2>1
<1>3. Covered(g, d)
  <2> SUFFICES ASSUME NEW i \in 1..Len(g), IsRequest(g[i]), ~Announces(g[i]), ~d
               PROVE  \E j \in (i + 1)..Len(g) : IsStop(g[j])
    BY DEF Covered
  <2>1. i + 1 \in 1..Len(f) /\ g[i] = f[i + 1]
    BY <1>1
  <2>2. PICK j \in ((i + 1) + 1)..Len(f) : IsStop(f[j])
    BY <2>1 DEF Covered
  <2> QED
    BY <1>2, <2>1, <2>2
<1>4. ASSUME IsRequest(Head(f)), ~Announces(Head(f)), ~d PROVE HasStop(g)
  <2>1. 1 \in 1..Len(f)
    BY <1>1
  <2>2. PICK j \in (1 + 1)..Len(f) : IsStop(f[j])
    BY <1>1, <1>4, <2>1 DEF Covered
  <2> QED
    BY <1>2, <2>1, <2>2 DEF HasStop
<1>5. ASSUME HasStop(f), ~IsStop(Head(f)) PROVE HasStop(g)
  <2>1. PICK j \in 1..Len(f) : IsStop(f[j])
    BY <1>5 DEF HasStop
  <2>2. 1 \in 1..Len(f) /\ j \in (1 + 1)..Len(f)
    <3>1. j # 1
      BY <1>1, <1>5, <2>1
    <3> QED
      BY <1>1, <3>1
  <2> QED
    BY <1>2, <2>1, <2>2 DEF HasStop
<1> QED
  BY <1>3, <1>4, <1>5 DEF g

LEMMA SuppliedSender ==
  ASSUME TypeOK, SequenceBounds, Owed, Supplied,
         SenderStep \/ \E nb \in FlowSizes : AdvanceBytes(nb)
  PROVE  Supplied'
<1>1. /\ flow \in Seq(FlowPackets) /\ SenderType /\ NetType
      /\ curseq \in Nat /\ t_seqno \in Int /\ t_seqno <= curseq /\ restarted \in BOOLEAN
  BY DEF TypeOK, NetType, SenderType, SequenceBounds
<1>2. /\ Covered(flow, restarted)
      /\ Sending /\ ~(cur_credit_rate > 0) => restarted \/ HasStop(flow)
  BY DEF Supplied
<1>3. Sending' = Sending /\ cur_credit_rate' = cur_credit_rate
  BY ReceiverAlone DEF receiverVars, rateVars, Sending
<1>4. ASSUME Covered(flow', restarted'), restarted => restarted' \/ HasStop(flow'),
             HasStop(flow) => HasStop(flow')
      PROVE  Supplied'
  <2>1. Covered(flow, restarted)' /\ (HasStop(flow') <=> HasStop(flow)')
    BY <1>4 DEF Covered, HasStop
  <2> QED
    BY <1>2, <1>3, <1>4, <2>1 DEF Supplied
<1>5. ASSUME NEW p \in FlowPackets, flow' = Append(flow, p),
             restarted => restarted', IsRequest(p) => Announces(p) \/ restarted'
      PROVE  Supplied'
  <2>1. Covered(flow', restarted') /\ (HasStop(flow) => HasStop(flow'))
    BY <1>1, <1>2, <1>5, CoveredSent
  <2> QED
    BY <1>4, <1>5, <2>1
<1>6. ASSUME flow' = flow, restarted' = restarted PROVE Supplied'
  BY <1>2, <1>4, <1>6
<1>7. ASSUME flow' = Append(flow, CreditStop) PROVE Supplied'
  <2>1. Covered(flow', restarted') /\ HasStop(flow')
    BY <1>1, <1>7, CoveredStop
  <2> QED
    BY <1>4, <2>1
<1>8. ASSUME NEW nb \in FlowSizes, AdvanceBytes(nb) PROVE Supplied'
  <2> DEFINE n == curseq + nb - t_seqno
             p == CreditRequest(pkt_remaining(n))
  <2>1. nb \in Nat \ {0}
    BY FlowAssumption
  <2>2. n \in Int /\ n > 0
    BY <1>1, <2>1
  <2>3. p \in FlowPackets /\ Announces(p)
    <3> HIDE DEF n
    <3>1. pkt_remaining(n) > 0
      BY <2>2, PacketsLeft
    <3> QED
      BY <2>2, <3>1, RequestType DEF CreditRequest, Announces
  <2>4. flow' = Append(flow, p) /\ restarted' = restarted
    BY <1>8 DEF AdvanceBytes
  <2> HIDE DEF p
  <2> QED
    BY <1>5, <2>3, <2>4
<1>9. ASSUME datalen_remaining > 0
      PROVE  construct_credit_request \in FlowPackets /\ Announces(construct_credit_request)
  <2>1. datalen_remaining \in Int
    BY <1>1 DEF datalen_remaining
  <2>2. pkt_remaining(datalen_remaining) > 0
    BY <1>9, <2>1, PacketsLeft
  <2> QED
    BY <1>1, <2>2, ConstructRequestType DEF construct_credit_request, CreditRequest, Announces
<1>10. ASSUME credits # <<>>, restarted' = restarted,
              \/ flow' = flow
              \/ /\ datalen_remaining > 0
                 /\ flow' = Append(flow, construct_data(Head(credits)))
       PROVE  Supplied'
  <2>1. CASE flow' = flow
    BY <1>6, <1>10, <2>1
  <2>2. CASE datalen_remaining > 0 /\ flow' = Append(flow, construct_data(Head(credits)))
    <3>1. /\ construct_data(Head(credits)) \in FlowPackets
          /\ ~IsRequest(construct_data(Head(credits)))
      BY <1>1, <1>10, <2>2, CreditHead, DataType, PacketTags
    <3> QED
      BY <1>5, <1>10, <2>2, <3>1
  <2> QED
    BY <1>10, <2>1, <2>2
<1>11. ASSUME NEW updateDue \in BOOLEAN, recv_credit_active(updateDue) PROVE Supplied'
  BY <1>10, <1>11 DEF recv_credit_active
<1>12. CASE recv_credit_stop_sent
  BY <1>10, <1>12 DEF recv_credit_stop_sent
<1>13. CASE recv_credit_wasted \/ retransmit_close_wait
  BY <1>6, <1>13 DEF recv_credit_wasted, retransmit_close_wait, netVars
<1>14. CASE recv_nack
  <2>1. \/ flow' = flow /\ restarted' = restarted
        \/ /\ flow' = Append(flow, construct_credit_request)
           /\ restarted' = (restarted \/ datalen_remaining = 0)
    BY <1>1, <1>14 DEF recv_nack
  <2>2. CASE flow' = flow /\ restarted' = restarted
    BY <1>6, <2>2
  <2>3. CASE /\ flow' = Append(flow, construct_credit_request)
             /\ restarted' = (restarted \/ datalen_remaining = 0)
    <3>1. datalen_remaining > 0 \/ datalen_remaining = 0
      BY <1>1 DEF datalen_remaining
    <3>2. construct_credit_request \in FlowPackets
      BY <1>1, ConstructRequestType
    <3>3. (restarted => restarted') /\ (Announces(construct_credit_request) \/ restarted')
      BY <1>9, <2>3, <3>1
    <3>4. flow' = Append(flow, construct_credit_request)
      BY <2>3
    <3> QED
      BY <1>5, <3>2, <3>3, <3>4
  <2> QED
    BY <2>1, <2>2, <2>3
<1>15. CASE send_credit_stop
  BY <1>7, <1>15 DEF send_credit_stop
<1>16. CASE retransmit_request
  <2>1. t_seqno < curseq
    BY <1>1, <1>16 DEF retransmit_request, must_request, datalen_remaining, Owed
  <2>2. datalen_remaining > 0
    BY <1>1, <2>1 DEF datalen_remaining
  <2>3. flow' = Append(flow, construct_credit_request) /\ restarted' = restarted
    BY <1>16 DEF retransmit_request
  <2> QED
    BY <1>5, <1>9, <2>2, <2>3
<1>17. CASE retransmit_close
  <2>1. \/ flow' = Append(flow, CreditStop)
        \/ flow' = flow /\ restarted' = restarted
    BY <1>1, <1>17 DEF retransmit_close
  <2> QED
    BY <1>6, <1>7, <2>1
<1> QED
  BY <1>8, <1>11, <1>12, <1>13, <1>14, <1>15, <1>16, <1>17 DEF SenderStep

LEMMA SuppliedReceiver ==
  ASSUME TypeOK, Supplied, ControlArrives,
         ReceiverStep \/ DropCredit \/ DropFlow \/ DropNack
  PROVE  Supplied'
<1>1. flow \in Seq(FlowPackets) /\ restarted \in BOOLEAN
  BY DEF TypeOK, NetType, SenderType
<1>2. /\ Covered(flow, restarted)
      /\ Sending /\ ~(cur_credit_rate > 0) => restarted \/ HasStop(flow)
  BY DEF Supplied
<1>3. restarted' = restarted
  BY SenderAlone DEF senderVars
<1>4. ASSUME Covered(flow', restarted),
             Sending' /\ ~(cur_credit_rate' > 0) => restarted \/ HasStop(flow')
      PROVE  Supplied'
  <2>1. Covered(flow, restarted)' /\ (HasStop(flow') <=> HasStop(flow)')
    BY <1>3, <1>4 DEF Covered, HasStop
  <2> QED
    BY <1>3, <1>4, <2>1 DEF Supplied
<1>5. ASSUME flow' = flow, Sending' => Sending /\ cur_credit_rate' = cur_credit_rate
      PROVE  Supplied'
  BY <1>2, <1>4, <1>5
<1>6. ASSUME flow # <<>>, flow' = Tail(flow)
      PROVE  /\ Covered(flow', restarted)
             /\ IsRequest(Head(flow)) /\ ~Announces(Head(flow)) => restarted \/ HasStop(flow')
             /\ HasStop(flow) /\ ~IsStop(Head(flow)) => HasStop(flow')
  BY <1>1, <1>2, <1>6, CoveredTail
<1>7. ASSUME flow # <<>>, flow' = Tail(flow), ~IsStop(Head(flow)),
             Sending' => Sending /\ cur_credit_rate' = cur_credit_rate
      PROVE  Supplied'
  BY <1>2, <1>4, <1>6, <1>7
<1>8. CASE recv_credit_request
  <2>1. flow # <<>> /\ flow' = Tail(flow) /\ IsRequest(Head(flow)) /\ ~IsStop(Head(flow))
    BY <1>8 DEF recv_credit_request, ReceiverMayReceive, IsRequest, IsStop
  <2>2. CASE credit_send_state \in StartStates
    <3>1. cur_credit_rate' = InitialRate(Head(flow).sendbuffer)
      BY <1>8, <2>2 DEF recv_credit_request
    <3>2. ~(cur_credit_rate' > 0) => ~Announces(Head(flow))
      BY <3>1 DEF InitialRate, Announces
    <3> QED
      BY <1>4, <1>6, <2>1, <3>2
  <2>3. CASE credit_send_state \notin StartStates
    <3>1. UNCHANGED <<credit_send_state, cur_credit_rate>>
      BY <1>8, <2>3 DEF recv_credit_request
    <3>2. Sending' => Sending
      BY <3>1 DEF Sending
    <3> QED
      BY <1>7, <2>1, <3>1, <3>2
  <2> QED
    BY <2>2, <2>3
<1>9. CASE recv_data
  <2>1. /\ flow # <<>> /\ flow' = Tail(flow) /\ ~IsStop(Head(flow))
        /\ UNCHANGED <<credit_send_state, cur_credit_rate>>
    BY <1>9 DEF recv_data, ReceiverMayReceive, IsStop
  <2>2. Sending' => Sending
    BY <2>1 DEF Sending
  <2> QED
    BY <1>7, <2>1, <2>2
<1>10. CASE recv_credit_stop
  <2>1. flow # <<>> /\ flow' = Tail(flow) /\ ~Sending'
    BY <1>10 DEF recv_credit_stop, ReceiverMayReceive, stop_credits, Sending
  <2> QED
    BY <1>4, <1>6, <2>1
<1>11. CASE (\E feedback \in BOOLEAN : send_credit(feedback)) \/ handle_receiver_retransmit
  <2>1. UNCHANGED <<credit_send_state, cur_credit_rate, flow>>
    BY <1>11 DEF send_credit, credit_feedback_control, handle_receiver_retransmit, rateVars
  <2>2. Sending' => Sending
    BY <2>1 DEF Sending
  <2> QED
    BY <1>5, <2>1, <2>2
<1>12. CASE handle_fct
  <2>1. flow' = flow /\ ~Sending'
    BY <1>12 DEF handle_fct, netVars, Sending
  <2> QED
    BY <1>5, <2>1
<1>13. CASE DropCredit \/ DropFlow \/ DropNack
  <2>1. UNCHANGED <<credit_send_state, cur_credit_rate>>
    BY <1>13, ReceiverAlone DEF receiverVars, rateVars
  <2>2. Sending' => Sending
    BY <2>1 DEF Sending
  <2>3. CASE DropFlow
    <3>1. flow # <<>> /\ flow' = Tail(flow) /\ ~IsStop(Head(flow))
      BY <2>3 DEF DropFlow, ControlArrives, IsStop
    <3> QED
      BY <1>7, <2>1, <2>2, <3>1
  <2>4. CASE DropCredit \/ DropNack
    <3>1. flow' = flow
      BY <2>4 DEF DropCredit, DropNack
    <3> QED
      BY <1>5, <2>1, <2>2, <3>1
  <2> QED
    BY <1>13, <2>3, <2>4
<1> QED
  BY <1>8, <1>9, <1>10, <1>11, <1>12, <1>13 DEF ReceiverStep

\* While requests and stops arrive and no frame is padded, a data sender that
\* waits for credits has a receiver that sends them at a positive rate, or a
\* request that makes it do so on its way, whatever credits, data and NACKs are
\* lost.  It is not claimed of a sender that a NACK restarted with nothing left
\* to send: recv_nack announces no packets, and the loop may be dead.
THEOREM CreditLoopSafe ==
  ASSUME ControlArrives, NoPadding
  PROVE  Spec => []CreditLoopAlive
<1>1. Init => Owed /\ Supplied
  <2> SUFFICES ASSUME Init PROVE Owed /\ Supplied
    OBVIOUS
  <2>1. /\ Len(flow) = 0 /\ Len(nacks) = 0 /\ ~wait_retransmission
        /\ credit_recv_state = "CLOSED" /\ ~Sending
    BY EmptySeq DEF Init, Sending
  <2> QED
    BY <2>1 DEF Owed, Supplied, Covered
<1>2. TypeOK /\ SequenceBounds /\ Owed /\ Supplied /\ [Next]_vars => Owed' /\ Supplied'
  <2>1. ASSUME Owed, Supplied, UNCHANGED vars PROVE Owed' /\ Supplied'
    BY <2>1 DEF vars, senderVars, receiverVars, rateVars, netVars, Owed, Supplied,
       Covered, HasStop, Sending
  <2> QED
    BY <2>1, OwedSender, OwedReceiver, SuppliedSender, SuppliedReceiver DEF Next
<1>3. TypeOK /\ ControlPaired /\ Supplied => CreditLoopAlive
  <2> SUFFICES ASSUME TypeOK, ControlPaired, Supplied,
                      credit_recv_state = "CREDIT_RECEIVING", ~restarted
               PROVE  \/ Sending /\ cur_credit_rate > 0
                      \/ \E i \in 1..Len(flow) : Announces(flow[i])
    BY DEF CreditLoopAlive, Sending
  <2>1. Asked(flow, Sending, Len(flow))
    BY DEF ControlPaired, Control, Asking
  <2>2. CASE \E i \in 1..Len(flow) :
               IsRequest(flow[i]) /\ \A k \in (i + 1)..Len(flow) : ~IsStop(flow[k])
    BY <2>2 DEF Supplied, Covered
  <2>3. CASE Sending /\ \A k \in 1..Len(flow) : ~IsStop(flow[k])
    BY <2>3 DEF Supplied, HasStop
  <2> QED
    BY <2>1, <2>2, <2>3 DEF Asked
<1> QED
  BY <1>1, <1>2, <1>3, ControlSafe, SequenceBoundsSafe, Typing, PTL DEF Spec

-----------------------------------------------------------------------------
(* The report of handle_fct. *)

\* A sender that closes has sent everything; a receiver that has closed has
\* nothing on its way and has reported all it received.
Reported ==
  /\ credit_recv_state \in {"CLOSE_WAIT", "CLOSED"} => t_seqno = curseq
  /\ credit_send_state = "CLOSED" =>
       credits = <<>> /\ DataAt(flow) = {} /\ fct_bytes = recv_next - 1

\* Other packets leave a flow without data.
LEMMA DataAtOther ==
  ASSUME NEW f \in Seq(FlowPackets), DataAt(f) = {}
  PROVE  /\ \A p \in FlowPackets : ~IsData(p) => DataAt(Append(f, p)) = {}
         /\ f # <<>> => DataAt(Tail(f)) = {} /\ ~IsData(Head(f))
<1>1. ASSUME NEW p \in FlowPackets, ~IsData(p) PROVE DataAt(Append(f, p)) = {}
  BY <1>1, AppendElements DEF DataAt
<1>2. ASSUME f # <<>> PROVE DataAt(Tail(f)) = {} /\ ~IsData(Head(f))
  BY <1>2, DataAtTail
<1> QED
  BY <1>1, <1>2

LEMMA ReportedSender ==
  ASSUME TypeOK, SenderTimers, SequenceBounds, Smooth, Reported,
         SenderStep \/ \E nb \in FlowSizes : AdvanceBytes(nb)
  PROVE  Reported'
<1>1. /\ flow \in Seq(FlowPackets) /\ SenderType /\ NetType
      /\ curseq \in Nat /\ t_seqno \in Int /\ t_seqno <= curseq
  BY DEF TypeOK, NetType, SenderType, SequenceBounds
<1>2. UNCHANGED <<credit_send_state, recv_next>>
  BY ReceiverAlone DEF receiverVars
<1>3. fct_bytes' = fct_bytes
  BY DEF SenderStep, recv_credit_active, recv_credit_stop_sent,
     recv_credit_wasted, recv_nack, send_credit_stop, retransmit_request,
     retransmit_close_wait, retransmit_close, AdvanceBytes, envVars
<1>4. ASSUME credits # <<>>,
             credit_recv_state' \in {"CLOSE_WAIT", "CLOSED"} => t_seqno' = curseq'
      PROVE  Reported'
  BY <1>2, <1>4 DEF Reported
<1>5. ASSUME credits' = credits,
             flow' = flow \/ \E p \in FlowPackets : ~IsData(p) /\ flow' = Append(flow, p),
             credit_recv_state' \in {"CLOSE_WAIT", "CLOSED"} => t_seqno' = curseq'
      PROVE  Reported'
  <2>1. DataAt(flow) = {} => DataAt(flow') = {}
    BY <1>1, <1>5, DataAtOther
  <2>2. DataAt(flow)' = DataAt(flow')
    BY DEF DataAt
  <2> QED
    BY <1>2, <1>3, <1>5, <2>1, <2>2 DEF Reported
<1>6. ASSUME NEW nb \in FlowSizes, AdvanceBytes(nb) PROVE Reported'
  <2> DEFINE n == curseq + nb - t_seqno
             p == CreditRequest(pkt_remaining(n))
  <2>1. n \in Int
    BY <1>1, FlowAssumption
  <2>2. p \in FlowPackets /\ ~IsData(p)
    <3> HIDE DEF n
    <3> QED
      BY <2>1, RequestType, PacketKinds
  <2>3. /\ flow' = Append(flow, p) /\ credits' = credits
        /\ credit_recv_state' = "CREDIT_REQUEST_SENT"
    BY <1>6 DEF AdvanceBytes
  <2> HIDE DEF n, p
  <2> QED
    BY <1>5, <2>2, <2>3
<1>7. ASSUME NEW updateDue \in BOOLEAN, recv_credit_active(updateDue) PROVE Reported'
  <2>1. credits # <<>> /\ credit_recv_state' = "CREDIT_RECEIVING"
    BY <1>7 DEF recv_credit_active
  <2> QED
    BY <1>4, <2>1
<1>8. CASE recv_credit_stop_sent
  <2>1. credits # <<>> /\ credit_recv_state' = "CREDIT_STOP_SENT"
    BY <1>8 DEF recv_credit_stop_sent
  <2> QED
    BY <1>4, <2>1
<1>9. CASE recv_credit_wasted
  <2>1. credits # <<>> /\ UNCHANGED <<credit_recv_state, t_seqno, curseq>>
    BY <1>9 DEF recv_credit_wasted
  <2> QED
    BY <1>4, <2>1 DEF Reported
<1>10. ~recv_nack
  BY DEF recv_nack, Smooth
<1>11. CASE send_credit_stop
  <2>1. /\ flow' = Append(flow, CreditStop) /\ credit_recv_state' = "CREDIT_STOP_SENT"
        /\ credits' = credits
    BY <1>11 DEF send_credit_stop
  <2> QED
    BY <1>5, <2>1, StopType, PacketKinds
<1>12. CASE retransmit_request
  <2>1. construct_credit_request \in FlowPackets /\ ~IsData(construct_credit_request)
    BY <1>1, ConstructRequestType, PacketKinds
  <2>2. /\ flow' = Append(flow, construct_credit_request) /\ credits' = credits
        /\ credit_recv_state' = "CREDIT_REQUEST_SENT"
    BY <1>12 DEF retransmit_request
  <2> QED
    BY <1>5, <2>1, <2>2
<1>13. CASE retransmit_close_wait
  <2>1. t_seqno = curseq
    BY <1>1, <1>13 DEF retransmit_close_wait, all_sent, datalen_remaining
  <2>2. UNCHANGED <<credits, flow, t_seqno, curseq>>
    BY <1>13 DEF retransmit_close_wait, netVars
  <2> QED
    BY <1>5, <2>1, <2>2
<1>14. CASE retransmit_close
  <2>1. credit_recv_state = "CLOSE_WAIT"
    BY <1>14 DEF retransmit_close, SenderTimers
  <2>2. /\ flow' = Append(flow, CreditStop) \/ flow' = flow
        /\ UNCHANGED <<credits, t_seqno, curseq>>
    BY <1>14 DEF retransmit_close
  <2>3. t_seqno = curseq
    BY <2>1 DEF Reported
  <2> QED
    BY <1>5, <2>2, <2>3, StopType, PacketKinds
<1> QED
  BY <1>6, <1>7, <1>8, <1>9, <1>10, <1>11, <1>12, <1>13, <1>14 DEF SenderStep

LEMMA ReportedReceiver ==
  ASSUME TypeOK, ReceiverTimers, Smooth, Reported, TimeoutCoversRoundTrip,
         ReceiverStep \/ DropCredit \/ DropFlow \/ DropNack
  PROVE  Reported'
<1>1. flow \in Seq(FlowPackets) /\ credit_send_state \in SendStates
  BY DEF TypeOK, NetType, ReceiverType
<1>2. UNCHANGED <<credit_recv_state, t_seqno, curseq>>
  BY SenderAlone DEF senderVars
<1>3. ASSUME credit_send_state' # "CLOSED" PROVE Reported'
  BY <1>2, <1>3 DEF Reported
<1>4. ASSUME UNCHANGED <<credit_send_state, recv_next, fct_bytes>>,
             credits' = credits \/ (credits # <<>> /\ credits' = Tail(credits)),
             flow' = flow \/ (flow # <<>> /\ flow' = Tail(flow))
      PROVE  Reported'
  <2>1. DataAt(flow) = {} => DataAt(flow') = {}
    BY <1>1, <1>4, DataAtOther
  <2>2. DataAt(flow)' = DataAt(flow')
    BY DEF DataAt
  <2> QED
    BY <1>2, <1>4, <2>1, <2>2 DEF Reported
<1>5. CASE recv_credit_request
  <2>1. credit_send_state' = IF credit_send_state \in StartStates
                             THEN "CREDIT_SENDING" ELSE credit_send_state
    BY <1>5 DEF recv_credit_request
  <2> QED
    BY <1>3, <2>1 DEF StartStates
<1>6. CASE recv_data
  <2>1. flow # <<>> /\ IsData(Head(flow)) /\ UNCHANGED credit_send_state
    BY <1>6 DEF recv_data, ReceiverMayReceive, IsData
  <2>2. credit_send_state # "CLOSED"
    BY <1>1, <2>1, DataAtOther DEF Reported
  <2> QED
    BY <1>3, <2>1, <2>2
<1>7. CASE recv_credit_stop
  BY <1>3, <1>7 DEF recv_credit_stop, stop_credits
<1>8. ASSUME NEW feedback \in BOOLEAN, send_credit(feedback) PROVE Reported'
  <2>1. credit_send_state = "CREDIT_SENDING" /\ UNCHANGED credit_send_state
    BY <1>8 DEF send_credit, ReceiverTimers
  <2> QED
    BY <1>3, <2>1
<1>9. CASE handle_receiver_retransmit
  BY <1>4, <1>9 DEF handle_receiver_retransmit, envVars
<1>10. CASE handle_fct
  <2>1. /\ credits = <<>> /\ ~FlowHas("DATA") /\ UNCHANGED <<credits, flow, recv_next>>
        /\ fct_bytes' = recv_next - 1
    BY <1>10 DEF handle_fct, netVars
  <2>2. DataAt(flow) = {}
    BY <2>1 DEF FlowHas, DataAt, IsData
  <2>3. DataAt(flow)' = DataAt(flow)
    BY <2>1 DEF DataAt
  <2> QED
    BY <1>2, <2>1, <2>2, <2>3 DEF Reported
<1>11. CASE DropCredit \/ DropFlow \/ DropNack
  <2>1. UNCHANGED <<credit_send_state, recv_next>>
    BY <1>11, ReceiverAlone DEF receiverVars
  <2> QED
    BY <1>4, <1>11, <2>1 DEF DropCredit, DropFlow, DropNack, Drop
<1> QED
  BY <1>5, <1>6, <1>7, <1>8, <1>9, <1>10, <1>11 DEF ReceiverStep

\* While no data is lost and the timeout before the report covers a round trip,
\* fct.out names the size of the flow once both sides have closed, whatever
\* credits, requests and stops are lost and however many messages there were.
THEOREM FctSafe ==
  ASSUME NoPadding, DataArrives, TimeoutCoversRoundTrip
  PROVE  Spec => []FctReportsFlowSize
<1>1. Init => Reported
  <2> SUFFICES ASSUME Init PROVE Reported
    OBVIOUS
  <2>1. /\ Len(flow) = 0 /\ credits = <<>> /\ t_seqno = curseq
        /\ fct_bytes = 0 /\ recv_next = 1
    BY EmptySeq DEF Init
  <2>2. DataAt(flow) = {}
    BY <2>1 DEF DataAt
  <2> QED
    BY <2>1, <2>2 DEF Reported
<1>2. TypeOK /\ SenderTimers /\ ReceiverTimers /\ SequenceBounds /\ Smooth
      /\ Reported /\ [Next]_vars => Reported'
  <2>1. ASSUME Reported, UNCHANGED vars PROVE Reported'
    BY <2>1 DEF vars, senderVars, receiverVars, netVars, envVars, Reported, DataAt
  <2> QED
    BY <2>1, ReportedSender, ReportedReceiver DEF Next
<1>3. Smooth /\ Reported => FctReportsFlowSize
  <2> SUFFICES ASSUME Smooth, Reported, credit_recv_state = "CLOSED",
                      credit_send_state = "CLOSED"
               PROVE  fct_bytes = curseq - 1
    BY DEF FctReportsFlowSize
  <2>1. t_seqno = curseq /\ DataAt(flow) = {} /\ fct_bytes = recv_next - 1
    BY DEF Reported
  <2>2. recv_next = t_seqno
    BY <2>1 DEF Smooth, Tiles
  <2> QED
    BY <2>1, <2>2
<1> QED
  BY <1>1, <1>2, <1>3, SmoothSafe, SequenceBoundsSafe, Typing, SenderTimersSafe,
     ReceiverTimersSafe, PTL DEF Spec

=============================================================================
