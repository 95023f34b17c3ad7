-------------------------------- MODULE Tcp ---------------------------------
(***************************************************************************)
(* The one-way TCP agents of tcp/: the senders Agent/TCP (Tahoe),          *)
(* Agent/TCP/Reno and Agent/TCP/Newreno, and the receivers Agent/TCPSink   *)
(* and Agent/TCPSink/DelAck, over a path that keeps the order of packets   *)
(* and loses some. Options have the defaults of tcl/lib/ns-default.tcl:    *)
(* packet 0 is the SYN (syn_, delay_growth_), the bug fixes are on, ECN,   *)
(* F-RTO, Quick-Start, QOption_, ELN, time stamps and overhead_ are off.   *)
(*                                                                         *)
(* A handler runs to its end without interruption, so the operators below  *)
(* map a sender to the sender after a function of the code, with the       *)
(* packets it has handed to the link in out. How long the retransmit timer *)
(* runs is left open: it may expire early.                                 *)
(***************************************************************************)
EXTENDS Integers, Sequences, FiniteSets

CONSTANTS
  Kinds,         \* of agents: a variant and whether the sink is a DelAckSink
  numdupacks,    \* numdupacks_
  wnd,           \* window_, the receiver's window
  windowInit,    \* windowInit_
  CU,            \* cwnd_ is in units of 1/CU packet
  MWS,           \* first size of the sink's buffer
  Lengths,       \* packets an application submits at once
  MaxSeq,        \* bound on sequence numbers
  MaxDrops,      \* bound on lost packets
  MaxSpurious,   \* bound on timeouts while packets are still on their way
  MaxInc,        \* bound on resets
  ResetAnyTime,  \* a reset may come while packets are outstanding
  MaxStops       \* bound on "advance 0", with which FTP stops

ASSUME TcpAssumption ==
  /\ Kinds \subseteq {"Tahoe", "Reno", "Newreno"} \X BOOLEAN
  /\ numdupacks \in Nat \ {0} /\ wnd \in Nat \ {0} /\ windowInit \in 1..wnd
  /\ CU \in Nat \ {0} /\ CU % 2 = 0
  /\ MWS \in {2, 4, 8, 16, 32, 64}
  /\ Lengths \subseteq Nat \ {0}

(* A window of packets fits the sink's buffer once it is doubled twice.    *)
ASSUME RingAssumption == wnd < 4 * MWS - 1

VARIABLES
  variant, delack,
  snd,      \* the sender
  sink,     \* the receiver
  data,     \* packets on their way to the sink
  acks,     \* acknowledgments on their way back
  inc,      \* resets so far: stands for lastreset_ of both agents
  drops, spurious, stops,
  got       \* history: the packets that the sink has received

vars == <<variant, delack, snd, sink, data, acks, inc, drops, spurious, stops, got>>

Least(a, b) == IF a <= b THEN a ELSE b
Most(a, b) == IF a >= b THEN a ELSE b

-----------------------------------------------------------------------------
(* The sender. last_ack_ is always highest_ack_: every assignment of one   *)
(* in these classes assigns the other.                                     *)

(* reset(). What it leaves alone comes from s: the Reno agents' dupwnd_,   *)
(* Newreno's firstpartial_, wnd_init_ and rtt_active_.                     *)
reset(s) ==
  [s EXCEPT !.curseq = 0, !.t_seqno = 0, !.maxseq = -1, !.highest_ack = -1,
            !.recover = 0, !.cwnd = CU, !.ssthresh = wnd, !.dupacks = 0,
            !.action = "none", !.rtt_seq = -1, !.rtx_timer = FALSE,
            !.closed = FALSE, !.sent = {}, !.resent = {}, !.early = {}]

NewSender ==
  reset([curseq |-> 0, t_seqno |-> 0, maxseq |-> 0, highest_ack |-> 0,
         recover |-> 0, cwnd |-> 0, ssthresh |-> 0, dupacks |-> 0,
         action |-> "none", rtt_seq |-> 0, rtx_timer |-> FALSE, closed |-> FALSE,
         sent |-> {}, resent |-> {}, early |-> {}, dupwnd |-> 0, firstpartial |-> FALSE,
         wnd_init |-> windowInit, rtt_active |-> FALSE, out |-> <<>>])

(* window() of TcpAgent and, with dupwnd_, of RenoTcpAgent.                *)
windowd(s) == Least(s.cwnd + s.dupwnd * CU, wnd * CU)
window(s) == Least(s.cwnd \div CU + s.dupwnd, wnd)

(* Mutant: only timeouts and acknowledgments set the retransmit timer.     *)
MutOutputNoTimer(s, seqno) ==
  LET new == seqno > s.maxseq
  IN [s EXCEPT !.curseq = IF seqno = 0 /\ s.maxseq = -1 THEN @ + 1 ELSE @,
               !.maxseq = Most(@, seqno),
               !.rtt_active = @ \/ new,
               !.rtt_seq = IF new /\ ~s.rtt_active /\ seqno > @ THEN seqno ELSE @,
               !.sent = @ \cup {seqno},
               !.resent = IF seqno \in s.sent THEN @ \cup {seqno} ELSE @,
               !.early = IF new /\ seqno >= s.curseq THEN @ \cup {seqno} ELSE @,
               !.out = Append(@, seqno)]

(* One packet. As history, resent has the packets sent more than once, and *)
(* early those sent before the application has produced them.              *)
output(s, seqno) ==
  LET new == seqno > s.maxseq
  IN [s EXCEPT !.curseq = IF seqno = 0 /\ s.maxseq = -1 THEN @ + 1 ELSE @,
               !.maxseq = Most(@, seqno),
               !.rtt_active = @ \/ new,
               !.rtt_seq = IF new /\ ~s.rtt_active /\ seqno > @ THEN seqno ELSE @,
               !.rtx_timer = TRUE,
               !.sent = @ \cup {seqno},
               !.resent = IF seqno \in s.sent THEN @ \cup {seqno} ELSE @,
               !.early = IF new /\ seqno >= s.curseq THEN @ \cup {seqno} ELSE @,
               !.out = Append(@, seqno)]

send_next(s) == [output(s, s.t_seqno) EXCEPT !.t_seqno = @ + 1]

(* send_much: all the window allows, or burst packets unless it is 0. The  *)
(* first packet of a connection, the SYN, moves curseq_.                   *)
send_much(s, burst) ==
  LET syn == IF s.t_seqno = 0 /\ s.maxseq = -1 /\ s.curseq > 0 THEN 1 ELSE 0
      last == Least(s.highest_ack + window(s), s.curseq + syn - 1)
      n == Most(0, last - s.t_seqno + 1)
      m == IF burst > 0 THEN Least(n, burst) ELSE n
      sending[k \in 0..m] == IF k = 0 THEN s ELSE send_next(sending[k - 1])
  IN sending[m]

(* Limited transmit, on the first duplicate acknowledgments.               *)
send_one(s) ==
  IF /\ s.t_seqno <= s.highest_ack + wnd
     /\ s.t_seqno < s.curseq
     /\ (s.t_seqno - s.highest_ack - s.dupacks) * CU <= s.cwnd
    THEN send_next(s)
    ELSE s

(* slowdown, with CLOSE_SSTHRESH_HALF and CLOSE_CWND_HALF or _ONE.         *)
HalfSsthresh(s) == Most((windowd(s) \div 2) \div CU, 2)
slowdown_half(s) == [s EXCEPT !.ssthresh = HalfSsthresh(s), !.cwnd = windowd(s) \div 2]
slowdown_one(s) == [s EXCEPT !.ssthresh = HalfSsthresh(s), !.cwnd = CU]

(* Mutant: the measurement of a round trip survives a retransmission.      *)
MutKeepSample(s, mild) ==
  [s EXCEPT !.rtx_timer = TRUE, !.t_seqno = IF mild THEN @ ELSE s.highest_ack + 1]

reset_rtx_timer(s, mild) ==
  [s EXCEPT !.rtx_timer = TRUE, !.rtt_active = FALSE,
            !.t_seqno = IF mild THEN @ ELSE s.highest_ack + 1]

(* Mutant: only t_seqno_, which a timeout sets back, is looked at.         *)
MutNewtimer(s, ack) == [s EXCEPT !.rtx_timer = s.t_seqno > ack + 1]

newtimer(s, ack) ==
  [s EXCEPT !.rtx_timer = s.t_seqno > ack \/ ack < s.maxseq \/ s.cwnd < CU]

(* opencwnd. Above wnd only the part up to wnd is ever read.               *)
opencwnd(s) ==
  [s EXCEPT !.cwnd = Least(wnd * CU, IF @ < s.ssthresh * CU THEN @ + CU ELSE @ + (CU * CU) \div @)]

acknowledged(s, ack) ==
  [s EXCEPT !.highest_ack = ack, !.t_seqno = Most(@, ack + 1),
            !.rtt_active = @ /\ ack < s.rtt_seq]

newack(s, ack) == newtimer([acknowledged(s, ack) EXCEPT !.dupacks = 0], ack)

(* finish() once everything is acknowledged; then delay_growth_.           *)
recv_newack_helper(s, ack) ==
  LET t == opencwnd(newack(s, ack))
  IN [t EXCEPT !.closed = @ \/ ack >= t.curseq - 1,
               !.cwnd = IF ack = 0 THEN t.wnd_init * CU ELSE @]

recovered(s) == s.highest_ack > s.recover \/ s.highest_ack = 0

(* dupack_action of the three classes.                                     *)
tahoe_action(s) ==
  reset_rtx_timer(slowdown_one([s EXCEPT !.recover = s.maxseq, !.action = "DUPACK"]), FALSE)

reno_action(s) ==
  [output(reset_rtx_timer(slowdown_half([s EXCEPT !.recover = s.maxseq, !.action = "DUPACK"]),
                          TRUE), s.highest_ack + 1)
     EXCEPT !.dupwnd = numdupacks]

allow_fast_retransmit(s) == variant = "Reno" /\ s.action = "DUPACK"

dupack_action(s) ==
  IF ~recovered(s) /\ ~allow_fast_retransmit(s) THEN s
  ELSE IF variant = "Tahoe" THEN tahoe_action(s) ELSE reno_action(s)

recv_dupack(s) ==
  LET t == [s EXCEPT !.dupacks = Least(@ + 1, numdupacks + 1)]
  IN IF s.dupacks + 1 = numdupacks THEN dupack_action(t)
     ELSE IF s.dupacks + 1 < numdupacks THEN send_one(t)
     ELSE IF variant # "Tahoe" /\ s.action = "DUPACK"
       THEN [t EXCEPT !.dupwnd = Least(@ + 1, wnd)]
     ELSE t

(* Newreno: an acknowledgment of part of what was sent before the loss.    *)
partialnewack(s, ack) ==
  LET deflate == ack - s.highest_ack
      t == acknowledged(s, ack)
  IN IF s.dupwnd > deflate
     THEN [t EXCEPT !.cwnd = Most(@, CU), !.dupwnd = @ - (deflate - 1)]
     ELSE [t EXCEPT !.cwnd = Most(@ - (deflate - s.dupwnd) * CU, CU), !.dupwnd = 1]

partialnewack_helper(s, ack) ==
  LET t == IF s.firstpartial THEN s ELSE [newtimer(s, ack) EXCEPT !.firstpartial = TRUE]
  IN output(partialnewack(t, ack), ack + 1)

recv_newack(s, ack) ==
  CASE variant = "Tahoe" -> recv_newack_helper(s, ack)
    [] variant = "Reno" ->
         recv_newack_helper([s EXCEPT !.dupwnd = 0,
                                      !.action = IF @ = "DUPACK" THEN "EXITED" ELSE @], ack)
    [] variant = "Newreno" ->
         IF ack < s.recover /\ s.action = "DUPACK" THEN partialnewack_helper(s, ack)
         ELSE recv_newack_helper(
                [s EXCEPT !.dupwnd = 0, !.firstpartial = FALSE,
                          !.action = IF s.dupwnd > 0 /\ @ = "DUPACK" THEN "EXITED" ELSE @], ack)

(* The last part of recv(): send what the window allows now.               *)
recv_send(s) ==
  CASE variant = "Tahoe" -> send_much(s, 0)
    [] variant # "Tahoe" /\ s.dupacks = 0 -> send_much(s, 0)
    [] variant # "Tahoe" /\ s.dupacks >= numdupacks ->
         send_much(s, IF variant = "Newreno" THEN 2 ELSE 0)
    [] OTHER -> s

(* With aggressive_maxburst_ an old acknowledgment makes it send as well.  *)
recv(s, ack) ==
  recv_send(CASE ack > s.highest_ack -> recv_newack(s, ack)
              [] ack = s.highest_ack -> recv_dupack(s)
              [] ack < s.highest_ack -> s)

(* timeout(). With everything acknowledged ssthresh_ is not cut.           *)
timeout(s) ==
  LET t == [s EXCEPT !.recover = s.maxseq,
                     !.dupwnd = 0,
                     !.dupacks = IF variant = "Tahoe" THEN @ ELSE 0,
                     !.cwnd = Most(@, CU),
                     !.wnd_init = IF s.highest_ack = -1 THEN 1 ELSE @]
      u == IF s.highest_ack = s.maxseq THEN [t EXCEPT !.cwnd = CU] ELSE slowdown_one(t)
  IN send_much([reset_rtx_timer(u, FALSE) EXCEPT !.action = "TIMEOUT"], 0)

-----------------------------------------------------------------------------
(* The sink: Acker keeps which packets it has in a ring that it doubles    *)
(* when a sequence number would not fit.                                   *)

NewSink == [next |-> 0, maxseen |-> 0, seen |-> [i \in 0..(MWS - 1) |-> FALSE], save |-> FALSE]

Size(k) == Cardinality(DOMAIN k.seen)
Slot(k, i) == i % Size(k)

(* Mutant: entries keep their slots when the ring is doubled.              *)
MutResize(k) ==
  LET sz == 2 * Size(k)
  IN [k EXCEPT !.seen = [j \in 0..(sz - 1) |-> j < Size(k) /\ k.seen[j % Size(k)]]]

resize_buffers(k) ==
  LET sz == 2 * Size(k)
      kept == k.next..(k.maxseen + 1)
  IN [k EXCEPT !.seen = [j \in 0..(sz - 1) |->
                           \E i \in kept : i % sz = j /\ k.seen[Slot(k, i)]]]

(* Room for packet seq: the loop doubles the ring at most twice here.      *)
Room(k, seq) == seq + 1 - k.next < Size(k) - 1
Resized(k, seq) ==
  IF Room(k, seq) THEN k
  ELSE IF Room(resize_buffers(k), seq) THEN resize_buffers(k)
  ELSE resize_buffers(resize_buffers(k))

(* The first packet from next on that is not in the ring.                  *)
NextExpected(k) ==
  CHOOSE n \in k.next..(k.next + Size(k)) :
    /\ ~k.seen[Slot(k, n)]
    /\ \A i \in k.next..(n - 1) : k.seen[Slot(k, i)]

update(k0, seq) ==
  LET k == Resized(k0, seq)
      cleared == {Slot(k, i) : i \in (k.maxseen + 1)..(seq - 1)} \cup {Slot(k, seq + 1)}
      k1 == IF seq <= k.maxseen THEN k
            ELSE [k EXCEPT !.maxseen = seq,
                           !.seen = [j \in DOMAIN @ |->
                                       IF j = Slot(k, seq + 1) THEN FALSE
                                       ELSE IF j = Slot(k, seq) THEN TRUE
                                       ELSE @[j] /\ j \notin cleared]]
      k2 == [k1 EXCEPT !.seen[Slot(k, seq)] = TRUE]
  IN IF seq < k1.next THEN k1 ELSE [k2 EXCEPT !.next = NextExpected(k2)]

(* DelAckSink keeps an acknowledgment back when the packet was the one     *)
(* expected, fills no gap and is not the SYN, and none is kept back yet.   *)
Delays(k, seq) == delack /\ ~k.save /\ seq = k.next - 1 /\ seq >= k.maxseen /\ seq # 0

-----------------------------------------------------------------------------
(* Actions                                                                 *)

Init ==
  /\ \E k \in Kinds : variant = k[1] /\ delack = k[2]
  /\ snd = NewSender /\ sink = NewSink
  /\ data = <<>> /\ acks = <<>>
  /\ inc = 0 /\ drops = 0 /\ spurious = 0 /\ stops = 0 /\ got = {}

Tagged(seqs) == [i \in DOMAIN seqs |-> [seqno |-> seqs[i], inc |-> inc]]

(* The sender becomes s, and what s has put out is on its way.             *)
SenderStep(s) ==
  /\ snd' = [s EXCEPT !.out = <<>>]
  /\ data' = data \o Tagged(s.out)

Const == <<variant, delack>>

(* sendmsg leaves closed_ as it is, advanceby opens the connection again.  *)
sendmsg(n) ==
  /\ snd.curseq + n + 1 <= MaxSeq
  /\ SenderStep(send_much([snd EXCEPT !.curseq = @ + n], 0))
  /\ UNCHANGED <<Const, sink, acks, inc, drops, spurious, stops, got>>

advanceby(n) ==
  /\ snd.curseq + n + 1 <= MaxSeq
  /\ SenderStep(send_much([snd EXCEPT !.curseq = @ + n, !.closed = FALSE], 0))
  /\ UNCHANGED <<Const, sink, acks, inc, drops, spurious, stops, got>>

(* The command "advance 0" of an FTP source that stops.                    *)
stop ==
  /\ stops < MaxStops /\ snd.maxseq >= 0 /\ snd.curseq # snd.maxseq
  /\ stops' = stops + 1
  /\ SenderStep(send_much([snd EXCEPT !.curseq = snd.maxseq,
                                     !.closed = @ /\ snd.maxseq <= snd.curseq], 0))
  /\ UNCHANGED <<Const, sink, acks, inc, drops, spurious, got>>

recv_ack ==
  /\ acks # <<>>
  /\ SenderStep(IF Head(acks).inc < inc THEN snd ELSE recv(snd, Head(acks).seqno))
  /\ acks' = Tail(acks)
  /\ UNCHANGED <<Const, sink, inc, drops, spurious, stops, got>>

(* Nothing is on its way that could stop the retransmit timer.             *)
Quiet == data = <<>> /\ acks = <<>> /\ ~sink.save

rtx_timeout ==
  /\ snd.rtx_timer
  /\ Quiet \/ spurious < MaxSpurious
  /\ spurious' = IF Quiet THEN spurious ELSE spurious + 1
  /\ SenderStep(timeout(snd))
  /\ UNCHANGED <<Const, sink, acks, inc, drops, stops, got>>

AckOf(k) == Tagged(<<k.next - 1>>)

sink_recv ==
  /\ data # <<>>
  /\ LET p == Head(data)
         k == update(sink, p.seqno)
     IN IF p.inc < inc THEN UNCHANGED <<sink, acks, got>>
        ELSE /\ got' = got \cup {p.seqno}
             /\ IF Delays(k, p.seqno)
                  THEN sink' = [k EXCEPT !.save = TRUE] /\ acks' = acks
                  ELSE sink' = [k EXCEPT !.save = FALSE] /\ acks' = acks \o AckOf(k)
  /\ data' = Tail(data)
  /\ UNCHANGED <<Const, snd, inc, drops, spurious, stops>>

delay_timeout ==
  /\ sink.save
  /\ sink' = [sink EXCEPT !.save = FALSE]
  /\ acks' = acks \o AckOf(sink)
  /\ UNCHANGED <<Const, snd, data, inc, drops, spurious, stops, got>>

(* reset() of both agents at the same time.                                *)
reset_both ==
  /\ inc < MaxInc
  /\ ResetAnyTime \/ (snd.closed /\ snd.highest_ack = snd.maxseq)
  /\ inc' = inc + 1
  /\ snd' = reset(snd)
  /\ sink' = [NewSink EXCEPT !.seen = [j \in DOMAIN sink.seen |-> FALSE]]
  /\ got' = {}
  /\ UNCHANGED <<Const, data, acks, drops, spurious, stops>>

(* A queue on the path is full.                                            *)
drop_data ==
  /\ drops < MaxDrops /\ data # <<>>
  /\ drops' = drops + 1 /\ data' = Tail(data)
  /\ UNCHANGED <<Const, snd, sink, acks, inc, spurious, stops, got>>

drop_ack ==
  /\ drops < MaxDrops /\ acks # <<>>
  /\ drops' = drops + 1 /\ acks' = Tail(acks)
  /\ UNCHANGED <<Const, snd, sink, data, inc, spurious, stops, got>>

Next ==
  \/ \E n \in Lengths : sendmsg(n) \/ advanceby(n)
  \/ stop \/ recv_ack \/ rtx_timeout \/ sink_recv \/ delay_timeout
  \/ reset_both \/ drop_data \/ drop_ack

(* The scheduler dispatches every event: recv_ack, sink_recv and           *)
(* delay_timeout happen, and so does rtx_timeout of a sender with data     *)
(* left, which sends that data's first packet. Two are told here by what   *)
(* they do to the path, as no other action does.                           *)
RtxTimerExpires ==
  /\ Quiet /\ snd.rtx_timer /\ snd.highest_ack < snd.curseq - 1
  /\ data' = Tagged(<<snd.highest_ack + 1>>)

Fairness ==
  /\ WF_acks(acks # <<>> /\ acks' = Tail(acks) /\ drops' = drops)
  /\ WF_data(data # <<>> /\ data' = Tail(data) /\ drops' = drops)
  /\ WF_vars(delay_timeout)
  /\ WF_data(RtxTimerExpires)

Spec == Init /\ [][Next]_vars /\ Fairness

-----------------------------------------------------------------------------
(* Karn's algorithm (tcp.h: maxseq_ is "used for Karn algorithm"): the     *)
(* packet whose round trip is being measured, rtt_seq_, has been sent      *)
(* exactly once, whatever timeouts, fast retransmits and partial           *)
(* acknowledgments came since, unless a fast retransmit with nothing       *)
(* outstanding sent it before the application had produced it.             *)
Karn ==
  snd.rtt_active =>
    /\ snd.rtt_seq \in 0..snd.maxseq
    /\ snd.rtt_seq \in snd.early \/ snd.rtt_seq \in snd.sent \ snd.resent

(* While a packet is outstanding or waits to be sent the retransmit timer  *)
(* is pending, whatever is lost next; the window is never closed, though a *)
(* fast retransmit halves a window of one; and no sequence of window       *)
(* inflation, deflation and going back sends beyond the receiver's window. *)
SenderGoesOn ==
  /\ snd.highest_ack < Most(snd.maxseq, snd.curseq - 1) => snd.rtx_timer
  /\ window(snd) >= 1
  /\ snd.maxseq <= snd.highest_ack + wnd

(* The sink delivers every packet once and in order although its ring is   *)
(* reused and doubled: next_ is the first packet it has not received, the  *)
(* ring holds exactly the packets received after a gap, and no packet is   *)
(* acknowledged that it has not received.                                  *)
SinkExact ==
  /\ sink.next \notin got /\ 0..(sink.next - 1) \subseteq got
  /\ \A i \in sink.next..sink.maxseen : sink.seen[Slot(sink, i)] <=> i \in got
  /\ \A i \in got : i <= sink.maxseen
  /\ snd.highest_ack < sink.next /\ got \subseteq 0..snd.maxseq

(* Everything the application has submitted is acknowledged in the end:    *)
(* no loss leaves sender and sink waiting for each other.                  *)
Completes == []<>(snd.highest_ack >= snd.curseq - 1)
=============================================================================
