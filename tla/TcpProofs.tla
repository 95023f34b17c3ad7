------------------------------ MODULE TcpProofs ------------------------------
(***************************************************************************)
(* Theorems about the TCP agents, for every window, number of packets and  *)
(* of losses and early timeouts.                                           *)
(*                                                                         *)
(* The functions of the sender are shown one by one to keep its sequence   *)
(* numbers in order (SenderOK); the ring of the sink is exact (SinkOK) as  *)
(* long as the packets between its next expected and its last one have     *)
(* slots of their own. The path joins the two: what is on it was sent, and *)
(* nothing is acknowledged that the sink does not have.                    *)
(***************************************************************************)
EXTENDS Tcp, NumberTheorems, FiniteSetTheorems

-----------------------------------------------------------------------------
(* The sender. *)

Senders ==
  [curseq : Nat, t_seqno : Nat, maxseq : Int, highest_ack : Int, recover : Int,
   cwnd : Nat, ssthresh : Nat, dupacks : Nat,
   action : {"none", "DUPACK", "EXITED", "TIMEOUT"}, rtt_seq : Int,
   rtx_timer : BOOLEAN, closed : BOOLEAN, sent : SUBSET Int, resent : SUBSET Int,
   early : SUBSET Int, dupwnd : Nat, firstpartial : BOOLEAN, wnd_init : Nat,
   rtt_active : BOOLEAN, out : Seq(Int)]

\* What is acknowledged, sent next and sent at most.
InOrder(s) ==
  /\ -1 <= s.highest_ack /\ s.highest_ack <= s.maxseq
  /\ s.maxseq <= s.highest_ack + wnd
  /\ s.highest_ack < s.t_seqno /\ s.t_seqno <= s.maxseq + 1
  /\ \A i \in DOMAIN s.out : s.out[i] \in 0..s.maxseq

History(s) == s.resent \subseteq s.sent /\ \A i \in s.sent : i <= s.maxseq

\* The packet that is measured is ahead of every retransmission to come: those
\* of send_much start at t_seqno_, a partial acknowledgment is below recover_.
Measured(s) ==
  /\ s.highest_ack < s.rtt_seq
  /\ s.action = "DUPACK" => s.recover < s.rtt_seq
  /\ \/ s.rtt_seq \in s.early
     \/ s.rtt_seq < s.t_seqno /\ s.rtt_seq \in s.sent \ s.resent

SenderOK(s) ==
  /\ s \in Senders
  /\ InOrder(s)
  /\ History(s)
  /\ s.ssthresh >= 1 /\ s.wnd_init >= 1
  /\ ~s.rtx_timer => s.maxseq = -1
  /\ s.rtt_seq <= s.maxseq
  /\ s.action = "DUPACK" => s.recover <= s.maxseq
  /\ ~ResetAnyTime /\ s.rtt_active => Measured(s)

\* The window has room for a packet.
Open(s) == s.cwnd >= CU \/ s.dupwnd >= 1

\* With nothing outstanding there is nothing to send.
Drained(s) == s.highest_ack = s.maxseq => s.curseq <= s.maxseq + 1

-----------------------------------------------------------------------------
(* The sink. *)

Sinks(z) == [next : Nat, maxseen : Nat, seen : [0..(z - 1) -> BOOLEAN], save : BOOLEAN]

\* The ring of size z that holds the packets G, next expected included or not.
RingOK(k, z, G) ==
  /\ k \in Sinks(z)
  /\ k.next <= k.maxseen + 1 /\ k.maxseen + 1 - k.next < z
  /\ G \subseteq 0..k.maxseen /\ 0..(k.next - 1) \subseteq G
  /\ \A i \in k.next..k.maxseen : k.seen[i % z] <=> i \in G
  /\ ~k.seen[(k.maxseen + 1) % z]

SinkOK(k, z, G) == RingOK(k, z, G) /\ k.next \notin G

-----------------------------------------------------------------------------
(* The invariant. *)

Segments == [seqno : Int, inc : Nat]

TypeOK ==
  /\ variant \in {"Tahoe", "Reno", "Newreno"} /\ delack \in BOOLEAN
  /\ data \in Seq(Segments) /\ acks \in Seq(Segments)
  /\ inc \in Nat

SenderInv == SenderOK(snd) /\ Open(snd) /\ Drained(snd) /\ snd.out = <<>>

SinkInv == Size(sink) \in Nat /\ Size(sink) >= MWS /\ SinkOK(sink, Size(sink), got)

\* Packets and acknowledgments of this incarnation; older ones are ignored.
DataOK(d, m, c) ==
  \A i \in DOMAIN d : d[i].inc <= c /\ (d[i].inc = c => d[i].seqno \in 0..m)
AcksOK(a, n, c) ==
  \A i \in DOMAIN a : a[i].inc <= c /\ (a[i].inc = c => a[i].seqno \in -1..(n - 1))

PathInv == DataOK(data, snd.maxseq, inc) /\ AcksOK(acks, sink.next, inc)

\* What is acknowledged was received, and what is received was sent.
EndsAgree == snd.highest_ack < sink.next /\ got \subseteq 0..snd.maxseq

IInv == TypeOK /\ SenderInv /\ SinkInv /\ PathInv /\ EndsAgree

-----------------------------------------------------------------------------
(* Slots of the ring. *)

LEMMA ModRange ==
  ASSUME NEW i \in Int, NEW z \in Nat \ {0}
  PROVE  i % z \in 0..(z - 1)
  BY Z3

\* Numbers less than the size of the ring apart have slots of their own.
LEMMA ModInjective ==
  ASSUME NEW z \in Nat \ {0}, NEW i \in Int, NEW j \in Int, i % z = j % z,
         i - j < z, j - i < z
  PROVE  i = j
<1> DEFINE r == i % z
           p == i \div z
           q == j \div z
<1>1. i = z * p + r /\ j = z * q + r
  BY Z3
<1>2. r \in Int /\ p \in Int /\ q \in Int
  BY ModRange, DivMod
<1> HIDE DEF r, p, q
<1>3. i = p * z + r /\ j = q * z + r
  BY <1>1, <1>2, Z3
<1>4. p = q
  <2>1. CASE p > q
    <3>1. (q + 1) * z <= p * z
      BY <1>2, <2>1, MulMono, q + 1 \in Int, q + 1 <= p
    <3>2. (q + 1) * z = q * z + z
      BY <1>2, Z3
    <3> QED
      BY <1>2, <1>3, <3>1, <3>2, Z3
  <2>2. CASE q > p
    <3>1. (p + 1) * z <= q * z
      BY <1>2, <2>2, MulMono, p + 1 \in Int, p + 1 <= q
    <3>2. (p + 1) * z = p * z + z
      BY <1>2, Z3
    <3> QED
      BY <1>2, <1>3, <3>1, <3>2, Z3
  <2> QED
    BY <1>2, <2>1, <2>2
<1> QED
  BY <1>3, <1>4

LEMMA SizeOfRing ==
  ASSUME NEW z \in Nat \ {0}, NEW k \in Sinks(z)
  PROVE  Size(k) = z /\ \A i \in Int : Slot(k, i) = i % z
<1>1. DOMAIN k.seen = 0..(z - 1)
  BY DEF Sinks
<1>2. Cardinality(0..(z - 1)) = z
  <2>1. 0 \in Int /\ z - 1 \in Int /\ ~(0 > z - 1)
    OBVIOUS
  <2>2. Cardinality(0..(z - 1)) = (z - 1) - 0 + 1
    BY <2>1, FS_Interval
  <2> QED
    BY <2>2
<1> QED
  BY <1>1, <1>2 DEF Size, Slot

\* Slots of the packets that the ring holds, for a ring of z or more.
LEMMA SlotsApart ==
  ASSUME NEW z \in Nat \ {0}, NEW a \in Int, NEW b \in Int, b - a < z,
         NEW i \in a..b, NEW j \in a..b, i % z = j % z
  PROVE  i = j
<1>1. i \in Int /\ j \in Int /\ i - j < z /\ j - i < z
  OBVIOUS
<1> QED
  BY <1>1, ModInjective

LEMMA ResizeOK ==
  ASSUME NEW z \in Nat \ {0}, NEW G, NEW k, SinkOK(k, z, G)
  PROVE  /\ SinkOK(resize_buffers(k), 2 * z, G)
         /\ resize_buffers(k).next = k.next /\ resize_buffers(k).maxseen = k.maxseen
<1> DEFINE y == 2 * z
           kept == k.next..(k.maxseen + 1)
           ring == [j \in 0..(y - 1) |-> \E i \in kept : i % y = j /\ k.seen[i % z]]
           t == [k EXCEPT !.seen = ring]
<1>1. k \in Sinks(z) /\ k.next \in Nat /\ k.maxseen \in Nat
      /\ k.seen \in [0..(z - 1) -> BOOLEAN]
  BY DEF SinkOK, RingOK, Sinks
<1>2. y \in Nat \ {0} /\ y >= z
  OBVIOUS
<1>3. /\ k.next <= k.maxseen + 1 /\ k.maxseen + 1 - k.next < z
      /\ G \subseteq 0..k.maxseen /\ 0..(k.next - 1) \subseteq G /\ k.next \notin G
      /\ \A i \in k.next..k.maxseen : k.seen[i % z] <=> i \in G
      /\ ~k.seen[(k.maxseen + 1) % z]
  BY DEF SinkOK, RingOK
<1>4. resize_buffers(k) = t
  <2>0. \A i \in kept : i \in Int
    OBVIOUS
  <2>1. 2 * Size(k) = y /\ \A i \in kept : Slot(k, i) = i % z
    BY <1>1, <2>0, SizeOfRing
  <2> QED
    BY <2>1, Zenon DEF resize_buffers
<1> HIDE DEF y
<1>5. \A i \in kept : ring[i % y] <=> k.seen[i % z]
  <2> SUFFICES ASSUME NEW i \in kept PROVE ring[i % y] <=> k.seen[i % z]
    OBVIOUS
  <2>1. i % y \in 0..(y - 1)
    BY <1>2, ModRange
  <2>2. ring[i % y] <=> \E x \in kept : x % y = i % y /\ k.seen[x % z]
    BY <2>1
  <2>3. k.maxseen + 1 - k.next < y /\ k.next \in Int /\ k.maxseen + 1 \in Int
    BY <1>1, <1>2, <1>3
  <2>4. \A x \in kept : x % y = i % y => x = i
    <3> DEFINE b == k.maxseen + 1
    <3>1. b \in Int /\ b - k.next < y
      BY <1>1, <1>2, <2>3
    <3>2. kept = k.next..b
      BY Zenon
    <3> HIDE DEF b, ring, kept
    <3> QED
      BY <1>2, <2>3, <3>1, <3>2, SlotsApart
  <2> HIDE DEF ring, kept
  <2> QED
    BY <2>2, <2>4
<1>6. ring \in [0..(y - 1) -> BOOLEAN]
  OBVIOUS
<1> HIDE DEF ring
<1>7. t \in Sinks(y) /\ t.next = k.next /\ t.maxseen = k.maxseen /\ t.seen = ring
  BY <1>1, <1>6 DEF Sinks
<1> HIDE DEF t
<1>8. k.maxseen + 1 - k.next < y
  BY <1>1, <1>2, <1>3
<1>9. \A i \in k.next..k.maxseen : ring[i % y] <=> i \in G
  BY <1>1, <1>3, <1>5
<1>10. ~ring[(k.maxseen + 1) % y]
  <2>1. k.maxseen + 1 \in kept
    BY <1>1, <1>3
  <2> QED
    BY <1>3, <1>5, <2>1
<1>11. RingOK(t, y, G)
  BY <1>3, <1>7, <1>8, <1>9, <1>10 DEF RingOK
<1>12. SinkOK(t, y, G)
  BY <1>3, <1>7, <1>11 DEF SinkOK
<1> QED
  BY <1>4, <1>7, <1>12 DEF y

LEMMA ResizedOK ==
  ASSUME NEW z \in Nat, z >= MWS, NEW G, NEW k, SinkOK(k, z, G),
         NEW seq \in Nat, seq + 1 - k.next <= wnd
  PROVE  \E y \in Nat : /\ y >= MWS /\ SinkOK(Resized(k, seq), y, G)
                        /\ Resized(k, seq).next = k.next
                        /\ Resized(k, seq).maxseen = k.maxseen
                        /\ seq + 1 - k.next < y - 1
<1>1. MWS \in Nat /\ MWS >= 2 /\ wnd \in Nat
  BY TcpAssumption
<1>2. z \in Nat \ {0} /\ 2 * z \in Nat \ {0} /\ 2 * z >= MWS /\ 4 * z >= MWS
      /\ 4 * z \in Nat \ {0} /\ 2 * (2 * z) = 4 * z
  BY <1>1
<1> DEFINE k2 == resize_buffers(k)
           k4 == resize_buffers(k2)
<1>3. SinkOK(k2, 2 * z, G) /\ k2.next = k.next /\ k2.maxseen = k.maxseen
  BY <1>2, ResizeOK
<1>4. SinkOK(k4, 4 * z, G) /\ k4.next = k.next /\ k4.maxseen = k.maxseen
  <2> HIDE DEF k2
  <2> DEFINE y == 2 * z
  <2>1. y \in Nat \ {0} /\ SinkOK(k2, y, G) /\ 2 * y = 4 * z
    BY <1>2, <1>3
  <2> HIDE DEF y
  <2>2. /\ SinkOK(resize_buffers(k2), 2 * y, G)
        /\ resize_buffers(k2).next = k2.next /\ resize_buffers(k2).maxseen = k2.maxseen
    BY <2>1, ResizeOK
  <2> QED
    BY <1>3, <2>1, <2>2
<1>5. /\ k \in Sinks(z) /\ k2 \in Sinks(2 * z) /\ k.next \in Nat
  BY <1>3 DEF SinkOK, RingOK, Sinks
<1>6. Size(k) = z /\ Size(k2) = 2 * z
  BY <1>2, <1>5, SizeOfRing
<1>7. seq + 1 - k.next < 4 * z - 1
  BY <1>1, <1>2, <1>5, RingAssumption
<1>8. \/ Resized(k, seq) = k /\ seq + 1 - k.next < z - 1
      \/ Resized(k, seq) = k2 /\ seq + 1 - k.next < 2 * z - 1
      \/ Resized(k, seq) = k4
  BY <1>3, <1>6 DEF Resized, Room
<1> HIDE DEF k2, k4
<1> QED
  BY <1>2, <1>3, <1>4, <1>7, <1>8

\* The loop that looks for the next packet ends at the first one missing.
LEMMA NextExpectedOK ==
  ASSUME NEW z \in Nat \ {0}, NEW G, NEW k, RingOK(k, z, G)
  PROVE  /\ NextExpected(k) \in k.next..(k.maxseen + 1)
         /\ SinkOK([k EXCEPT !.next = NextExpected(k)], z, G)
<1> DEFINE P(n) == /\ ~k.seen[Slot(k, n)]
                   /\ \A i \in k.next..(n - 1) : k.seen[Slot(k, i)]
           n == NextExpected(k)
           t == [k EXCEPT !.next = n]
           T == {i \in k.next..(k.maxseen + 1) : ~k.seen[i % z]}
<1>1. /\ k \in Sinks(z) /\ k.next \in Nat /\ k.maxseen \in Nat
      /\ k.next <= k.maxseen + 1 /\ k.maxseen + 1 - k.next < z
      /\ G \subseteq 0..k.maxseen /\ 0..(k.next - 1) \subseteq G
      /\ \A i \in k.next..k.maxseen : k.seen[i % z] <=> i \in G
      /\ ~k.seen[(k.maxseen + 1) % z]
  BY DEF RingOK, Sinks
<1>2. Size(k) = z /\ \A i \in Int : Slot(k, i) = i % z
  BY <1>1, SizeOfRing
<1>3. \E x \in k.next..(k.next + Size(k)) : P(x)
  <2>1. T \in SUBSET Nat /\ k.maxseen + 1 \in T
    BY <1>1
  <2>2. PICK x \in T : \A y \in T : x <= y
    BY <2>1, NatMinimum
  <2>3. x \in k.next..(k.maxseen + 1) /\ ~k.seen[x % z] /\ x \in Int
    BY <1>1, <2>2
  <2>4. \A i \in k.next..(x - 1) : k.seen[i % z]
    <3> SUFFICES ASSUME NEW i \in k.next..(x - 1), ~k.seen[i % z] PROVE FALSE
      OBVIOUS
    <3>1. i \in T /\ i < x
      BY <1>1, <2>3
    <3> QED
      BY <1>1, <2>2, <2>3, <3>1
  <2>5. \A i \in k.next..(x - 1) : i \in Int
    OBVIOUS
  <2>6. P(x)
    BY <1>2, <2>3, <2>4, <2>5
  <2>7. x \in k.next..(k.next + Size(k))
    BY <1>1, <1>2, <2>3
  <2> HIDE DEF P
  <2> QED
    BY <2>6, <2>7
<1>4. n \in k.next..(k.next + Size(k)) /\ P(n)
  <2> HIDE DEF P
  <2>1. n = CHOOSE x \in k.next..(k.next + Size(k)) : P(x)
    BY Zenon DEF NextExpected, P
  <2> HIDE DEF n
  <2> QED
    BY <1>3, <2>1
<1> HIDE DEF n
<1>5. /\ n \in Int /\ k.next <= n /\ ~k.seen[n % z]
      /\ \A i \in k.next..(n - 1) : i \in Int /\ k.seen[i % z]
  BY <1>1, <1>2, <1>4
<1>6. n <= k.maxseen + 1
  <2> SUFFICES ASSUME n > k.maxseen + 1 PROVE FALSE
    BY <1>1, <1>5
  <2>1. k.maxseen + 1 \in k.next..(n - 1)
    BY <1>1, <1>5
  <2> QED
    BY <1>1, <1>5, <2>1
<1>7. n \in Nat /\ n \in k.next..(k.maxseen + 1)
  BY <1>1, <1>5, <1>6
<1>8. t \in Sinks(z) /\ t.next = n /\ t.maxseen = k.maxseen /\ t.seen = k.seen
  BY <1>1, <1>7 DEF Sinks
<1> HIDE DEF t
<1>9. 0..(n - 1) \subseteq G
  <2> SUFFICES ASSUME NEW i \in 0..(n - 1) PROVE i \in G
    OBVIOUS
  <2>1. CASE i < k.next
    BY <1>1, <2>1
  <2>2. CASE i >= k.next
    <3>1. i \in k.next..(n - 1) /\ i \in k.next..k.maxseen
      BY <1>1, <1>7, <2>2
    <3> QED
      BY <1>1, <1>5, <3>1
  <2> QED
    BY <1>1, <2>1, <2>2
<1>10. n \notin G
  <2>1. CASE n = k.maxseen + 1
    BY <1>1, <2>1
  <2>2. CASE n \in k.next..k.maxseen
    BY <1>1, <1>5, <2>2
  <2> QED
    BY <1>1, <1>7, <2>1, <2>2
<1>11. /\ n <= k.maxseen + 1 /\ k.maxseen + 1 - n < z
       /\ \A i \in n..k.maxseen : i \in k.next..k.maxseen
  BY <1>1, <1>7
<1>12. RingOK(t, z, G)
  BY <1>1, <1>8, <1>9, <1>11 DEF RingOK
<1> QED
  BY <1>7, <1>8, <1>10, <1>12 DEF SinkOK, n, t

\* A packet at or below the last one seen.
LEMMA FillOK ==
  ASSUME NEW z \in Nat \ {0}, NEW G, NEW k, SinkOK(k, z, G),
         NEW seq \in k.next..k.maxseen
  PROVE  RingOK([k EXCEPT !.seen[seq % z] = TRUE], z, G \cup {seq})
<1> DEFINE t == [k EXCEPT !.seen[seq % z] = TRUE]
           b == k.maxseen + 1
<1>1. /\ k \in Sinks(z) /\ k.next \in Nat /\ k.maxseen \in Nat
      /\ k.seen \in [0..(z - 1) -> BOOLEAN]
      /\ k.next <= k.maxseen + 1 /\ k.maxseen + 1 - k.next < z
      /\ G \subseteq 0..k.maxseen /\ 0..(k.next - 1) \subseteq G
      /\ \A i \in k.next..k.maxseen : k.seen[i % z] <=> i \in G
      /\ ~k.seen[(k.maxseen + 1) % z]
  BY DEF SinkOK, RingOK, Sinks
<1>2. b \in Int /\ b - k.next < z /\ seq \in k.next..b /\ b \in k.next..b /\ seq # b
      /\ \A i \in k.next..k.maxseen : i \in k.next..b
  <2>1. k.next \in Nat /\ k.maxseen \in Nat /\ k.next <= k.maxseen + 1
        /\ k.maxseen + 1 - k.next < z
    BY <1>1
  <2> QED
    BY <2>1
<1>3. \A i, j \in k.next..b : i % z = j % z => i = j
  <2> HIDE DEF b
  <2>1. k.next \in Int
    BY <1>1
  <2> QED
    BY <1>2, <2>1, SlotsApart
<1>4. \A i \in k.next..b : i % z \in 0..(z - 1)
  <2>1. \A i \in k.next..b : i \in Int
    OBVIOUS
  <2> QED
    BY <2>1, ModRange
<1>5. /\ t.next = k.next /\ t.maxseen = k.maxseen
      /\ t.seen = [k.seen EXCEPT ![seq % z] = TRUE]
  BY <1>1 DEF Sinks
<1>6. t.seen \in [0..(z - 1) -> BOOLEAN]
  BY <1>1, <1>2, <1>4, <1>5
<1>7. t \in Sinks(z)
  <2>1. t = [k EXCEPT !.seen = t.seen]
    BY <1>1 DEF Sinks
  <2> DEFINE ring == t.seen
  <2>2. t = [k EXCEPT !.seen = ring] /\ ring \in [0..(z - 1) -> BOOLEAN]
    BY <1>6, <2>1
  <2> HIDE DEF ring, t
  <2> QED
    BY <1>1, <2>2 DEF Sinks
<1> HIDE DEF t
<1>8. \A i \in k.next..b : t.seen[i % z] <=> i = seq \/ k.seen[i % z]
  BY <1>1, <1>2, <1>3, <1>4, <1>5
<1>9. \A i \in k.next..k.maxseen : t.seen[i % z] <=> i \in G \cup {seq}
  <2> HIDE DEF b
  <2> QED
    BY <1>1, <1>2, <1>8
<1>10. ~t.seen[(k.maxseen + 1) % z]
  BY <1>1, <1>2, <1>8
<1>11. G \cup {seq} \subseteq 0..k.maxseen /\ 0..(k.next - 1) \subseteq G \cup {seq}
  BY <1>1
<1>12. RingOK(t, z, G \cup {seq})
  BY <1>1, <1>5, <1>7, <1>9, <1>10, <1>11 DEF RingOK
<1> QED
  BY <1>12 DEF t

\* A packet beyond the last one seen: the slots in between are cleared.
LEMMA BeyondOK ==
  ASSUME NEW z \in Nat \ {0}, NEW G, NEW k, SinkOK(k, z, G),
         NEW seq \in Nat, seq > k.maxseen, seq + 1 - k.next < z,
         NEW S \in [0..(z - 1) -> BOOLEAN],
         \A i \in k.next..k.maxseen : S[i % z] = k.seen[i % z],
         \A i \in (k.maxseen + 1)..(seq - 1) : ~S[i % z],
         S[seq % z], ~S[(seq + 1) % z]
  PROVE  RingOK([k EXCEPT !.maxseen = seq, !.seen = S], z, G \cup {seq})
<1> DEFINE t == [k EXCEPT !.maxseen = seq, !.seen = S]
<1>1. /\ k \in Sinks(z) /\ k.next \in Nat /\ k.maxseen \in Nat
      /\ k.next <= k.maxseen + 1
      /\ G \subseteq 0..k.maxseen /\ 0..(k.next - 1) \subseteq G
      /\ \A i \in k.next..k.maxseen : k.seen[i % z] <=> i \in G
  BY DEF SinkOK, RingOK, Sinks
<1>2. t \in Sinks(z) /\ t.next = k.next /\ t.maxseen = seq /\ t.seen = S
  BY <1>1 DEF Sinks
<1> HIDE DEF t
<1>3. ASSUME NEW i \in k.next..seq PROVE S[i % z] <=> i \in G \cup {seq}
  <2>1. CASE i <= k.maxseen
    <3>1. i \in k.next..k.maxseen /\ i # seq
      BY <1>1, <2>1
    <3> QED
      BY <1>1, <3>1
  <2>2. CASE i > k.maxseen /\ i # seq
    <3>1. i \in (k.maxseen + 1)..(seq - 1) /\ i \notin G
      BY <1>1, <2>2
    <3> QED
      BY <2>2, <3>1
  <2>3. CASE i = seq
    BY <2>3
  <2> QED
    BY <1>1, <2>1, <2>2, <2>3
<1>4. /\ G \cup {seq} \subseteq 0..seq /\ 0..(k.next - 1) \subseteq G \cup {seq}
      /\ k.next <= seq + 1
  <2>1. 0..k.maxseen \subseteq 0..seq /\ seq \in 0..seq /\ k.next <= seq + 1
    <3> DEFINE a == k.next
               c == k.maxseen
    <3>1. a \in Nat /\ c \in Nat /\ a <= c + 1 /\ seq > c
      BY <1>1
    <3> HIDE DEF a, c
    <3>2. 0..c \subseteq 0..seq /\ seq \in 0..seq /\ a <= seq + 1
      BY <3>1
    <3> QED
      BY <3>2 DEF a, c
  <2> QED
    BY <1>1, <2>1
<1>5. RingOK(t, z, G \cup {seq})
  BY <1>2, <1>3, <1>4 DEF RingOK
<1> QED
  BY <1>5 DEF t

LEMMA UpdateOK ==
  ASSUME NEW z \in Nat, z >= MWS, NEW G, NEW k0, SinkOK(k0, z, G),
         NEW seq \in Nat, seq + 1 - k0.next <= wnd
  PROVE  \E y \in Nat : /\ y >= MWS /\ SinkOK(update(k0, seq), y, G \cup {seq})
                        /\ update(k0, seq).next >= k0.next
<1> DEFINE k == Resized(k0, seq)
<1>1. PICK y \in Nat : /\ y >= MWS /\ SinkOK(k, y, G)
                       /\ k.next = k0.next /\ k.maxseen = k0.maxseen
                       /\ seq + 1 - k.next < y - 1
  BY ResizedOK
<1> DEFINE cleared == {Slot(k, i) : i \in (k.maxseen + 1)..(seq - 1)} \cup {Slot(k, seq + 1)}
           S1 == [j \in DOMAIN k.seen |->
                    IF j = Slot(k, seq + 1) THEN FALSE
                    ELSE IF j = Slot(k, seq) THEN TRUE
                    ELSE k.seen[j] /\ j \notin cleared]
           k1 == IF seq <= k.maxseen THEN k ELSE [k EXCEPT !.maxseen = seq, !.seen = S1]
           k2 == [k1 EXCEPT !.seen[Slot(k, seq)] = TRUE]
           r == update(k0, seq)
<1>2. r = IF seq < k1.next THEN k1 ELSE [k2 EXCEPT !.next = NextExpected(k2)]
  BY Zenon DEF update
<1>3. y \in Nat \ {0}
  BY <1>1, TcpAssumption
<1>4. /\ k \in Sinks(y) /\ k.next \in Nat /\ k.maxseen \in Nat
      /\ k.seen \in [0..(y - 1) -> BOOLEAN]
      /\ k.next <= k.maxseen + 1 /\ k.maxseen + 1 - k.next < y
      /\ 0..(k.next - 1) \subseteq G
  BY <1>1 DEF SinkOK, RingOK, Sinks
<1>5. \A i \in Int : Slot(k, i) = i % y
  BY <1>3, <1>4, SizeOfRing
<1>6. Slot(k, seq) = seq % y /\ Slot(k, seq + 1) = (seq + 1) % y
  BY <1>5
<1> HIDE DEF k, r
<1>7. ASSUME NEW w, RingOK(w, y, G \cup {seq}), r = [w EXCEPT !.next = NextExpected(w)],
             w.next = k.next
      PROVE  SinkOK(r, y, G \cup {seq}) /\ r.next >= k0.next
  <2>1. NextExpected(w) \in w.next..(w.maxseen + 1) /\ SinkOK(r, y, G \cup {seq})
    BY <1>3, <1>7, NextExpectedOK
  <2>2. w \in Sinks(y)
    BY <1>7 DEF RingOK
  <2>3. r.next = NextExpected(w)
    BY <1>7, <2>2 DEF Sinks
  <2> QED
    BY <1>1, <1>4, <1>7, <2>1, <2>3
<1>8. CASE seq < k.next
  <2>1. seq <= k.maxseen /\ seq \in G
    BY <1>4, <1>8
  <2>2. r = k
    BY <1>2, <1>8, <2>1
  <2>3. G \cup {seq} = G
    BY <2>1
  <2>4. SinkOK(r, y, G \cup {seq}) /\ r.next >= k0.next
    <3>1. SinkOK(k, y, G \cup {seq})
      BY <1>1, <2>3
    <3>2. k.next >= k0.next
      BY <1>1, <1>4
    <3> QED
      BY <2>2, <3>1, <3>2
  <2> QED
    BY <1>1, <2>4 DEF r
<1>9. CASE seq >= k.next /\ seq <= k.maxseen
  <2> DEFINE w == [k EXCEPT !.seen[seq % y] = TRUE]
  <2>1. r = [w EXCEPT !.next = NextExpected(w)]
    BY <1>2, <1>4, <1>6, <1>9
  <2>2. w.next = k.next
    BY <1>4 DEF Sinks
  <2>3. RingOK(w, y, G \cup {seq})
    <3>1. seq \in k.next..k.maxseen
      BY <1>4, <1>9
    <3> QED
      BY <1>1, <1>3, <3>1, FillOK
  <2> HIDE DEF w
  <2>4. SinkOK(r, y, G \cup {seq}) /\ r.next >= k0.next
    BY <1>7, <2>1, <2>2, <2>3
  <2> QED
    BY <1>1, <2>4 DEF r
<1>10. CASE seq > k.maxseen
  <2> DEFINE S == [S1 EXCEPT ![seq % y] = TRUE]
             w == [k EXCEPT !.maxseen = seq, !.seen = S]
             b == seq + 1
  <2>1. /\ DOMAIN k.seen = 0..(y - 1)
        /\ S1 \in [0..(y - 1) -> BOOLEAN]
    BY <1>4
  <2>2. k1 = [k EXCEPT !.maxseen = seq, !.seen = S1] /\ k1.next = k.next
    BY <1>4, <1>10 DEF Sinks
  <2>3. k2 = w
    BY <1>4, <1>6, <2>2 DEF Sinks
  <2>4. seq >= k.next
    BY <1>4, <1>10
  <2>5. r = [w EXCEPT !.next = NextExpected(w)]
    <3>1. ~(seq < k1.next)
      BY <1>4, <2>2, <2>4
    <3> HIDE DEF k1, k2, w
    <3> QED
      BY <1>2, <2>3, <3>1
  <2>6. w.next = k.next
    BY <1>4 DEF Sinks
  <2>7. /\ b \in Int /\ b - k.next < y /\ k.next \in Int
        /\ b \in k.next..b /\ seq \in k.next..b
        /\ \A i \in k.next..k.maxseen : i \in k.next..b /\ i # seq /\ i # b
        /\ \A i \in (k.maxseen + 1)..(seq - 1) : i \in k.next..b /\ i # seq /\ i # b
                                                 /\ i \notin k.next..k.maxseen
    <3> DEFINE a == k.next
               c == k.maxseen
    <3>1. a \in Nat /\ c \in Nat /\ a <= c + 1 /\ seq + 1 - a < y - 1 /\ seq > c /\ seq >= a
      BY <1>1, <1>4, <1>10, <2>4
    <3> HIDE DEF a, c
    <3>2. /\ b \in Int /\ b - a < y /\ a \in Int /\ b \in a..b /\ seq \in a..b
      BY <3>1
    <3>3. \A i \in a..c : i \in a..b /\ i # seq /\ i # b
      BY <3>1
    <3>4. \A i \in (c + 1)..(seq - 1) : i \in a..b /\ i # seq /\ i # b /\ i \notin a..c
      BY <3>1
    <3> QED
      BY <3>2, <3>3, <3>4 DEF a, c
  <2>8. \A i, j \in k.next..b : i % y = j % y => i = j
    <3> HIDE DEF b
    <3> QED
      BY <1>3, <2>7, SlotsApart
  <2>9. \A i \in k.next..b : i \in Int /\ i % y \in 0..(y - 1)
    <3>1. \A i \in k.next..b : i \in Int
      OBVIOUS
    <3> QED
      BY <1>3, <3>1, ModRange
  <2>10. cleared = {i % y : i \in (k.maxseen + 1)..(seq - 1)} \cup {b % y}
    BY <1>5, <1>6, <2>7, <2>9
  <2> HIDE DEF cleared
  <2>11. \A j \in 0..(y - 1) : S1[j] = IF j = b % y THEN FALSE
                                       ELSE IF j = seq % y THEN TRUE
                                       ELSE k.seen[j] /\ j \notin cleared
    BY <1>6, <2>1
  <2> HIDE DEF S1, k1, k2, w
  <2>12. S \in [0..(y - 1) -> BOOLEAN]
         /\ \A j \in 0..(y - 1) : S[j] = IF j = seq % y THEN TRUE ELSE S1[j]
    BY <2>1, <2>7, <2>9
  <2> HIDE DEF S, b
  <2>13. \A i \in k.next..k.maxseen : i % y \notin cleared
    BY <2>7, <2>8, <2>10
  <2>14. \A i \in k.next..k.maxseen : S[i % y] = k.seen[i % y]
    <3> SUFFICES ASSUME NEW i \in k.next..k.maxseen PROVE S[i % y] = k.seen[i % y]
      OBVIOUS
    <3>1. i % y # seq % y /\ i % y # b % y /\ i % y \notin cleared /\ i % y \in 0..(y - 1)
      BY <2>7, <2>8, <2>9, <2>13
    <3>2. k.seen[i % y] \in BOOLEAN
      BY <1>4, <3>1
    <3>3. S1[i % y] = k.seen[i % y]
      BY <2>11, <3>1, <3>2
    <3> QED
      BY <2>12, <3>1, <3>3
  <2>15. \A i \in (k.maxseen + 1)..(seq - 1) : ~S[i % y]
    <3> SUFFICES ASSUME NEW i \in (k.maxseen + 1)..(seq - 1) PROVE ~S[i % y]
      OBVIOUS
    <3>1. i % y # seq % y /\ i % y \in cleared /\ i % y \in 0..(y - 1)
      BY <2>7, <2>8, <2>9, <2>10
    <3> QED
      BY <2>11, <2>12, <3>1
  <2>16. S[seq % y]
    BY <2>7, <2>9, <2>12
  <2>17. ~S[b % y]
    <3>1. b % y # seq % y /\ b % y \in 0..(y - 1)
      <4>1. b # seq
        BY DEF b
      <4> QED
        BY <2>7, <2>8, <2>9, <4>1
    <3> QED
      BY <2>11, <2>12, <3>1
  <2>18. RingOK(w, y, G \cup {seq})
    <3>1. b = seq + 1 /\ seq + 1 - k.next < y
      BY <2>7 DEF b
    <3> QED
      BY <1>1, <1>3, <1>10, <2>12, <2>14, <2>15, <2>16, <2>17, <3>1, BeyondOK DEF w
  <2>19. SinkOK(r, y, G \cup {seq}) /\ r.next >= k0.next
    BY <1>7, <2>5, <2>6, <2>18
  <2> QED
    BY <1>1, <2>19 DEF r
<1>11. seq < k.next \/ (seq >= k.next /\ seq <= k.maxseen) \/ seq > k.maxseen
  BY <1>4
<1> QED
  BY <1>8, <1>9, <1>10, <1>11

-----------------------------------------------------------------------------
(* Functions of the sender. *)

LEMMA SenderTypes ==
  ASSUME NEW s \in Senders
  PROVE  /\ s.curseq \in Nat /\ s.t_seqno \in Nat /\ s.maxseq \in Int
         /\ s.highest_ack \in Int /\ s.recover \in Int /\ s.cwnd \in Nat
         /\ s.ssthresh \in Nat /\ s.dupacks \in Nat /\ s.rtt_seq \in Int
         /\ s.rtx_timer \in BOOLEAN /\ s.closed \in BOOLEAN /\ s.sent \in SUBSET Int
         /\ s.resent \in SUBSET Int /\ s.early \in SUBSET Int /\ s.dupwnd \in Nat
         /\ s.firstpartial \in BOOLEAN /\ s.wnd_init \in Nat /\ s.rtt_active \in BOOLEAN
         /\ s.out \in Seq(Int) /\ s.action \in {"none", "DUPACK", "EXITED", "TIMEOUT"}
  BY Zenon DEF Senders

\* u is s after packet q was put out and t_seqno_ set to t.
Sent(s, q, t, u) ==
  /\ u \in Senders
  /\ u.curseq = (IF q = 0 /\ s.maxseq = -1 THEN s.curseq + 1 ELSE s.curseq)
  /\ u.t_seqno = t /\ u.maxseq = Most(s.maxseq, q)
  /\ u.rtt_active = (s.rtt_active \/ q > s.maxseq)
  /\ u.rtt_seq = (IF q > s.maxseq /\ ~s.rtt_active /\ q > s.rtt_seq THEN q ELSE s.rtt_seq)
  /\ u.rtx_timer = TRUE
  /\ u.sent = s.sent \cup {q}
  /\ u.resent = (IF q \in s.sent THEN s.resent \cup {q} ELSE s.resent)
  /\ u.early = (IF q > s.maxseq /\ q >= s.curseq THEN s.early \cup {q} ELSE s.early)
  /\ u.out = Append(s.out, q)
  /\ u.highest_ack = s.highest_ack /\ u.recover = s.recover /\ u.cwnd = s.cwnd
  /\ u.ssthresh = s.ssthresh /\ u.dupacks = s.dupacks /\ u.action = s.action
  /\ u.dupwnd = s.dupwnd /\ u.wnd_init = s.wnd_init

LEMMA OutputSent ==
  ASSUME NEW s \in Senders, NEW q \in Int
  PROVE  Sent(s, q, s.t_seqno, output(s, q))
<1> DEFINE u == output(s, q)
<1>1. u \in Senders
  <2>1. (IF q = 0 /\ s.maxseq = -1 THEN s.curseq + 1 ELSE s.curseq) \in Nat
    BY SenderTypes
  <2>2. Most(s.maxseq, q) \in Int
    BY SenderTypes DEF Most
  <2>3. (s.rtt_active \/ q > s.maxseq) \in BOOLEAN
    OBVIOUS
  <2>4. (IF q > s.maxseq /\ ~s.rtt_active /\ q > s.rtt_seq THEN q ELSE s.rtt_seq) \in Int
    BY SenderTypes
  <2>5. s.sent \cup {q} \in SUBSET Int
    BY SenderTypes
  <2>6. (IF q \in s.sent THEN s.resent \cup {q} ELSE s.resent) \in SUBSET Int
    BY SenderTypes
  <2>7. (IF q > s.maxseq /\ q >= s.curseq THEN s.early \cup {q} ELSE s.early) \in SUBSET Int
    BY SenderTypes
  <2>8. Append(s.out, q) \in Seq(Int)
    BY SenderTypes
  <2> QED
    BY <2>1, <2>2, <2>3, <2>4, <2>5, <2>6, <2>7, <2>8, ZenonT(60) DEF output, Senders
<1>2. /\ u.curseq = (IF q = 0 /\ s.maxseq = -1 THEN s.curseq + 1 ELSE s.curseq)
      /\ u.t_seqno = s.t_seqno /\ u.maxseq = Most(s.maxseq, q)
      /\ u.rtt_active = (s.rtt_active \/ q > s.maxseq)
      /\ u.rtt_seq = (IF q > s.maxseq /\ ~s.rtt_active /\ q > s.rtt_seq THEN q ELSE s.rtt_seq)
      /\ u.rtx_timer = TRUE
      /\ u.sent = s.sent \cup {q}
      /\ u.resent = (IF q \in s.sent THEN s.resent \cup {q} ELSE s.resent)
      /\ u.early = (IF q > s.maxseq /\ q >= s.curseq THEN s.early \cup {q} ELSE s.early)
      /\ u.out = Append(s.out, q)
      /\ u.highest_ack = s.highest_ack /\ u.recover = s.recover /\ u.cwnd = s.cwnd
      /\ u.ssthresh = s.ssthresh /\ u.dupacks = s.dupacks /\ u.action = s.action
      /\ u.dupwnd = s.dupwnd /\ u.wnd_init = s.wnd_init
  BY SMTT(30) DEF output, Senders
<1> HIDE DEF u
<1> QED
  BY <1>1, <1>2, Zenon DEF Sent, u

LEMMA SendNextSent ==
  ASSUME NEW s \in Senders
  PROVE  Sent(s, s.t_seqno, s.t_seqno + 1, send_next(s))
<1> DEFINE o == output(s, s.t_seqno)
           u == send_next(s)
<1>1. s.t_seqno \in Int /\ s.t_seqno + 1 \in Nat
  BY SenderTypes
<1>2. Sent(s, s.t_seqno, s.t_seqno, o)
  BY <1>1, OutputSent
<1>3. o \in Senders /\ o.t_seqno = s.t_seqno
  BY <1>2 DEF Sent
<1>4. send_next(s) = [o EXCEPT !.t_seqno = s.t_seqno + 1]
  BY <1>3 DEF send_next
<1> HIDE DEF o, u
<1>5. u \in Senders
  BY <1>1, <1>3, <1>4, Zenon DEF Senders, u
<1>6. /\ u.curseq = o.curseq /\ u.t_seqno = s.t_seqno + 1 /\ u.maxseq = o.maxseq
      /\ u.rtt_active = o.rtt_active /\ u.rtt_seq = o.rtt_seq
      /\ u.rtx_timer = o.rtx_timer /\ u.sent = o.sent /\ u.resent = o.resent
      /\ u.early = o.early /\ u.out = o.out
      /\ u.highest_ack = o.highest_ack /\ u.recover = o.recover /\ u.cwnd = o.cwnd
      /\ u.ssthresh = o.ssthresh /\ u.dupacks = o.dupacks /\ u.action = o.action
      /\ u.dupwnd = o.dupwnd /\ u.wnd_init = o.wnd_init
  BY <1>3, <1>4 DEF Senders, u
<1> QED
  BY <1>2, <1>5, <1>6, Zenon DEF Sent, u

\* A packet from the window that is new, or is not the one that is measured.
LEMMA SentOK ==
  ASSUME NEW s, SenderOK(s), NEW q \in Int, NEW t \in Int, NEW u, Sent(s, q, t, u),
         s.highest_ack < q, q <= s.highest_ack + wnd, q <= s.maxseq + 1,
         s.t_seqno <= t, t <= Most(s.maxseq, q) + 1,
         q > s.maxseq => q >= s.curseq \/ q < t,
         ~ResetAnyTime /\ s.rtt_active /\ q = s.rtt_seq => q \in s.early
  PROVE  SenderOK(u)
<1>1. wnd \in Nat /\ s \in Senders
  BY TcpAssumption DEF SenderOK
<1>2. /\ s.maxseq \in Int /\ s.highest_ack \in Int /\ s.t_seqno \in Nat /\ s.curseq \in Nat
      /\ s.rtt_seq \in Int /\ s.recover \in Int /\ s.out \in Seq(Int)
      /\ s.sent \in SUBSET Int /\ s.resent \in SUBSET Int /\ s.early \in SUBSET Int
  BY <1>1, SenderTypes
<1>3. InOrder(u)
  <2>1. /\ u.maxseq = Most(s.maxseq, q) /\ u.t_seqno = t /\ u.highest_ack = s.highest_ack
        /\ u.out = Append(s.out, q)
    BY DEF Sent
  <2>2. InOrder(s)
    BY DEF SenderOK
  <2>3. \A i \in DOMAIN u.out : u.out[i] \in 0..u.maxseq
    <3>1. \A i \in DOMAIN s.out : s.out[i] \in 0..s.maxseq
      BY <2>2 DEF InOrder
    <3>2. 0 <= q /\ q <= u.maxseq /\ s.maxseq <= u.maxseq /\ u.maxseq \in Int
      BY <1>2, <2>1, <2>2 DEF InOrder, Most
    <3> DEFINE o == s.out
               m == s.maxseq
    <3>3. ASSUME NEW i \in DOMAIN Append(o, q) PROVE Append(o, q)[i] \in 0..u.maxseq
      <4>1. o \in Seq(Int) /\ (\A j \in DOMAIN o : o[j] \in 0..m) /\ m \in Int /\ m <= u.maxseq
        BY <1>2, <3>1, <3>2
      <4> HIDE DEF o, m
      <4>2. CASE i \in DOMAIN o
        <5>1. Append(o, q)[i] = o[i] /\ o[i] \in 0..m
          BY <4>1, <4>2
        <5> QED
          BY <3>2, <4>1, <5>1
      <4>3. CASE i \notin DOMAIN o
        <5>1. Append(o, q)[i] = q
          BY <4>1, <4>3
        <5> QED
          BY <3>2, <5>1
      <4> QED
        BY <4>2, <4>3
    <3> QED
      BY <2>1, <3>3
  <2>4. /\ -1 <= s.highest_ack /\ s.highest_ack <= s.maxseq
        /\ s.maxseq <= s.highest_ack + wnd
        /\ s.highest_ack < s.t_seqno /\ s.t_seqno <= s.maxseq + 1
    BY <2>2 DEF InOrder
  <2>5. /\ -1 <= u.highest_ack /\ u.highest_ack <= u.maxseq
        /\ u.maxseq <= u.highest_ack + wnd
        /\ u.highest_ack < u.t_seqno /\ u.t_seqno <= u.maxseq + 1
    BY <1>1, <1>2, <2>1, <2>4 DEF Most
  <2> QED
    BY <2>3, <2>5 DEF InOrder
<1>4. History(u)
  BY <1>2 DEF Sent, SenderOK, History, Most
<1>5. u.rtt_seq <= u.maxseq
  BY <1>2 DEF Sent, SenderOK, Most
<1>6. u.action = "DUPACK" => u.recover <= u.maxseq
  BY <1>2 DEF Sent, SenderOK, Most
<1>7. ASSUME ~ResetAnyTime, u.rtt_active PROVE Measured(u)
  <2>1. CASE s.rtt_active
    <3>1. Measured(s) /\ u.rtt_seq = s.rtt_seq
      BY <1>7, <2>1 DEF SenderOK, Sent
    <3> QED
      BY <1>2, <1>7, <2>1, <3>1 DEF Measured, Sent
  <2>2. CASE ~s.rtt_active
    <3>1. q > s.maxseq /\ u.rtt_seq = q
      <4>1. u.rtt_active = (s.rtt_active \/ q > s.maxseq)
        BY DEF Sent
      <4>2. q > s.maxseq
        BY <1>7, <2>2, <4>1, Zenon
      <4> QED
        BY <1>2, <2>2, <4>2 DEF SenderOK, Sent
    <3>2. q \notin s.sent /\ q \notin s.resent
      BY <1>2, <3>1 DEF SenderOK, History
    <3>3. s.action = "DUPACK" => s.recover <= s.maxseq
      BY DEF SenderOK
    <3> QED
      BY <1>2, <1>7, <2>2, <3>1, <3>2, <3>3 DEF Measured, Sent
  <2> QED
    BY <2>1, <2>2
<1> QED
  BY <1>3, <1>4, <1>5, <1>6, <1>7 DEF SenderOK, Sent

LEMMA WindowRoom ==
  ASSUME NEW s \in Senders
  PROVE  window(s) \in Nat /\ window(s) <= wnd /\ (Open(s) => window(s) >= 1)
<1> DEFINE c == s.cwnd
           d == s.dupwnd
           v == c \div CU
<1>1. c \in Nat /\ d \in Nat /\ CU \in Nat \ {0} /\ wnd \in Nat \ {0}
  BY SenderTypes, TcpAssumption
<1> HIDE DEF c, d
<1>2. v \in Int /\ v >= 0
  BY <1>1, DivLower, 0 \in Int, c \in Int, 0 * CU = 0, v \in Int
<1>3. c >= CU => v >= 1
  BY <1>1, DivLower, 1 \in Int, c \in Int, 1 * CU = CU
<1> HIDE DEF v
<1>4. window(s) = Least(v + d, wnd)
  BY DEF window, v, c, d
<1>5. Open(s) => c >= CU \/ d >= 1
  BY DEF Open, c, d
<1> QED
  BY <1>1, <1>2, <1>3, <1>4, <1>5 DEF Least

LEMMA SendNextOK ==
  ASSUME NEW s, SenderOK(s), s.t_seqno <= s.highest_ack + wnd
  PROVE  LET u == send_next(s)
         IN /\ SenderOK(u) /\ u.highest_ack = s.highest_ack /\ u.t_seqno = s.t_seqno + 1
            /\ u.cwnd = s.cwnd /\ u.dupwnd = s.dupwnd /\ u.maxseq >= s.maxseq
<1> DEFINE u == send_next(s)
           q == s.t_seqno
<1>1. s \in Senders /\ InOrder(s)
  BY DEF SenderOK
<1>2. q \in Int /\ s.maxseq \in Int /\ s.highest_ack \in Int /\ q + 1 \in Int /\ wnd \in Nat
      /\ s.rtt_seq \in Int
  BY <1>1, SenderTypes, TcpAssumption
<1>3. Sent(s, q, q + 1, u)
  BY <1>1, SendNextSent
<1>4. s.highest_ack < q /\ q <= s.maxseq + 1
  BY <1>1 DEF InOrder
<1>5. ~ResetAnyTime /\ s.rtt_active /\ q = s.rtt_seq => q \in s.early
  BY <1>2 DEF SenderOK, Measured
<1>6. q + 1 <= Most(s.maxseq, q) + 1 /\ Most(s.maxseq, q) >= s.maxseq
  BY <1>2, <1>4 DEF Most
<1>7. q <= s.highest_ack + wnd /\ q <= q + 1 /\ q < q + 1
  BY <1>2
<1> HIDE DEF u, q
<1>8. SenderOK(u)
  BY <1>2, <1>3, <1>4, <1>5, <1>6, <1>7, SentOK DEF q
<1> QED
  BY <1>3, <1>6, <1>8 DEF Sent, u, q

\* The packets of send_much one by one.
Sending(k, s, f) ==
  /\ f = [i \in 0..k |-> f[i]]
  /\ f[0] = s
  /\ \A i \in 1..k : f[i] = send_next(f[i - 1])

LEMMA SendingExists ==
  ASSUME NEW m \in Nat, NEW s
  PROVE  \E f : Sending(m, s, f)
<1> DEFINE N == {k \in Nat : \E f : Sending(k, s, f)}
<1>1. 0 \in N
  <2>1. Sending(0, s, [i \in 0..0 |-> s])
    BY DEF Sending
  <2> QED
    BY <2>1
<1>2. ASSUME NEW k \in Nat, k < m, k \in N PROVE k + 1 \in N
  <2>1. PICK f : Sending(k, s, f)
    BY <1>2
  <2> DEFINE last == send_next(f[k])
             g == [i \in 0..(k + 1) |-> IF i <= k THEN f[i] ELSE last]
  <2>2. \A i \in 1..k : f[i] = send_next(f[i - 1])
    BY <2>1 DEF Sending
  <2>3. ASSUME NEW i \in 1..(k + 1) PROVE g[i] = send_next(g[i - 1])
    <3>1. CASE i <= k
      <4>1. g[i] = f[i] /\ g[i - 1] = f[i - 1] /\ i \in 1..k
        BY <3>1
      <4> HIDE DEF g
      <4> QED
        BY <2>2, <4>1
    <3>2. CASE i = k + 1
      <4>1. g[i] = last /\ g[i - 1] = f[k]
        BY <3>2
      <4> HIDE DEF g
      <4> QED
        BY <4>1
    <3> QED
      BY <3>1, <3>2
  <2>4. g[0] = s /\ g = [i \in 0..(k + 1) |-> g[i]]
    BY <2>1 DEF Sending
  <2> HIDE DEF g
  <2>5. Sending(k + 1, s, g)
    BY <2>3, <2>4 DEF Sending
  <2> QED
    BY <2>5
<1> HIDE DEF N
<1>3. \A k \in 0..m : k \in N
  BY <1>1, <1>2, UpTo
<1>4. m \in N
  BY <1>3
<1> QED
  BY <1>4 DEF N

\* What a function that only sends leaves as it was.
Follows(s, u) ==
  /\ SenderOK(u)
  /\ u.highest_ack = s.highest_ack /\ u.maxseq >= s.maxseq

LEMMA SendMuchOK ==
  ASSUME NEW s, SenderOK(s), Open(s), NEW burst \in Nat
  PROVE  LET u == send_much(s, burst)
         IN Follows(s, u) /\ Open(u) /\ Drained(u)
<1> DEFINE syn == IF s.t_seqno = 0 /\ s.maxseq = -1 /\ s.curseq > 0 THEN 1 ELSE 0
           last == Least(s.highest_ack + window(s), s.curseq + syn - 1)
           n == Most(0, last - s.t_seqno + 1)
           m == IF burst > 0 THEN Least(n, burst) ELSE n
           Def(u) == u = [k \in 0..m |-> IF k = 0 THEN s ELSE send_next(u[k - 1])]
           g == CHOOSE u : Def(u)
           Good(k, u) == /\ Follows(s, u) /\ u.t_seqno = s.t_seqno + k
                         /\ u.cwnd = s.cwnd /\ u.dupwnd = s.dupwnd
           N == {k \in Nat : k <= m => Good(k, g[k])}
<1>1. s \in Senders /\ InOrder(s)
  BY DEF SenderOK
<1>2. /\ s.curseq \in Nat /\ s.t_seqno \in Nat /\ s.maxseq \in Int /\ s.highest_ack \in Int
      /\ wnd \in Nat /\ window(s) \in Nat /\ window(s) <= wnd /\ window(s) >= 1
  BY <1>1, SenderTypes, WindowRoom, TcpAssumption
<1>3. send_much(s, burst) = g[m]
  BY Zenon DEF send_much
<1>4. m \in Nat /\ syn \in {0, 1}
  BY <1>2 DEF Least, Most
<1>5. \A k \in Nat : k < m => s.t_seqno + k <= s.highest_ack + wnd
  <2>1. last \in Int /\ last <= s.highest_ack + wnd
    BY <1>2, <1>4 DEF Least
  <2> HIDE DEF last
  <2>2. m <= n /\ n \in Nat
    BY <2>1, <1>2 DEF Least, Most
  <2>3. n # 0 => n = last - s.t_seqno + 1
    BY <2>1, <1>2 DEF Most
  <2> HIDE DEF m, n
  <2> QED
    BY <1>2, <1>4, <2>1, <2>2, <2>3
<1>6. m = 0 /\ s.highest_ack = s.maxseq => s.curseq <= s.maxseq + 1
  <2> SUFFICES ASSUME m = 0, s.highest_ack = s.maxseq PROVE s.curseq <= s.maxseq + 1
    OBVIOUS
  <2>1. s.t_seqno = s.maxseq + 1
    BY <1>1, <1>2 DEF InOrder
  <2>2. last \in Int
    BY <1>2, <1>4 DEF Least
  <2>3. last < s.t_seqno
    <3> HIDE DEF last
    <3> QED
      BY <1>2, <2>2 DEF Least, Most
  <2>4. s.curseq + syn - 1 < s.t_seqno
    <3> HIDE DEF syn
    <3> QED
      BY <1>2, <1>4, <2>1, <2>3 DEF Least
  <2> HIDE DEF syn
  <2> QED
    BY <1>2, <1>4, <2>1, <2>4
<1> HIDE DEF m
<1>7. PICK f : Sending(m, s, f)
  BY <1>4, SendingExists
<1>8. Def(f)
  <2>1. ASSUME NEW k \in 0..m PROVE f[k] = IF k = 0 THEN s ELSE send_next(f[k - 1])
    <3>1. k # 0 => k \in 1..m
      BY <1>4
    <3>2. f[0] = s /\ \A i \in 1..m : f[i] = send_next(f[i - 1])
      BY <1>7 DEF Sending
    <3> QED
      BY <3>1, <3>2
  <2>2. f = [k \in 0..m |-> f[k]]
    BY <1>7 DEF Sending
  <2> QED
    BY <2>1, <2>2
<1>9. Def(g)
  <2> HIDE DEF Def
  <2> QED
    BY <1>8
<1> HIDE DEF g
<1>10. g[0] = s
  BY <1>4, <1>9
<1>11. \A k \in Nat : k < m => g[k + 1] = send_next(g[k])
  <2> SUFFICES ASSUME NEW k \in Nat, k < m PROVE g[k + 1] = send_next(g[k])
    OBVIOUS
  <2>1. k + 1 \in 0..m /\ k + 1 # 0 /\ (k + 1) - 1 = k
    BY <1>4
  <2> QED
    BY <1>9, <2>1
<1> HIDE DEF Def
<1>12. 0 \in N
  BY <1>2, <1>10 DEF Follows
<1>13. ASSUME NEW k \in Nat, k < m, k \in N PROVE k + 1 \in N
  <2> DEFINE v == g[k]
             u == send_next(v)
  <2>1. Good(k, v)
    BY <1>4, <1>13
  <2>2. g[k + 1] = u
    BY <1>11, <1>13
  <2> HIDE DEF v
  <2>3. SenderOK(v) /\ v.t_seqno = s.t_seqno + k /\ v.highest_ack = s.highest_ack
    BY <2>1 DEF Follows
  <2>4. v.t_seqno <= v.highest_ack + wnd
    BY <1>5, <1>13, <2>3
  <2>5. /\ SenderOK(u) /\ u.highest_ack = v.highest_ack /\ u.t_seqno = v.t_seqno + 1
        /\ u.cwnd = v.cwnd /\ u.dupwnd = v.dupwnd /\ u.maxseq >= v.maxseq
    BY <2>3, <2>4, SendNextOK
  <2>6. u.maxseq \in Int /\ v.maxseq \in Int
    BY <2>3, <2>5, SenderTypes DEF SenderOK
  <2> HIDE DEF u
  <2>7. Good(k + 1, u)
    <3>1. u.t_seqno = s.t_seqno + (k + 1)
      BY <1>2, <1>13, <2>3, <2>5
    <3>2. u.maxseq >= s.maxseq
      BY <1>2, <2>1, <2>5, <2>6 DEF Follows
    <3> QED
      BY <2>1, <2>5, <3>1, <3>2 DEF Follows
  <2> QED
    BY <2>2, <2>7
<1>14. m \in N
  <2> HIDE DEF N
  <2>1. \A k \in 0..m : k \in N
    BY <1>4, <1>12, <1>13, UpTo
  <2> QED
    BY <1>4, <2>1
<1> DEFINE w == g[m]
<1>15. Good(m, w)
  BY <1>4, <1>14
<1> HIDE DEF w
<1>16. Open(w)
  BY <1>15 DEF Open
<1>17. Drained(w)
  <2>1. CASE m = 0
    <3>1. w = s
      BY <1>10, <2>1 DEF w
    <3> QED
      BY <1>6, <2>1, <3>1 DEF Drained
  <2>2. CASE m # 0
    <3>1. SenderOK(w) /\ w.highest_ack = s.highest_ack /\ w.t_seqno = s.t_seqno + m
      BY <1>15 DEF Follows
    <3>2. w.t_seqno <= w.maxseq + 1 /\ w.maxseq \in Int
      BY <3>1, SenderTypes DEF SenderOK, InOrder
    <3>3. s.highest_ack < s.t_seqno
      BY <1>1 DEF InOrder
    <3> QED
      BY <1>2, <1>4, <2>2, <3>1, <3>2, <3>3 DEF Drained
  <2> QED
    BY <2>1, <2>2
<1> QED
  BY <1>3, <1>15, <1>16, <1>17 DEF w

\* u is s with other windows and counters, with more acknowledged, or with
\* t_seqno_ set back and no packet measured.
Adjusted(s, u) ==
  /\ u \in Senders
  /\ u.maxseq = s.maxseq /\ u.rtt_seq = s.rtt_seq /\ u.out = s.out
  /\ u.sent = s.sent /\ u.resent = s.resent /\ u.early = s.early
  /\ u.ssthresh >= 1 /\ u.wnd_init >= 1
  /\ s.rtx_timer => u.rtx_timer
  /\ s.highest_ack <= u.highest_ack /\ u.highest_ack <= s.maxseq
  /\ u.highest_ack < u.t_seqno /\ u.t_seqno <= s.maxseq + 1
  /\ u.rtt_active => /\ s.rtt_active /\ s.t_seqno <= u.t_seqno
                     /\ u.highest_ack = s.highest_ack \/ u.highest_ack < s.rtt_seq
  /\ u.action = "DUPACK" => \/ s.action = "DUPACK" /\ u.recover = s.recover
                            \/ ~u.rtt_active /\ u.recover = s.maxseq

LEMMA AdjustedOK ==
  ASSUME NEW s, SenderOK(s), NEW u, Adjusted(s, u)
  PROVE  SenderOK(u)
<1>1. s \in Senders /\ u \in Senders /\ wnd \in Nat
  BY TcpAssumption DEF SenderOK, Adjusted
<1>2. /\ s.maxseq \in Int /\ s.highest_ack \in Int /\ s.t_seqno \in Int
      /\ s.rtt_seq \in Int /\ s.recover \in Int
      /\ u.highest_ack \in Int /\ u.t_seqno \in Int /\ u.recover \in Int
  BY <1>1, SenderTypes
<1>3. InOrder(u)
  <2>1. \A i \in DOMAIN u.out : u.out[i] \in 0..u.maxseq
    BY DEF Adjusted, SenderOK, InOrder
  <2>2. -1 <= s.highest_ack /\ s.maxseq <= s.highest_ack + wnd
    BY DEF SenderOK, InOrder
  <2> QED
    BY <1>1, <1>2, <2>1, <2>2 DEF Adjusted, InOrder
<1>4. History(u) /\ u.rtt_seq <= u.maxseq
  BY DEF Adjusted, SenderOK, History
<1>5. ~u.rtx_timer => u.maxseq = -1
  BY DEF Adjusted, SenderOK
<1>6. u.action = "DUPACK" => u.recover <= u.maxseq
  BY <1>2 DEF Adjusted, SenderOK
<1>7. ASSUME ~ResetAnyTime, u.rtt_active PROVE Measured(u)
  <2>1. Measured(s)
    BY <1>7 DEF Adjusted, SenderOK
  <2> QED
    BY <1>2, <1>7, <2>1 DEF Adjusted, Measured
<1> QED
  BY <1>3, <1>4, <1>5, <1>6, <1>7 DEF SenderOK, Adjusted

LEMMA WindowdHalves ==
  ASSUME NEW s \in Senders
  PROVE  windowd(s) \div 2 \in Nat /\ HalfSsthresh(s) \in Nat /\ HalfSsthresh(s) >= 2
<1> DEFINE w == windowd(s)
           h == w \div 2
           c == h \div CU
<1>1. w \in Nat /\ CU \in Nat \ {0}
  <2>1. s.cwnd \in Nat /\ s.dupwnd \in Nat /\ CU \in Nat \ {0} /\ wnd \in Nat
    BY SenderTypes, TcpAssumption
  <2>2. s.dupwnd * CU \in Nat /\ wnd * CU \in Nat
    BY <2>1, Z3
  <2> QED
    BY <2>1, <2>2 DEF windowd, Least
<1> HIDE DEF w
<1>2. h \in Int /\ h >= 0
  BY <1>1, DivLower, DivMod, 0 \in Int, 0 * 2 = 0, 2 \in Nat \ {0}, w \in Int
<1> HIDE DEF h
<1>3. c \in Int
  BY <1>1, <1>2, DivMod
<1> HIDE DEF c
<1>4. HalfSsthresh(s) = Most(c, 2)
  BY DEF HalfSsthresh, c, h, w
<1> QED
  BY <1>2, <1>3, <1>4 DEF Most, h, w

LEMMA TahoeActionOK ==
  ASSUME NEW s, SenderOK(s)
  PROVE  LET u == tahoe_action(s)
         IN /\ Follows(s, u) /\ Open(u) /\ u.maxseq = s.maxseq
            /\ u.curseq = s.curseq /\ u.dupacks = s.dupacks
<1> DEFINE a == [s EXCEPT !.recover = s.maxseq, !.action = "DUPACK"]
           b == slowdown_one(a)
           u == reset_rtx_timer(b, FALSE)
<1>1. s \in Senders /\ CU \in Nat
  BY TcpAssumption DEF SenderOK
<1>2. s.maxseq \in Int /\ s.highest_ack \in Int
  BY <1>1, SenderTypes
<1>3. a \in Senders
  BY <1>1, <1>2, Zenon DEF Senders
<1>4. HalfSsthresh(a) \in Nat /\ HalfSsthresh(a) >= 2
  BY <1>3, WindowdHalves
<1>5. b \in Senders
  BY <1>1, <1>3, <1>4, Zenon DEF slowdown_one, Senders
<1>6. b.highest_ack = s.highest_ack
  BY <1>1 DEF slowdown_one, Senders
<1>7. u \in Senders
  <2>1. b.highest_ack + 1 \in Nat
    BY <1>2, <1>6 DEF SenderOK, InOrder
  <2> HIDE DEF b
  <2> QED
    BY <1>5, <2>1, Zenon DEF reset_rtx_timer, Senders
<1>8. /\ u.maxseq = s.maxseq /\ u.rtt_seq = s.rtt_seq /\ u.out = s.out
      /\ u.sent = s.sent /\ u.resent = s.resent /\ u.early = s.early
      /\ u.ssthresh = HalfSsthresh(a) /\ u.wnd_init = s.wnd_init /\ u.rtx_timer
      /\ u.highest_ack = s.highest_ack /\ u.t_seqno = s.highest_ack + 1
      /\ ~u.rtt_active /\ u.recover = s.maxseq
      /\ u.cwnd = CU /\ u.curseq = s.curseq /\ u.dupacks = s.dupacks
  BY <1>1, SMTT(30) DEF reset_rtx_timer, slowdown_one, Senders
<1>9. tahoe_action(s) = u
  BY DEF tahoe_action
<1> HIDE DEF u, a
<1>10. s.highest_ack <= s.maxseq /\ s.wnd_init >= 1
  BY DEF SenderOK, InOrder
<1>11. Adjusted(s, u)
  BY <1>2, <1>4, <1>7, <1>8, <1>10 DEF Adjusted
<1>12. SenderOK(u)
  BY <1>11, AdjustedOK
<1> QED
  BY <1>1, <1>2, <1>8, <1>9, <1>12 DEF Follows, Open

\* With nothing outstanding the packet that is sent again is a new one, which
\* the application has not produced.
LEMMA RenoActionOK ==
  ASSUME NEW s, SenderOK(s), Drained(s)
  PROVE  LET u == reno_action(s)
         IN Follows(s, u) /\ Open(u) /\ Drained(u) /\ u.dupacks = s.dupacks
<1> DEFINE a == [s EXCEPT !.recover = s.maxseq, !.action = "DUPACK"]
           b == slowdown_half(a)
           v == reset_rtx_timer(b, TRUE)
           q == s.highest_ack + 1
           o == output(v, q)
           u == [o EXCEPT !.dupwnd = numdupacks]
<1>1. s \in Senders /\ numdupacks \in Nat \ {0} /\ wnd \in Nat \ {0}
  BY TcpAssumption DEF SenderOK
<1>2. s.maxseq \in Int /\ s.highest_ack \in Int /\ q \in Int /\ s.curseq \in Nat /\ s.t_seqno \in Nat
  BY <1>1, SenderTypes
<1>3. a \in Senders
  BY <1>1, <1>2, Zenon DEF Senders
<1>4. HalfSsthresh(a) \in Nat /\ HalfSsthresh(a) >= 2 /\ windowd(a) \div 2 \in Nat
  BY <1>3, WindowdHalves
<1>5. b \in Senders
  <2> HIDE DEF a
  <2> QED
    BY <1>3, <1>4, Zenon DEF slowdown_half, Senders
<1>6. v \in Senders
  <2> HIDE DEF b
  <2>1. b.t_seqno \in Nat
    BY <1>5, SenderTypes
  <2> QED
    BY <1>5, <2>1, Zenon DEF reset_rtx_timer, Senders
<1>7. /\ v.maxseq = s.maxseq /\ v.rtt_seq = s.rtt_seq /\ v.out = s.out
      /\ v.sent = s.sent /\ v.resent = s.resent /\ v.early = s.early
      /\ v.ssthresh = HalfSsthresh(a) /\ v.wnd_init = s.wnd_init /\ v.rtx_timer
      /\ v.highest_ack = s.highest_ack /\ v.t_seqno = s.t_seqno
      /\ ~v.rtt_active /\ v.recover = s.maxseq
      /\ v.curseq = s.curseq /\ v.dupacks = s.dupacks
  BY <1>1, SMTT(30) DEF reset_rtx_timer, slowdown_half, Senders
<1>8. reno_action(s) = u
  BY DEF reno_action
<1> HIDE DEF v, a
<1>9. /\ -1 <= s.highest_ack /\ s.highest_ack <= s.maxseq /\ s.wnd_init >= 1
      /\ s.highest_ack < s.t_seqno /\ s.t_seqno <= s.maxseq + 1
  BY DEF SenderOK, InOrder
<1>10. SenderOK(v)
  <2>1. Adjusted(s, v)
    BY <1>2, <1>4, <1>6, <1>7, <1>9 DEF Adjusted
  <2> QED
    BY <2>1, AdjustedOK
<1>11. Sent(v, q, v.t_seqno, o)
  BY <1>2, <1>6, OutputSent
<1>12. SenderOK(o)
  <2>1. /\ v.highest_ack < q /\ q <= v.highest_ack + wnd /\ q <= v.maxseq + 1
        /\ v.t_seqno \in Int
    BY <1>1, <1>2, <1>7, <1>9
  <2>2. v.t_seqno <= v.t_seqno /\ v.t_seqno <= Most(v.maxseq, q) + 1
    BY <1>2, <1>7, <1>9 DEF Most
  <2>3. q > v.maxseq => q >= v.curseq
    BY <1>2, <1>7, <1>9 DEF Drained
  <2> HIDE DEF o, q
  <2> QED
    BY <1>2, <1>7, <1>10, <1>11, <2>1, <2>2, <2>3, SentOK
<1>13. /\ o \in Senders /\ o.highest_ack = s.highest_ack /\ o.dupacks = s.dupacks
       /\ o.maxseq = Most(s.maxseq, q)
       /\ o.curseq = (IF q = 0 /\ s.maxseq = -1 THEN s.curseq + 1 ELSE s.curseq)
  BY <1>7, <1>11 DEF Sent
<1> HIDE DEF o
<1>14. u \in Senders
  BY <1>1, <1>13, Zenon DEF Senders
<1>15. /\ u.maxseq = o.maxseq /\ u.rtt_seq = o.rtt_seq /\ u.out = o.out
       /\ u.sent = o.sent /\ u.resent = o.resent /\ u.early = o.early
       /\ u.ssthresh = o.ssthresh /\ u.wnd_init = o.wnd_init /\ u.rtx_timer = o.rtx_timer
       /\ u.highest_ack = o.highest_ack /\ u.t_seqno = o.t_seqno
       /\ u.rtt_active = o.rtt_active /\ u.recover = o.recover /\ u.action = o.action
       /\ u.dupwnd = numdupacks /\ u.curseq = o.curseq /\ u.dupacks = o.dupacks
  BY <1>13 DEF Senders
<1> HIDE DEF u
<1>16. SenderOK(u)
  <2>1. /\ o.highest_ack <= o.maxseq /\ o.highest_ack < o.t_seqno /\ o.t_seqno <= o.maxseq + 1
        /\ o.ssthresh >= 1 /\ o.wnd_init >= 1
    BY <1>12 DEF SenderOK, InOrder
  <2>2. o.highest_ack \in Int /\ o.t_seqno \in Int /\ o.rtx_timer \in BOOLEAN
    BY <1>13, SenderTypes
  <2>3. Adjusted(o, u)
    BY <1>14, <1>15, <2>1, <2>2 DEF Adjusted
  <2> QED
    BY <1>12, <2>3, AdjustedOK
<1>17. Open(u)
  BY <1>1, <1>15 DEF Open
<1>18. Drained(u)
  BY <1>2, <1>9, <1>13, <1>15 DEF Drained, Most
<1>19. u.maxseq >= s.maxseq
  BY <1>2, <1>13, <1>15 DEF Most
<1> QED
  BY <1>8, <1>13, <1>15, <1>16, <1>17, <1>18, <1>19 DEF Follows

\* Other windows or counters, as the sender's numbers are.
LEMMA CountersOK ==
  ASSUME NEW s, SenderOK(s), NEW u \in Senders,
         u.maxseq = s.maxseq, u.rtt_seq = s.rtt_seq, u.out = s.out,
         u.sent = s.sent, u.resent = s.resent, u.early = s.early,
         u.ssthresh = s.ssthresh, u.wnd_init = s.wnd_init, u.rtx_timer = s.rtx_timer,
         u.highest_ack = s.highest_ack, u.t_seqno = s.t_seqno, u.recover = s.recover,
         u.rtt_active = s.rtt_active,
         u.action = "DUPACK" => s.action = "DUPACK"
  PROVE  SenderOK(u)
<1>1. /\ s.highest_ack <= s.maxseq /\ s.highest_ack < s.t_seqno /\ s.t_seqno <= s.maxseq + 1
      /\ s.ssthresh >= 1 /\ s.wnd_init >= 1
  BY DEF SenderOK, InOrder
<1>2. s \in Senders /\ s.highest_ack \in Int /\ s.t_seqno \in Int
  BY SenderTypes DEF SenderOK
<1>3. Adjusted(s, u)
  BY <1>1, <1>2 DEF Adjusted
<1> QED
  BY <1>3, AdjustedOK

LEMMA SendOneOK ==
  ASSUME NEW s, SenderOK(s), Open(s), Drained(s)
  PROVE  LET u == send_one(s) IN Follows(s, u) /\ Open(u) /\ Drained(u)
<1>1. s \in Senders /\ s.maxseq \in Int
  BY SenderTypes DEF SenderOK
<1>2. CASE send_one(s) = s
  BY <1>1, <1>2 DEF Follows
<1>3. CASE send_one(s) # s
  <2> DEFINE u == send_next(s)
  <2>1. send_one(s) = u /\ s.t_seqno <= s.highest_ack + wnd
    BY <1>3 DEF send_one
  <2>2. /\ SenderOK(u) /\ u.highest_ack = s.highest_ack /\ u.t_seqno = s.t_seqno + 1
        /\ u.cwnd = s.cwnd /\ u.dupwnd = s.dupwnd /\ u.maxseq >= s.maxseq
    BY <2>1, SendNextOK
  <2> HIDE DEF u
  <2>3. u.highest_ack # u.maxseq
    <3>1. s.highest_ack \in Int /\ s.t_seqno \in Int /\ s.highest_ack < s.t_seqno
      BY <1>1, SenderTypes DEF SenderOK, InOrder
    <3>2. u.t_seqno <= u.maxseq + 1 /\ u.maxseq \in Int
      BY <2>2, SenderTypes DEF SenderOK, InOrder
    <3> QED
      BY <2>2, <3>1, <3>2
  <2> QED
    BY <2>1, <2>2, <2>3 DEF Follows, Open, Drained
<1> QED
  BY <1>2, <1>3

LEMMA RecvDupackOK ==
  ASSUME NEW s, SenderOK(s), Open(s), Drained(s)
  PROVE  LET u == recv_dupack(s) IN Follows(s, u) /\ Open(u) /\ Drained(u)
<1> DEFINE t == [s EXCEPT !.dupacks = Least(@ + 1, numdupacks + 1)]
           w == [t EXCEPT !.dupwnd = Least(@ + 1, wnd)]
<1>1. s \in Senders /\ numdupacks \in Nat \ {0} /\ wnd \in Nat \ {0}
  BY TcpAssumption DEF SenderOK
<1>2. Least(s.dupacks + 1, numdupacks + 1) \in Nat /\ s.maxseq \in Int
  BY <1>1, SenderTypes DEF Least
<1>3. t \in Senders
  BY <1>1, <1>2, Zenon DEF Senders
<1>4. /\ t.maxseq = s.maxseq /\ t.rtt_seq = s.rtt_seq /\ t.out = s.out
      /\ t.sent = s.sent /\ t.resent = s.resent /\ t.early = s.early
      /\ t.ssthresh = s.ssthresh /\ t.wnd_init = s.wnd_init /\ t.rtx_timer = s.rtx_timer
      /\ t.highest_ack = s.highest_ack /\ t.t_seqno = s.t_seqno /\ t.recover = s.recover
      /\ t.rtt_active = s.rtt_active /\ t.action = s.action
      /\ t.cwnd = s.cwnd /\ t.dupwnd = s.dupwnd /\ t.curseq = s.curseq
  BY <1>1 DEF Senders
<1> HIDE DEF t
<1>5. SenderOK(t) /\ Open(t) /\ Drained(t)
  BY <1>3, <1>4, CountersOK DEF Open, Drained
<1>6. ASSUME NEW u, Follows(t, u) PROVE Follows(s, u)
  BY <1>4, <1>6 DEF Follows
<1>7. CASE recv_dupack(s) = t
  BY <1>2, <1>4, <1>5, <1>7 DEF Follows
<1>8. CASE recv_dupack(s) = send_one(t)
  BY <1>5, <1>6, <1>8, SendOneOK
<1>9. CASE recv_dupack(s) = w
  <2>1. Least(t.dupwnd + 1, wnd) \in Nat /\ Least(t.dupwnd + 1, wnd) >= 1
    BY <1>1, <1>3, SenderTypes DEF Least
  <2>2. w \in Senders
    BY <1>3, <2>1, Zenon DEF Senders
  <2>3. /\ w.maxseq = t.maxseq /\ w.rtt_seq = t.rtt_seq /\ w.out = t.out
        /\ w.sent = t.sent /\ w.resent = t.resent /\ w.early = t.early
        /\ w.ssthresh = t.ssthresh /\ w.wnd_init = t.wnd_init /\ w.rtx_timer = t.rtx_timer
        /\ w.highest_ack = t.highest_ack /\ w.t_seqno = t.t_seqno /\ w.recover = t.recover
        /\ w.rtt_active = t.rtt_active /\ w.action = t.action
        /\ w.dupwnd = Least(t.dupwnd + 1, wnd) /\ w.curseq = t.curseq
    BY <1>3 DEF Senders
  <2> HIDE DEF w
  <2>4. SenderOK(w)
    BY <1>5, <2>2, <2>3, CountersOK
  <2> QED
    BY <1>2, <1>4, <1>5, <1>9, <2>1, <2>3, <2>4 DEF Follows, Open, Drained
<1>10. CASE recv_dupack(s) = dupack_action(t)
  <2>1. CASE dupack_action(t) = t
    BY <1>7, <1>10, <2>1
  <2>2. CASE dupack_action(t) = tahoe_action(t)
    <3> DEFINE u == tahoe_action(t)
    <3>1. Follows(t, u) /\ Open(u) /\ u.maxseq = t.maxseq /\ u.curseq = t.curseq
      BY <1>5, TahoeActionOK
    <3> HIDE DEF u
    <3>2. Drained(u)
      BY <1>5, <3>1 DEF Follows, Drained
    <3> QED
      BY <1>6, <1>10, <2>2, <3>1, <3>2 DEF u
  <2>3. CASE dupack_action(t) = reno_action(t)
    BY <1>5, <1>6, <1>10, <2>3, RenoActionOK
  <2> QED
    BY <2>1, <2>2, <2>3 DEF dupack_action
<1>11. recv_dupack(s) \in {t, send_one(t), w, dupack_action(t)}
  BY DEF recv_dupack, t
<1> QED
  BY <1>7, <1>8, <1>9, <1>10, <1>11

\* The congestion window after a new acknowledgment.
LEMMA OpencwndRoom ==
  ASSUME NEW c \in Nat, NEW h \in Nat, h >= 1
  PROVE  LET o == Least(wnd * CU, IF c < h * CU THEN c + CU ELSE c + (CU * CU) \div c)
         IN o \in Nat /\ o >= CU
<1> DEFINE d == (CU * CU) \div c
<1>1. wnd \in Nat \ {0} /\ CU \in Nat \ {0}
  BY TcpAssumption
<1>2. wnd * CU \in Nat /\ wnd * CU >= CU /\ h * CU >= CU /\ CU * CU \in Nat /\ h * CU \in Nat
  BY <1>1, Z3
<1>3. CASE c < h * CU
  BY <1>1, <1>2, <1>3 DEF Least
<1>4. CASE ~(c < h * CU)
  <2>1. c >= CU /\ c \in Nat \ {0}
    BY <1>1, <1>2, <1>4
  <2>2. d \in Int /\ 0 <= d
    BY <1>2, <2>1, DivLower, DivMod, 0 \in Int, 0 * c = 0, CU * CU \in Int
  <2> HIDE DEF d
  <2>3. Least(wnd * CU, c + d) \in Nat /\ Least(wnd * CU, c + d) >= CU
    BY <1>1, <1>2, <2>1, <2>2 DEF Least
  <2> QED
    BY <1>4, <2>3 DEF d
<1> QED
  BY <1>3, <1>4

LEMMA AcknowledgedOK ==
  ASSUME NEW s, SenderOK(s), NEW ack \in Int, s.highest_ack < ack, ack <= s.maxseq
  PROVE  LET u == acknowledged(s, ack)
         IN /\ SenderOK(u) /\ u.highest_ack = ack /\ u.maxseq = s.maxseq
            /\ u.t_seqno > ack /\ u.curseq = s.curseq /\ u.cwnd = s.cwnd
            /\ u.dupwnd = s.dupwnd /\ u.action = s.action /\ u.recover = s.recover
            /\ u.ssthresh = s.ssthresh
<1> DEFINE u == acknowledged(s, ack)
<1>1. s \in Senders
  BY DEF SenderOK
<1>2. /\ s.maxseq \in Int /\ s.highest_ack \in Int /\ s.t_seqno \in Nat /\ s.rtt_seq \in Int
      /\ -1 <= s.highest_ack /\ s.t_seqno <= s.maxseq + 1
      /\ s.ssthresh >= 1 /\ s.wnd_init >= 1
  BY <1>1, SenderTypes DEF SenderOK, InOrder
<1>3. Most(s.t_seqno, ack + 1) \in Nat
  BY <1>2 DEF Most
<1>4. u \in Senders
  <2>1. (s.rtt_active /\ ack < s.rtt_seq) \in BOOLEAN
    OBVIOUS
  <2> QED
    BY <1>1, <1>3, <2>1, Zenon DEF acknowledged, Senders
<1>5. /\ u.maxseq = s.maxseq /\ u.rtt_seq = s.rtt_seq /\ u.out = s.out
      /\ u.sent = s.sent /\ u.resent = s.resent /\ u.early = s.early
      /\ u.ssthresh = s.ssthresh /\ u.wnd_init = s.wnd_init /\ u.rtx_timer = s.rtx_timer
      /\ u.highest_ack = ack /\ u.t_seqno = Most(s.t_seqno, ack + 1)
      /\ u.recover = s.recover /\ u.action = s.action
      /\ u.curseq = s.curseq /\ u.cwnd = s.cwnd /\ u.dupwnd = s.dupwnd
  BY <1>1 DEF acknowledged, Senders
<1>6. u.rtt_active = (s.rtt_active /\ ack < s.rtt_seq)
  BY <1>1 DEF acknowledged, Senders
<1>7. u.rtt_active => s.rtt_active /\ ack < s.rtt_seq
  BY <1>6, Zenon
<1> HIDE DEF u
<1>8. Adjusted(s, u)
  <2>1. /\ ack < u.t_seqno /\ u.t_seqno <= s.maxseq + 1 /\ s.t_seqno <= u.t_seqno
        /\ s.highest_ack <= ack
    BY <1>2, <1>5 DEF Most
  <2> QED
    BY <1>2, <1>4, <1>5, <1>7, <2>1 DEF Adjusted
<1>9. SenderOK(u)
  BY <1>8, AdjustedOK
<1>10. u.t_seqno > ack
  BY <1>2, <1>5 DEF Most
<1> QED
  BY <1>5, <1>9, <1>10 DEF u

LEMMA RecvNewackHelperOK ==
  ASSUME NEW s, SenderOK(s), NEW ack \in Int, s.highest_ack < ack, ack <= s.maxseq
  PROVE  LET u == recv_newack_helper(s, ack)
         IN /\ SenderOK(u) /\ Open(u) /\ u.dupacks = 0
            /\ u.highest_ack = ack /\ u.maxseq = s.maxseq
<1> DEFINE a == acknowledged(s, ack)
           b == [a EXCEPT !.dupacks = 0]
           n == newtimer(b, ack)
           t == opencwnd(n)
           u == [t EXCEPT !.closed = @ \/ ack >= t.curseq - 1,
                          !.cwnd = IF ack = 0 THEN t.wnd_init * CU ELSE @]
<1>1. recv_newack_helper(s, ack) = u
  BY DEF recv_newack_helper, newack
<1>2. SenderOK(a) /\ a.highest_ack = ack /\ a.maxseq = s.maxseq /\ a.t_seqno > ack
  BY AcknowledgedOK
<1> HIDE DEF a
<1>3. a \in Senders
  BY <1>2 DEF SenderOK
<1>4. b \in Senders
  BY <1>3, Zenon DEF Senders
<1>5. n \in Senders /\ n.rtx_timer
  <2>1. (b.t_seqno > ack \/ ack < b.maxseq \/ b.cwnd < CU) \in BOOLEAN
    OBVIOUS
  <2>2. n \in Senders
    <3> HIDE DEF b
    <3> QED
      BY <1>4, <2>1, Zenon DEF newtimer, Senders
  <2>3. b.t_seqno = a.t_seqno
    BY <1>3 DEF Senders
  <2>4. n.rtx_timer = (b.t_seqno > ack \/ ack < b.maxseq \/ b.cwnd < CU)
    <3> HIDE DEF b
    <3> QED
      BY <1>4 DEF newtimer, Senders
  <2> QED
    BY <1>2, <2>2, <2>3, <2>4, Zenon
<1> DEFINE c == Least(wnd * CU, IF n.cwnd < n.ssthresh * CU THEN n.cwnd + CU
                                ELSE n.cwnd + (CU * CU) \div n.cwnd)
<1>6. /\ n.maxseq = a.maxseq /\ n.rtt_seq = a.rtt_seq /\ n.out = a.out
      /\ n.sent = a.sent /\ n.resent = a.resent /\ n.early = a.early
      /\ n.ssthresh = a.ssthresh /\ n.wnd_init = a.wnd_init
      /\ n.highest_ack = a.highest_ack /\ n.t_seqno = a.t_seqno /\ n.recover = a.recover
      /\ n.rtt_active = a.rtt_active /\ n.action = a.action /\ n.dupacks = 0
  BY <1>3 DEF newtimer, Senders
<1>7. /\ a.ssthresh >= 1 /\ a.wnd_init >= 1 /\ a.ssthresh \in Nat /\ a.wnd_init \in Nat
      /\ a.highest_ack \in Int /\ a.maxseq \in Int /\ a.t_seqno \in Int
      /\ a.t_seqno <= a.maxseq + 1
  BY <1>2, <1>3, SenderTypes DEF SenderOK, InOrder
<1> HIDE DEF n
<1>8. c \in Nat /\ c >= CU
  <2>1. n.cwnd \in Nat
    BY <1>5, SenderTypes
  <2> QED
    BY <1>6, <1>7, <2>1, OpencwndRoom
<1>9. t = [n EXCEPT !.cwnd = c]
  BY DEF opencwnd
<1> HIDE DEF t, c
<1>10. t \in Senders
  BY <1>5, <1>8, <1>9, Zenon DEF Senders
<1>11. /\ t.maxseq = a.maxseq /\ t.rtt_seq = a.rtt_seq /\ t.out = a.out
       /\ t.sent = a.sent /\ t.resent = a.resent /\ t.early = a.early
       /\ t.ssthresh = a.ssthresh /\ t.wnd_init = a.wnd_init /\ t.rtx_timer = n.rtx_timer
       /\ t.highest_ack = a.highest_ack /\ t.t_seqno = a.t_seqno /\ t.recover = a.recover
       /\ t.rtt_active = a.rtt_active /\ t.action = a.action /\ t.dupacks = 0 /\ t.cwnd = c
  BY <1>5, <1>6, <1>9 DEF Senders
<1> DEFINE i == IF ack = 0 THEN t.wnd_init * CU ELSE t.cwnd
           e == (t.closed \/ ack >= t.curseq - 1)
<1>12. i \in Nat /\ i >= CU
  <2>1. CU \in Nat /\ t.wnd_init \in Nat /\ t.wnd_init >= 1
    BY <1>7, <1>11, TcpAssumption
  <2>2. t.wnd_init * CU \in Nat /\ t.wnd_init * CU >= CU
    BY <2>1, Z3
  <2> QED
    BY <1>8, <1>11, <2>2
<1>13. u \in Senders
  <2>1. e \in BOOLEAN
    OBVIOUS
  <2>2. u = [t EXCEPT !.closed = e, !.cwnd = i]
    BY <1>10 DEF Senders
  <2> HIDE DEF e, i, u
  <2> QED
    BY <1>10, <1>12, <2>1, <2>2, Zenon DEF Senders
<1>14. /\ u.maxseq = t.maxseq /\ u.rtt_seq = t.rtt_seq /\ u.out = t.out
       /\ u.sent = t.sent /\ u.resent = t.resent /\ u.early = t.early
       /\ u.ssthresh = t.ssthresh /\ u.wnd_init = t.wnd_init /\ u.rtx_timer = t.rtx_timer
       /\ u.highest_ack = t.highest_ack /\ u.t_seqno = t.t_seqno /\ u.recover = t.recover
       /\ u.rtt_active = t.rtt_active /\ u.action = t.action /\ u.dupacks = t.dupacks
       /\ u.cwnd = i
  BY <1>10 DEF Senders
<1> HIDE DEF u, i
<1>15. Adjusted(a, u)
  BY <1>2, <1>5, <1>7, <1>11, <1>13, <1>14 DEF Adjusted
<1>16. SenderOK(u)
  BY <1>2, <1>15, AdjustedOK
<1> QED
  BY <1>1, <1>2, <1>11, <1>12, <1>14, <1>16 DEF Open

\* A partial acknowledgment ends below recover_, and so does the packet that it
\* makes the sender send again: it is not the one that is measured.
LEMMA PartialNewackOK ==
  ASSUME NEW s, SenderOK(s), NEW ack \in Int, s.highest_ack < ack, ack < s.recover,
         s.action = "DUPACK"
  PROVE  LET u == partialnewack_helper(s, ack)
         IN /\ SenderOK(u) /\ Open(u) /\ Drained(u)
            /\ u.highest_ack = ack /\ u.maxseq = s.maxseq
<1> DEFINE n == newtimer(s, ack)
           f == [n EXCEPT !.firstpartial = TRUE]
           t == IF s.firstpartial THEN s ELSE f
           a == acknowledged(t, ack)
           g == ack - t.highest_ack
           c == Most(IF t.dupwnd > g THEN a.cwnd ELSE a.cwnd - (g - t.dupwnd) * CU, CU)
           d == IF t.dupwnd > g THEN a.dupwnd - (g - 1) ELSE 1
           p == partialnewack(t, ack)
           u == output(p, ack + 1)
<1>1. s \in Senders /\ CU \in Nat /\ wnd \in Nat \ {0}
  BY TcpAssumption DEF SenderOK
<1>2. /\ s.maxseq \in Int /\ s.highest_ack \in Int /\ s.recover \in Int /\ s.t_seqno \in Int
      /\ s.recover <= s.maxseq /\ -1 <= s.highest_ack
      /\ s.highest_ack < s.t_seqno /\ s.t_seqno <= s.maxseq + 1
      /\ s.ssthresh >= 1 /\ s.wnd_init >= 1
  BY <1>1, SenderTypes DEF SenderOK, InOrder
<1>3. /\ SenderOK(t) /\ t.highest_ack = s.highest_ack /\ t.maxseq = s.maxseq
      /\ t.recover = s.recover /\ t.action = s.action
  <2>1. CASE s.firstpartial
    BY <2>1
  <2>2. CASE ~s.firstpartial
    <3>1. n \in Senders /\ n.rtx_timer
      <4>1. (s.t_seqno > ack \/ ack < s.maxseq \/ s.cwnd < CU) \in BOOLEAN
        OBVIOUS
      <4>2. n.rtx_timer = (s.t_seqno > ack \/ ack < s.maxseq \/ s.cwnd < CU)
        BY <1>1 DEF newtimer, Senders
      <4>3. ack < s.maxseq
        BY <1>2
      <4> QED
        BY <1>1, <4>1, <4>2, <4>3, Zenon DEF newtimer, Senders
    <3>2. f \in Senders
      <4> HIDE DEF n
      <4> QED
        BY <3>1, Zenon DEF Senders
    <3>3. /\ f.maxseq = s.maxseq /\ f.rtt_seq = s.rtt_seq /\ f.out = s.out
          /\ f.sent = s.sent /\ f.resent = s.resent /\ f.early = s.early
          /\ f.ssthresh = s.ssthresh /\ f.wnd_init = s.wnd_init /\ f.rtx_timer = n.rtx_timer
          /\ f.highest_ack = s.highest_ack /\ f.t_seqno = s.t_seqno /\ f.recover = s.recover
          /\ f.rtt_active = s.rtt_active /\ f.action = s.action
      BY <1>1 DEF newtimer, Senders
    <3> HIDE DEF f, n
    <3>4. Adjusted(s, f)
      BY <1>2, <3>1, <3>2, <3>3 DEF Adjusted
    <3>5. SenderOK(f)
      BY <3>4, AdjustedOK
    <3> QED
      BY <2>2, <3>3, <3>5
  <2> QED
    BY <2>1, <2>2
<1>4. partialnewack_helper(s, ack) = u
  BY DEF partialnewack_helper
<1> HIDE DEF t
<1>5. /\ SenderOK(a) /\ a.highest_ack = ack /\ a.maxseq = s.maxseq
      /\ a.recover = s.recover /\ a.action = "DUPACK" /\ a.dupwnd = t.dupwnd
  BY <1>2, <1>3, AcknowledgedOK
<1>6. a \in Senders /\ a.cwnd \in Nat /\ a.dupwnd \in Nat /\ g \in Nat
  <2>1. g \in Nat
    BY <1>2, <1>3
  <2> HIDE DEF a, g
  <2>2. a \in Senders
    BY <1>5 DEF SenderOK
  <2>3. a.cwnd \in Nat /\ a.dupwnd \in Nat
    BY <2>2, SenderTypes
  <2> QED
    BY <2>1, <2>2, <2>3
<1>7. p \in Senders /\ c \in Nat /\ d \in Nat /\ d >= 1
      /\ p = [a EXCEPT !.cwnd = c, !.dupwnd = d]
  <2> HIDE DEF a, g
  <2>1. g \in Nat /\ a.dupwnd = t.dupwnd
    BY <1>5, <1>6
  <2>2. (g - t.dupwnd) * CU \in Int
    BY <1>1, <1>5, <1>6, Z3
  <2>3. c \in Nat /\ d \in Nat /\ d >= 1
    BY <1>1, <1>6, <2>1, <2>2 DEF Most
  <2>4. p = [a EXCEPT !.cwnd = c, !.dupwnd = d]
    BY <1>6 DEF partialnewack, a, g, Senders
  <2> HIDE DEF c, d, p
  <2>5. [a EXCEPT !.cwnd = c, !.dupwnd = d] \in Senders
    BY <1>6, <2>3, Zenon DEF Senders
  <2> QED
    BY <2>3, <2>4, <2>5
<1> HIDE DEF p, a, c, d
<1>8. /\ p.maxseq = a.maxseq /\ p.rtt_seq = a.rtt_seq /\ p.out = a.out
      /\ p.sent = a.sent /\ p.resent = a.resent /\ p.early = a.early
      /\ p.ssthresh = a.ssthresh /\ p.wnd_init = a.wnd_init /\ p.rtx_timer = a.rtx_timer
      /\ p.highest_ack = a.highest_ack /\ p.t_seqno = a.t_seqno /\ p.recover = a.recover
      /\ p.rtt_active = a.rtt_active /\ p.action = a.action /\ p.dupwnd = d
  BY <1>6, <1>7 DEF Senders
<1>9. SenderOK(p)
  BY <1>5, <1>7, <1>8, CountersOK
<1>10. Sent(p, ack + 1, p.t_seqno, u)
  BY <1>7, OutputSent, ack + 1 \in Int
<1> DEFINE q == ack + 1
<1>11. SenderOK(u)
  <2>1. /\ q \in Int /\ p.t_seqno \in Int /\ p.maxseq \in Int /\ p.highest_ack \in Int
        /\ p.recover \in Int
    <3>1. p \in Senders
      BY <1>7
    <3>2. p.t_seqno \in Nat
      BY <3>1, SenderTypes
    <3> QED
      BY <3>1, <3>2, SenderTypes
  <2>2. p.highest_ack < q /\ q <= p.highest_ack + wnd /\ q <= p.maxseq
    BY <1>1, <1>2, <1>5, <1>8
  <2>3. p.t_seqno <= p.maxseq + 1
    BY <1>9 DEF SenderOK, InOrder
  <2>4. q <= p.maxseq + 1 /\ p.t_seqno <= p.t_seqno /\ p.t_seqno <= Most(p.maxseq, q) + 1
        /\ ~(q > p.maxseq)
    BY <2>1, <2>2, <2>3 DEF Most
  <2>5. ~ResetAnyTime /\ p.rtt_active => q # p.rtt_seq
    <3> SUFFICES ASSUME ~ResetAnyTime, p.rtt_active PROVE q # p.rtt_seq
      OBVIOUS
    <3>1. p.recover < p.rtt_seq
      BY <1>5, <1>8, <1>9 DEF SenderOK, Measured
    <3>2. p.rtt_seq \in Int
      BY <1>7, SenderTypes
    <3> QED
      BY <1>2, <1>5, <1>8, <2>1, <3>1, <3>2
  <2> HIDE DEF u, q
  <2>6. Sent(p, q, p.t_seqno, u)
    BY <1>10 DEF q
  <2> QED
    BY <1>9, <2>1, <2>2, <2>4, <2>5, <2>6, SentOK
<1>12. u.highest_ack = ack /\ u.maxseq = s.maxseq /\ u.dupwnd = d
  <2>1. u.highest_ack = p.highest_ack /\ u.maxseq = Most(p.maxseq, ack + 1) /\ u.dupwnd = p.dupwnd
    BY <1>10 DEF Sent
  <2> QED
    BY <1>2, <1>5, <1>8, <2>1 DEF Most
<1>13. Drained(u)
  BY <1>2, <1>12 DEF Drained
<1> QED
  BY <1>4, <1>7, <1>11, <1>12, <1>13 DEF Open

LEMMA RecvNewackOK ==
  ASSUME NEW s, SenderOK(s), NEW ack \in Int, s.highest_ack < ack, ack <= s.maxseq,
         variant \in {"Tahoe", "Reno", "Newreno"}
  PROVE  LET u == recv_newack(s, ack)
         IN /\ SenderOK(u) /\ Open(u) /\ (u.dupacks # 0 => Drained(u))
            /\ u.highest_ack = ack /\ u.maxseq = s.maxseq
<1> DEFINE r == [s EXCEPT !.dupwnd = 0, !.action = IF @ = "DUPACK" THEN "EXITED" ELSE @]
           n == [s EXCEPT !.dupwnd = 0, !.firstpartial = FALSE,
                          !.action = IF s.dupwnd > 0 /\ @ = "DUPACK" THEN "EXITED" ELSE @]
<1>1. s \in Senders /\ s.action \in {"none", "DUPACK", "EXITED", "TIMEOUT"}
  BY SenderTypes DEF SenderOK
<1>2. SenderOK(r) /\ r.highest_ack = s.highest_ack /\ r.maxseq = s.maxseq
  <2>1. r \in Senders
    <3>1. (IF s.action = "DUPACK" THEN "EXITED" ELSE s.action) \in {"none", "DUPACK", "EXITED", "TIMEOUT"}
      BY <1>1
    <3>2. 0 \in Nat
      OBVIOUS
    <3> QED
      BY <1>1, <3>1, <3>2, Zenon DEF Senders
  <2>2. /\ r.maxseq = s.maxseq /\ r.rtt_seq = s.rtt_seq /\ r.out = s.out
        /\ r.sent = s.sent /\ r.resent = s.resent /\ r.early = s.early
        /\ r.ssthresh = s.ssthresh /\ r.wnd_init = s.wnd_init /\ r.rtx_timer = s.rtx_timer
        /\ r.highest_ack = s.highest_ack /\ r.t_seqno = s.t_seqno /\ r.recover = s.recover
        /\ r.rtt_active = s.rtt_active
        /\ (r.action = "DUPACK" => s.action = "DUPACK")
    BY <1>1 DEF Senders
  <2> HIDE DEF r
  <2> QED
    BY <2>1, <2>2, CountersOK
<1>3. SenderOK(n) /\ n.highest_ack = s.highest_ack /\ n.maxseq = s.maxseq
  <2>1. n \in Senders
    <3>1. (IF s.dupwnd > 0 /\ s.action = "DUPACK" THEN "EXITED" ELSE s.action)
             \in {"none", "DUPACK", "EXITED", "TIMEOUT"}
      BY <1>1
    <3>2. 0 \in Nat
      OBVIOUS
    <3> QED
      BY <1>1, <3>1, <3>2, Zenon DEF Senders
  <2>2. /\ n.maxseq = s.maxseq /\ n.rtt_seq = s.rtt_seq /\ n.out = s.out
        /\ n.sent = s.sent /\ n.resent = s.resent /\ n.early = s.early
        /\ n.ssthresh = s.ssthresh /\ n.wnd_init = s.wnd_init /\ n.rtx_timer = s.rtx_timer
        /\ n.highest_ack = s.highest_ack /\ n.t_seqno = s.t_seqno /\ n.recover = s.recover
        /\ n.rtt_active = s.rtt_active
        /\ (n.action = "DUPACK" => s.action = "DUPACK")
    BY <1>1 DEF Senders
  <2> HIDE DEF n
  <2> QED
    BY <2>1, <2>2, CountersOK
<1>4. \/ recv_newack(s, ack) = recv_newack_helper(s, ack)
      \/ recv_newack(s, ack) = recv_newack_helper(r, ack)
      \/ recv_newack(s, ack) = recv_newack_helper(n, ack)
      \/ /\ recv_newack(s, ack) = partialnewack_helper(s, ack)
         /\ ack < s.recover /\ s.action = "DUPACK"
  <2>1. CASE variant = "Tahoe"
    BY <2>1 DEF recv_newack
  <2>2. CASE variant = "Reno"
    BY <2>2 DEF recv_newack
  <2>3. CASE variant = "Newreno"
    BY <2>3 DEF recv_newack
  <2> QED
    BY <2>1, <2>2, <2>3
<1> HIDE DEF r, n
<1>5. CASE recv_newack(s, ack) = recv_newack_helper(s, ack)
  BY <1>5, RecvNewackHelperOK
<1>6. CASE recv_newack(s, ack) = recv_newack_helper(r, ack)
  BY <1>2, <1>6, RecvNewackHelperOK
<1>7. CASE recv_newack(s, ack) = recv_newack_helper(n, ack)
  BY <1>3, <1>7, RecvNewackHelperOK
<1>8. CASE /\ recv_newack(s, ack) = partialnewack_helper(s, ack)
           /\ ack < s.recover /\ s.action = "DUPACK"
  BY <1>8, PartialNewackOK
<1> QED
  BY <1>4, <1>5, <1>6, <1>7, <1>8

LEMMA RecvSendOK ==
  ASSUME NEW s, SenderOK(s), Open(s), s.dupacks # 0 => Drained(s)
  PROVE  LET u == recv_send(s) IN Follows(s, u) /\ Open(u) /\ Drained(u)
<1>1. recv_send(s) \in {send_much(s, 0), send_much(s, 2)} \/ (recv_send(s) = s /\ s.dupacks # 0)
  BY Zenon DEF recv_send
<1>2. s.maxseq \in Int
  BY SenderTypes DEF SenderOK
<1>3. CASE recv_send(s) = s /\ s.dupacks # 0
  BY <1>2, <1>3 DEF Follows
<1>4. CASE recv_send(s) = send_much(s, 0)
  BY <1>4, SendMuchOK, 0 \in Nat
<1>5. CASE recv_send(s) = send_much(s, 2)
  BY <1>5, SendMuchOK, 2 \in Nat
<1> QED
  BY <1>1, <1>3, <1>4, <1>5

LEMMA RecvOK ==
  ASSUME NEW s, SenderOK(s), Open(s), Drained(s), NEW ack \in Int, ack <= s.maxseq,
         variant \in {"Tahoe", "Reno", "Newreno"}
  PROVE  LET u == recv(s, ack)
         IN /\ SenderOK(u) /\ Open(u) /\ Drained(u)
            /\ u.maxseq >= s.maxseq /\ u.highest_ack \in {s.highest_ack, ack}
<1> DEFINE t == CASE ack > s.highest_ack -> recv_newack(s, ack)
                  [] ack = s.highest_ack -> recv_dupack(s)
                  [] ack < s.highest_ack -> s
           u == recv_send(t)
<1>1. s.highest_ack \in Int /\ s.maxseq \in Int
  BY SenderTypes DEF SenderOK
<1>2. /\ SenderOK(t) /\ Open(t) /\ (t.dupacks # 0 => Drained(t))
      /\ t.maxseq >= s.maxseq /\ t.highest_ack \in {s.highest_ack, ack}
  <2>1. CASE ack > s.highest_ack
    <3>1. t = recv_newack(s, ack)
      BY <1>1, <2>1
    <3> HIDE DEF t
    <3> QED
      BY <1>1, <2>1, <3>1, RecvNewackOK
  <2>2. CASE ack = s.highest_ack
    <3>1. t = recv_dupack(s)
      BY <1>1, <2>2
    <3> HIDE DEF t
    <3> QED
      BY <3>1, RecvDupackOK DEF Follows
  <2>3. CASE ack < s.highest_ack
    <3>1. t = s
      BY <1>1, <2>3
    <3> HIDE DEF t
    <3> QED
      BY <1>1, <3>1
  <2> QED
    BY <1>1, <2>1, <2>2, <2>3
<1>3. recv(s, ack) = u
  BY DEF recv
<1> HIDE DEF t
<1>4. Follows(t, u) /\ Open(u) /\ Drained(u)
  BY <1>2, RecvSendOK
<1>5. t.maxseq \in Int /\ u.maxseq \in Int
  BY <1>2, <1>4, SenderTypes DEF SenderOK, Follows
<1> HIDE DEF u
<1>6. SenderOK(u) /\ u.highest_ack = t.highest_ack /\ u.maxseq >= t.maxseq
  BY <1>4 DEF Follows
<1> QED
  BY <1>1, <1>2, <1>3, <1>4, <1>5, <1>6

LEMMA TimeoutOK ==
  ASSUME NEW s, SenderOK(s)
  PROVE  LET u == timeout(s) IN Follows(s, u) /\ Open(u) /\ Drained(u)
<1> DEFINE t == [s EXCEPT !.recover = s.maxseq,
                          !.dupwnd = 0,
                          !.dupacks = IF variant = "Tahoe" THEN @ ELSE 0,
                          !.cwnd = Most(@, CU),
                          !.wnd_init = IF s.highest_ack = -1 THEN 1 ELSE @]
           d == IF variant = "Tahoe" THEN s.dupacks ELSE 0
           i == IF s.highest_ack = -1 THEN 1 ELSE s.wnd_init
           w == IF s.highest_ack = s.maxseq THEN [t EXCEPT !.cwnd = CU] ELSE slowdown_one(t)
           x == reset_rtx_timer(w, FALSE)
           v == [x EXCEPT !.action = "TIMEOUT"]
           u == send_much(v, 0)
<1>1. s \in Senders /\ CU \in Nat
  BY TcpAssumption DEF SenderOK
<1>2. /\ s.maxseq \in Int /\ s.highest_ack \in Int /\ s.highest_ack <= s.maxseq
      /\ -1 <= s.highest_ack /\ s.ssthresh >= 1 /\ s.wnd_init >= 1
      /\ s.dupacks \in Nat /\ s.cwnd \in Nat /\ s.wnd_init \in Nat
  BY <1>1, SenderTypes DEF SenderOK, InOrder
<1>3. t \in Senders
  <2>1. d \in Nat /\ i \in Nat /\ Most(s.cwnd, CU) \in Nat /\ 0 \in Nat
    BY <1>1, <1>2 DEF Most
  <2>2. t = [s EXCEPT !.recover = s.maxseq, !.dupwnd = 0, !.dupacks = d,
                      !.cwnd = Most(s.cwnd, CU), !.wnd_init = i]
    BY <1>1 DEF Senders
  <2> HIDE DEF d, i, t
  <2> QED
    BY <1>1, <1>2, <2>1, <2>2, Zenon DEF Senders
<1>4. t.wnd_init = i /\ i >= 1 /\ t.highest_ack = s.highest_ack /\ t.ssthresh = s.ssthresh
      /\ t.maxseq = s.maxseq /\ t.rtt_seq = s.rtt_seq /\ t.out = s.out
      /\ t.sent = s.sent /\ t.resent = s.resent /\ t.early = s.early
      /\ t.t_seqno = s.t_seqno
  BY <1>1, <1>2 DEF Senders
<1>5. timeout(s) = u
  BY DEF timeout
<1> HIDE DEF t, i
<1>6. HalfSsthresh(t) \in Nat /\ HalfSsthresh(t) >= 2
  BY <1>3, WindowdHalves
<1>7. w \in Senders
  <2>1. [t EXCEPT !.cwnd = CU] \in Senders
    BY <1>1, <1>3, Zenon DEF Senders
  <2>2. slowdown_one(t) \in Senders
    BY <1>1, <1>3, <1>6, Zenon DEF slowdown_one, Senders
  <2> QED
    BY <2>1, <2>2
<1>8. /\ w.maxseq = s.maxseq /\ w.rtt_seq = s.rtt_seq /\ w.out = s.out
      /\ w.sent = s.sent /\ w.resent = s.resent /\ w.early = s.early
      /\ w.ssthresh >= 1 /\ w.wnd_init = i /\ w.highest_ack = s.highest_ack /\ w.cwnd = CU
  <2>1. CASE s.highest_ack = s.maxseq
    BY <1>2, <1>3, <1>4, <2>1 DEF Senders
  <2>2. CASE s.highest_ack # s.maxseq
    <3>1. w = slowdown_one(t)
      BY <2>2
    <3> HIDE DEF w
    <3>2. /\ w.maxseq = t.maxseq /\ w.rtt_seq = t.rtt_seq /\ w.out = t.out
          /\ w.sent = t.sent /\ w.resent = t.resent /\ w.early = t.early
          /\ w.ssthresh = HalfSsthresh(t) /\ w.wnd_init = t.wnd_init
          /\ w.highest_ack = t.highest_ack /\ w.cwnd = CU
      BY <1>3, <3>1 DEF Senders, slowdown_one
    <3> QED
      BY <1>4, <1>6, <3>2
  <2> QED
    BY <2>1, <2>2
<1> HIDE DEF w
<1>9. x \in Senders
  <2>1. w.highest_ack + 1 \in Nat
    BY <1>2, <1>8
  <2> QED
    BY <1>7, <2>1, Zenon DEF reset_rtx_timer, Senders
<1>10. v \in Senders
  <2> HIDE DEF x
  <2> QED
    BY <1>9, Zenon DEF Senders
<1>11. /\ v.maxseq = w.maxseq /\ v.rtt_seq = w.rtt_seq /\ v.out = w.out
       /\ v.sent = w.sent /\ v.resent = w.resent /\ v.early = w.early
       /\ v.ssthresh = w.ssthresh /\ v.wnd_init = w.wnd_init /\ v.rtx_timer
       /\ v.highest_ack = w.highest_ack /\ v.t_seqno = w.highest_ack + 1
       /\ ~v.rtt_active /\ v.action = "TIMEOUT" /\ v.cwnd = w.cwnd
  BY <1>7 DEF reset_rtx_timer, Senders
<1> HIDE DEF v
<1>12. Adjusted(s, v)
  BY <1>2, <1>4, <1>8, <1>10, <1>11 DEF Adjusted
<1>13. SenderOK(v)
  BY <1>12, AdjustedOK
<1>14. Open(v)
  BY <1>1, <1>8, <1>11 DEF Open
<1>15. Follows(v, u) /\ Open(u) /\ Drained(u)
  BY <1>13, <1>14, SendMuchOK, 0 \in Nat
<1> QED
  BY <1>5, <1>8, <1>11, <1>15 DEF Follows

\* reset leaves a measurement running; with everything acknowledged there is none.
LEMMA ResetOK ==
  ASSUME NEW s \in Senders, s.wnd_init >= 1, s.out = <<>>, ~ResetAnyTime => ~s.rtt_active
  PROVE  LET u == reset(s)
         IN /\ SenderOK(u) /\ Open(u) /\ Drained(u) /\ u.out = <<>>
            /\ u.maxseq = -1 /\ u.highest_ack = -1
<1> DEFINE u == reset(s)
<1>1. CU \in Nat \ {0} /\ wnd \in Nat \ {0}
  BY TcpAssumption
<1>2. u \in Senders
  <2>1. /\ 0 \in Nat /\ -1 \in Int /\ 0 \in Int /\ CU \in Nat /\ wnd \in Nat
        /\ {} \in SUBSET Int
    BY <1>1
  <2> QED
    BY <2>1, ZenonT(60) DEF reset, Senders
<1>3. /\ u.curseq = 0 /\ u.t_seqno = 0 /\ u.maxseq = -1 /\ u.highest_ack = -1
      /\ u.cwnd = CU /\ u.ssthresh = wnd /\ u.action = "none" /\ u.rtt_seq = -1
      /\ u.sent = {} /\ u.resent = {} /\ u.early = {} /\ u.out = s.out
      /\ u.wnd_init = s.wnd_init /\ u.rtt_active = s.rtt_active
  BY SMTT(30) DEF reset, Senders
<1> HIDE DEF u
<1>4. InOrder(u) /\ History(u)
  BY <1>1, <1>3 DEF InOrder, History
<1>5. SenderOK(u)
  BY <1>1, <1>2, <1>3, <1>4 DEF SenderOK
<1> QED
  BY <1>1, <1>3, <1>5 DEF Open, Drained, u

\* Once its packets are on the path the sender has none to hand over.
LEMMA HandedOverOK ==
  ASSUME NEW s, SenderOK(s), Open(s), Drained(s)
  PROVE  LET u == [s EXCEPT !.out = <<>>]
         IN /\ SenderOK(u) /\ Open(u) /\ Drained(u) /\ u.out = <<>>
            /\ u.maxseq = s.maxseq /\ u.highest_ack = s.highest_ack
<1> DEFINE u == [s EXCEPT !.out = <<>>]
<1>1. s \in Senders /\ <<>> \in Seq(Int)
  BY DEF SenderOK
<1>2. u \in Senders
  BY <1>1, Zenon DEF Senders
<1>3. /\ u.maxseq = s.maxseq /\ u.rtt_seq = s.rtt_seq /\ u.out = <<>>
      /\ u.sent = s.sent /\ u.resent = s.resent /\ u.early = s.early
      /\ u.ssthresh = s.ssthresh /\ u.wnd_init = s.wnd_init /\ u.rtx_timer = s.rtx_timer
      /\ u.highest_ack = s.highest_ack /\ u.t_seqno = s.t_seqno /\ u.recover = s.recover
      /\ u.rtt_active = s.rtt_active /\ u.action = s.action
      /\ u.cwnd = s.cwnd /\ u.dupwnd = s.dupwnd /\ u.curseq = s.curseq
  BY <1>1 DEF Senders
<1> HIDE DEF u
<1>4. InOrder(u)
  BY <1>3 DEF SenderOK, InOrder
<1>5. History(u)
  BY <1>3 DEF SenderOK, History
<1>6. Measured(s) => Measured(u)
  BY <1>3 DEF Measured
<1>7. SenderOK(u)
  BY <1>2, <1>3, <1>4, <1>5, <1>6 DEF SenderOK
<1> QED
  BY <1>3, <1>7 DEF Open, Drained, u

-----------------------------------------------------------------------------
(* Steps. *)

LEMMA TailElements ==
  ASSUME NEW S, NEW q \in Seq(S), q # <<>>
  PROVE  /\ Tail(q) \in Seq(S) /\ Head(q) = q[1] /\ 1 \in DOMAIN q /\ q[1] \in S
         /\ \A i \in DOMAIN Tail(q) : \E j \in DOMAIN q : Tail(q)[i] = q[j]
<1>1. Tail(q) \in Seq(S) /\ Head(q) = q[1] /\ 1 \in DOMAIN q /\ q[1] \in S
  OBVIOUS
<1>2. ASSUME NEW i \in DOMAIN Tail(q) PROVE \E j \in DOMAIN q : Tail(q)[i] = q[j]
  <2>1. i + 1 \in DOMAIN q /\ Tail(q)[i] = q[i + 1]
    OBVIOUS
  <2> QED
    BY <2>1
<1> QED
  BY <1>1, <1>2

\* The elements of d are those of q and r.
Comes(d, q, r) ==
  \A i \in DOMAIN d : (\E j \in DOMAIN q : d[i] = q[j]) \/ (\E j \in DOMAIN r : d[i] = r[j])

LEMMA ConcatElements ==
  ASSUME NEW S, NEW q \in Seq(S), NEW r \in Seq(S)
  PROVE  q \o r \in Seq(S) /\ Comes(q \o r, q, r)
<1>1. q \o r \in Seq(S)
  OBVIOUS
<1>2. ASSUME NEW i \in DOMAIN (q \o r)
      PROVE  \/ \E j \in DOMAIN q : (q \o r)[i] = q[j]
             \/ \E j \in DOMAIN r : (q \o r)[i] = r[j]
  <2>1. i \in 1..(Len(q) + Len(r)) /\ Len(q) \in Nat /\ Len(r) \in Nat
    OBVIOUS
  <2>2. CASE i <= Len(q)
    <3>1. i \in DOMAIN q /\ (q \o r)[i] = q[i]
      BY <2>1, <2>2
    <3> QED
      BY <3>1
  <2>3. CASE i > Len(q)
    <3>1. i - Len(q) \in DOMAIN r /\ (q \o r)[i] = r[i - Len(q)]
      BY <2>1, <2>3
    <3> QED
      BY <3>1
  <2> QED
    BY <2>1, <2>2, <2>3
<1> QED
  BY <1>1, <1>2 DEF Comes

LEMMA TaggedElements ==
  ASSUME NEW q \in Seq(Int), inc \in Nat
  PROVE  /\ Tagged(q) \in Seq(Segments) /\ DOMAIN Tagged(q) = DOMAIN q
         /\ \A i \in DOMAIN q : Tagged(q)[i].seqno = q[i] /\ Tagged(q)[i].inc = inc
<1>1. DOMAIN q = 1..Len(q) /\ Len(q) \in Nat /\ \A i \in 1..Len(q) : q[i] \in Int
  OBVIOUS
<1>2. Tagged(q) = [i \in 1..Len(q) |-> [seqno |-> q[i], inc |-> inc]]
  BY <1>1 DEF Tagged
<1>3. \A i \in 1..Len(q) : [seqno |-> q[i], inc |-> inc] \in Segments
  BY <1>1 DEF Segments
<1> HIDE DEF Segments
<1>4. Tagged(q) \in [1..Len(q) -> Segments]
  BY <1>2, <1>3
<1>5. Tagged(q) \in Seq(Segments)
  BY <1>1, <1>4
<1>6. DOMAIN Tagged(q) = DOMAIN q
  BY <1>1, <1>2
<1>7. \A i \in DOMAIN q : Tagged(q)[i].seqno = q[i] /\ Tagged(q)[i].inc = inc
  BY DEF Tagged
<1> QED
  BY <1>5, <1>6, <1>7

LEMMA DataAdded ==
  ASSUME data \in Seq(Segments), inc \in Nat, NEW m \in Int, NEW n \in Int, m <= n,
         DataOK(data, m, inc), NEW q \in Seq(Int), \A i \in DOMAIN q : q[i] \in 0..n
  PROVE  data \o Tagged(q) \in Seq(Segments) /\ DataOK(data \o Tagged(q), n, inc)
<1> DEFINE t == Tagged(q)
           d == data \o t
<1>1. /\ t \in Seq(Segments) /\ DOMAIN t = DOMAIN q
      /\ \A i \in DOMAIN q : t[i].seqno = q[i] /\ t[i].inc = inc
  BY TaggedElements
<1> HIDE DEF t
<1>2. d \in Seq(Segments) /\ Comes(d, data, t)
  BY <1>1, ConcatElements
<1>3. ASSUME NEW i \in DOMAIN d
      PROVE  d[i].inc <= inc /\ (d[i].inc = inc => d[i].seqno \in 0..n)
  <2>1. (\E j \in DOMAIN data : d[i] = data[j]) \/ (\E j \in DOMAIN t : d[i] = t[j])
    BY <1>2, <1>3, Zenon DEF Comes
  <2> HIDE DEF d
  <2>2. CASE \E j \in DOMAIN data : d[i] = data[j]
    <3>1. PICK j \in DOMAIN data : d[i] = data[j]
      BY <2>2
    <3>2. data[j].inc <= inc /\ (data[j].inc = inc => data[j].seqno \in 0..m)
      BY DEF DataOK
    <3> QED
      BY <3>1, <3>2
  <2>3. CASE \E j \in DOMAIN t : d[i] = t[j]
    BY <1>1, <2>3
  <2> QED
    BY <2>1, <2>2, <2>3
<1> HIDE DEF d
<1>4. DataOK(d, n, inc)
  BY <1>3 DEF DataOK
<1> QED
  BY <1>2, <1>4 DEF d, t

LEMMA AckAdded ==
  ASSUME acks \in Seq(Segments), inc \in Nat, NEW m \in Nat, NEW n \in Nat, m <= n,
         AcksOK(acks, m, inc)
  PROVE  LET a == acks \o Tagged(<<n - 1>>) IN a \in Seq(Segments) /\ AcksOK(a, n, inc)
<1> DEFINE q == <<n - 1>>
           t == Tagged(q)
           a == acks \o t
<1>1. q \in Seq(Int) /\ \A i \in DOMAIN q : q[i] = n - 1
  OBVIOUS
<1> HIDE DEF q
<1>2. /\ t \in Seq(Segments) /\ DOMAIN t = DOMAIN q
      /\ \A i \in DOMAIN q : t[i].seqno = q[i] /\ t[i].inc = inc
  BY <1>1, TaggedElements
<1> HIDE DEF t
<1>3. a \in Seq(Segments) /\ Comes(a, acks, t)
  BY <1>2, ConcatElements
<1>4. ASSUME NEW i \in DOMAIN a
      PROVE  a[i].inc <= inc /\ (a[i].inc = inc => a[i].seqno \in -1..(n - 1))
  <2>1. (\E j \in DOMAIN acks : a[i] = acks[j]) \/ (\E j \in DOMAIN t : a[i] = t[j])
    BY <1>3, <1>4, Zenon DEF Comes
  <2> HIDE DEF a
  <2>2. CASE \E j \in DOMAIN acks : a[i] = acks[j]
    <3>1. PICK j \in DOMAIN acks : a[i] = acks[j]
      BY <2>2
    <3>2. acks[j].inc <= inc /\ (acks[j].inc = inc => acks[j].seqno \in -1..(m - 1))
      BY DEF AcksOK
    <3> QED
      BY <3>1, <3>2
  <2>3. CASE \E j \in DOMAIN t : a[i] = t[j]
    BY <1>1, <1>2, <2>3
  <2> QED
    BY <2>1, <2>2, <2>3
<1> HIDE DEF a
<1>5. AcksOK(a, n, inc)
  BY <1>4 DEF AcksOK
<1> QED
  BY <1>3, <1>5 DEF a, t, q

LEMMA TailsOK ==
  ASSUME TypeOK, PathInv
  PROVE  /\ data # <<>> => Tail(data) \in Seq(Segments) /\ DataOK(Tail(data), snd.maxseq, inc)
         /\ acks # <<>> => Tail(acks) \in Seq(Segments) /\ AcksOK(Tail(acks), sink.next, inc)
<1>1. ASSUME data # <<>> PROVE Tail(data) \in Seq(Segments) /\ DataOK(Tail(data), snd.maxseq, inc)
  <2>1. /\ Tail(data) \in Seq(Segments)
        /\ \A i \in DOMAIN Tail(data) : \E j \in DOMAIN data : Tail(data)[i] = data[j]
    BY <1>1, TailElements DEF TypeOK
  <2> QED
    BY <2>1 DEF PathInv, DataOK
<1>2. ASSUME acks # <<>> PROVE Tail(acks) \in Seq(Segments) /\ AcksOK(Tail(acks), sink.next, inc)
  <2>1. /\ Tail(acks) \in Seq(Segments)
        /\ \A i \in DOMAIN Tail(acks) : \E j \in DOMAIN acks : Tail(acks)[i] = acks[j]
    BY <1>2, TailElements DEF TypeOK
  <2> QED
    BY <2>1 DEF PathInv, AcksOK
<1> QED
  BY <1>1, <1>2

\* A step of the sender: packets are added to the path, an acknowledgment may
\* leave it.
LEMMA SenderStepOK ==
  ASSUME IInv, NEW s, SenderOK(s), Open(s), Drained(s),
         s.maxseq >= snd.maxseq, s.highest_ack < sink.next,
         SenderStep(s), UNCHANGED <<variant, delack, sink, inc, got>>,
         acks' = acks \/ (acks # <<>> /\ acks' = Tail(acks))
  PROVE  IInv'
<1> DEFINE u == [s EXCEPT !.out = <<>>]
<1>1. /\ SenderOK(u) /\ Open(u) /\ Drained(u) /\ u.out = <<>>
      /\ u.maxseq = s.maxseq /\ u.highest_ack = s.highest_ack
  BY HandedOverOK
<1>2. snd' = u /\ data' = data \o Tagged(s.out)
  BY DEF SenderStep
<1> HIDE DEF u
<1>3. /\ s \in Senders /\ s.maxseq \in Int /\ s.out \in Seq(Int)
      /\ \A i \in DOMAIN s.out : s.out[i] \in 0..s.maxseq
  BY SenderTypes DEF SenderOK, InOrder
<1>4. snd.maxseq \in Int
  BY SenderTypes DEF IInv, SenderInv, SenderOK
<1>5. SenderInv'
  BY <1>1, <1>2 DEF SenderInv
<1>6. data' \in Seq(Segments) /\ DataOK(data', s.maxseq, inc)
  <2>1. data \in Seq(Segments) /\ inc \in Nat /\ DataOK(data, snd.maxseq, inc)
    BY DEF IInv, TypeOK, PathInv
  <2>2. data \o Tagged(s.out) \in Seq(Segments) /\ DataOK(data \o Tagged(s.out), s.maxseq, inc)
    BY <1>3, <1>4, <2>1, DataAdded
  <2> QED
    BY <1>2, <2>2
<1>7. acks' \in Seq(Segments) /\ AcksOK(acks', sink.next, inc)
  BY TailsOK DEF IInv, TypeOK, PathInv
<1>8. TypeOK'
  BY <1>6, <1>7 DEF IInv, TypeOK
<1>9. PathInv'
  BY <1>1, <1>2, <1>6, <1>7 DEF PathInv
<1>10. SinkInv'
  BY DEF IInv, SinkInv, Size
<1>11. EndsAgree'
  BY <1>1, <1>2, <1>3, <1>4 DEF IInv, EndsAgree
<1> QED
  BY <1>5, <1>8, <1>9, <1>10, <1>11 DEF IInv

LEMMA NewSinkOK ==
  ASSUME NEW z \in Nat, z >= MWS, NEW k,
         k = [next |-> 0, maxseen |-> 0, seen |-> [j \in 0..(z - 1) |-> FALSE], save |-> FALSE]
  PROVE  SinkOK(k, z, {}) /\ Size(k) = z
<1>1. z >= 2
  BY TcpAssumption
<1>2. k \in Sinks(z)
  BY DEF Sinks
<1>3. 0 % z \in 0..(z - 1) /\ 1 % z \in 0..(z - 1)
  BY <1>1, ModSmall
<1>4. RingOK(k, z, {})
  <2>1. k.next = 0 /\ k.maxseen = 0 /\ \A j \in 0..(z - 1) : k.seen[j] = FALSE
    OBVIOUS
  <2>2. 0..(0 - 1) = {} /\ 0..0 = {0}
    OBVIOUS
  <2> QED
    BY <1>1, <1>2, <1>3, <2>1, <2>2 DEF RingOK
<1>5. Size(k) = z
  BY <1>1, <1>2, SizeOfRing
<1> QED
  BY <1>4, <1>5 DEF SinkOK

LEMMA InitInvariant == Init => IInv
<1> SUFFICES ASSUME Init PROVE IInv
  OBVIOUS
<1>1. TypeOK
  <2>1. PICK k \in Kinds : variant = k[1] /\ delack = k[2]
    BY DEF Init
  <2>2. k \in {"Tahoe", "Reno", "Newreno"} \X BOOLEAN
    BY TcpAssumption
  <2>3. variant \in {"Tahoe", "Reno", "Newreno"} /\ delack \in BOOLEAN
    BY <2>1, <2>2
  <2> QED
    BY <2>3 DEF Init, TypeOK
<1>2. SenderInv /\ snd.maxseq = -1 /\ snd.highest_ack = -1
  <2> DEFINE s == [curseq |-> 0, t_seqno |-> 0, maxseq |-> 0, highest_ack |-> 0,
                   recover |-> 0, cwnd |-> 0, ssthresh |-> 0, dupacks |-> 0,
                   action |-> "none", rtt_seq |-> 0, rtx_timer |-> FALSE, closed |-> FALSE,
                   sent |-> {}, resent |-> {}, early |-> {}, dupwnd |-> 0,
                   firstpartial |-> FALSE, wnd_init |-> windowInit, rtt_active |-> FALSE,
                   out |-> <<>>]
  <2>1. windowInit \in Nat /\ windowInit >= 1
    BY TcpAssumption
  <2>2. /\ 0 \in Nat /\ 0 \in Int /\ {} \in SUBSET Int /\ <<>> \in Seq(Int)
        /\ FALSE \in BOOLEAN
    OBVIOUS
  <2>3. s \in Senders
    BY <2>1, <2>2, Zenon DEF Senders
  <2>4. s.wnd_init >= 1 /\ s.out = <<>> /\ ~s.rtt_active
    BY <2>1
  <2>5. snd = reset(s)
    BY DEF Init, NewSender
  <2> HIDE DEF s
  <2> QED
    BY <2>3, <2>4, <2>5, ResetOK DEF SenderInv
<1>3. SinkInv /\ sink.next = 0
  <2>1. MWS \in Nat /\ MWS >= MWS
    BY TcpAssumption
  <2>2. sink = NewSink /\ got = {}
    BY DEF Init
  <2>3. SinkOK(sink, MWS, {}) /\ Size(sink) = MWS
    BY <2>1, <2>2, NewSinkOK DEF NewSink
  <2> QED
    BY <2>1, <2>2, <2>3 DEF SinkInv, NewSink
<1>4. PathInv
  BY DEF Init, PathInv, DataOK, AcksOK
<1>5. EndsAgree
  BY <1>2, <1>3 DEF Init, EndsAgree
<1> QED
  BY <1>1, <1>2, <1>3, <1>4, <1>5 DEF IInv

\* The application submits n packets, or an FTP source stops.
LEMMA ProducedOK ==
  ASSUME IInv, NEW c \in Nat, NEW b \in BOOLEAN,
         NEW s \in {[snd EXCEPT !.curseq = c], [snd EXCEPT !.curseq = c, !.closed = b]},
         SenderStep(send_much(s, 0)), UNCHANGED <<variant, delack, sink, acks, inc, got>>
  PROVE  IInv'
<1>1. SenderOK(snd) /\ Open(snd) /\ snd \in Senders
  BY DEF IInv, SenderInv, SenderOK
<1>2. s \in Senders
  <2>1. [snd EXCEPT !.curseq = c] \in Senders
    BY <1>1, Zenon DEF Senders
  <2>2. [snd EXCEPT !.curseq = c, !.closed = b] \in Senders
    BY <1>1, Zenon DEF Senders
  <2> QED
    BY <2>1, <2>2
<1>3. /\ s.maxseq = snd.maxseq /\ s.rtt_seq = snd.rtt_seq /\ s.out = snd.out
      /\ s.sent = snd.sent /\ s.resent = snd.resent /\ s.early = snd.early
      /\ s.ssthresh = snd.ssthresh /\ s.wnd_init = snd.wnd_init /\ s.rtx_timer = snd.rtx_timer
      /\ s.highest_ack = snd.highest_ack /\ s.t_seqno = snd.t_seqno /\ s.recover = snd.recover
      /\ s.rtt_active = snd.rtt_active /\ s.action = snd.action
      /\ s.cwnd = snd.cwnd /\ s.dupwnd = snd.dupwnd
  <2>1. CASE s = [snd EXCEPT !.curseq = c]
    BY <1>1, <2>1 DEF Senders
  <2>2. CASE s = [snd EXCEPT !.curseq = c, !.closed = b]
    BY <1>1, <2>2 DEF Senders
  <2> QED
    BY <2>1, <2>2
<1>4. SenderOK(s) /\ Open(s)
  BY <1>1, <1>2, <1>3, CountersOK DEF Open
<1> DEFINE u == send_much(s, 0)
<1>5. Follows(s, u) /\ Open(u) /\ Drained(u)
  BY <1>4, SendMuchOK, 0 \in Nat
<1>6. SenderStep(u)
  OBVIOUS
<1> HIDE DEF u
<1>7. SenderOK(u) /\ u.maxseq >= snd.maxseq /\ u.highest_ack < sink.next
  BY <1>3, <1>5 DEF Follows, IInv, EndsAgree
<1> QED
  BY <1>5, <1>6, <1>7, SenderStepOK

\* With a window at most outstanding the packet fits the sink's ring.
LEMMA SinkRecvOK ==
  ASSUME IInv, sink_recv
  PROVE  IInv'
<1> DEFINE p == Head(data)
           q == p.seqno
           k == update(sink, q)
           z == Size(sink)
<1>1. /\ data # <<>> /\ data' = Tail(data)
      /\ UNCHANGED <<variant, delack, snd, inc>>
  BY DEF sink_recv, Const
<1>2. data' \in Seq(Segments) /\ DataOK(data', snd.maxseq, inc)
  BY <1>1, TailsOK DEF IInv
<1>3. p = data[1] /\ 1 \in DOMAIN data /\ p \in Segments
  BY <1>1, TailElements DEF IInv, TypeOK
<1>4. /\ snd.maxseq \in Int /\ snd.highest_ack \in Int
      /\ snd.maxseq <= snd.highest_ack + wnd /\ snd.highest_ack <= snd.maxseq
  BY SenderTypes DEF IInv, SenderInv, SenderOK, InOrder
<1>5. SenderInv'
  BY <1>1 DEF IInv, SenderInv
<1>6. /\ variant \in {"Tahoe", "Reno", "Newreno"} /\ delack \in BOOLEAN
      /\ acks \in Seq(Segments) /\ inc \in Nat
      /\ AcksOK(acks, sink.next, inc)
      /\ snd.highest_ack < sink.next /\ got \subseteq 0..snd.maxseq
  BY DEF IInv, TypeOK, PathInv, EndsAgree
<1>7. CASE p.inc < inc
  <2>1. UNCHANGED <<sink, acks, got>>
    BY <1>7 DEF sink_recv
  <2> QED
    BY <1>1, <1>2, <1>5, <1>6, <2>1 DEF IInv, TypeOK, PathInv, EndsAgree, SinkInv, Size
<1>8. CASE ~(p.inc < inc)
  <2>1. q \in 0..snd.maxseq
    BY <1>3, <1>6, <1>8 DEF IInv, PathInv, DataOK, Segments
  <2>2. z \in Nat /\ z >= MWS /\ SinkOK(sink, z, got) /\ sink.next \in Nat
    BY DEF IInv, SinkInv, SinkOK, RingOK, Sinks
  <2>3. q \in Nat /\ q + 1 - sink.next <= wnd
    BY <1>4, <1>6, <2>1, <2>2, TcpAssumption
  <2> HIDE DEF q, z
  <2>4. PICK y \in Nat : y >= MWS /\ SinkOK(k, y, got \cup {q}) /\ k.next >= sink.next
    BY <2>2, <2>3, UpdateOK
  <2>5. k \in Sinks(y) /\ k.next \in Nat
    BY <2>4 DEF SinkOK, RingOK, Sinks
  <2> HIDE DEF k
  <2>6. got' = got \cup {q}
    BY <1>8 DEF sink_recv, q, k
  <2>7. PICK b \in BOOLEAN : sink' = [k EXCEPT !.save = b]
    BY <1>8 DEF sink_recv, q, k
  <2>8. acks' = acks \/ acks' = acks \o Tagged(<<k.next - 1>>)
    BY <1>8 DEF sink_recv, AckOf, q, k
  <2>9. sink' \in Sinks(y) /\ sink'.next = k.next /\ sink'.maxseen = k.maxseen /\ sink'.seen = k.seen
    BY <2>5, <2>7 DEF Sinks
  <2>10. SinkOK(sink', y, got')
    BY <2>4, <2>6, <2>9 DEF SinkOK, RingOK
  <2>11. Size(sink') = y
    BY <2>4, <2>9, SizeOfRing, TcpAssumption
  <2>12. SinkInv'
    BY <2>4, <2>10, <2>11 DEF SinkInv, Size
  <2>13. acks' \in Seq(Segments) /\ AcksOK(acks', k.next, inc)
    <3>1. AcksOK(acks, k.next, inc)
      BY <1>6, <2>2, <2>4, <2>5 DEF AcksOK
    <3>2. acks \o Tagged(<<k.next - 1>>) \in Seq(Segments)
          /\ AcksOK(acks \o Tagged(<<k.next - 1>>), k.next, inc)
      BY <1>6, <2>2, <2>4, <2>5, AckAdded
    <3> QED
      BY <1>6, <2>8, <3>1, <3>2
  <2>14. TypeOK'
    BY <1>1, <1>2, <1>6, <2>13 DEF TypeOK
  <2>15. PathInv'
    BY <1>1, <1>2, <2>9, <2>13 DEF PathInv
  <2>16. EndsAgree'
    <3>1. snd.highest_ack < k.next
      BY <1>4, <1>6, <2>2, <2>4, <2>5
    <3>2. got \cup {q} \subseteq 0..snd.maxseq
      BY <1>6, <2>1 DEF q
    <3> QED
      BY <1>1, <2>6, <2>9, <3>1, <3>2 DEF EndsAgree
  <2> QED
    BY <1>5, <2>12, <2>14, <2>15, <2>16 DEF IInv
<1> QED
  BY <1>7, <1>8

LEMMA DelayTimeoutOK ==
  ASSUME IInv, delay_timeout
  PROVE  IInv'
<1> DEFINE z == Size(sink)
<1>1. /\ sink' = [sink EXCEPT !.save = FALSE] /\ acks' = acks \o Tagged(<<sink.next - 1>>)
      /\ UNCHANGED <<variant, delack, snd, data, inc, got>>
  BY DEF delay_timeout, AckOf, Const
<1>2. z \in Nat /\ z >= MWS /\ SinkOK(sink, z, got)
  BY DEF IInv, SinkInv
<1> HIDE DEF z
<1>3. sink \in Sinks(z) /\ sink.next \in Nat
  BY <1>2 DEF SinkOK, RingOK, Sinks
<1>4. /\ sink' \in Sinks(z) /\ sink'.next = sink.next /\ sink'.maxseen = sink.maxseen
      /\ sink'.seen = sink.seen
  BY <1>1, <1>3 DEF Sinks
<1>5. SinkOK(sink', z, got')
  BY <1>1, <1>2, <1>4 DEF SinkOK, RingOK
<1>6. Size(sink') = z
  BY <1>2, <1>4, SizeOfRing, TcpAssumption
<1>7. SinkInv'
  BY <1>2, <1>5, <1>6 DEF SinkInv, Size
<1>8. acks' \in Seq(Segments) /\ AcksOK(acks', sink.next, inc)
  <2>1. acks \in Seq(Segments) /\ inc \in Nat /\ AcksOK(acks, sink.next, inc)
    BY DEF IInv, TypeOK, PathInv
  <2>2. sink.next <= sink.next
    BY <1>3
  <2> QED
    BY <1>1, <1>3, <2>1, <2>2, AckAdded
<1>9. TypeOK' /\ PathInv' /\ EndsAgree' /\ SenderInv'
  BY <1>1, <1>4, <1>8 DEF IInv, TypeOK, PathInv, EndsAgree, SenderInv
<1> QED
  BY <1>7, <1>9 DEF IInv

\* Whatever is on the path belongs to an older incarnation.
LEMMA ResetBothOK ==
  ASSUME IInv, reset_both
  PROVE  IInv'
<1> DEFINE z == Size(sink)
           u == reset(snd)
<1>1. /\ inc' = inc + 1 /\ snd' = u /\ got' = {}
      /\ sink' = [NewSink EXCEPT !.seen = [j \in DOMAIN sink.seen |-> FALSE]]
      /\ ResetAnyTime \/ snd.highest_ack = snd.maxseq
      /\ UNCHANGED <<variant, delack, data, acks>>
  BY DEF reset_both, Const
<1>2. z \in Nat /\ z >= MWS /\ DOMAIN sink.seen = 0..(z - 1)
  BY DEF IInv, SinkInv, SinkOK, RingOK, Sinks
<1> HIDE DEF z
<1>3. SinkOK(sink', z, {}) /\ Size(sink') = z /\ sink'.next = 0
  <2>1. sink' = [next |-> 0, maxseen |-> 0, seen |-> [j \in 0..(z - 1) |-> FALSE], save |-> FALSE]
    BY <1>1, <1>2 DEF NewSink
  <2> QED
    BY <1>2, <2>1, NewSinkOK
<1>4. SinkInv'
  BY <1>1, <1>2, <1>3 DEF SinkInv, Size
<1>5. ~ResetAnyTime => ~snd.rtt_active
  <2>1. snd.maxseq \in Int /\ snd.rtt_seq \in Int /\ snd.rtt_seq <= snd.maxseq
    BY SenderTypes DEF IInv, SenderInv, SenderOK
  <2>2. ~ResetAnyTime /\ snd.rtt_active => snd.highest_ack < snd.rtt_seq
    BY DEF IInv, SenderInv, SenderOK, Measured
  <2> QED
    BY <1>1, <2>1, <2>2
<1>6. /\ SenderOK(u) /\ Open(u) /\ Drained(u) /\ u.out = <<>>
      /\ u.maxseq = -1 /\ u.highest_ack = -1
  BY <1>5, ResetOK DEF IInv, SenderInv, SenderOK
<1> HIDE DEF u
<1>7. SenderInv'
  BY <1>1, <1>6 DEF SenderInv
<1>8. TypeOK'
  BY <1>1 DEF IInv, TypeOK
<1>9. PathInv'
  <2>1. ASSUME NEW i \in DOMAIN data PROVE data[i].inc \in Nat /\ data[i].inc <= inc
    <3>1. data \in Seq(Segments) /\ data[i].inc <= inc
      BY <2>1 DEF IInv, TypeOK, PathInv, DataOK
    <3>2. data[i] \in Segments
      BY <2>1, <3>1
    <3> QED
      BY <3>1, <3>2 DEF Segments
  <2>2. ASSUME NEW i \in DOMAIN acks PROVE acks[i].inc \in Nat /\ acks[i].inc <= inc
    <3>1. acks \in Seq(Segments) /\ acks[i].inc <= inc
      BY <2>2 DEF IInv, TypeOK, PathInv, AcksOK
    <3>2. acks[i] \in Segments
      BY <2>2, <3>1
    <3> QED
      BY <3>1, <3>2 DEF Segments
  <2>3. inc \in Nat
    BY DEF IInv, TypeOK
  <2>4. DataOK(data, u.maxseq, inc + 1)
    BY <2>1, <2>3 DEF DataOK
  <2>5. AcksOK(acks, 0, inc + 1)
    BY <2>2, <2>3 DEF AcksOK
  <2> QED
    BY <1>1, <1>3, <2>4, <2>5 DEF PathInv
<1>10. EndsAgree'
  BY <1>1, <1>3, <1>6 DEF EndsAgree
<1> QED
  BY <1>4, <1>7, <1>8, <1>9, <1>10 DEF IInv

LEMMA NextInvariant == IInv /\ [Next]_vars => IInv'
<1> SUFFICES ASSUME IInv, [Next]_vars PROVE IInv'
  OBVIOUS
<1>1. /\ SenderOK(snd) /\ Open(snd) /\ Drained(snd) /\ snd \in Senders
      /\ snd.curseq \in Nat /\ snd.maxseq \in Int /\ snd.highest_ack \in Int
      /\ snd.highest_ack < sink.next
  BY SenderTypes DEF IInv, SenderInv, SenderOK, EndsAgree
<1>2. ASSUME NEW n \in Lengths, sendmsg(n) PROVE IInv'
  <2> DEFINE s == [snd EXCEPT !.curseq = @ + n]
  <2>1. snd.curseq + n \in Nat
    BY <1>1, TcpAssumption
  <2>2. s = [snd EXCEPT !.curseq = snd.curseq + n]
    OBVIOUS
  <2>3. SenderStep(send_much(s, 0)) /\ UNCHANGED <<variant, delack, sink, acks, inc, got>>
    BY <1>2 DEF sendmsg, Const
  <2> HIDE DEF s
  <2> QED
    BY <2>1, <2>2, <2>3, FALSE \in BOOLEAN, ProducedOK
<1>3. ASSUME NEW n \in Lengths, advanceby(n) PROVE IInv'
  <2> DEFINE s == [snd EXCEPT !.curseq = @ + n, !.closed = FALSE]
  <2>1. snd.curseq + n \in Nat
    BY <1>1, TcpAssumption
  <2>2. s = [snd EXCEPT !.curseq = snd.curseq + n, !.closed = FALSE]
    OBVIOUS
  <2>3. SenderStep(send_much(s, 0)) /\ UNCHANGED <<variant, delack, sink, acks, inc, got>>
    BY <1>3 DEF advanceby, Const
  <2> HIDE DEF s
  <2> QED
    BY <2>1, <2>2, <2>3, FALSE \in BOOLEAN, ProducedOK
<1>4. CASE stop
  <2> DEFINE b == snd.closed /\ snd.maxseq <= snd.curseq
             s == [snd EXCEPT !.curseq = snd.maxseq, !.closed = @ /\ snd.maxseq <= snd.curseq]
  <2>1. snd.maxseq \in Nat /\ b \in BOOLEAN
    BY <1>1, <1>4 DEF stop
  <2>2. SenderStep(send_much(s, 0)) /\ UNCHANGED <<variant, delack, sink, acks, inc, got>>
    BY <1>4 DEF stop, Const
  <2>3. s = [snd EXCEPT !.curseq = snd.maxseq, !.closed = b]
    OBVIOUS
  <2> HIDE DEF s, b
  <2> QED
    BY <2>1, <2>2, <2>3, ProducedOK
<1>5. CASE recv_ack
  <2> DEFINE p == Head(acks)
             ack == p.seqno
             u == IF p.inc < inc THEN snd ELSE recv(snd, ack)
  <2>1. /\ acks # <<>> /\ SenderStep(u) /\ acks' = Tail(acks)
        /\ UNCHANGED <<variant, delack, sink, inc, got>>
    BY <1>5 DEF recv_ack, Const
  <2>2. p = acks[1] /\ 1 \in DOMAIN acks /\ p \in Segments
    BY <2>1, TailElements DEF IInv, TypeOK
  <2>3. CASE p.inc < inc
    <3>1. SenderStep(snd) /\ snd.maxseq >= snd.maxseq
      BY <1>1, <2>1, <2>3
    <3> QED
      BY <1>1, <2>1, <3>1, SenderStepOK
  <2>4. CASE ~(p.inc < inc)
    <3>1. ack \in -1..(sink.next - 1) /\ sink.next \in Nat
      <4>1. sink.next \in Nat
        BY DEF IInv, SinkInv, SinkOK, RingOK, Sinks
      <4>2. p.inc <= inc /\ (p.inc = inc => p.seqno \in -1..(sink.next - 1))
        BY <2>2 DEF IInv, PathInv, AcksOK
      <4>3. p.inc \in Nat /\ inc \in Nat
        BY <2>2 DEF IInv, TypeOK, Segments
      <4> QED
        BY <2>4, <4>1, <4>2, <4>3
    <3>2. ack <= snd.maxseq
      <4>1. 0..(sink.next - 1) \subseteq 0..snd.maxseq
        BY DEF IInv, SinkInv, SinkOK, RingOK, EndsAgree
      <4>2. -1 <= snd.maxseq
        BY <1>1 DEF SenderOK, InOrder
      <4>3. ack >= 0 => ack \in 0..(sink.next - 1)
        BY <3>1
      <4> QED
        BY <1>1, <3>1, <4>1, <4>2, <4>3
    <3>3. u = recv(snd, ack) /\ ack \in Int
      BY <2>4, <3>1
    <3> HIDE DEF u, ack
    <3>4. variant \in {"Tahoe", "Reno", "Newreno"}
      BY DEF IInv, TypeOK
    <3>5. /\ SenderOK(u) /\ Open(u) /\ Drained(u) /\ u.maxseq >= snd.maxseq
          /\ u.highest_ack \in {snd.highest_ack, ack}
      BY <1>1, <3>2, <3>3, <3>4, RecvOK
    <3>6. u.highest_ack < sink.next
      BY <1>1, <3>1, <3>5
    <3> QED
      BY <2>1, <3>5, <3>6, SenderStepOK
  <2> QED
    BY <2>3, <2>4
<1>6. CASE rtx_timeout
  <2> DEFINE u == timeout(snd)
  <2>1. SenderStep(u) /\ UNCHANGED <<variant, delack, sink, acks, inc, got>>
    BY <1>6 DEF rtx_timeout, Const
  <2>2. Follows(snd, u) /\ Open(u) /\ Drained(u)
    BY <1>1, TimeoutOK
  <2> HIDE DEF u
  <2>3. SenderOK(u) /\ u.maxseq >= snd.maxseq /\ u.highest_ack < sink.next
    BY <1>1, <2>2 DEF Follows
  <2> QED
    BY <2>1, <2>2, <2>3, SenderStepOK
<1>7. CASE drop_data
  <2>1. data # <<>> /\ data' = Tail(data) /\ UNCHANGED <<variant, delack, snd, sink, acks, inc, got>>
    BY <1>7 DEF drop_data, Const
  <2>2. Tail(data) \in Seq(Segments) /\ DataOK(Tail(data), snd.maxseq, inc)
    BY <2>1, TailsOK DEF IInv
  <2> QED
    BY <2>1, <2>2 DEF IInv, TypeOK, PathInv, EndsAgree, SenderInv, SinkInv, Size
<1>8. CASE drop_ack
  <2>1. acks # <<>> /\ acks' = Tail(acks) /\ UNCHANGED <<variant, delack, snd, sink, data, inc, got>>
    BY <1>8 DEF drop_ack, Const
  <2>2. Tail(acks) \in Seq(Segments) /\ AcksOK(Tail(acks), sink.next, inc)
    BY <2>1, TailsOK DEF IInv
  <2> QED
    BY <2>1, <2>2 DEF IInv, TypeOK, PathInv, EndsAgree, SenderInv, SinkInv, Size
<1>9. CASE UNCHANGED vars
  BY <1>9 DEF vars, IInv, TypeOK, PathInv, EndsAgree, SenderInv, SinkInv, Size
<1> QED
  BY <1>2, <1>3, <1>4, <1>5, <1>6, <1>7, <1>8, <1>9, SinkRecvOK, DelayTimeoutOK, ResetBothOK
  DEF Next

LEMMA InvariantHolds == Spec => []IInv
  BY InitInvariant, NextInvariant, PTL DEF Spec

-----------------------------------------------------------------------------
(* Theorems. *)

(* For every window, loss and early timeout: the retransmit timer is       *)
(* pending while a packet is outstanding or waits to be sent (newtimer,    *)
(* output), the window has room for a packet (slowdown, dupack_action,     *)
(* partialnewack), and nothing is sent beyond the receiver's window        *)
(* (send_much, send_one).                                                  *)
THEOREM SenderNeverStuck == Spec => []SenderGoesOn
<1>1. IInv => SenderGoesOn
  <2> SUFFICES ASSUME IInv PROVE SenderGoesOn
    OBVIOUS
  <2>1. SenderOK(snd) /\ Open(snd) /\ Drained(snd) /\ snd \in Senders
    BY DEF IInv, SenderInv, SenderOK
  <2>2. snd.maxseq \in Int /\ snd.highest_ack \in Int /\ snd.curseq \in Nat /\ snd.rtx_timer \in BOOLEAN
    BY <2>1, SenderTypes
  <2>3. /\ ~snd.rtx_timer => snd.maxseq = -1
        /\ -1 <= snd.highest_ack /\ snd.highest_ack <= snd.maxseq
        /\ snd.maxseq <= snd.highest_ack + wnd
    BY <2>1 DEF SenderOK, InOrder
  <2>4. snd.highest_ack < Most(snd.maxseq, snd.curseq - 1) => snd.rtx_timer
    BY <2>1, <2>2, <2>3 DEF Drained, Most
  <2>5. window(snd) >= 1
    BY <2>1, WindowRoom
  <2> QED
    BY <2>3, <2>4, <2>5 DEF SenderGoesOn
<1> QED
  BY <1>1, InvariantHolds, PTL

(* Acker::update and resize_buffers, for every window that the ring can    *)
(* grow to: next_ is the first packet that is missing, the ring holds      *)
(* exactly what was received after it, and the acknowledgments that the    *)
(* sender has seen are of packets that were received.                      *)
THEOREM SinkDeliversInOrder == Spec => []SinkExact
<1>1. IInv => SinkExact
  <2> SUFFICES ASSUME IInv PROVE SinkExact
    OBVIOUS
  <2> DEFINE z == Size(sink)
  <2>1. z \in Nat /\ z >= MWS /\ RingOK(sink, z, got) /\ sink.next \notin got
    BY DEF IInv, SinkInv, SinkOK
  <2>2. z \in Nat \ {0}
    BY <2>1, TcpAssumption
  <2> HIDE DEF z
  <2>3. sink \in Sinks(z) /\ sink.next \in Nat /\ sink.maxseen \in Nat
    BY <2>1 DEF RingOK, Sinks
  <2>4. \A i \in Int : Slot(sink, i) = i % z
    BY <2>2, <2>3, SizeOfRing
  <2>5. \A i \in sink.next..sink.maxseen : sink.seen[Slot(sink, i)] <=> i \in got
    BY <2>1, <2>3, <2>4 DEF RingOK
  <2>6. 0..(sink.next - 1) \subseteq got /\ \A i \in got : i <= sink.maxseen
    BY <2>1, <2>3 DEF RingOK
  <2> QED
    BY <2>1, <2>5, <2>6 DEF IInv, EndsAgree, SinkExact
<1> QED
  BY <1>1, InvariantHolds, PTL

(* When agents are reset only with everything acknowledged, the packet     *)
(* whose round trip is measured was sent once, unless a fast retransmit    *)
(* with nothing outstanding sent it first (output, reset_rtx_timer,        *)
(* newack, partialnewack_helper).                                          *)
THEOREM KarnsAlgorithm ==
  ASSUME ~ResetAnyTime
  PROVE  Spec => []Karn
<1>1. IInv => Karn
  <2> SUFFICES ASSUME IInv, snd.rtt_active
               PROVE  /\ snd.rtt_seq \in 0..snd.maxseq
                      /\ snd.rtt_seq \in snd.early \/ snd.rtt_seq \in snd.sent \ snd.resent
    BY DEF Karn
  <2>1. Measured(snd) /\ InOrder(snd) /\ snd.rtt_seq <= snd.maxseq /\ snd \in Senders
    BY DEF IInv, SenderInv, SenderOK
  <2>2. snd.rtt_seq \in Int /\ snd.maxseq \in Int /\ snd.highest_ack \in Int
    BY <2>1, SenderTypes
  <2> QED
    BY <2>1, <2>2 DEF Measured, InOrder
<1> QED
  BY <1>1, InvariantHolds, PTL
=============================================================================
