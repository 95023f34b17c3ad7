----------------------------- MODULE AodvProofs ------------------------------
(***************************************************************************)
(* Theorems about AODV for every network, every pattern of broken links,   *)
(* lost and late messages, and any number of requests.                     *)
(*                                                                         *)
(* The argument for the absence of loops: what a node knows of a           *)
(* destination, its sequence number first and the hops to it second, never *)
(* gets worse, and the node that a live route leads to knows more than the *)
(* route. A handler is sound (Sound) if it keeps to this; that the parts   *)
(* of a handler are sound is shown part by part.                           *)
(***************************************************************************)
EXTENDS Aodv, NumberTheorems, FiniteSetTheorems

-----------------------------------------------------------------------------
(* Types. *)

Flags == {"UP", "DOWN", "IN_REPAIR"}

Entries ==
  [rt_seqno : Nat, rt_hops : Nat, rt_nexthop : Nodes, rt_flags : Flags,
   rt_pclist : SUBSET Nodes, rt_req_cnt : Nat, asked : BOOLEAN,
   rt_req_last_ttl : Nat, rt_last_hop_count : Nat]

\* A data packet that rt_ll_failed may see has not travelled too far.
Data ==
  [type : {"DATA"}, id : Nat, src : Nodes, dst : Nodes,
   num_forwards : 0..(NETWORK_DIAMETER - 1), from : Nodes, to : Nodes]

RequestPackets ==
  [type : {"RREQ"}, from : Nodes, to : Nodes, ttl : Int, hops : Nat,
   src : Nodes, src_seqno : Nat, bid : Nat, dst : Nodes, dst_seqno : Nat]

Replies ==
  [type : {"RREP"}, from : Nodes, to : Nodes, ipdst : Nodes, dst : Nodes,
   dst_seqno : Nat, hops : Nat]

RouteErrors ==
  [type : {"RERR"}, from : Nodes, to : Nodes, unreachable : SUBSET (Nodes \X Nat)]

Packets == Data \cup RequestPackets \cup Replies \cup RouteErrors

NodeStates ==
  [seqno : Nat, bid : Nat, rt : [Nodes -> Entries], seen : SUBSET (Nodes \X Nat),
   rqueue : SUBSET Data, lrtimer : SUBSET Data]

TypeOK ==
  /\ node \in [Nodes -> NodeStates]
  /\ msgs \in SUBSET Packets
  /\ sent \in Nat
  /\ failed \in SUBSET Nodes

-----------------------------------------------------------------------------
(* The invariant. *)

Odd(k) == ~Even(k)

\* A number that a destination itself has given out.
Given(q) == q > 0 /\ Even(q)

\* An entry knows a route of h hops with number q, or something newer.
Knows(e, q, h) ==
  \/ e.rt_seqno > q
  \/ e.rt_seqno = q /\ e.rt_hops <= h

\* Node x knows that much about the way to d.
Backed(x, d, q, h) == x = d \/ Knows(node[x].rt[d], q, h)

\* A live entry has a number of its destination; one that is down has no hops
\* and, unless a local repair failed (F), the number of a lost route. Only with
\* AODV_LOCAL_REPAIR is an entry under repair.
EntryOK(e, d, F) ==
  /\ e.rt_flags = "IN_REPAIR" => LocalRepair
  /\ e.rt_flags # "DOWN" => Given(e.rt_seqno)
  /\ e.rt_flags = "DOWN" => e.rt_hops = INFINITY2
  /\ e.rt_flags = "DOWN" /\ d \notin F => e.rt_seqno = 0 \/ Odd(e.rt_seqno)

\* The next hop of a live route knows more than the route.
EntryBacked(e, d, F) ==
  e.rt_flags = "UP" /\ d \notin F => Backed(e.rt_nexthop, d, e.rt_seqno, e.rt_hops - 1)

OwnNumbers == \A n \in Nodes : Given(node[n].seqno)

Routes ==
  \A n, d \in Nodes :
    /\ EntryOK(node[n].rt[d], d, failed)
    /\ EntryBacked(node[n].rt[d], d, failed)
    /\ node[n].rt[d].rt_flags # "DOWN" => node[n].rt[d].rt_seqno <= node[d].seqno

\* The numbers in a packet, apart from who sent it.
PacketOK(m, F) ==
  /\ m.type = "RREQ" => Given(m.src_seqno)
  /\ m.type = "RREP" => Given(m.dst_seqno)
  /\ m.type = "RERR" =>
       /\ \A u, v \in m.unreachable : u[1] = v[1] => u = v
       /\ \A u \in m.unreachable : u[1] \notin F => u[2] = 0 \/ Odd(u[2])

\* The sender of a request or a reply knows more than the packet says.
PacketBacked(m) ==
  /\ m.type = "RREQ" =>
       /\ m.src_seqno <= node[m.src].seqno
       /\ m.src \notin failed => Backed(m.from, m.src, m.src_seqno, m.hops - 1)
  /\ m.type = "RREP" =>
       /\ m.dst_seqno <= node[m.dst].seqno
       /\ m.dst \notin failed => Backed(m.from, m.dst, m.dst_seqno, m.hops - 1)

Messages == \A m \in msgs : PacketOK(m, failed) /\ PacketBacked(m)

IInv ==
  /\ TypeOK
  /\ OwnNumbers
  /\ Routes
  /\ Messages
  /\ AssertsInRepair

-----------------------------------------------------------------------------
(* Sound handlers. *)

Failures ==
  {"none", "forward: rt_flags == RTF_UP", "recvReply: rt_flags == RTF_UP",
   "recvError: rt_flags == RTF_UP, rt_seqno even",
   "handle_link_failure: rt_flags == RTF_UP, rt_seqno even", "rt_purge: rt_seqno%2"}

\* What a handler works on.
Works ==
  [seqno : Nat, bid : Nat, rt : [Nodes -> Entries], seen : SUBSET (Nodes \X Nat),
   rqueue : SUBSET Data, lrtimer : SUBSET Data, out : SUBSET Packets,
   cut : SUBSET Nodes, err : Failures]

\* The number of destination d once node n has finished with s.
Number(n, s, d) == IF d = n THEN s.seqno ELSE node[d].seqno

\* Entry e may stand for destination d in s.
Fits(n, s, d, e, F) ==
  /\ EntryOK(e, d, F)
  /\ EntryBacked(e, d, F)
  /\ e.rt_flags # "DOWN" => e.rt_seqno <= Number(n, s, d)

\* Node n may send packet m, given what it knows in s.
MaySend(n, s, m, F) ==
  /\ m.from = n
  /\ PacketOK(m, F)
  /\ m.type = "RREQ" =>
       /\ m.src_seqno <= Number(n, s, m.src)
       /\ m.src \notin F => n = m.src \/ Knows(s.rt[m.src], m.src_seqno, m.hops - 1)
  /\ m.type = "RREP" =>
       /\ m.dst_seqno <= Number(n, s, m.dst)
       /\ m.dst \notin F => n = m.dst \/ Knows(s.rt[m.dst], m.dst_seqno, m.hops - 1)

\* A handler of n that ends in s, with failed repairs F, keeps the invariant.
Sound(n, s, F) ==
  /\ s \in Works
  /\ Given(s.seqno) /\ s.seqno >= node[n].seqno
  /\ \A d \in Nodes : Fits(n, s, d, s.rt[d], F)
  /\ \A d \in Nodes \ F : Knows(s.rt[d], node[n].rt[d].rt_seqno, node[n].rt[d].rt_hops)
  /\ \A m \in s.out : MaySend(n, s, m, F)

Repairing(s) == \E d \in Nodes : s.rt[d].rt_flags = "IN_REPAIR"

-----------------------------------------------------------------------------
(* Numbers. *)

LEMMA EvenFacts ==
  /\ \A k \in Nat : Even(k) => Even(k + 2) /\ Odd(k + 1)
  /\ \A k \in Nat : NextEven(k) \in Nat /\ Even(NextEven(k)) /\ NextEven(k) >= k
  /\ Even(2)
  BY Z3 DEF Even, Odd, NextEven

LEMMA MaxOfTwo ==
  ASSUME NEW a \in Int, NEW b \in Int
  PROVE  Max({a, b}) \in {a, b} /\ Max({a, b}) >= a /\ Max({a, b}) >= b
<1>1. \E x \in {a, b} : \A y \in {a, b} : x >= y
  OBVIOUS
<1> QED
  BY <1>1 DEF Max

LEMMA MaxOfNats ==
  ASSUME NEW a \in Nat, NEW b \in Nat
  PROVE  Max({a, b}) \in Nat /\ Max({a, b}) >= a
<1>1. Max({a, b}) \in {a, b} /\ Max({a, b}) >= a
  BY MaxOfTwo, a \in Int, b \in Int
<1> QED
  BY <1>1

LEMMA MaxOfOne ==
  ASSUME NEW a \in Int
  PROVE  Max({a}) = a
  BY DEF Max

LEMMA KnowsTransitive ==
  ASSUME NEW a \in Entries, NEW b \in Entries, NEW q \in Int, NEW h \in Int,
         Knows(a, b.rt_seqno, b.rt_hops), Knows(b, q, h)
  PROVE  Knows(a, q, h)
  BY DEF Knows, Entries

LEMMA KnowsItself ==
  ASSUME NEW a \in Entries
  PROVE  Knows(a, a.rt_seqno, a.rt_hops)
  BY DEF Knows, Entries

-----------------------------------------------------------------------------
(* One step inside a handler. *)

\* A handler that is sound in s is sound in t, if t knows no less and sends no
\* packet that it may not.
LEMMA SoundStep ==
  ASSUME NEW n \in Nodes, NEW F, NEW s, Sound(n, s, F), TypeOK,
         NEW t \in Works, Given(t.seqno), t.seqno >= s.seqno,
         \A d \in Nodes : Fits(n, t, d, t.rt[d], F),
         \A d \in Nodes \ F : Knows(t.rt[d], s.rt[d].rt_seqno, s.rt[d].rt_hops),
         \A m \in t.out : m \in s.out \/ MaySend(n, t, m, F)
  PROVE  Sound(n, t, F)
<1>1. /\ s.seqno \in Nat /\ t.seqno \in Nat /\ node[n].seqno \in Nat
      /\ s.rt \in [Nodes -> Entries] /\ t.rt \in [Nodes -> Entries]
      /\ node[n].rt \in [Nodes -> Entries] /\ s.out \in SUBSET Packets
  BY DEF Sound, Works, TypeOK, NodeStates
<1>2. t.seqno >= node[n].seqno
  BY <1>1 DEF Sound
<1>3. ASSUME NEW d \in Nodes \ F
      PROVE  Knows(t.rt[d], node[n].rt[d].rt_seqno, node[n].rt[d].rt_hops)
  <2>1. t.rt[d] \in Entries /\ s.rt[d] \in Entries /\ node[n].rt[d] \in Entries
    BY <1>1
  <2>2. node[n].rt[d].rt_seqno \in Int /\ node[n].rt[d].rt_hops \in Int
    BY <2>1 DEF Entries
  <2>3. Knows(s.rt[d], node[n].rt[d].rt_seqno, node[n].rt[d].rt_hops)
    BY DEF Sound
  <2> QED
    BY <2>1, <2>2, <2>3, KnowsTransitive
<1>4. ASSUME NEW m \in s.out PROVE MaySend(n, t, m, F)
  <2>1. MaySend(n, s, m, F) /\ m \in Packets
    BY <1>1 DEF Sound
  <2>2. \A d \in Nodes : /\ Number(n, s, d) <= Number(n, t, d)
                         /\ Number(n, s, d) \in Nat /\ Number(n, t, d) \in Nat
    BY <1>1 DEF Number, TypeOK, NodeStates
  <2>3. ASSUME NEW d \in Nodes \ F, NEW q \in Int, NEW h \in Int, Knows(s.rt[d], q, h)
        PROVE  Knows(t.rt[d], q, h)
    <3>1. t.rt[d] \in Entries /\ s.rt[d] \in Entries
      BY <1>1
    <3> QED
      BY <2>3, <3>1, KnowsTransitive
  <2>4. m.type = "RREQ" => m.src \in Nodes /\ m.src_seqno \in Nat /\ m.hops \in Nat
    BY <2>1 DEF Packets, Data, RequestPackets, Replies, RouteErrors
  <2>5. m.type = "RREP" => m.dst \in Nodes /\ m.dst_seqno \in Nat /\ m.hops \in Nat
    BY <2>1 DEF Packets, Data, RequestPackets, Replies, RouteErrors
  <2>6. m.type = "RREQ" =>
          /\ m.src_seqno <= Number(n, t, m.src)
          /\ m.src \notin F => n = m.src \/ Knows(t.rt[m.src], m.src_seqno, m.hops - 1)
    BY <2>1, <2>2, <2>3, <2>4 DEF MaySend
  <2>7. m.type = "RREP" =>
          /\ m.dst_seqno <= Number(n, t, m.dst)
          /\ m.dst \notin F => n = m.dst \/ Knows(t.rt[m.dst], m.dst_seqno, m.hops - 1)
    BY <2>1, <2>2, <2>3, <2>5 DEF MaySend
  <2> QED
    BY <2>1, <2>6, <2>7 DEF MaySend
<1> QED
  BY <1>2, <1>3, <1>4 DEF Sound

\* The parts of an entry that say where the route leads and what it is worth.
SameRoute(e, f) ==
  /\ e.rt_seqno = f.rt_seqno /\ e.rt_hops = f.rt_hops
  /\ e.rt_flags = f.rt_flags /\ e.rt_nexthop = f.rt_nexthop

\* A step that leaves the routes alone.
LEMMA SoundRoutesKept ==
  ASSUME NEW n \in Nodes, NEW F, NEW s, Sound(n, s, F), TypeOK,
         NEW t \in Works, Given(t.seqno), t.seqno >= s.seqno,
         \A d \in Nodes : SameRoute(t.rt[d], s.rt[d]),
         \A m \in t.out : m \in s.out \/ MaySend(n, t, m, F)
  PROVE  Sound(n, t, F)
<1>1. /\ s.seqno \in Nat /\ t.seqno \in Nat
      /\ s.rt \in [Nodes -> Entries] /\ t.rt \in [Nodes -> Entries]
  BY DEF Sound, Works
<1>2. ASSUME NEW d \in Nodes PROVE Fits(n, t, d, t.rt[d], F)
  <2>1. Fits(n, s, d, s.rt[d], F) /\ SameRoute(t.rt[d], s.rt[d])
    BY DEF Sound
  <2>2. EntryOK(t.rt[d], d, F)
    BY <2>1 DEF Fits, EntryOK, SameRoute
  <2>3. EntryBacked(t.rt[d], d, F)
    BY <2>1 DEF Fits, EntryBacked, SameRoute
  <2>4. Number(n, s, d) <= Number(n, t, d) /\ Number(n, s, d) \in Nat /\ Number(n, t, d) \in Nat
    BY <1>1 DEF Number, TypeOK, NodeStates
  <2>5. s.rt[d].rt_seqno \in Nat
    BY <1>1 DEF Entries
  <2>6. t.rt[d].rt_flags # "DOWN" => t.rt[d].rt_seqno <= Number(n, t, d)
    BY <2>1, <2>4, <2>5 DEF Fits, SameRoute
  <2> QED
    BY <2>2, <2>3, <2>6 DEF Fits
<1>3. ASSUME NEW d \in Nodes \ F PROVE Knows(t.rt[d], s.rt[d].rt_seqno, s.rt[d].rt_hops)
  <2>1. t.rt[d] \in Entries /\ SameRoute(t.rt[d], s.rt[d])
    BY <1>1
  <2> QED
    BY <2>1, KnowsItself DEF SameRoute
<1> QED
  BY <1>2, <1>3, SoundStep

-----------------------------------------------------------------------------
(* Between two handlers. *)

LEMMA StateSound ==
  ASSUME IInv, NEW n \in Nodes, err = "none"
  PROVE  Sound(n, State(n), failed) /\ State(n).err = "none" /\ State(n).out = {}
<1> DEFINE s == State(n)
<1>1. node[n] \in NodeStates /\ \A d \in Nodes : node[d] \in NodeStates
  BY DEF IInv, TypeOK
<1>2. /\ s.seqno = node[n].seqno /\ s.rt = node[n].rt /\ s.out = {} /\ s.err = "none"
  BY DEF State
<1>3. s \in Works
  BY <1>1 DEF State, NodeStates, Works, Failures
<1>4. Given(s.seqno) /\ s.seqno >= node[n].seqno
  BY <1>1, <1>2 DEF IInv, OwnNumbers, NodeStates
<1>5. ASSUME NEW d \in Nodes PROVE Fits(n, s, d, s.rt[d], failed)
  <2>1. /\ EntryOK(node[n].rt[d], d, failed)
        /\ EntryBacked(node[n].rt[d], d, failed)
        /\ node[n].rt[d].rt_flags # "DOWN" => node[n].rt[d].rt_seqno <= node[d].seqno
    BY DEF IInv, Routes
  <2>2. Number(n, s, d) = node[d].seqno
    BY <1>2 DEF Number
  <2> HIDE DEF s
  <2> QED
    BY <1>2, <2>1, <2>2 DEF Fits
<1>6. ASSUME NEW d \in Nodes \ failed
      PROVE  Knows(s.rt[d], node[n].rt[d].rt_seqno, node[n].rt[d].rt_hops)
  <2>1. node[n].rt[d] \in Entries
    BY <1>1 DEF NodeStates
  <2> HIDE DEF s
  <2> QED
    BY <1>2, <2>1, KnowsItself
<1> HIDE DEF s
<1>7. Sound(n, s, failed)
  BY <1>2, <1>3, <1>4, <1>5, <1>6 DEF Sound
<1> QED
  BY <1>2, <1>7 DEF s

\* The invariant holds after a sound handler.
LEMMA CommitSound ==
  ASSUME IInv, NEW n \in Nodes, NEW s, NEW M, Sound(n, s, failed'), Commit(n, s, M),
         failed \subseteq failed', failed' \in SUBSET Nodes, sent' \in Nat,
         s.err = "none" \/ Repairing(s)
  PROVE  IInv'
<1>1. /\ TypeOK /\ s \in Works
      /\ s.seqno \in Nat /\ s.rt \in [Nodes -> Entries] /\ s.out \in SUBSET Packets
      /\ \A x \in Nodes : node[x] \in NodeStates /\ node[x].seqno \in Nat
                          /\ node[x].rt \in [Nodes -> Entries]
  BY DEF IInv, Sound, Works, TypeOK, NodeStates
<1>2. /\ \A x \in Nodes \ {n} : node'[x] = node[x]
      /\ node'[n].seqno = s.seqno /\ node'[n].rt = s.rt
  BY <1>1 DEF Commit, TypeOK
<1>3. \A m \in msgs' : m \in msgs \/ m \in s.out
  BY DEF Commit
<1>4. TypeOK'
  <2>1. [seqno |-> s.seqno, bid |-> s.bid, rt |-> s.rt, seen |-> s.seen,
         rqueue |-> s.rqueue, lrtimer |-> s.lrtimer] \in NodeStates
    BY <1>1 DEF Works, NodeStates
  <2>2. node' \in [Nodes -> NodeStates]
    BY <1>1, <2>1 DEF Commit, TypeOK
  <2>3. msgs' \in SUBSET Packets
    BY <1>1, <1>3 DEF TypeOK
  <2> QED
    BY <2>2, <2>3 DEF TypeOK
<1>5. \A d \in Nodes : /\ node'[d].seqno = Number(n, s, d)
                       /\ node'[d].seqno \in Nat /\ node[d].seqno <= node'[d].seqno
  BY <1>1, <1>2 DEF Number, Sound
<1>6. ASSUME NEW x \in Nodes, NEW d \in Nodes \ failed', NEW q \in Int, NEW h \in Int,
             Knows(node[x].rt[d], q, h)
      PROVE  Knows(node'[x].rt[d], q, h)
  <2>1. CASE x # n
    BY <1>2, <1>6, <2>1
  <2>2. CASE x = n
    <3>1. node[n].rt[d] \in Entries /\ s.rt[d] \in Entries
      BY <1>1
    <3>2. Knows(s.rt[d], node[n].rt[d].rt_seqno, node[n].rt[d].rt_hops)
      BY DEF Sound
    <3> QED
      BY <1>2, <1>6, <2>2, <3>1, <3>2, KnowsTransitive
  <2> QED
    BY <2>1, <2>2
<1>7. ASSUME NEW x \in Nodes, NEW d \in Nodes \ failed', NEW q \in Int, NEW h \in Int,
             Backed(x, d, q, h)
      PROVE  Backed(x, d, q, h)'
  BY <1>6, <1>7 DEF Backed
<1>8. OwnNumbers'
  BY <1>2 DEF OwnNumbers, IInv, Sound
<1>9. Routes'
  <2> SUFFICES ASSUME NEW x \in Nodes, NEW d \in Nodes
               PROVE  /\ EntryOK(node'[x].rt[d], d, failed')
                      /\ EntryBacked(node[x].rt[d], d, failed)'
                      /\ node'[x].rt[d].rt_flags # "DOWN" =>
                           node'[x].rt[d].rt_seqno <= node'[d].seqno
    BY DEF Routes, EntryOK
  <2> DEFINE e == node'[x].rt[d]
  <2>1. e \in Entries
    BY <1>4 DEF TypeOK, NodeStates
  <2>2. e.rt_nexthop \in Nodes /\ e.rt_seqno \in Int /\ e.rt_hops - 1 \in Int
    BY <2>1 DEF Entries
  <2>3. /\ EntryOK(e, d, failed')
        /\ EntryBacked(e, d, failed')
        /\ e.rt_flags # "DOWN" => e.rt_seqno <= node'[d].seqno
    <3>1. CASE x = n
      <4>1. Fits(n, s, d, s.rt[d], failed') /\ e = s.rt[d]
        BY <1>2, <3>1 DEF Sound
      <4> QED
        BY <1>5, <4>1 DEF Fits
    <3>2. CASE x # n
      <4>1. e = node[x].rt[d]
        BY <1>2, <3>2
      <4>2. /\ EntryOK(e, d, failed)
            /\ EntryBacked(e, d, failed)
            /\ e.rt_flags # "DOWN" => e.rt_seqno <= node[d].seqno
        BY <4>1 DEF IInv, Routes
      <4>3. EntryOK(e, d, failed') /\ EntryBacked(e, d, failed')
        BY <4>2 DEF EntryOK, EntryBacked
      <4> QED
        BY <1>1, <1>5, <2>2, <4>2, <4>3
    <3> QED
      BY <3>1, <3>2
  <2>4. EntryBacked(node[x].rt[d], d, failed)'
    <3>1. /\ e.rt_flags = "UP" /\ d \notin failed'
          => \/ e.rt_nexthop = d
             \/ Knows(node'[e.rt_nexthop].rt[d], e.rt_seqno, e.rt_hops - 1)
      BY <1>6, <2>2, <2>3 DEF EntryBacked, Backed
    <3> QED
      BY <3>1 DEF EntryBacked, Backed, Knows
  <2> QED
    BY <2>3, <2>4
<1>10. Messages'
  <2> SUFFICES ASSUME NEW m \in msgs' PROVE PacketOK(m, failed') /\ PacketBacked(m)'
    BY DEF Messages, PacketOK
  <2>1. m \in Packets
    BY <1>4 DEF TypeOK
  <2>2. m.from \in Nodes
    BY <2>1 DEF Packets, Data, RequestPackets, Replies, RouteErrors
  <2>3. m.type = "RREQ" => m.src \in Nodes /\ m.src_seqno \in Nat /\ m.hops \in Nat
    BY <2>1 DEF Packets, Data, RequestPackets, Replies, RouteErrors
  <2>4. m.type = "RREP" => m.dst \in Nodes /\ m.dst_seqno \in Nat /\ m.hops \in Nat
    BY <2>1 DEF Packets, Data, RequestPackets, Replies, RouteErrors
  <2>5. CASE m \in msgs
    <3>1. PacketOK(m, failed) /\ PacketBacked(m)
      BY <2>5 DEF IInv, Messages
    <3>2. PacketOK(m, failed')
      BY <3>1 DEF PacketOK
    <3>3. m.type = "RREQ" =>
            /\ m.src_seqno <= node'[m.src].seqno
            /\ m.src \notin failed' => Backed(m.from, m.src, m.src_seqno, m.hops - 1)'
      BY <1>1, <1>5, <1>7, <2>2, <2>3, <3>1 DEF PacketBacked
    <3>4. m.type = "RREP" =>
            /\ m.dst_seqno <= node'[m.dst].seqno
            /\ m.dst \notin failed' => Backed(m.from, m.dst, m.dst_seqno, m.hops - 1)'
      BY <1>1, <1>5, <1>7, <2>2, <2>4, <3>1 DEF PacketBacked
    <3> QED
      BY <3>2, <3>3, <3>4 DEF PacketBacked
  <2>6. CASE m \in s.out
    <3>1. MaySend(n, s, m, failed')
      BY <2>6 DEF Sound
    <3>2. PacketOK(m, failed') /\ m.from = n
      BY <3>1 DEF MaySend
    <3>3. m.type = "RREQ" =>
            /\ m.src_seqno <= node'[m.src].seqno
            /\ m.src \notin failed' => Backed(m.from, m.src, m.src_seqno, m.hops - 1)'
      BY <1>2, <1>5, <2>3, <3>1 DEF MaySend, Backed
    <3>4. m.type = "RREP" =>
            /\ m.dst_seqno <= node'[m.dst].seqno
            /\ m.dst \notin failed' => Backed(m.from, m.dst, m.dst_seqno, m.hops - 1)'
      BY <1>2, <1>5, <2>4, <3>1 DEF MaySend, Backed
    <3> QED
      BY <3>2, <3>3, <3>4 DEF PacketBacked
  <2> QED
    BY <1>3, <2>5, <2>6
<1>11. AssertsInRepair'
  <2>1. err' = s.err
    BY DEF Commit
  <2> QED
    BY <1>2, <2>1 DEF AssertsInRepair, InRepair, Repairing
<1> QED
  BY <1>4, <1>8, <1>9, <1>10, <1>11 DEF IInv

-----------------------------------------------------------------------------
(* Sending. *)

LEMMA PutSound ==
  ASSUME NEW n \in Nodes, NEW F, NEW s, Sound(n, s, F), TypeOK,
         NEW P \in SUBSET Packets, \A m \in P : MaySend(n, s, m, F)
  PROVE  Sound(n, [s EXCEPT !.out = @ \cup P], F)
<1> DEFINE t == [s EXCEPT !.out = @ \cup P]
<1>1. s \in Works /\ s.out \in SUBSET Packets /\ s.seqno \in Nat
  BY DEF Sound, Works
<1>2. t \in Works
  BY <1>1 DEF Works
<1>3. t.rt = s.rt /\ t.seqno = s.seqno /\ t.out = s.out \cup P
  BY <1>1 DEF Works
<1> HIDE DEF t
<1>4. \A m \in P : MaySend(n, t, m, F)
  BY <1>3 DEF MaySend, Number
<1>5. \A d \in Nodes : SameRoute(t.rt[d], s.rt[d])
  BY <1>3 DEF SameRoute
<1>6. Given(t.seqno) /\ t.seqno >= s.seqno
  BY <1>1, <1>3 DEF Sound
<1>7. Sound(n, t, F)
  BY <1>2, <1>3, <1>4, <1>5, <1>6, SoundRoutesKept
<1> QED
  BY <1>7 DEF t

LEMMA UnicastSound ==
  ASSUME NEW n \in Nodes, NEW F, NEW s, Sound(n, s, F), TypeOK,
         NEW p \in Packets, MaySend(n, s, p, F)
  PROVE  /\ Sound(n, Unicast(s, p), F)
         /\ Unicast(s, p).rt = s.rt /\ Unicast(s, p).err = s.err
<1>1. Sound(n, [s EXCEPT !.out = @ \cup {p}], F)
  BY PutSound
<1>2. s \in Works
  BY DEF Sound
<1> QED
  BY <1>1, <1>2 DEF Unicast, Works

\* A packet to several nodes.
LEMMA CopiesSound ==
  ASSUME NEW n \in Nodes, NEW F, NEW s, Sound(n, s, F), TypeOK,
         NEW p \in RequestPackets \cup RouteErrors, MaySend(n, s, p, F), NEW D \in SUBSET Nodes
  PROVE  Sound(n, [s EXCEPT !.out = @ \cup {[p EXCEPT !.to = m] : m \in D}], F)
<1> DEFINE P == {[p EXCEPT !.to = m] : m \in D}
<1>1. ASSUME NEW m \in D
      PROVE  [p EXCEPT !.to = m] \in Packets /\ MaySend(n, s, [p EXCEPT !.to = m], F)
  <2>1. m \in Nodes
    OBVIOUS
  <2>2. CASE p \in RequestPackets
    <3> DEFINE q == [p EXCEPT !.to = m]
    <3>1. q \in RequestPackets
      BY <2>1, <2>2 DEF RequestPackets
    <3>2. /\ q.type = "RREQ" /\ p.type = "RREQ" /\ q.from = p.from /\ q.src = p.src
          /\ q.src_seqno = p.src_seqno /\ q.hops = p.hops
      BY <2>1, <2>2 DEF RequestPackets
    <3> HIDE DEF q
    <3>3. MaySend(n, s, q, F)
      BY <3>2 DEF MaySend, PacketOK
    <3> QED
      BY <3>1, <3>3 DEF Packets, q
  <2>3. CASE p \in RouteErrors
    <3> DEFINE q == [p EXCEPT !.to = m]
    <3>1. q \in RouteErrors
      BY <2>1, <2>3 DEF RouteErrors
    <3>2. /\ q.type = "RERR" /\ p.type = "RERR" /\ q.from = p.from
          /\ q.unreachable = p.unreachable
      BY <2>1, <2>3 DEF RouteErrors
    <3> HIDE DEF q
    <3>3. MaySend(n, s, q, F)
      BY <3>2 DEF MaySend, PacketOK
    <3> QED
      BY <3>1, <3>3 DEF Packets, q
  <2> QED
    BY <2>2, <2>3
<1>2. P \in SUBSET Packets /\ \A m \in P : MaySend(n, s, m, F)
  BY <1>1
<1> HIDE DEF P
<1>3. Sound(n, [s EXCEPT !.out = @ \cup P], F)
  BY <1>2, PutSound
<1> QED
  BY <1>3 DEF P

LEMMA ForwardSound ==
  ASSUME NEW n \in Nodes, NEW F, NEW s, Sound(n, s, F), TypeOK,
         NEW d \in Nodes, s.rt[d].rt_flags = "UP", NEW D \in SUBSET Data
  PROVE  /\ Sound(n, ForwardData(s, n, d, D), F)
         /\ ForwardData(s, n, d, D).rt = s.rt
         /\ ForwardData(s, n, d, D).err = s.err
<1> DEFINE e == s.rt[d]
           P == {[p EXCEPT !.from = n, !.to = e.rt_nexthop] : p \in D}
<1>1. s \in Works /\ e.rt_nexthop \in Nodes
  BY DEF Sound, Works, Entries
<1>2. ASSUME NEW p \in D
      PROVE  /\ [p EXCEPT !.from = n, !.to = e.rt_nexthop] \in Packets
             /\ MaySend(n, s, [p EXCEPT !.from = n, !.to = e.rt_nexthop], F)
  <2> DEFINE q == [p EXCEPT !.from = n, !.to = e.rt_nexthop]
  <2>1. p \in Data
    OBVIOUS
  <2>2. q \in Data
    BY <1>1, <2>1 DEF Data
  <2>3. q.type = "DATA" /\ q.from = n
    BY <1>1, <2>1 DEF Data
  <2> HIDE DEF q
  <2>4. MaySend(n, s, q, F)
    BY <2>3 DEF MaySend, PacketOK
  <2> QED
    BY <2>2, <2>4 DEF Packets, q
<1>3. P \in SUBSET Packets /\ \A m \in P : MaySend(n, s, m, F)
  BY <1>2
<1> HIDE DEF P
<1>4. Sound(n, [s EXCEPT !.out = @ \cup P], F)
  BY <1>3, PutSound
<1>5. ForwardData(s, n, d, D) = s \/ ForwardData(s, n, d, D) = [s EXCEPT !.out = @ \cup P]
  BY DEF ForwardData, P
<1> QED
  BY <1>1, <1>4, <1>5 DEF Works

\* The send buffer is no concern of the invariant.
LEMMA BufferSound ==
  ASSUME NEW n \in Nodes, NEW F, NEW s, Sound(n, s, F), TypeOK, NEW Q \in SUBSET Data
  PROVE  /\ Sound(n, [s EXCEPT !.rqueue = Q], F)
         /\ [s EXCEPT !.rqueue = Q].rt = s.rt
         /\ [s EXCEPT !.rqueue = Q].err = s.err
<1> DEFINE t == [s EXCEPT !.rqueue = Q]
<1>1. s \in Works /\ s.seqno \in Nat
  BY DEF Sound, Works
<1>2. /\ t \in Works /\ t.rt = s.rt /\ t.seqno = s.seqno /\ t.out = s.out
      /\ t.err = s.err
  BY <1>1 DEF Works
<1> HIDE DEF t
<1>3. \A d \in Nodes : SameRoute(t.rt[d], s.rt[d])
  BY <1>2 DEF SameRoute
<1>4. Given(t.seqno) /\ t.seqno >= s.seqno
  BY <1>1, <1>2 DEF Sound
<1>5. Sound(n, t, F)
  BY <1>2, <1>3, <1>4, SoundRoutesKept
<1> QED
  BY <1>2, <1>5 DEF t

LEMMA FlushSound ==
  ASSUME NEW n \in Nodes, NEW F, NEW s, Sound(n, s, F), TypeOK,
         NEW d \in Nodes, s.rt[d].rt_flags = "UP"
  PROVE  /\ Sound(n, Flush(s, n, d), F)
         /\ Flush(s, n, d).rt = s.rt
         /\ Flush(s, n, d).err = s.err
<1> DEFINE D == Buffered(s, d)
           Q == s.rqueue \ D
           t == [s EXCEPT !.rqueue = Q]
<1>1. D \in SUBSET Data /\ Q \in SUBSET Data
  BY DEF Sound, Works, Buffered
<1>2. Sound(n, t, F) /\ t.rt = s.rt /\ t.err = s.err
  <2> HIDE DEF D, Q
  <2> QED
    BY <1>1, BufferSound
<1>3. Flush(s, n, d) = ForwardData(t, n, d, D)
  BY DEF Flush
<1> HIDE DEF D, t
<1> QED
  BY <1>1, <1>2, <1>3, ForwardSound

LEMMA ErrorSound ==
  ASSUME NEW n \in Nodes, NEW F, NEW s, Sound(n, s, F), TypeOK,
         NEW U \in SUBSET (Nodes \X Nat), \A u, v \in U : u[1] = v[1] => u = v,
         \A u \in U : u[1] \notin F => u[2] = 0 \/ Odd(u[2])
  PROVE  /\ Sound(n, sendError(s, n, U), F)
         /\ sendError(s, n, U).rt = s.rt
         /\ sendError(s, n, U).err = s.err
<1> DEFINE p == [type |-> "RERR", from |-> n, to |-> n, unreachable |-> U]
           P == {[p EXCEPT !.to = m] : m \in Nbrs(n)}
<1>1. p \in RouteErrors
  BY DEF RouteErrors
<1>2. MaySend(n, s, p, F)
  BY DEF MaySend, PacketOK
<1>3. Nbrs(n) \in SUBSET Nodes
  BY DEF Nbrs
<1>4. s \in Works
  BY DEF Sound
<1>5. sendError(s, n, U) = s \/ sendError(s, n, U) = [s EXCEPT !.out = @ \cup P]
  BY DEF sendError, Broadcast
<1> HIDE DEF p
<1>6. Sound(n, [s EXCEPT !.out = @ \cup P], F)
  BY <1>1, <1>2, <1>3, CopiesSound
<1> HIDE DEF P
<1> QED
  BY <1>4, <1>5, <1>6 DEF Works

\* A request changes how its entry will ask again, not the route.
LEMMA SendRequestSound ==
  ASSUME NEW n \in Nodes, NEW F, NEW s, Sound(n, s, F), TypeOK, NEW d \in Nodes,
         NEW due \in BOOLEAN
  PROVE  /\ Sound(n, sendRequest(s, n, d, due), F)
         /\ \A x \in Nodes : SameRoute(sendRequest(s, n, d, due).rt[x], s.rt[x])
         /\ sendRequest(s, n, d, due).err = s.err
<1> DEFINE e == s.rt[d]
           last == Max({e.rt_req_last_ttl, e.rt_last_hop_count})
           wide == last >= TTL_THRESHOLD
           ttl == IF last = 0 THEN TTL_START
                  ELSE IF wide THEN NETWORK_DIAMETER ELSE last + TTL_INCREMENT
           more == IF wide THEN 1 ELSE 0
           r == sendRequest(s, n, d, due)
           gaveUp == [s EXCEPT !.rt[d].asked = TRUE, !.rt[d].rt_req_cnt = 0,
                               !.rqueue = @ \ Buffered(s, d)]
           asks == [s EXCEPT !.rt[d].asked = TRUE, !.rt[d].rt_req_last_ttl = ttl,
                             !.rt[d].rt_req_cnt = @ + more,
                             !.bid = @ + 1, !.seqno = @ + 2]
           p == [type |-> "RREQ", from |-> n, to |-> n, ttl |-> ttl, hops |-> 1,
                 src |-> n, src_seqno |-> s.seqno + 2, bid |-> s.bid,
                 dst |-> d, dst_seqno |-> e.rt_seqno]
           D == {x \in Nbrs(n) \ {p.src} : <<p.src, p.bid>> \notin node[x].seen}
<1>1. /\ s \in Works /\ e \in Entries /\ s.rt \in [Nodes -> Entries]
      /\ s.seqno \in Nat /\ s.bid \in Nat /\ s.rqueue \in SUBSET Data
  BY DEF Sound, Works
<1>2. ttl \in Nat /\ more \in Nat
  <2>1. e.rt_req_last_ttl \in Nat /\ e.rt_last_hop_count \in Nat
    BY <1>1 DEF Entries
  <2>2. last \in Nat
    BY <2>1, MaxOfNats
  <2> QED
    BY <2>2, TtlAssumption
<1>3. r = s \/ r = gaveUp \/ r = BroadcastRequest(asks, n, p)
  BY DEF sendRequest
<1>4. CASE r = s
  BY <1>1, <1>4 DEF SameRoute
<1>5. CASE r = gaveUp
  <2> DEFINE f == [e EXCEPT !.asked = TRUE, !.rt_req_cnt = 0]
  <2>1. f \in Entries /\ SameRoute(f, e)
    BY <1>1 DEF Entries, SameRoute
  <2>2. /\ gaveUp.rt = [s.rt EXCEPT ![d] = f]
        /\ gaveUp.seqno = s.seqno /\ gaveUp.out = s.out /\ gaveUp.err = s.err
    BY <1>1 DEF Works, Entries
  <2>3. gaveUp \in Works
    BY <1>1, <2>1 DEF Works, Entries
  <2> HIDE DEF gaveUp, f
  <2>4. \A x \in Nodes : SameRoute(gaveUp.rt[x], s.rt[x])
    BY <1>1, <2>1, <2>2 DEF SameRoute
  <2>5. Given(gaveUp.seqno) /\ gaveUp.seqno >= s.seqno
    BY <1>1, <2>2 DEF Sound
  <2>6. Sound(n, gaveUp, F)
    BY <2>2, <2>3, <2>4, <2>5, SoundRoutesKept
  <2> QED
    BY <1>5, <2>2, <2>4, <2>6
<1>6. CASE r = BroadcastRequest(asks, n, p)
  <2> DEFINE f == [e EXCEPT !.asked = TRUE, !.rt_req_last_ttl = ttl,
                            !.rt_req_cnt = @ + more]
  <2> HIDE DEF ttl, more
  <2>1. f \in Entries /\ SameRoute(f, e)
    <3> HIDE DEF e
    <3>1. e.rt_req_cnt + more \in Nat
      BY <1>1, <1>2 DEF Entries
    <3> QED
      BY <1>1, <1>2, <3>1 DEF Entries, SameRoute
  <2>2. /\ asks.rt = [s.rt EXCEPT ![d] = f]
        /\ asks.seqno = s.seqno + 2 /\ asks.out = s.out /\ asks.err = s.err
    BY <1>1 DEF Works, Entries
  <2>3. asks \in Works
    <3> DEFINE R == [s.rt EXCEPT ![d] = f]
               b == s.bid + 1
               q == s.seqno + 2
    <3>1. R \in [Nodes -> Entries] /\ b \in Nat /\ q \in Nat
      BY <1>1, <2>1
    <3>2. asks = [s EXCEPT !.rt = R, !.bid = b, !.seqno = q]
      <4>1. asks.rt = R
        BY <2>2
      <4>2. asks = [s EXCEPT !.rt = asks.rt, !.bid = b, !.seqno = q]
        BY <1>1 DEF Works
      <4> QED
        BY <4>1, <4>2
    <3> HIDE DEF asks, p, D, f, R, b, q
    <3> QED
      BY <1>1, <3>1, <3>2 DEF Works
  <2>4. r = [asks EXCEPT !.out = @ \cup {[p EXCEPT !.to = m] : m \in D}]
    BY <1>6 DEF BroadcastRequest
  <2>5. p \in RequestPackets
    BY <1>1, <1>2 DEF RequestPackets, Entries
  <2>6. p.type = "RREQ" /\ p.from = n /\ p.src = n /\ p.src_seqno = s.seqno + 2
    OBVIOUS
  <2>7. D \in SUBSET Nodes
    BY DEF Nbrs
  <2> HIDE DEF asks, f, p, D
  <2>8. \A x \in Nodes : SameRoute(asks.rt[x], s.rt[x])
    BY <1>1, <2>1, <2>2 DEF SameRoute
  <2>9. Given(asks.seqno) /\ asks.seqno >= s.seqno
    BY <1>1, <2>2, EvenFacts DEF Sound, Given
  <2>10. Sound(n, asks, F)
    BY <2>2, <2>3, <2>8, <2>9, SoundRoutesKept
  <2>11. MaySend(n, asks, p, F)
    BY <1>1, <2>2, <2>6, <2>9 DEF MaySend, PacketOK, Number
  <2>12. Sound(n, r, F)
    BY <2>4, <2>5, <2>7, <2>10, <2>11, CopiesSound
  <2>13. r.rt = asks.rt /\ r.err = asks.err
    BY <2>3, <2>4 DEF Works
  <2> QED
    BY <2>2, <2>8, <2>12, <2>13
<1> QED
  BY <1>3, <1>4, <1>5, <1>6

-----------------------------------------------------------------------------
(* Data. *)

LEMMA ResolveSound ==
  ASSUME NEW n \in Nodes, NEW F, NEW s, Sound(n, s, F), TypeOK, NEW p \in Data,
         NEW due \in BOOLEAN
  PROVE  /\ Sound(n, rt_resolve(s, n, p, due), F)
         /\ rt_resolve(s, n, p, due).err = s.err
<1> DEFINE e == s.rt[p.dst]
           Q == s.rqueue \cup {p}
           buffered == [s EXCEPT !.rqueue = Q]
           r == rt_resolve(s, n, p, due)
<1>1. /\ p.dst \in Nodes /\ s.rqueue \in SUBSET Data /\ s.rt \in [Nodes -> Entries]
      /\ e \in Entries
  BY DEF Data, Sound, Works
<1>2. /\ e.rt_flags = "UP" => r = ForwardData(s, n, p.dst, {p})
      /\ e.rt_flags # "UP" =>
           \/ r = sendRequest(buffered, n, p.dst, due)
           \/ r = buffered
           \/ e.rt_flags # "IN_REPAIR" /\ r = sendError(s, n, {<<p.dst, e.rt_seqno>>})
  BY DEF rt_resolve
<1>3. Sound(n, buffered, F) /\ buffered.err = s.err
  <2>1. Q \in SUBSET Data
    BY <1>1
  <2> HIDE DEF Q
  <2> QED
    BY <2>1, BufferSound
<1> HIDE DEF buffered
<1>4. CASE e.rt_flags = "UP"
  <2>1. {p} \in SUBSET Data
    OBVIOUS
  <2> QED
    BY <1>1, <1>2, <1>4, <2>1, ForwardSound
<1>5. CASE r = sendRequest(buffered, n, p.dst, due)
  BY <1>1, <1>3, <1>5, SendRequestSound
<1>6. CASE r = buffered
  BY <1>3, <1>6
<1>7. CASE e.rt_flags \notin {"UP", "IN_REPAIR"} /\ r = sendError(s, n, {<<p.dst, e.rt_seqno>>})
  <2> DEFINE U == {<<p.dst, e.rt_seqno>>}
  <2>1. e.rt_flags = "DOWN" /\ e.rt_seqno \in Nat
    BY <1>1, <1>7 DEF Entries, Flags
  <2>2. EntryOK(e, p.dst, F)
    BY <1>1 DEF Sound, Fits
  <2>3. p.dst \notin F => e.rt_seqno = 0 \/ Odd(e.rt_seqno)
    BY <2>1, <2>2 DEF EntryOK
  <2>4. U \in SUBSET (Nodes \X Nat) /\ \A u \in U : u[1] = p.dst /\ u[2] = e.rt_seqno
    BY <1>1, <2>1
  <2>5. \A u, v \in U : u = v
    OBVIOUS
  <2> HIDE DEF U, e
  <2>6. Sound(n, sendError(s, n, U), F) /\ sendError(s, n, U).err = s.err
    BY <2>3, <2>4, <2>5, ErrorSound
  <2> QED
    BY <1>7, <2>6 DEF U
<1> QED
  BY <1>2, <1>4, <1>5, <1>6, <1>7

LEMMA DataSound ==
  ASSUME NEW n \in Nodes, NEW F, NEW s, Sound(n, s, F), TypeOK, NEW m \in Data,
         NEW due \in BOOLEAN
  PROVE  /\ Sound(n, recvData(s, n, m, due), F)
         /\ recvData(s, n, m, due).err = s.err
<1> DEFINE p == [m EXCEPT !.num_forwards = @ + 1]
<1>1. recvData(s, n, m, due) = s \/
        /\ p.num_forwards < NETWORK_DIAMETER
        /\ recvData(s, n, m, due) = rt_resolve(s, n, p, due)
  BY TtlAssumption DEF recvData, Data
<1>2. p.num_forwards < NETWORK_DIAMETER => p \in Data
  BY TtlAssumption DEF Data
<1> HIDE DEF p
<1> QED
  BY <1>1, <1>2, ResolveSound

-----------------------------------------------------------------------------
(* Requests, replies and errors. *)

\* A route is replaced by a better one that its next hop backs.
LEMMA UpdateSound ==
  ASSUME NEW n \in Nodes, NEW F, NEW s, Sound(n, s, F), TypeOK,
         NEW d \in Nodes, NEW e \in Entries, e.rt_flags = "UP", Given(e.rt_seqno),
         e.rt_seqno <= Number(n, s, d), EntryBacked(e, d, F),
         Better(s.rt[d], e.rt_seqno, e.rt_hops)
  PROVE  /\ Sound(n, [s EXCEPT !.rt[d] = e], F)
         /\ [s EXCEPT !.rt[d] = e].rt = [s.rt EXCEPT ![d] = e]
         /\ [s EXCEPT !.rt[d] = e].err = s.err
<1> DEFINE t == [s EXCEPT !.rt[d] = e]
<1>1. /\ s \in Works /\ s.rt \in [Nodes -> Entries] /\ s.seqno \in Nat
  BY DEF Sound, Works
<1>2. /\ t \in Works /\ t.rt = [s.rt EXCEPT ![d] = e] /\ t.seqno = s.seqno
      /\ t.out = s.out /\ t.err = s.err
  BY <1>1 DEF Works
<1> HIDE DEF t
<1>3. ASSUME NEW x \in Nodes
      PROVE  /\ Fits(n, t, x, t.rt[x], F)
             /\ Knows(t.rt[x], s.rt[x].rt_seqno, s.rt[x].rt_hops)
  <2>1. CASE x # d
    <3>1. t.rt[x] = s.rt[x] /\ s.rt[x] \in Entries
      BY <1>1, <1>2, <2>1
    <3>2. Fits(n, s, x, s.rt[x], F)
      BY DEF Sound
    <3> QED
      BY <1>2, <3>1, <3>2, KnowsItself DEF Fits, Number
  <2>2. CASE x = d
    <3>1. t.rt[d] = e /\ s.rt[d] \in Entries
      BY <1>1, <1>2
    <3>2. Fits(n, t, d, e, F)
      BY <1>2 DEF Fits, EntryOK, Number
    <3>3. Knows(e, s.rt[d].rt_seqno, s.rt[d].rt_hops)
      BY <3>1 DEF Knows, Better, Entries
    <3> QED
      BY <2>2, <3>1, <3>2, <3>3
  <2> QED
    BY <2>1, <2>2
<1>4. Given(t.seqno) /\ t.seqno >= s.seqno
  BY <1>1, <1>2 DEF Sound
<1>5. Sound(n, t, F)
  BY <1>2, <1>3, <1>4, SoundStep
<1> QED
  BY <1>2, <1>5 DEF t

\* After recvRequest has looked at the reverse route it knows what the request
\* says of its origin, or more.
LEMMA ReverseSound ==
  ASSUME NEW n \in Nodes, NEW s, Sound(n, s, failed), TypeOK, NEW m \in RequestPackets,
         PacketOK(m, failed), PacketBacked(m), m.src # n
  PROVE  /\ Sound(n, ReverseRoute(s, n, m), failed)
         /\ ReverseRoute(s, n, m).err = s.err
         /\ Knows(ReverseRoute(s, n, m).rt[m.src], m.src_seqno, m.hops)
<1> DEFINE e == s.rt[m.src]
           up == rt_update(e, m.src_seqno, m.hops, m.from)
           heard == [s EXCEPT !.seen = @ \cup {<<m.src, m.bid>>}]
           f == IF e.asked THEN ResetRequest(up, m.hops) ELSE up
           t == [heard EXCEPT !.rt[m.src] = f]
<1>1. /\ m.type = "RREQ" /\ m.src \in Nodes /\ m.src_seqno \in Nat /\ m.hops \in Nat
      /\ m.from \in Nodes /\ m.bid \in Nat
  BY DEF RequestPackets
<1>2. /\ s \in Works /\ s.seqno \in Nat /\ s.rt \in [Nodes -> Entries] /\ e \in Entries
  BY <1>1 DEF Sound, Works
<1>3. /\ heard \in Works /\ heard.rt = s.rt /\ heard.seqno = s.seqno
      /\ heard.out = s.out /\ heard.err = s.err
  BY <1>1, <1>2 DEF Works
<1>4. Sound(n, heard, failed)
  <2> HIDE DEF heard
  <2>1. \A d \in Nodes : SameRoute(heard.rt[d], s.rt[d])
    BY <1>3 DEF SameRoute
  <2>2. Given(heard.seqno) /\ heard.seqno >= s.seqno
    BY <1>2, <1>3 DEF Sound
  <2> QED
    BY <1>3, <2>1, <2>2, SoundRoutesKept
<1>5. CASE Better(e, m.src_seqno, m.hops)
  <2>1. ReverseRoute(s, n, m) = Flush(t, n, m.src)
    BY <1>5 DEF ReverseRoute
  <2> HIDE DEF heard
  <2>2. /\ f \in Entries /\ f.rt_seqno = m.src_seqno /\ f.rt_hops = m.hops
        /\ f.rt_flags = "UP" /\ f.rt_nexthop = m.from
    <3> HIDE DEF e
    <3>1. up \in Entries
      BY <1>1, <1>2 DEF rt_update, Entries, Flags
    <3> QED
      BY <1>1, <1>2, <3>1 DEF rt_update, ResetRequest, Entries
  <2> HIDE DEF f
  <2>3. Given(f.rt_seqno) /\ EntryBacked(f, m.src, failed)
    BY <1>1, <2>2 DEF PacketOK, PacketBacked, EntryBacked
  <2>4. f.rt_seqno <= Number(n, heard, m.src)
    BY <1>1, <2>2 DEF Number, PacketBacked
  <2>5. Better(heard.rt[m.src], f.rt_seqno, f.rt_hops)
    BY <1>3, <1>5, <2>2
  <2>6. Sound(n, t, failed) /\ t.rt = [heard.rt EXCEPT ![m.src] = f] /\ t.err = heard.err
    BY <1>1, <1>4, <2>2, <2>3, <2>4, <2>5, UpdateSound
  <2>7. t.rt[m.src] = f /\ t.rt[m.src].rt_flags = "UP"
    BY <2>2, <1>1, <1>2, <1>3, <2>6
  <2> HIDE DEF t
  <2>8. Sound(n, Flush(t, n, m.src), failed) /\ Flush(t, n, m.src).rt = t.rt
        /\ Flush(t, n, m.src).err = t.err
    <3>1. ASSUME NEW w, NEW d \in Nodes, Sound(n, w, failed), w.rt[d].rt_flags = "UP"
          PROVE  /\ Sound(n, Flush(w, n, d), failed)
                 /\ Flush(w, n, d).rt = w.rt
                 /\ Flush(w, n, d).err = w.err
      BY <3>1, FlushSound
    <3>2. Sound(n, t, failed) /\ t.rt[m.src].rt_flags = "UP"
      BY <2>6, <2>7
    <3> QED
      BY <1>1, <3>1, <3>2
  <2>9. Knows(f, m.src_seqno, m.hops)
    BY <2>2, KnowsItself
  <2> QED
    BY <1>3, <2>1, <2>6, <2>7, <2>8, <2>9
<1>6. CASE ~Better(e, m.src_seqno, m.hops)
  <2>1. ReverseRoute(s, n, m) = heard
    BY <1>6 DEF ReverseRoute
  <2>2. Knows(e, m.src_seqno, m.hops)
    <3> HIDE DEF e
    <3> QED
      BY <1>1, <1>2, <1>6 DEF Knows, Better, Entries
  <2> HIDE DEF heard
  <2> QED
    BY <1>3, <1>4, <2>1, <2>2
<1> QED
  BY <1>5, <1>6

\* A node may tell what it knows of the way to d.
LEMMA ReplySound ==
  ASSUME NEW n \in Nodes, NEW F, NEW s, Sound(n, s, F), TypeOK,
         NEW ipdst \in Nodes, NEW hops \in Nat, NEW dst \in Nodes, NEW seqno \in Nat,
         Given(seqno), seqno <= Number(n, s, dst),
         n = dst \/ Knows(s.rt[dst], seqno, hops - 1)
  PROVE  /\ Sound(n, sendReply(s, n, ipdst, hops, dst, seqno), F)
         /\ sendReply(s, n, ipdst, hops, dst, seqno).err = s.err
<1> DEFINE p == [type |-> "RREP", from |-> n, to |-> s.rt[ipdst].rt_nexthop,
                 ipdst |-> ipdst, dst |-> dst, dst_seqno |-> seqno, hops |-> hops]
<1>1. s.rt[ipdst].rt_nexthop \in Nodes
  BY DEF Sound, Works, Entries
<1>2. p \in Packets
  BY <1>1 DEF Packets, Replies
<1>3. MaySend(n, s, p, F)
  BY DEF MaySend, PacketOK
<1>4. sendReply(s, n, ipdst, hops, dst, seqno) = Unicast(s, p)
  BY DEF sendReply
<1> HIDE DEF p
<1> QED
  BY <1>2, <1>3, <1>4, UnicastSound

LEMMA PclistKept ==
  ASSUME NEW R \in [Nodes -> Entries], NEW x \in Nodes, NEW a \in Nodes
  PROVE  /\ [R EXCEPT ![x].rt_pclist = @ \cup {a}] \in [Nodes -> Entries]
         /\ \A d \in Nodes : SameRoute([R EXCEPT ![x].rt_pclist = @ \cup {a}][d], R[d])
  BY DEF Entries, SameRoute

LEMMA RequestSound ==
  ASSUME NEW n \in Nodes, NEW s0, Sound(n, s0, failed), TypeOK, NEW m \in RequestPackets,
         PacketOK(m, failed), PacketBacked(m)
  PROVE  /\ Sound(n, recvRequest(s0, n, m), failed)
         /\ recvRequest(s0, n, m).err = s0.err
<1> DEFINE s == ReverseRoute(s0, n, m)
           e == s.rt[m.dst]
           seqno == ReplySeqno(s, m)
           r == recvRequest(s0, n, m)
           renewed == [s EXCEPT !.seqno = seqno]
           known == [s EXCEPT !.rt[m.dst].rt_pclist = @ \cup {s.rt[m.src].rt_nexthop},
                              !.rt[m.src].rt_pclist = @ \cup {e.rt_nexthop}]
           further == [m EXCEPT !.from = n, !.hops = @ + 1, !.ttl = @ - 1,
                                !.dst_seqno = Max({@, e.rt_seqno})]
<1>1. /\ m.type = "RREQ" /\ m.src \in Nodes /\ m.src_seqno \in Nat /\ m.hops \in Nat
      /\ m.from \in Nodes /\ m.dst \in Nodes /\ m.dst_seqno \in Nat
  BY DEF RequestPackets
<1>2. CASE m.src = n \/ <<m.src, m.bid>> \in s0.seen
  BY <1>2 DEF recvRequest
<1>3. CASE ~(m.src = n \/ <<m.src, m.bid>> \in s0.seen)
  <2>1. \/ m.dst = n /\ r = sendReply(renewed, n, m.src, 1, n, seqno)
        \/ FreshEnough(e, m) /\ r = sendReply(known, n, m.src, e.rt_hops + 1, m.dst, e.rt_seqno)
        \/ r = s
        \/ r = BroadcastRequest(s, n, further)
    BY <1>3 DEF recvRequest
  <2>2. Sound(n, s, failed) /\ s.err = s0.err /\ Knows(s.rt[m.src], m.src_seqno, m.hops)
    BY <1>1, <1>3, ReverseSound
  <2> HIDE DEF s
  <2>3. /\ s \in Works /\ s.seqno \in Nat /\ s.rt \in [Nodes -> Entries]
        /\ e \in Entries /\ s.rt[m.src] \in Entries
    BY <1>1, <2>2 DEF Sound, Works
  <2>4. CASE m.dst = n /\ r = sendReply(renewed, n, m.src, 1, n, seqno)
    <3>1. Max({s.seqno, m.dst_seqno}) \in Nat /\ Max({s.seqno, m.dst_seqno}) >= s.seqno
      BY <1>1, <2>3, MaxOfNats
    <3>2. /\ seqno \in Nat /\ seqno >= s.seqno /\ Given(seqno)
      <4> DEFINE k == Max({s.seqno, m.dst_seqno}) + 1
      <4>1. seqno = NextEven(k)
        BY DEF ReplySeqno
      <4>2. k \in Nat /\ k > s.seqno
        BY <2>3, <3>1
      <4> HIDE DEF k, seqno
      <4>3. seqno \in Nat /\ seqno >= k /\ Even(seqno)
        BY <4>1, <4>2, EvenFacts
      <4> QED
        BY <2>3, <4>2, <4>3 DEF Given
    <3> HIDE DEF seqno
    <3>3. /\ renewed \in Works /\ renewed.seqno = seqno /\ renewed.rt = s.rt
          /\ renewed.out = s.out /\ renewed.err = s.err
      BY <2>3, <3>2 DEF Works
    <3> HIDE DEF renewed
    <3>4. \A d \in Nodes : SameRoute(renewed.rt[d], s.rt[d])
      BY <3>3 DEF SameRoute
    <3>5. Sound(n, renewed, failed)
      BY <2>2, <3>2, <3>3, <3>4, SoundRoutesKept
    <3>6. seqno <= Number(n, renewed, n)
      BY <3>2, <3>3 DEF Number
    <3> QED
      BY <1>1, <2>2, <2>4, <3>2, <3>3, <3>5, <3>6, ReplySound
  <2>5. CASE FreshEnough(e, m) /\ r = sendReply(known, n, m.src, e.rt_hops + 1, m.dst, e.rt_seqno)
    <3>1. e.rt_nexthop \in Nodes /\ s.rt[m.src].rt_nexthop \in Nodes
          /\ e.rt_hops \in Nat /\ e.rt_seqno \in Nat
      BY <2>3 DEF Entries
    <3>2. /\ known \in Works /\ known.seqno = s.seqno /\ known.out = s.out
          /\ known.err = s.err /\ \A d \in Nodes : SameRoute(known.rt[d], s.rt[d])
      <4> DEFINE a == s.rt[m.src].rt_nexthop
                 b == e.rt_nexthop
                 R == [s.rt EXCEPT ![m.dst].rt_pclist = @ \cup {a},
                                   ![m.src].rt_pclist = @ \cup {b}]
      <4>1. a \in Nodes /\ b \in Nodes
        BY <3>1
      <4>2. known = [s EXCEPT !.rt = R]
        BY <2>3 DEF Works
      <4> HIDE DEF a, b
      <4> DEFINE R1 == [s.rt EXCEPT ![m.dst].rt_pclist = @ \cup {a}]
      <4>3. R1 \in [Nodes -> Entries] /\ \A d \in Nodes : SameRoute(R1[d], s.rt[d])
        BY <1>1, <2>3, <4>1, PclistKept
      <4>4. R = [R1 EXCEPT ![m.src].rt_pclist = @ \cup {b}]
        OBVIOUS
      <4> HIDE DEF R1, R
      <4>5. R \in [Nodes -> Entries] /\ \A d \in Nodes : SameRoute(R[d], R1[d])
        BY <1>1, <4>1, <4>3, <4>4, PclistKept
      <4>6. \A d \in Nodes : SameRoute(R[d], s.rt[d])
        BY <4>3, <4>5 DEF SameRoute
      <4> HIDE DEF known
      <4> QED
        BY <2>3, <4>2, <4>5, <4>6 DEF Works
    <3> HIDE DEF known
    <3>3. Sound(n, known, failed)
      <4>1. Given(known.seqno) /\ known.seqno >= s.seqno
        BY <2>2, <2>3, <3>2 DEF Sound
      <4> QED
        BY <2>2, <3>2, <4>1, SoundRoutesKept
    <3>4. SameRoute(known.rt[m.dst], e) /\ Fits(n, known, m.dst, known.rt[m.dst], failed)
      BY <1>1, <3>2, <3>3 DEF Sound
    <3>5. known.rt[m.dst].rt_flags # "DOWN"
      BY <2>5, <3>4 DEF FreshEnough, SameRoute, Fits, EntryOK
    <3>6. Given(e.rt_seqno) /\ e.rt_seqno <= Number(n, known, m.dst)
      BY <3>4, <3>5 DEF Fits, EntryOK, SameRoute
    <3>7. Knows(known.rt[m.dst], e.rt_seqno, (e.rt_hops + 1) - 1)
      BY <3>1, <3>4 DEF SameRoute, Knows
    <3>8. e.rt_hops + 1 \in Nat
      BY <3>1
    <3> HIDE DEF e
    <3> QED
      BY <1>1, <2>2, <2>5, <3>1, <3>2, <3>3, <3>6, <3>7, <3>8, ReplySound
  <2>6. CASE r = s
    BY <2>2, <2>6
  <2>7. CASE r = BroadcastRequest(s, n, further)
    <3> DEFINE D == {x \in Nbrs(n) \ {further.src} :
                       <<further.src, further.bid>> \notin node[x].seen}
               k == Max({m.dst_seqno, e.rt_seqno})
    <3>1. r = [s EXCEPT !.out = @ \cup {[further EXCEPT !.to = x] : x \in D}]
      BY <2>7 DEF BroadcastRequest
    <3>2. D \in SUBSET Nodes
      BY DEF Nbrs
    <3>3. k \in Nat
      <4>1. e.rt_seqno \in Nat
        BY <2>3 DEF Entries
      <4> QED
        BY <1>1, <4>1, MaxOfNats
    <3> DEFINE h == m.hops + 1
               l == m.ttl - 1
    <3>4. /\ further = [m EXCEPT !.from = n, !.hops = h, !.ttl = l, !.dst_seqno = k]
          /\ h \in Nat /\ l \in Int
      BY DEF RequestPackets
    <3> HIDE DEF k, further, D, h, l
    <3>5. /\ further \in RequestPackets
          /\ further.type = "RREQ" /\ further.from = n /\ further.src = m.src
          /\ further.src_seqno = m.src_seqno /\ further.hops = h
      BY <3>3, <3>4 DEF RequestPackets
    <3>6. h - 1 = m.hops
      BY <1>1 DEF h
    <3>7. m.src_seqno <= Number(n, s, m.src) /\ Given(m.src_seqno)
      BY <1>1, <1>3 DEF Number, PacketBacked, PacketOK
    <3>8. MaySend(n, s, further, failed)
      BY <2>2, <3>5, <3>6, <3>7 DEF MaySend, PacketOK
    <3>9. Sound(n, r, failed)
      BY <2>2, <3>1, <3>2, <3>5, <3>8, CopiesSound
    <3> QED
      BY <2>2, <2>3, <3>1, <3>9 DEF Works
  <2> QED
    BY <2>1, <2>4, <2>5, <2>6, <2>7
<1> QED
  BY <1>2, <1>3

LEMMA RecvReplySound ==
  ASSUME NEW n \in Nodes, NEW s0, Sound(n, s0, failed), TypeOK, NEW m \in Replies,
         PacketOK(m, failed), PacketBacked(m), s0.err = "none"
  PROVE  /\ Sound(n, recvReply(s0, n, m), failed)
         /\ recvReply(s0, n, m).err = "none" \/ Repairing(recvReply(s0, n, m))
<1> DEFINE e == s0.rt[m.dst]
           f == ResetRequest(rt_update(e, m.dst_seqno, m.hops, m.from), m.hops)
           t == [s0 EXCEPT !.rt[m.dst] = f]
           s == Flush(t, n, m.dst)
           back == s.rt[m.ipdst]
           noted == [s EXCEPT !.rt[m.dst].rt_pclist = @ \cup {back.rt_nexthop}]
           p == [m EXCEPT !.from = n, !.to = back.rt_nexthop, !.hops = @ + 1]
           r == recvReply(s0, n, m)
<1>1. /\ m.type = "RREP" /\ m.dst \in Nodes /\ m.dst_seqno \in Nat /\ m.hops \in Nat
      /\ m.from \in Nodes /\ m.ipdst \in Nodes
  BY DEF Replies
<1>2. /\ s0 \in Works /\ s0.seqno \in Nat /\ s0.rt \in [Nodes -> Entries] /\ e \in Entries
  BY <1>1 DEF Sound, Works
<1>3. CASE ~Better(e, m.dst_seqno, m.hops)
  BY <1>3 DEF recvReply
<1>4. CASE Better(e, m.dst_seqno, m.hops)
  <2>1. \/ r = s
        \/ /\ back.rt_hops # INFINITY2
           /\ \/ back.rt_flags # "UP" /\ r = Fail(s, "recvReply: rt_flags == RTF_UP")
              \/ r = Unicast(noted, p)
    BY <1>4 DEF recvReply
  <2>2. /\ f \in Entries /\ f.rt_seqno = m.dst_seqno /\ f.rt_hops = m.hops
        /\ f.rt_flags = "UP" /\ f.rt_nexthop = m.from
    <3> HIDE DEF e
    <3> QED
      BY <1>1, <1>2 DEF rt_update, ResetRequest, Entries, Flags
  <2> HIDE DEF f
  <2>3. Given(f.rt_seqno) /\ EntryBacked(f, m.dst, failed)
    BY <1>1, <2>2 DEF PacketOK, PacketBacked, EntryBacked
  <2>4. m.dst_seqno <= Number(n, s0, m.dst)
    <3>1. m.dst_seqno <= node[m.dst].seqno /\ node[m.dst].seqno \in Nat
      BY <1>1 DEF PacketBacked, TypeOK, NodeStates
    <3>2. node[n].seqno <= s0.seqno
      BY <1>2 DEF Sound, TypeOK, NodeStates
    <3> QED
      BY <1>1, <1>2, <3>1, <3>2 DEF Number
  <2>5. Better(s0.rt[m.dst], f.rt_seqno, f.rt_hops) /\ f.rt_seqno <= Number(n, s0, m.dst)
    BY <1>4, <2>2, <2>4
  <2>6. Sound(n, t, failed) /\ t.rt = [s0.rt EXCEPT ![m.dst] = f] /\ t.err = s0.err
    BY <1>1, <2>2, <2>3, <2>5, UpdateSound
  <2>7. Sound(n, t, failed) /\ t.rt[m.dst] = f /\ t.rt[m.dst].rt_flags = "UP"
    BY <1>1, <1>2, <2>2, <2>6
  <2> HIDE DEF t
  <2>8. Sound(n, s, failed) /\ s.rt = t.rt /\ s.err = t.err
    <3>1. ASSUME NEW w, NEW d \in Nodes, Sound(n, w, failed), w.rt[d].rt_flags = "UP"
          PROVE  /\ Sound(n, Flush(w, n, d), failed)
                 /\ Flush(w, n, d).rt = w.rt
                 /\ Flush(w, n, d).err = w.err
      BY <3>1, FlushSound
    <3> QED
      BY <1>1, <2>7, <3>1
  <2> HIDE DEF s
  <2>9. /\ s \in Works /\ s.seqno \in Nat /\ s.rt \in [Nodes -> Entries] /\ back \in Entries
    BY <1>1, <2>8 DEF Sound, Works
  <2>10. CASE r = s
    BY <2>6, <2>8, <2>10
  <2>11. CASE /\ back.rt_hops # INFINITY2 /\ back.rt_flags # "UP"
              /\ r = Fail(s, "recvReply: rt_flags == RTF_UP")
    <3>1. Fits(n, s, m.ipdst, back, failed)
      BY <1>1, <2>8 DEF Sound
    <3>2. back.rt_flags = "IN_REPAIR"
      BY <2>9, <2>11, <3>1 DEF Fits, EntryOK, Entries, Flags
    <3>3. r \in Works /\ r.rt = s.rt /\ r.seqno = s.seqno /\ r.out = s.out
      BY <2>9, <2>11 DEF Fail, Works, Failures
    <3> HIDE DEF r
    <3>4. \A d \in Nodes : SameRoute(r.rt[d], s.rt[d])
      BY <3>3 DEF SameRoute
    <3>5. Given(r.seqno) /\ r.seqno >= s.seqno
      BY <2>8, <2>9, <3>3 DEF Sound
    <3>6. Sound(n, r, failed)
      BY <2>8, <3>3, <3>4, <3>5, SoundRoutesKept
    <3>7. Repairing(r)
      BY <1>1, <3>2, <3>3 DEF Repairing
    <3> QED
      BY <3>6, <3>7 DEF r
  <2>12. CASE r = Unicast(noted, p)
    <3> DEFINE a == back.rt_nexthop
               R == [s.rt EXCEPT ![m.dst].rt_pclist = @ \cup {a}]
               h == m.hops + 1
    <3>1. a \in Nodes /\ h \in Nat
      BY <1>1, <2>9 DEF Entries
    <3>2. noted = [s EXCEPT !.rt = R]
      BY <2>9 DEF Works
    <3>3. p = [m EXCEPT !.from = n, !.to = a, !.hops = h]
      OBVIOUS
    <3> HIDE DEF a, noted, p
    <3>4. R \in [Nodes -> Entries] /\ \A d \in Nodes : SameRoute(R[d], s.rt[d])
      BY <1>1, <2>9, <3>1, PclistKept
    <3> HIDE DEF R, h
    <3>5. /\ noted \in Works /\ noted.rt = R /\ noted.seqno = s.seqno /\ noted.out = s.out
          /\ noted.err = s.err
      BY <2>9, <3>2, <3>4 DEF Works
    <3>6. Given(noted.seqno) /\ noted.seqno >= s.seqno
      BY <2>8, <2>9, <3>5 DEF Sound
    <3>7. \A d \in Nodes : SameRoute(noted.rt[d], s.rt[d])
      BY <3>4, <3>5
    <3>8. Sound(n, noted, failed)
      BY <2>8, <3>5, <3>6, <3>7, SoundRoutesKept
    <3>9. /\ p \in Replies /\ p.type = "RREP" /\ p.from = n /\ p.dst = m.dst
          /\ p.dst_seqno = m.dst_seqno /\ p.hops = h
      BY <3>1, <3>3 DEF Replies
    <3>10. h - 1 = m.hops
      BY <1>1 DEF h
    <3>11. noted.rt[m.dst] \in Entries /\ SameRoute(noted.rt[m.dst], f)
      BY <1>1, <2>7, <2>8, <3>4, <3>5
    <3>12. Knows(noted.rt[m.dst], m.dst_seqno, m.hops)
      BY <1>1, <2>2, <3>11 DEF Knows, SameRoute
    <3>13. Fits(n, noted, m.dst, noted.rt[m.dst], failed)
      BY <1>1, <3>8 DEF Sound
    <3>14. m.dst_seqno <= Number(n, noted, m.dst) /\ Given(m.dst_seqno)
      BY <2>2, <3>11, <3>13 DEF Fits, EntryOK, SameRoute
    <3>15. MaySend(n, noted, p, failed)
      BY <3>9, <3>10, <3>12, <3>14 DEF MaySend, PacketOK
    <3>16. p \in Packets
      BY <3>9 DEF Packets
    <3>17. Sound(n, Unicast(noted, p), failed) /\ Unicast(noted, p).err = noted.err
      BY <3>8, <3>15, <3>16, UnicastSound
    <3> QED
      BY <2>6, <2>8, <2>12, <3>5, <3>17
  <2> QED
    BY <2>1, <2>10, <2>11, <2>12
<1> QED
  BY <1>3, <1>4

\* Routes that are brought down with a larger number, and the error about some
\* of them.
LEMMA RoutesDownSound ==
  ASSUME NEW n \in Nodes, NEW F, NEW s, Sound(n, s, F), TypeOK,
         NEW R \in [Nodes -> Entries], NEW hit \in SUBSET Nodes,
         \A d \in Nodes \ hit : SameRoute(R[d], s.rt[d]),
         \A d \in hit : /\ R[d].rt_flags = "DOWN" /\ R[d].rt_hops = INFINITY2
                        /\ d \notin F => Odd(R[d].rt_seqno) /\ R[d].rt_seqno > s.rt[d].rt_seqno,
         NEW C \in SUBSET Nodes
  PROVE  Sound(n, [s EXCEPT !.rt = R, !.cut = C], F)
<1> DEFINE t == [s EXCEPT !.rt = R, !.cut = C]
<1>1. s \in Works /\ s.seqno \in Nat /\ s.rt \in [Nodes -> Entries]
  BY DEF Sound, Works
<1>2. t \in Works /\ t.rt = R /\ t.seqno = s.seqno /\ t.out = s.out
  BY <1>1 DEF Works
<1> HIDE DEF t
<1>3. Given(t.seqno) /\ t.seqno >= s.seqno
  BY <1>1, <1>2 DEF Sound
<1>4. ASSUME NEW d \in Nodes
      PROVE  /\ Fits(n, t, d, t.rt[d], F)
             /\ d \notin F => Knows(t.rt[d], s.rt[d].rt_seqno, s.rt[d].rt_hops)
  <2>1. CASE d \in hit
    BY <1>2, <2>1 DEF Fits, EntryOK, EntryBacked, Knows
  <2>2. CASE d \notin hit
    <3>1. SameRoute(R[d], s.rt[d]) /\ R[d] \in Entries
      BY <2>2
    <3>2. Fits(n, s, d, s.rt[d], F)
      BY DEF Sound
    <3>3. Fits(n, t, d, R[d], F)
      BY <1>2, <3>1, <3>2 DEF Fits, EntryOK, EntryBacked, SameRoute, Number
    <3>4. Knows(R[d], s.rt[d].rt_seqno, s.rt[d].rt_hops)
      BY <3>1, KnowsItself DEF SameRoute
    <3> QED
      BY <1>2, <3>3, <3>4
  <2> QED
    BY <2>1, <2>2
<1>5. Sound(n, t, F)
  BY <1>2, <1>3, <1>4, SoundStep
<1> QED
  BY <1>5 DEF t

\* What a handler does to buffers, timers and the interface queue.
LEMMA SoundElsewhere ==
  ASSUME NEW n \in Nodes, NEW F, NEW s, Sound(n, s, F), TypeOK,
         NEW t \in Works, t.rt = s.rt, t.out = s.out, t.seqno >= s.seqno, Given(t.seqno)
  PROVE  Sound(n, t, F)
<1>1. \A d \in Nodes : SameRoute(t.rt[d], s.rt[d])
  BY DEF SameRoute
<1> QED
  BY <1>1, SoundRoutesKept

LEMMA FailSound ==
  ASSUME NEW n \in Nodes, NEW F, NEW s, Sound(n, s, F), TypeOK, NEW what \in Failures
  PROVE  Sound(n, Fail(s, what), F) /\ Fail(s, what).rt = s.rt
<1> DEFINE t == Fail(s, what)
<1>1. s \in Works /\ s.seqno \in Nat
  BY DEF Sound, Works
<1>2. t \in Works /\ t.rt = s.rt /\ t.seqno = s.seqno /\ t.out = s.out
  BY <1>1 DEF Fail, Works
<1> HIDE DEF t
<1>3. Given(t.seqno) /\ t.seqno >= s.seqno
  BY <1>1, <1>2 DEF Sound
<1>4. Sound(n, t, F)
  BY <1>2, <1>3, SoundElsewhere
<1> QED
  BY <1>2, <1>4 DEF t

\* A route with hops that may not be brought down is under repair.
LEMMA NotDownRepairing ==
  ASSUME NEW n \in Nodes, NEW F, NEW s, Sound(n, s, F), NEW d \in Nodes,
         s.rt[d].rt_hops # INFINITY2, ~MayBringDown(s.rt[d])
  PROVE  Repairing(s)
<1>1. Fits(n, s, d, s.rt[d], F) /\ s.rt[d] \in Entries
  BY DEF Sound, Works
<1>2. s.rt[d].rt_flags = "IN_REPAIR"
  BY <1>1 DEF Fits, EntryOK, MayBringDown, Given, Entries, Flags
<1> QED
  BY <1>2 DEF Repairing

LEMMA RecvErrorSound ==
  ASSUME NEW n \in Nodes, NEW s, Sound(n, s, failed), TypeOK, NEW m \in RouteErrors,
         PacketOK(m, failed), s.err = "none"
  PROVE  /\ Sound(n, recvError(s, n, m), failed)
         /\ recvError(s, n, m).err = "none" \/ Repairing(recvError(s, n, m))
<1> DEFINE seqno(d) == Max({u[2] : u \in {v \in m.unreachable : v[1] = d}})
           hit == {d \in {u[1] : u \in m.unreachable} :
                     /\ s.rt[d].rt_hops # INFINITY2
                     /\ s.rt[d].rt_nexthop = m.from
                     /\ s.rt[d].rt_seqno <= seqno(d)}
           told == {d \in hit : s.rt[d].rt_pclist # {}}
           after(d) == rt_down([s.rt[d] EXCEPT !.rt_seqno = seqno(d), !.rt_pclist = {}])
           R == [d \in Nodes |-> IF d \in hit THEN after(d) ELSE s.rt[d]]
           C == IF hit = {} THEN {} ELSE {m.from}
           U == {<<d, seqno(d)>> : d \in told}
           t == [s EXCEPT !.rt = R, !.cut = C]
           r == recvError(s, n, m)
<1>1. /\ m.type = "RERR" /\ m.from \in Nodes /\ m.unreachable \in SUBSET (Nodes \X Nat)
  BY DEF RouteErrors
<1>2. /\ s \in Works /\ s.rt \in [Nodes -> Entries]
  BY DEF Sound, Works
<1>3. hit \in SUBSET Nodes
  BY <1>1
<1>4. ASSUME NEW u \in m.unreachable PROVE seqno(u[1]) = u[2] /\ u[2] \in Nat
  <2>1. {v \in m.unreachable : v[1] = u[1]} = {u}
    BY <1>1 DEF PacketOK
  <2>2. {w[2] : w \in {v \in m.unreachable : v[1] = u[1]}} = {u[2]}
    BY <2>1
  <2>3. u[2] \in Nat
    BY <1>1
  <2>4. u[2] \in Int
    BY <2>3
  <2> QED
    BY <2>2, <2>3, <2>4, MaxOfOne
<1>5. ASSUME NEW d \in hit
      PROVE  /\ seqno(d) \in Nat /\ s.rt[d].rt_seqno <= seqno(d)
             /\ d \notin failed => seqno(d) = 0 \/ Odd(seqno(d))
  <2> HIDE DEF seqno
  <2>1. PICK u \in m.unreachable : d = u[1]
    OBVIOUS
  <2>2. d \notin failed => u[2] = 0 \/ Odd(u[2])
    BY <1>1, <2>1 DEF PacketOK
  <2> QED
    BY <1>4, <2>1, <2>2
<1>6. \/ (\E d \in hit : ~MayBringDown(s.rt[d]))
         /\ r = Fail(s, "recvError: rt_flags == RTF_UP, rt_seqno even")
      \/ (\A d \in hit : MayBringDown(s.rt[d])) /\ r = sendError(t, n, U)
  BY DEF recvError
<1>7. CASE /\ \E d \in hit : ~MayBringDown(s.rt[d])
           /\ r = Fail(s, "recvError: rt_flags == RTF_UP, rt_seqno even")
  <2>1. Repairing(s)
    BY <1>3, <1>7, NotDownRepairing
  <2>2. "recvError: rt_flags == RTF_UP, rt_seqno even" \in Failures
    BY DEF Failures
  <2> HIDE DEF hit, r
  <2>3. Sound(n, r, failed) /\ r.rt = s.rt
    BY <1>7, <2>2, FailSound
  <2>4. Repairing(r)
    BY <2>1, <2>3 DEF Repairing
  <2> QED
    BY <2>3, <2>4 DEF r
<1>8. CASE (\A d \in hit : MayBringDown(s.rt[d])) /\ r = sendError(t, n, U)
  <2> HIDE DEF seqno, r
  <2>1. ASSUME NEW d \in hit
        PROVE  /\ after(d) \in Entries /\ after(d).rt_flags = "DOWN"
               /\ after(d).rt_hops = INFINITY2 /\ after(d).rt_seqno = seqno(d)
               /\ d \notin failed => Odd(seqno(d)) /\ seqno(d) > s.rt[d].rt_seqno
    <3>1. MayBringDown(s.rt[d]) /\ d \in Nodes /\ s.rt[d] \in Entries
      BY <1>2, <1>3, <1>8, <2>1
    <3> DEFINE e == s.rt[d]
               q == seqno(d)
               g == [e EXCEPT !.rt_seqno = q, !.rt_pclist = {}]
    <3>2. q \in Nat /\ e \in Entries /\ e.rt_flags = "UP" /\ e.rt_hops \in Nat
          /\ e.rt_seqno \in Nat
      BY <1>5, <2>1, <3>1 DEF MayBringDown, Entries
    <3> HIDE DEF e, q
    <3>3. g \in Entries /\ g.rt_flags = "UP" /\ g.rt_seqno = q
      BY <3>2 DEF Entries
    <3>4. after(d) = rt_down(g)
      BY DEF e, q
    <3> HIDE DEF g, after
    <3>5. /\ rt_down(g) \in Entries /\ rt_down(g).rt_flags = "DOWN"
          /\ rt_down(g).rt_hops = INFINITY2 /\ rt_down(g).rt_seqno = q
      BY <3>3, NodesAssumption, TtlAssumption DEF rt_down, Entries, Flags
    <3>6. Fits(n, s, d, e, failed)
      BY <3>1 DEF Sound, e
    <3>7. Given(e.rt_seqno) /\ Even(e.rt_seqno)
      BY <3>2, <3>6 DEF Fits, EntryOK, Given
    <3>8. d \notin failed => q = 0 \/ Odd(q)
      BY <1>5, <2>1 DEF q
    <3>9. e.rt_seqno <= q
      BY <1>5, <2>1 DEF q, e
    <3>10. d \notin failed => Odd(q) /\ q > e.rt_seqno
      BY <3>2, <3>7, <3>8, <3>9 DEF Given, Odd
    <3> QED
      BY <3>4, <3>5, <3>10 DEF q, e
  <2> HIDE DEF hit, after
  <2>2. R \in [Nodes -> Entries]
    BY <1>2, <2>1
  <2>3. C \in SUBSET Nodes
    BY <1>1
  <2>4. \A d \in Nodes \ hit : SameRoute(R[d], s.rt[d])
    BY <1>3 DEF SameRoute
  <2>5. \A d \in hit : R[d] = after(d)
    BY <1>3
  <2>6. U \in SUBSET (Nodes \X Nat) /\ told \subseteq hit
    BY <1>3, <1>5
  <2>7. \A u, v \in U : u[1] = v[1] => u = v
    OBVIOUS
  <2>8. \A u \in U : u[1] \notin failed => u[2] = 0 \/ Odd(u[2])
    BY <1>5, <2>6
  <2> HIDE DEF R, C, U
  <2>9. Sound(n, t, failed)
    <3>1. \A d \in hit :
            /\ R[d].rt_flags = "DOWN" /\ R[d].rt_hops = INFINITY2
            /\ d \notin failed => Odd(R[d].rt_seqno) /\ R[d].rt_seqno > s.rt[d].rt_seqno
      BY <2>1, <2>5
    <3> QED
      BY <1>3, <2>2, <2>3, <2>4, <3>1, RoutesDownSound
  <2>10. t.err = "none"
    BY <1>2 DEF Works
  <2> HIDE DEF t
  <2>11. Sound(n, sendError(t, n, U), failed) /\ sendError(t, n, U).err = t.err
    BY <2>6, <2>7, <2>8, <2>9, ErrorSound
  <2> QED
    BY <1>8, <2>10, <2>11 DEF r
<1> QED
  BY <1>6, <1>7, <1>8

-----------------------------------------------------------------------------
(* Broken links. *)

\* A route that is lost gets the odd number after the one it had.
LEMMA BrokenRouteDown ==
  ASSUME NEW e \in Entries, e.rt_flags = "UP", Even(e.rt_seqno)
  PROVE  /\ BrokenRoute(e) \in Entries /\ BrokenRoute(e).rt_flags = "DOWN"
         /\ BrokenRoute(e).rt_hops = INFINITY2
         /\ BrokenRoute(e).rt_seqno \in Nat
         /\ Odd(BrokenRoute(e).rt_seqno) /\ BrokenRoute(e).rt_seqno > e.rt_seqno
<1> DEFINE q == e.rt_seqno + 1
           g == [e EXCEPT !.rt_seqno = q]
<1>1. e.rt_seqno \in Nat /\ q \in Nat /\ q > e.rt_seqno
  BY DEF Entries
<1>2. Odd(q)
  BY <1>1, EvenFacts
<1>3. BrokenRoute(e) = rt_down(g)
  BY DEF BrokenRoute
<1> HIDE DEF q
<1>4. g \in Entries /\ g.rt_flags = "UP" /\ g.rt_seqno = q
  BY <1>1 DEF Entries
<1> HIDE DEF g
<1>5. /\ rt_down(g) \in Entries /\ rt_down(g).rt_flags = "DOWN"
      /\ rt_down(g).rt_hops = INFINITY2 /\ rt_down(g).rt_seqno = q
  BY <1>4, NodesAssumption, TtlAssumption DEF rt_down, Entries, Flags
<1> QED
  BY <1>1, <1>2, <1>3, <1>5

\* The last neighbour is dropped from the precursors.
LEMMA PclistDropped ==
  ASSUME NEW e \in Entries, NEW id
  PROVE  /\ [e EXCEPT !.rt_pclist = @ \ {id}] \in Entries
         /\ SameRoute([e EXCEPT !.rt_pclist = @ \ {id}], e)
  BY DEF Entries, SameRoute

LEMMA LinkFailureSound ==
  ASSUME NEW n \in Nodes, NEW F, NEW s, Sound(n, s, F), TypeOK, NEW id \in Nodes,
         s.err = "none"
  PROVE  /\ Sound(n, handle_link_failure(s, n, id), F)
         /\ handle_link_failure(s, n, id).err = "none"
              \/ Repairing(handle_link_failure(s, n, id))
<1> DEFINE hit == {d \in Nodes : s.rt[d].rt_hops # INFINITY2 /\ s.rt[d].rt_nexthop = id}
           new(d) == IF d \in hit THEN BrokenRoute(s.rt[d]) ELSE s.rt[d]
           after(d) == [new(d) EXCEPT !.rt_pclist = @ \ {id}]
           R == [d \in Nodes |-> after(d)]
           t == [s EXCEPT !.rt = R]
           U == {<<d, t.rt[d].rt_seqno>> : d \in hit}
           r == handle_link_failure(s, n, id)
           what == "handle_link_failure: rt_flags == RTF_UP, rt_seqno even"
<1>1. /\ s \in Works /\ s.rt \in [Nodes -> Entries] /\ s.cut \in SUBSET Nodes
  BY DEF Sound, Works
<1>2. \/ (\E d \in hit : ~MayBringDown(s.rt[d])) /\ r = Fail(s, what)
      \/ (\A d \in hit : MayBringDown(s.rt[d])) /\ r = sendError(t, n, U)
  BY DEF handle_link_failure
<1>3. CASE (\E d \in hit : ~MayBringDown(s.rt[d])) /\ r = Fail(s, what)
  <2>1. Repairing(s)
    BY <1>3, NotDownRepairing
  <2>2. what \in Failures
    BY DEF Failures
  <2> HIDE DEF hit, r, what
  <2>3. Sound(n, r, F) /\ r.rt = s.rt
    BY <1>3, <2>2, FailSound
  <2>4. Repairing(r)
    BY <2>1, <2>3 DEF Repairing
  <2> QED
    BY <2>3, <2>4 DEF r
<1>4. CASE (\A d \in hit : MayBringDown(s.rt[d])) /\ r = sendError(t, n, U)
  <2> HIDE DEF r
  <2>1. hit \in SUBSET Nodes
    OBVIOUS
  <2> HIDE DEF hit
  <2>2. ASSUME NEW d \in Nodes
        PROVE  /\ new(d) \in Entries
               /\ after(d) \in Entries /\ SameRoute(after(d), new(d))
    <3>1. new(d) \in Entries
      BY <1>1, <1>4, BrokenRouteDown DEF MayBringDown
    <3> HIDE DEF new
    <3> QED
      BY <3>1, PclistDropped
  <2>3. ASSUME NEW d \in hit
        PROVE  /\ new(d).rt_flags = "DOWN" /\ new(d).rt_hops = INFINITY2
               /\ new(d).rt_seqno \in Nat
               /\ Odd(new(d).rt_seqno) /\ new(d).rt_seqno > s.rt[d].rt_seqno
    <3>1. s.rt[d] \in Entries /\ new(d) = BrokenRoute(s.rt[d]) /\ MayBringDown(s.rt[d])
      BY <1>1, <1>4, <2>1, <2>3
    <3> HIDE DEF new
    <3> QED
      BY <3>1, BrokenRouteDown DEF MayBringDown
  <2>4. \A d \in Nodes \ hit : new(d) = s.rt[d]
    OBVIOUS
  <2> HIDE DEF new, after
  <2>5. R \in [Nodes -> Entries] /\ \A d \in Nodes : R[d] = after(d)
    BY <2>2
  <2> HIDE DEF R
  <2>6. \A d \in Nodes \ hit : SameRoute(R[d], s.rt[d])
    BY <2>2, <2>4, <2>5
  <2>7. \A d \in hit : /\ R[d].rt_flags = "DOWN" /\ R[d].rt_hops = INFINITY2
                       /\ R[d].rt_seqno \in Nat
                       /\ Odd(R[d].rt_seqno) /\ R[d].rt_seqno > s.rt[d].rt_seqno
    BY <2>1, <2>2, <2>3, <2>5 DEF SameRoute
  <2>8. Sound(n, [s EXCEPT !.rt = R, !.cut = s.cut], F)
    BY <1>1, <2>1, <2>5, <2>6, <2>7, RoutesDownSound
  <2>9. /\ [s EXCEPT !.rt = R, !.cut = s.cut] = t
        /\ t.rt = R /\ t.err = "none"
    BY <1>1 DEF Works
  <2> HIDE DEF t
  <2>10. U \in SUBSET (Nodes \X Nat)
    BY <2>1, <2>7, <2>9
  <2>11. \A u, v \in U : u[1] = v[1] => u = v
    OBVIOUS
  <2>12. \A u \in U : u[1] \notin F => u[2] = 0 \/ Odd(u[2])
    BY <2>7, <2>9
  <2> HIDE DEF U
  <2>13. Sound(n, t, F)
    BY <2>8, <2>9
  <2>14. Sound(n, sendError(t, n, U), F) /\ sendError(t, n, U).err = t.err
    BY <2>10, <2>11, <2>12, <2>13, ErrorSound
  <2> QED
    BY <1>4, <2>9, <2>14 DEF r
<1> QED
  BY <1>2, <1>3, <1>4

LEMMA NbDeleteSound ==
  ASSUME NEW n \in Nodes, NEW F, NEW s, Sound(n, s, F), TypeOK, NEW id \in Nodes,
         s.err = "none"
  PROVE  /\ Sound(n, nb_delete(s, n, id), F)
         /\ nb_delete(s, n, id).err = "none" \/ Repairing(nb_delete(s, n, id))
<1> DEFINE q == s.seqno + 2
           t == [s EXCEPT !.seqno = q]
<1>1. s \in Works /\ s.seqno \in Nat /\ q \in Nat /\ q >= s.seqno /\ Given(s.seqno)
  BY DEF Sound, Works
<1>2. Given(q)
  BY <1>1, EvenFacts DEF Given
<1>3. nb_delete(s, n, id) = handle_link_failure(t, n, id)
  BY DEF nb_delete
<1> HIDE DEF q
<1>4. t \in Works /\ t.rt = s.rt /\ t.out = s.out /\ t.seqno = q /\ t.err = "none"
  BY <1>1 DEF Works
<1> HIDE DEF t
<1>5. Sound(n, t, F)
  BY <1>1, <1>2, <1>4, SoundElsewhere
<1> QED
  BY <1>3, <1>4, <1>5, LinkFailureSound

\* A route whose hops are finite is not down, so its repair keeps its number.
LEMMA RepairSound ==
  ASSUME NEW n \in Nodes, NEW F, NEW s, Sound(n, s, F), TypeOK, NEW p \in Data,
         NEW due \in BOOLEAN, LocalRepair, p.num_forwards > s.rt[p.dst].rt_hops
  PROVE  /\ Sound(n, local_rt_repair(s, n, p, due), F)
         /\ local_rt_repair(s, n, p, due).err = s.err
<1> DEFINE e == s.rt[p.dst]
           f == [e EXCEPT !.rt_flags = "IN_REPAIR"]
           R == [s.rt EXCEPT ![p.dst] = f]
           Q == s.rqueue \cup {p}
           L == s.lrtimer \cup {p}
           t == [s EXCEPT !.rqueue = Q, !.rt = R, !.lrtimer = L]
<1>1. /\ s \in Works /\ s.rt \in [Nodes -> Entries] /\ p.dst \in Nodes /\ e \in Entries
      /\ Q \in SUBSET Data /\ L \in SUBSET Data /\ s.seqno \in Nat
  BY DEF Sound, Works, Data
<1>2. local_rt_repair(s, n, p, due) = sendRequest(t, n, p.dst, due)
  <2>1. [s EXCEPT !.rqueue = @ \cup {p}, !.rt[p.dst].rt_flags = "IN_REPAIR",
                  !.lrtimer = @ \cup {p}] = t
    BY <1>1 DEF Works
  <2> QED
    BY <2>1 DEF local_rt_repair
<1>3. e.rt_flags # "DOWN"
  <2>1. p.num_forwards \in Nat /\ p.num_forwards < NETWORK_DIAMETER /\ e.rt_hops \in Nat
    BY <1>1, TtlAssumption DEF Data, Entries
  <2>2. e.rt_hops # INFINITY2
    BY <2>1, TtlAssumption, DiameterAssumption
  <2> QED
    BY <1>1, <2>2 DEF Sound, Fits, EntryOK
<1>4. /\ f \in Entries /\ f.rt_seqno = e.rt_seqno /\ f.rt_hops = e.rt_hops
      /\ f.rt_flags = "IN_REPAIR"
  BY <1>1 DEF Entries, Flags
<1> HIDE DEF f, Q, L
<1>5. R \in [Nodes -> Entries] /\ R[p.dst] = f /\ \A d \in Nodes \ {p.dst} : R[d] = s.rt[d]
  BY <1>1, <1>4
<1> HIDE DEF R
<1>6. /\ t \in Works /\ t.rt = R /\ t.seqno = s.seqno /\ t.out = s.out /\ t.err = s.err
  BY <1>1, <1>5 DEF Works
<1> HIDE DEF t
<1>7. ASSUME NEW d \in Nodes
      PROVE  /\ Fits(n, t, d, t.rt[d], F)
             /\ Knows(t.rt[d], s.rt[d].rt_seqno, s.rt[d].rt_hops)
  <2>1. /\ Fits(n, s, d, s.rt[d], F) /\ Number(n, t, d) = Number(n, s, d)
        /\ s.rt[d] \in Entries
    BY <1>1, <1>6 DEF Sound, Number
  <2>2. CASE d = p.dst
    <3>1. t.rt[d] = f /\ s.rt[d] = e
      BY <1>5, <1>6, <2>2
    <3> HIDE DEF e
    <3> QED
      BY <1>1, <1>3, <1>4, <2>1, <3>1, KnowsItself
      DEF Fits, EntryOK, EntryBacked, Knows
  <2>3. CASE d # p.dst
    <3>1. t.rt[d] = s.rt[d]
      BY <1>5, <1>6, <2>3
    <3> QED
      BY <2>1, <3>1, KnowsItself DEF Fits
  <2> QED
    BY <2>2, <2>3
<1>8. Given(t.seqno) /\ t.seqno >= s.seqno
  BY <1>1, <1>6 DEF Sound
<1>9. Sound(n, t, F)
  BY <1>6, <1>7, <1>8, SoundStep
<1> QED
  BY <1>1, <1>2, <1>6, <1>9, SendRequestSound

LEMMA LinkLayerFailedSound ==
  ASSUME NEW n \in Nodes, NEW F, NEW s, Sound(n, s, F), TypeOK, NEW p \in Data,
         NEW due \in BOOLEAN, s.err = "none"
  PROVE  /\ Sound(n, rt_ll_failed(s, n, p, due), F)
         /\ rt_ll_failed(s, n, p, due).err = "none" \/ Repairing(rt_ll_failed(s, n, p, due))
<1> DEFINE C == {p.to}
           t == [s EXCEPT !.cut = C]
<1>1. s \in Works /\ s.seqno \in Nat /\ Given(s.seqno) /\ p.to \in Nodes /\ C \in SUBSET Nodes
  BY DEF Sound, Works, Data
<1>2. \/ /\ LocalRepair /\ p.num_forwards > s.rt[p.dst].rt_hops
         /\ rt_ll_failed(s, n, p, due) = local_rt_repair(s, n, p, due)
      \/ rt_ll_failed(s, n, p, due) = nb_delete(t, n, p.to)
  BY DEF rt_ll_failed
<1> HIDE DEF C
<1>3. /\ t \in Works /\ t.rt = s.rt /\ t.out = s.out /\ t.seqno = s.seqno
      /\ t.seqno >= s.seqno /\ t.err = "none"
  BY <1>1 DEF Works
<1> HIDE DEF t
<1>4. Given(t.seqno)
  BY <1>1, <1>3
<1>5. Sound(n, t, F)
  BY <1>3, <1>4, SoundElsewhere
<1>6. CASE rt_ll_failed(s, n, p, due) = nb_delete(t, n, p.to)
  BY <1>1, <1>3, <1>5, <1>6, NbDeleteSound
<1>7. CASE /\ LocalRepair /\ p.num_forwards > s.rt[p.dst].rt_hops
           /\ rt_ll_failed(s, n, p, due) = local_rt_repair(s, n, p, due)
  BY <1>7, RepairSound
<1> QED
  BY <1>2, <1>6, <1>7

\* What is sound stays so when more repairs have failed.
LEMMA SoundMore ==
  ASSUME NEW n \in Nodes, NEW F, NEW G, F \subseteq G, NEW s, Sound(n, s, F)
  PROVE  Sound(n, s, G)
<1>1. \A d \in Nodes : Fits(n, s, d, s.rt[d], G)
  BY DEF Sound, Fits, EntryOK, EntryBacked
<1>2. ASSUME NEW m \in s.out PROVE MaySend(n, s, m, G)
  <2>1. MaySend(n, s, m, F)
    BY DEF Sound
  <2>2. PacketOK(m, G)
    BY <2>1 DEF MaySend, PacketOK
  <2> QED
    BY <2>1, <2>2 DEF MaySend
<1> QED
  BY <1>1, <1>2 DEF Sound

LEMMA RepairTimeoutSound ==
  ASSUME NEW n \in Nodes, NEW F, NEW s, Sound(n, s, F), TypeOK, NEW p \in Data,
         s.rt[p.dst].rt_flags = "IN_REPAIR" => p.dst \in F
  PROVE  /\ Sound(n, repair_timeout(s, p), F)
         /\ repair_timeout(s, p).err = s.err
<1> DEFINE e == s.rt[p.dst]
           f == IF e.rt_flags = "UP" THEN e ELSE rt_down(e)
           R == [s.rt EXCEPT ![p.dst] = f]
           t == [s EXCEPT !.rt = R, !.cut = s.cut]
           L == s.lrtimer \ {p}
           r == [t EXCEPT !.lrtimer = L]
           hit == IF e.rt_flags = "IN_REPAIR" THEN {p.dst} ELSE {}
<1>1. /\ s \in Works /\ s.rt \in [Nodes -> Entries] /\ p.dst \in Nodes /\ e \in Entries
      /\ L \in SUBSET Data /\ s.seqno \in Nat /\ s.cut \in SUBSET Nodes /\ Given(s.seqno)
  BY DEF Sound, Works, Data
<1>2. repair_timeout(s, p) = r
  BY <1>1 DEF repair_timeout, Works
<1>3. f \in Entries
  BY <1>1, NodesAssumption, TtlAssumption DEF rt_down, Entries, Flags
<1>4. /\ e.rt_flags # "IN_REPAIR" => f = e
      /\ e.rt_flags = "IN_REPAIR" => f.rt_flags = "DOWN" /\ f.rt_hops = INFINITY2
  BY <1>1 DEF rt_down, Entries, Flags
<1> HIDE DEF f, L
<1>5. R \in [Nodes -> Entries] /\ R[p.dst] = f /\ \A d \in Nodes \ {p.dst} : R[d] = s.rt[d]
  BY <1>1, <1>3
<1> HIDE DEF R
<1>6. \A d \in Nodes \ hit : SameRoute(R[d], s.rt[d])
  BY <1>4, <1>5 DEF SameRoute
<1>7. \A d \in hit : /\ R[d].rt_flags = "DOWN" /\ R[d].rt_hops = INFINITY2
                     /\ d \in F
  BY <1>4, <1>5
<1>8. hit \in SUBSET Nodes
  BY <1>1
<1> HIDE DEF hit
<1>9. Sound(n, t, F)
  BY <1>1, <1>5, <1>6, <1>7, <1>8, RoutesDownSound
<1>10. t \in Works /\ t.seqno = s.seqno /\ t.err = s.err
  BY <1>1, <1>5 DEF Works
<1> HIDE DEF t
<1>11. /\ r \in Works /\ r.rt = t.rt /\ r.out = t.out /\ r.seqno = t.seqno /\ r.err = s.err
  BY <1>1, <1>10 DEF Works
<1> HIDE DEF r
<1>12. r.seqno >= t.seqno /\ Given(r.seqno)
  BY <1>1, <1>10, <1>11
<1>13. Sound(n, r, F)
  BY <1>9, <1>11, <1>12, SoundElsewhere
<1> QED
  BY <1>2, <1>11, <1>13

-----------------------------------------------------------------------------
(* The purge of the routes. *)

LEMMA LastNodeIsNode == LastNode \in Nat /\ \A n \in Nodes : n <= LastNode
<1>1. \E x \in Nodes : \A y \in Nodes : x >= y
  BY NodesAssumption
<1> QED
  BY <1>1, NodesAssumption DEF LastNode, Max

LEMMA PurgeEntrySound ==
  ASSUME NEW n \in Nodes, NEW F, NEW s, Sound(n, s, F), TypeOK, NEW d,
         NEW E, NEW due \in BOOLEAN
  PROVE  /\ Sound(n, PurgeEntry(s, n, d, E, due), F)
         /\ PurgeEntry(s, n, d, E, due).err = s.err
<1> DEFINE r == PurgeEntry(s, n, d, E, due)
<1>1. \/ r = s
      \/ d \in Nodes /\ s.rt[d].rt_flags = "UP" /\ r = Flush(s, n, d)
      \/ d \in Nodes /\ r = sendRequest(s, n, d, due)
  BY DEF PurgeEntry
<1> HIDE DEF r
<1>2. CASE d \in Nodes /\ s.rt[d].rt_flags = "UP" /\ r = Flush(s, n, d)
  BY <1>2, FlushSound DEF r
<1>3. CASE d \in Nodes /\ r = sendRequest(s, n, d, due)
  BY <1>3, SendRequestSound DEF r
<1> QED
  BY <1>1, <1>2, <1>3 DEF r

\* The visits of rt_purge up to entry k, and all of them.
Visits(k, lost, n, E, due, f) ==
  /\ f = [i \in 0..k |-> f[i]]
  /\ f[0] = lost
  /\ \A i \in 1..k : f[i] = PurgeEntry(f[i - 1], n, i - 1, E, due)

LEMMA VisitsExist ==
  ASSUME NEW m \in Nat, NEW lost, NEW n, NEW E, NEW due
  PROVE  \E f : Visits(m, lost, n, E, due, f)
<1> DEFINE N == {k \in Nat : \E f : Visits(k, lost, n, E, due, f)}
<1>1. 0 \in N
  <2>1. Visits(0, lost, n, E, due, [i \in 0..0 |-> lost])
    BY DEF Visits
  <2> QED
    BY <2>1
<1>2. ASSUME NEW k \in Nat, k < m, k \in N PROVE k + 1 \in N
  <2>1. PICK f : Visits(k, lost, n, E, due, f)
    BY <1>2
  <2> DEFINE last == PurgeEntry(f[k], n, k, E, due)
             g == [i \in 0..(k + 1) |-> IF i <= k THEN f[i] ELSE last]
  <2>2. \A i \in 1..k : f[i] = PurgeEntry(f[i - 1], n, i - 1, E, due)
    BY <2>1 DEF Visits
  <2>3. ASSUME NEW i \in 1..(k + 1) PROVE g[i] = PurgeEntry(g[i - 1], n, i - 1, E, due)
    <3>1. CASE i <= k
      <4>1. g[i] = f[i] /\ g[i - 1] = f[i - 1] /\ i \in 1..k
        BY <3>1
      <4> HIDE DEF g
      <4> QED
        BY <2>2, <4>1
    <3>2. CASE i = k + 1
      <4>1. g[i] = last /\ g[i - 1] = f[k] /\ i - 1 = k
        BY <3>2
      <4> HIDE DEF g
      <4> QED
        BY <4>1
    <3> QED
      BY <3>1, <3>2
  <2>4. g[0] = lost /\ g = [i \in 0..(k + 1) |-> g[i]]
    BY <2>1 DEF Visits
  <2> HIDE DEF g
  <2>5. Visits(k + 1, lost, n, E, due, g)
    BY <2>3, <2>4 DEF Visits
  <2> QED
    BY <2>5
<1> HIDE DEF N
<1>3. m \in N
  <2>1. \A k \in 0..m : k \in N
    BY <1>1, <1>2, UpTo
  <2> QED
    BY <2>1
<1> QED
  BY <1>3 DEF N

LEMMA PurgeSound ==
  ASSUME NEW n \in Nodes, NEW F, NEW s, Sound(n, s, F), TypeOK, NEW E \in SUBSET Nodes,
         \A d \in E : s.rt[d].rt_flags = "UP", NEW due \in BOOLEAN
  PROVE  /\ Sound(n, rt_purge(s, n, E, due), F)
         /\ rt_purge(s, n, E, due).err = s.err
<1> DEFINE R == [d \in Nodes |-> IF d \in E THEN BrokenRoute(s.rt[d]) ELSE s.rt[d]]
           Q == {p \in s.rqueue : p.dst \notin E}
           t == [s EXCEPT !.rt = R, !.cut = s.cut]
           lost == [s EXCEPT !.rqueue = {p \in @ : p.dst \notin E}, !.rt = R]
           m == LastNode + 1
           Def(u) == u = [k \in 0..m |-> IF k = 0 THEN lost
                                         ELSE PurgeEntry(u[k - 1], n, k - 1, E, due)]
           g == CHOOSE u : Def(u)
           N == {k \in Nat : k <= m => Sound(n, g[k], F) /\ g[k].err = s.err}
<1>1. /\ s \in Works /\ s.rt \in [Nodes -> Entries] /\ Q \in SUBSET Data
      /\ s.cut \in SUBSET Nodes
  BY DEF Sound, Works
<1>2. ASSUME NEW d \in E PROVE s.rt[d] \in Entries /\ Even(s.rt[d].rt_seqno)
  <2>1. Fits(n, s, d, s.rt[d], F) /\ s.rt[d].rt_flags = "UP"
    BY DEF Sound
  <2> QED
    BY <1>1, <2>1 DEF Fits, EntryOK, Given
<1>3. R \in [Nodes -> Entries]
  BY <1>1, <1>2, BrokenRouteDown
<1>4. ASSUME NEW d \in E
      PROVE  /\ R[d].rt_flags = "DOWN" /\ R[d].rt_hops = INFINITY2
             /\ Odd(R[d].rt_seqno) /\ R[d].rt_seqno > s.rt[d].rt_seqno
  <2>1. R[d] = BrokenRoute(s.rt[d]) /\ s.rt[d].rt_flags = "UP"
    OBVIOUS
  <2> HIDE DEF R
  <2> QED
    BY <1>2, <2>1, BrokenRouteDown
<1>5. \A d \in Nodes \ E : SameRoute(R[d], s.rt[d])
  BY DEF SameRoute
<1> HIDE DEF R
<1>6. Sound(n, t, F)
  BY <1>1, <1>3, <1>4, <1>5, RoutesDownSound
<1>7. t.err = s.err /\ lost = [t EXCEPT !.rqueue = Q]
  BY <1>1 DEF Works
<1>8. Sound(n, lost, F) /\ lost.err = s.err
  <2> HIDE DEF t, lost, Q
  <2> QED
    BY <1>1, <1>6, <1>7, BufferSound
<1>9. m \in Nat /\ m >= 0
  BY LastNodeIsNode
<1>10. rt_purge(s, n, E, due) = g[m]
  <2>1. ~ \E d \in E : ~Even(s.rt[d].rt_seqno)
    BY <1>2
  <2> QED
    BY <2>1, Zenon DEF rt_purge, R
<1> HIDE DEF lost, m
<1>11. PICK f : Visits(m, lost, n, E, due, f)
  BY <1>9, VisitsExist
<1>12. Def(f)
  <2>1. \A k \in 0..m : f[k] = IF k = 0 THEN lost ELSE PurgeEntry(f[k - 1], n, k - 1, E, due)
    <3> SUFFICES ASSUME NEW k \in 0..m
                 PROVE  f[k] = IF k = 0 THEN lost ELSE PurgeEntry(f[k - 1], n, k - 1, E, due)
      OBVIOUS
    <3>1. k # 0 => k \in 1..m
      BY <1>9
    <3>2. f[0] = lost /\ \A i \in 1..m : f[i] = PurgeEntry(f[i - 1], n, i - 1, E, due)
      BY <1>11 DEF Visits
    <3> QED
      BY <3>1, <3>2
  <2>2. f = [k \in 0..m |-> f[k]]
    BY <1>11 DEF Visits
  <2> QED
    BY <2>1, <2>2
<1>13. Def(g)
  <2> HIDE DEF Def
  <2> QED
    BY <1>12
<1> HIDE DEF g
<1>14. g[0] = lost
  BY <1>9, <1>13
<1>15. \A k \in Nat : k < m => g[k + 1] = PurgeEntry(g[k], n, k, E, due)
  <2> SUFFICES ASSUME NEW k \in Nat, k < m PROVE g[k + 1] = PurgeEntry(g[k], n, k, E, due)
    OBVIOUS
  <2>1. k + 1 \in 0..m /\ k + 1 # 0 /\ (k + 1) - 1 = k
    BY <1>9
  <2> QED
    BY <1>13, <2>1
<1> HIDE DEF Def
<1>16. 0 \in N
  BY <1>8, <1>14
<1>17. ASSUME NEW k \in Nat, k < m, k \in N PROVE k + 1 \in N
  <2>1. Sound(n, g[k], F) /\ g[k].err = s.err
    BY <1>9, <1>17
  <2>2. g[k + 1] = PurgeEntry(g[k], n, k, E, due)
    BY <1>15, <1>17
  <2>3. Sound(n, g[k + 1], F) /\ g[k + 1].err = s.err
    BY <2>1, <2>2, PurgeEntrySound
  <2> QED
    BY <2>3
<1>18. m \in N
  <2> HIDE DEF N
  <2>1. \A k \in 0..m : k \in N
    BY <1>9, <1>16, <1>17, UpTo
  <2> QED
    BY <1>9, <2>1
<1> QED
  BY <1>9, <1>10, <1>18

-----------------------------------------------------------------------------
(* Steps. *)

\* A packet that has just been sent has not travelled too far.
LEMMA DiameterPositive == 0 \in 0..(NETWORK_DIAMETER - 1)
<1>1. PICK last \in Nodes : \A n \in Nodes : n <= last
  BY NodesAssumption
<1>2. last \in Nat /\ Nodes \subseteq 0..last
  BY <1>1, NodesAssumption
<1>3. IsFiniteSet(0..last)
  BY <1>2, FS_Interval, 0 \in Int, last \in Int
<1>4. IsFiniteSet(Nodes)
  BY <1>2, <1>3, FS_Subset
<1>5. Cardinality(Nodes) \in Nat
  BY <1>4, FS_CardinalityType
<1> QED
  BY <1>5, DiameterAssumption, TtlAssumption

LEMMA InitInvariant == Init => IInv
<1> SUFFICES ASSUME Init PROVE IInv
  OBVIOUS
<1>1. NoRoute \in Entries /\ NoRoute.rt_flags = "DOWN" /\ NoRoute.rt_hops = INFINITY2
      /\ NoRoute.rt_seqno = 0
  BY NodesAssumption, TtlAssumption DEF NoRoute, Entries, Flags
<1>2. \A n \in Nodes : /\ node[n].seqno = 2
                       /\ \A d \in Nodes : node[n].rt[d] = NoRoute
  BY DEF Init
<1>3. TypeOK
  <2> DEFINE a == [seqno |-> 2, bid |-> 1, rt |-> [d \in Nodes |-> NoRoute],
                   seen |-> {}, rqueue |-> {}, lrtimer |-> {}]
  <2>1. a \in NodeStates
    BY <1>1 DEF NodeStates
  <2>2. node = [n \in Nodes |-> a]
    BY DEF Init
  <2> HIDE DEF a
  <2>3. node \in [Nodes -> NodeStates]
    BY <2>1, <2>2
  <2> QED
    BY <2>3 DEF Init, TypeOK
<1>4. OwnNumbers
  BY <1>2, EvenFacts DEF OwnNumbers, Given
<1>5. Routes
  BY <1>1, <1>2 DEF Routes, EntryOK, EntryBacked
<1>6. Messages /\ AssertsInRepair
  BY DEF Init, Messages, AssertsInRepair
<1> QED
  BY <1>3, <1>4, <1>5, <1>6 DEF IInv

\* Packets may get lost and links may change.
LEMMA LossInvariant ==
  ASSUME IInv, UNCHANGED <<node, sent, failed, err>>, msgs' \subseteq msgs
  PROVE  IInv'
<1>1. TypeOK'
  BY DEF IInv, TypeOK
<1>2. OwnNumbers' /\ AssertsInRepair'
  BY DEF IInv, OwnNumbers, AssertsInRepair, InRepair
<1>3. Routes'
  BY DEF IInv, Routes, EntryBacked, Backed
<1>4. Messages'
  BY DEF IInv, Messages, PacketBacked, Backed
<1> QED
  BY <1>1, <1>2, <1>3, <1>4 DEF IInv

LEMMA OriginateInvariant ==
  ASSUME IInv, NEW t \in Traffic, NEW due \in BOOLEAN, Originate(t, due)
  PROVE  IInv'
<1> DEFINE n == t[1]
           p == [type |-> "DATA", id |-> sent + 1, src |-> t[1], dst |-> t[2],
                 num_forwards |-> 0, from |-> t[1], to |-> t[1]]
           s == rt_resolve(State(n), n, p, due)
<1>1. TypeOK /\ n \in Nodes /\ t[2] \in Nodes /\ sent + 1 \in Nat /\ err = "none"
  BY TrafficAssumption DEF IInv, TypeOK, Originate, Running
<1>2. p \in Data
  BY <1>1, DiameterPositive DEF Data
<1>3. Commit(n, s, {}) /\ failed' = failed /\ sent' = sent + 1
  BY DEF Originate
<1> HIDE DEF n, p
<1>4. Sound(n, State(n), failed) /\ State(n).err = "none"
  BY <1>1, StateSound
<1>5. Sound(n, s, failed) /\ s.err = "none"
  BY <1>1, <1>2, <1>4, ResolveSound
<1> HIDE DEF s
<1>6. failed' \in SUBSET Nodes /\ failed \subseteq failed' /\ sent' \in Nat
  BY <1>1, <1>3 DEF TypeOK
<1> QED
  BY <1>1, <1>3, <1>5, <1>6, CommitSound

LEMMA HandledSound ==
  ASSUME IInv, err = "none", NEW m \in msgs, NEW due \in BOOLEAN
  PROVE  /\ Sound(m.to, Handled(m, due), failed)
         /\ Handled(m, due).err = "none" \/ Repairing(Handled(m, due))
<1> DEFINE n == m.to
           s == State(n)
<1>1. TypeOK /\ m \in Packets /\ PacketOK(m, failed) /\ PacketBacked(m)
  BY DEF IInv, TypeOK, Messages
<1>2. n \in Nodes
  BY <1>1 DEF Packets, Data, RequestPackets, Replies, RouteErrors
<1>3. Sound(n, s, failed) /\ s.err = "none"
  BY <1>2, StateSound
<1>4. /\ m.type = "RREQ" => Handled(m, due) = recvRequest(s, n, m)
      /\ m.type = "RREP" => Handled(m, due) = recvReply(s, n, m)
      /\ m.type = "RERR" => Handled(m, due) = recvError(s, n, m)
      /\ m.type = "DATA" => Handled(m, due) \in {s, recvData(s, n, m, due)}
  BY DEF Handled
<1> HIDE DEF n, s
<1>5. CASE m \in Data
  <2>1. m.type = "DATA"
    BY <1>5 DEF Data
  <2> QED
    BY <1>1, <1>2, <1>3, <1>4, <1>5, <2>1, DataSound DEF n
<1>6. CASE m \in RequestPackets
  <2>1. m.type = "RREQ"
    BY <1>6 DEF RequestPackets
  <2> QED
    BY <1>1, <1>2, <1>3, <1>4, <1>6, <2>1, RequestSound DEF n
<1>7. CASE m \in Replies
  <2>1. m.type = "RREP"
    BY <1>7 DEF Replies
  <2> QED
    BY <1>1, <1>2, <1>3, <1>4, <1>7, <2>1, RecvReplySound DEF n
<1>8. CASE m \in RouteErrors
  <2>1. m.type = "RERR"
    BY <1>8 DEF RouteErrors
  <2> QED
    BY <1>1, <1>2, <1>3, <1>4, <1>8, <2>1, RecvErrorSound DEF n
<1> QED
  BY <1>1, <1>5, <1>6, <1>7, <1>8 DEF Packets

LEMMA ReceiveInvariant ==
  ASSUME IInv, NEW m \in msgs, NEW due \in BOOLEAN, Receive(m, due)
  PROVE  IInv'
<1>1. /\ err = "none" /\ TypeOK /\ m \in Packets
      /\ Commit(m.to, Handled(m, due), {m}) /\ failed' = failed /\ sent' = sent
  BY DEF IInv, TypeOK, Receive, Running
<1>2. m.to \in Nodes
  BY <1>1 DEF Packets, Data, RequestPackets, Replies, RouteErrors
<1>3. failed' \in SUBSET Nodes /\ failed \subseteq failed' /\ sent' \in Nat
  BY <1>1 DEF TypeOK
<1>4. /\ Sound(m.to, Handled(m, due), failed)
      /\ Handled(m, due).err = "none" \/ Repairing(Handled(m, due))
  BY <1>1, HandledSound
<1> QED
  BY <1>1, <1>2, <1>3, <1>4, CommitSound

LEMMA CannotSendInvariant ==
  ASSUME IInv, NEW m \in msgs, NEW due \in BOOLEAN, CannotSend(m, due)
  PROVE  IInv'
<1> DEFINE n == m.from
           s == IF m.type = "DATA" THEN rt_ll_failed(State(n), n, m, due) ELSE State(n)
<1>1. /\ err = "none" /\ TypeOK /\ m \in Packets
      /\ Commit(n, s, {m}) /\ failed' = failed /\ sent' = sent
  BY DEF IInv, TypeOK, CannotSend, Running
<1>2. n \in Nodes
  BY <1>1 DEF Packets, Data, RequestPackets, Replies, RouteErrors
<1>3. m.type = "DATA" => m \in Data
  BY <1>1 DEF Packets, Data, RequestPackets, Replies, RouteErrors
<1>4. failed' \in SUBSET Nodes /\ failed \subseteq failed' /\ sent' \in Nat
  BY <1>1 DEF TypeOK
<1> HIDE DEF n
<1>5. Sound(n, State(n), failed) /\ State(n).err = "none"
  BY <1>1, <1>2, StateSound
<1>6. Sound(n, s, failed) /\ (s.err = "none" \/ Repairing(s))
  <2>1. CASE m.type = "DATA"
    BY <1>1, <1>2, <1>3, <1>5, <2>1, LinkLayerFailedSound
  <2>2. CASE m.type # "DATA"
    BY <1>5, <2>2
  <2> QED
    BY <2>1, <2>2
<1> HIDE DEF s
<1> QED
  BY <1>1, <1>2, <1>4, <1>6, CommitSound

LEMMA RouteCacheTimerInvariant ==
  ASSUME IInv, NEW n \in Nodes, NEW E \in SUBSET Nodes, NEW due \in BOOLEAN,
         RouteCacheTimer(n, E, due)
  PROVE  IInv'
<1> DEFINE s == rt_purge(State(n), n, E, due)
<1>1. /\ err = "none" /\ TypeOK
      /\ Commit(n, s, {}) /\ failed' = failed /\ sent' = sent
      /\ \A d \in E : node[n].rt[d].rt_flags = "UP"
  BY DEF IInv, RouteCacheTimer, Running
<1>2. failed' \in SUBSET Nodes /\ failed \subseteq failed' /\ sent' \in Nat
  BY <1>1 DEF TypeOK
<1>3. Sound(n, State(n), failed) /\ State(n).err = "none"
  BY <1>1, StateSound
<1>4. \A d \in E : State(n).rt[d].rt_flags = "UP"
  BY <1>1 DEF State
<1>5. Sound(n, s, failed) /\ s.err = "none"
  BY <1>1, <1>3, <1>4, PurgeSound
<1> HIDE DEF s
<1> QED
  BY <1>1, <1>2, <1>5, CommitSound

LEMMA LocalRepairTimerInvariant ==
  ASSUME IInv, NEW n \in Nodes, NEW p \in node[n].lrtimer, LocalRepairTimer(n, p)
  PROVE  IInv'
<1> DEFINE s == repair_timeout(State(n), p)
<1>1. /\ err = "none" /\ TypeOK /\ Commit(n, s, {}) /\ sent' = sent
      /\ failed' = IF node[n].rt[p.dst].rt_flags = "IN_REPAIR"
                     THEN failed \cup {p.dst} ELSE failed
  BY DEF IInv, LocalRepairTimer, Running
<1>2. p \in Data /\ p.dst \in Nodes
  BY <1>1 DEF TypeOK, NodeStates, Data
<1>3. failed' \in SUBSET Nodes /\ failed \subseteq failed' /\ sent' \in Nat
  BY <1>1, <1>2 DEF TypeOK
<1>4. Sound(n, State(n), failed) /\ State(n).err = "none"
  BY <1>1, StateSound
<1>5. Sound(n, State(n), failed')
  BY <1>3, <1>4, SoundMore
<1>6. State(n).rt[p.dst].rt_flags = "IN_REPAIR" => p.dst \in failed'
  BY <1>1 DEF State
<1>7. Sound(n, s, failed') /\ s.err = "none"
  BY <1>1, <1>2, <1>4, <1>5, <1>6, RepairTimeoutSound
<1> HIDE DEF s
<1> QED
  BY <1>1, <1>3, <1>7, CommitSound

LEMMA StepInvariant == IInv /\ [Next]_vars => IInv'
<1> SUFFICES ASSUME IInv, [Next]_vars PROVE IInv'
  OBVIOUS
<1>1. ASSUME NEW t \in Traffic, NEW due \in BOOLEAN, Originate(t, due) PROVE IInv'
  BY <1>1, OriginateInvariant
<1>2. ASSUME NEW m \in msgs, NEW due \in BOOLEAN, Receive(m, due) \/ CannotSend(m, due)
      PROVE  IInv'
  BY <1>2, ReceiveInvariant, CannotSendInvariant
<1>3. ASSUME NEW m \in msgs, Collide(m) PROVE IInv'
  BY <1>3, LossInvariant DEF Collide
<1>4. ASSUME NEW n \in Nodes, NEW E \in SUBSET Nodes, NEW due \in BOOLEAN,
             RouteCacheTimer(n, E, due)
      PROVE  IInv'
  BY <1>4, RouteCacheTimerInvariant
<1>5. ASSUME NEW n \in Nodes, NEW p \in node[n].lrtimer, LocalRepairTimer(n, p) PROVE IInv'
  BY <1>5, LocalRepairTimerInvariant
<1>6. ASSUME NEW n \in Nodes, NEW m \in Nodes, Move(n, m) PROVE IInv'
  BY <1>6, LossInvariant DEF Move
<1>7. CASE UNCHANGED vars
  BY <1>7, LossInvariant DEF vars
<1>8. \A m : \A due \in (IF m.type = "DATA" THEN BOOLEAN ELSE {TRUE}) : due \in BOOLEAN
  OBVIOUS
<1> QED
  BY <1>1, <1>2, <1>3, <1>4, <1>5, <1>6, <1>7, <1>8 DEF Next

-----------------------------------------------------------------------------
(* Theorems. *)

\* In a loop, take a route with the largest number and, among those, the least
\* hops: its next hop, which is in the loop too, knows more.
LEMMA InvariantLoopFree == IInv => LoopFree
<1> SUFFICES ASSUME IInv, NEW d \in Nodes \ failed, NEW S \in SUBSET (Nodes \ {d}), S # {},
                    \A n \in S : /\ node[n].rt[d].rt_flags = "UP"
                                 /\ node[n].rt[d].rt_nexthop \in S
             PROVE  FALSE
  BY DEF LoopFree
<1> DEFINE e(n) == node[n].rt[d]
           Q == {e(n).rt_seqno : n \in S}
<1>1. \A n \in Nodes : e(n) \in Entries /\ node[n].seqno \in Nat
  BY DEF IInv, TypeOK, NodeStates
<1>2. \A n \in Nodes : e(n).rt_seqno \in Nat /\ e(n).rt_hops \in Nat
  BY <1>1 DEF Entries
<1>3. \A n \in S : n \in Nodes /\ e(n).rt_seqno <= node[d].seqno
  BY DEF IInv, Routes
<1>4. ASSUME NEW n \in S
      PROVE  e(n).rt_nexthop \in S /\ Knows(e(e(n).rt_nexthop), e(n).rt_seqno, e(n).rt_hops - 1)
  <2>1. EntryBacked(e(n), d, failed)
    BY <1>3 DEF IInv, Routes
  <2> QED
    BY <2>1 DEF EntryBacked, Backed
<1> HIDE DEF e
<1>5. Q \in SUBSET Int /\ Q # {} /\ node[d].seqno \in Int /\ \A q \in Q : q <= node[d].seqno
  BY <1>1, <1>2, <1>3
<1>6. PICK q \in Q : \A x \in Q : x <= q
  BY <1>5, IntMaximum
<1> DEFINE T == {n \in S : e(n).rt_seqno = q}
           H == {e(n).rt_hops : n \in T}
<1>7. H \in SUBSET Nat /\ H # {}
  BY <1>2, <1>3, <1>6
<1>8. PICK h \in H : \A x \in H : h <= x
  BY <1>7, NatMinimum
<1>9. PICK n \in S : e(n).rt_seqno = q /\ e(n).rt_hops = h
  BY <1>8
<1> DEFINE x == e(n).rt_nexthop
<1>10. x \in S /\ Knows(e(x), q, h - 1)
  BY <1>4, <1>9
<1> HIDE DEF x
<1>11. e(x).rt_seqno <= q
  BY <1>6, <1>10
<1>12. e(x).rt_seqno = q => h <= e(x).rt_hops
  BY <1>8, <1>10
<1>13. q \in Nat /\ h \in Nat /\ e(x).rt_seqno \in Nat /\ e(x).rt_hops \in Nat
  BY <1>2, <1>3, <1>9, <1>10
<1> QED
  BY <1>10, <1>11, <1>12, <1>13 DEF Knows

LEMMA InvariantNotAhead == IInv => NotAhead
  BY DEF IInv, Routes, NotAhead

LEMMA SpecInvariant == Spec => []IInv
  BY InitInvariant, StepInvariant, PTL DEF Spec

\* No routing loop: recvRequest and recvReply replace a route only by a newer or
\* a shorter one, and what brings a route down raises its number, so for a
\* destination without a failed local repair the next hops never lead in a
\* circle, in every network and however many packets are lost or late.
THEOREM NoRoutingLoop == Spec => []LoopFree
  BY SpecInvariant, InvariantLoopFree, PTL

\* No live route has a number ahead of its destination's own, although
\* handle_link_failure and rt_purge raise the number of routes they lose:
\* recvRequest at the destination goes past it.
THEOREM NumbersNotAhead == Spec => []NotAhead
  BY SpecInvariant, InvariantNotAhead, PTL

\* The assertions about flags and parity of a route (handle_link_failure,
\* recvError, recvReply, forward, rt_purge) fail only while some route is under
\* local repair.
THEOREM AssertionsOutsideRepair == Spec => []AssertsInRepair
<1>1. IInv => AssertsInRepair
  BY DEF IInv
<1> QED
  BY <1>1, SpecInvariant, PTL

\* Without AODV_LOCAL_REPAIR the assertions hold in every state.
THEOREM AssertionsWithoutRepair ==
  ASSUME ~LocalRepair
  PROVE  Spec => []AssertionsHold
<1>1. IInv => AssertionsHold
  BY DEF IInv, Routes, EntryOK, AssertsInRepair, InRepair, AssertionsHold
<1> QED
  BY <1>1, SpecInvariant, PTL
=============================================================================
