-------------------------------- MODULE Aodv --------------------------------
(***************************************************************************)
(* AODV routing (aodv/aodv.cc): route discovery, route errors, and the     *)
(* local repair of routes, with the link layer reporting broken links      *)
(* (AODV_LINK_LAYER_DETECTION; hello messages are then not used).          *)
(*                                                                         *)
(* A handler of a node is a function on the node's state s, in which out   *)
(* collects the packets it hands to the interface queue, cut the next hops *)
(* whose packets it takes out of that queue, and err the assertion that    *)
(* ends the simulation. Times are free: whether a route or the timeout of  *)
(* a request has expired is a choice. A packet in msgs is in the interface *)
(* queue of its sender or on the air, one copy per receiver of a           *)
(* broadcast; queues of different nodes and jitter leave no order.         *)
(*                                                                         *)
(* Left out: the purge of old broadcast ids and of packets that have       *)
(* waited too long, the statistics of discovery latency, and the TTL of a  *)
(* reply: a node forwards a reply only when it is better than its route,   *)
(* so at most once, and NETWORK_DIAMETER exceeds the number of nodes.      *)
(***************************************************************************)
EXTENDS Integers, FiniteSets, FiniteSetsExt

CONSTANTS
  Nodes,             \* addresses from 0, which is also "no next hop"
  Topologies,        \* sets of links to start with; a link is a set of two nodes
  Traffic,           \* pairs of source and destination
  LocalRepair,       \* AODV_LOCAL_REPAIR is defined
  NETWORK_DIAMETER, TTL_START, TTL_THRESHOLD, TTL_INCREMENT, RREQ_RETRIES,
  INFINITY2,
  MaxData,           \* bound: data packets
  MaxRequests,       \* bound: route requests
  MaxFaults          \* bound: links that break or form, routes that expire
                     \* and broadcasts that collide

LastNode == Max(Nodes)

ASSUME NodesAssumption ==
  0 \in Nodes /\ Nodes \subseteq Nat /\ \E last \in Nodes : \A n \in Nodes : n <= last
ASSUME TtlAssumption ==
  {NETWORK_DIAMETER, TTL_START, TTL_THRESHOLD, TTL_INCREMENT, RREQ_RETRIES, INFINITY2} \subseteq Nat
ASSUME DiameterAssumption == INFINITY2 > NETWORK_DIAMETER /\ NETWORK_DIAMETER > Cardinality(Nodes)
ASSUME TrafficAssumption == \A t \in Traffic : t[1] \in Nodes /\ t[2] \in Nodes /\ t[1] # t[2]

VARIABLES
  node,              \* for each node its seqno, bid, routes, ids seen,
                     \* send buffer and pending local repair timers
  msgs, links,
  sent, faults,      \* how far the bounds are used up
  failed,            \* history: destinations with a failed local repair
  err

vars == <<node, msgs, links, sent, faults, failed, err>>

Nbrs(n) == {m \in Nodes \ {n} : {n, m} \in links}

NoRoute ==
  [rt_seqno |-> 0, rt_hops |-> INFINITY2, rt_nexthop |-> 0, rt_flags |-> "DOWN",
   rt_pclist |-> {}, rt_req_cnt |-> 0, asked |-> FALSE,
   rt_req_last_ttl |-> 0, rt_last_hop_count |-> INFINITY2]

Init ==
  /\ node = [n \in Nodes |-> [seqno |-> 2, bid |-> 1, rt |-> [d \in Nodes |-> NoRoute],
                              seen |-> {}, rqueue |-> {}, lrtimer |-> {}]]
  /\ msgs = {} /\ links \in Topologies
  /\ sent = 0 /\ faults = 0
  /\ failed = {} /\ err = "none"

-----------------------------------------------------------------------------
(* Routes and packets.                                                     *)

Even(k) == k % 2 = 0
NextEven(k) == IF Even(k) THEN k ELSE k + 1

rt_update(e, seqno, hops, nexthop) ==
  [e EXCEPT !.rt_seqno = seqno, !.rt_hops = hops, !.rt_flags = "UP", !.rt_nexthop = nexthop]

rt_down(e) ==
  IF e.rt_flags = "DOWN" THEN e
  ELSE [e EXCEPT !.rt_last_hop_count = e.rt_hops, !.rt_hops = INFINITY2,
                 !.rt_flags = "DOWN", !.rt_nexthop = 0]

(* The "soft state" of requests after a route was found.                   *)
ResetRequest(e, hops) ==
  [e EXCEPT !.rt_req_cnt = 0, !.asked = FALSE, !.rt_req_last_ttl = hops]

Better(e, seqno, hops) ==
  \/ e.rt_seqno < seqno
  \/ e.rt_seqno = seqno /\ e.rt_hops > hops

Unicast(s, p) == [s EXCEPT !.out = @ \cup {p}]
Broadcast(s, n, p) == [s EXCEPT !.out = @ \cup {[p EXCEPT !.to = m] : m \in Nbrs(n)}]

(* Without the copies of a request that recvRequest would discard.         *)
BroadcastRequest(s, n, p) ==
  [s EXCEPT !.out = @ \cup {[p EXCEPT !.to = m] :
     m \in {x \in Nbrs(n) \ {p.src} : <<p.src, p.bid>> \notin node[x].seen}}]
Fail(s, what) == [s EXCEPT !.err = what]

(* forward() of data packets D along the route to d.                       *)
ForwardData(s, n, d, D) ==
  LET e == s.rt[d]
  IN IF D = {} THEN s
     ELSE IF e.rt_flags # "UP" THEN Fail(s, "forward: rt_flags == RTF_UP")
     ELSE [s EXCEPT !.out = @ \cup {[p EXCEPT !.from = n, !.to = e.rt_nexthop] : p \in D}]

Buffered(s, d) == {p \in s.rqueue : p.dst = d}

(* Everything in the send buffer for d goes out.                           *)
Flush(s, n, d) ==
  LET D == Buffered(s, d)
  IN ForwardData([s EXCEPT !.rqueue = @ \ D], n, d, D)

sendError(s, n, unreachable) ==
  IF unreachable = {} THEN s
  ELSE Broadcast(s, n, [type |-> "RERR", from |-> n, to |-> n, unreachable |-> unreachable])

sendReply(s, n, ipdst, hops, dst, seqno) ==
  Unicast(s, [type |-> "RREP", from |-> n, to |-> s.rt[ipdst].rt_nexthop,
              ipdst |-> ipdst, dst |-> dst, dst_seqno |-> seqno, hops |-> hops])

(* sendRequest(), when due says that rt_req_timeout has passed. After too  *)
(* many tries the buffered packets are dropped.                            *)
sendRequest(s, n, d, due) ==
  LET e == s.rt[d]
      last == Max({e.rt_req_last_ttl, e.rt_last_hop_count})
      wide == last >= TTL_THRESHOLD
      ttl == IF last = 0 THEN TTL_START
             ELSE IF wide THEN NETWORK_DIAMETER ELSE last + TTL_INCREMENT
  IN IF e.rt_flags = "UP" \/ (e.asked /\ ~due) THEN s
     ELSE IF e.rt_req_cnt > RREQ_RETRIES
       THEN [s EXCEPT !.rt[d].asked = TRUE, !.rt[d].rt_req_cnt = 0,
                      !.rqueue = @ \ Buffered(s, d)]
     ELSE BroadcastRequest(
            [s EXCEPT !.rt[d].asked = TRUE, !.rt[d].rt_req_last_ttl = ttl,
                      !.rt[d].rt_req_cnt = @ + IF wide THEN 1 ELSE 0,
                      !.bid = @ + 1, !.seqno = @ + 2],
            n, [type |-> "RREQ", from |-> n, to |-> n, ttl |-> ttl, hops |-> 1,
                src |-> n, src_seqno |-> s.seqno + 2, bid |-> s.bid,
                dst |-> d, dst_seqno |-> e.rt_seqno])

-----------------------------------------------------------------------------
(* Data.                                                                   *)

rt_resolve(s, n, p, due) ==
  LET e == s.rt[p.dst]
      buffered == [s EXCEPT !.rqueue = @ \cup {p}]
  IN IF e.rt_flags = "UP" THEN ForwardData(s, n, p.dst, {p})
     ELSE IF p.src = n THEN sendRequest(buffered, n, p.dst, due)
     ELSE IF e.rt_flags = "IN_REPAIR" THEN buffered
     ELSE sendError(s, n, {<<p.dst, e.rt_seqno>>})

(* recv() of a data packet that is not for this node. Its own packet and   *)
(* one that has travelled too far are dropped.                             *)
recvData(s, n, m, due) ==
  LET p == [m EXCEPT !.num_forwards = @ + 1]
  IN IF p.src = n \/ p.num_forwards >= NETWORK_DIAMETER THEN s
     ELSE rt_resolve(s, n, p, due)

-----------------------------------------------------------------------------
(* Requests, replies and errors.                                           *)

(* recvRequest, up to the reverse route.                                   *)
ReverseRoute(s, n, m) ==
  LET e == s.rt[m.src]
      up == rt_update(e, m.src_seqno, m.hops, m.from)
      heard == [s EXCEPT !.seen = @ \cup {<<m.src, m.bid>>}]
  IN IF Better(e, m.src_seqno, m.hops)
       THEN Flush([heard EXCEPT !.rt[m.src] = IF e.asked THEN ResetRequest(up, m.hops) ELSE up],
                  n, m.src)
       ELSE heard

MutReplySeqno(s, m) == Max({s.seqno, m.dst_seqno}) + 1

(* The destination's own number is newer than any the request has seen.    *)
ReplySeqno(s, m) == NextEven(Max({s.seqno, m.dst_seqno}) + 1)

MutFreshEnough(e, m) == e.rt_seqno > 0 /\ e.rt_seqno >= m.dst_seqno

FreshEnough(e, m) == e.rt_hops # INFINITY2 /\ e.rt_seqno >= m.dst_seqno

recvRequest(s0, n, m) ==
  LET s == ReverseRoute(s0, n, m)
      e == s.rt[m.dst]
      seqno == ReplySeqno(s, m)
  IN IF m.src = n \/ <<m.src, m.bid>> \in s0.seen THEN s0
     ELSE IF m.dst = n
       THEN sendReply([s EXCEPT !.seqno = seqno], n, m.src, 1, n, seqno)
     ELSE IF FreshEnough(e, m)
       THEN sendReply([s EXCEPT !.rt[m.dst].rt_pclist = @ \cup {s.rt[m.src].rt_nexthop},
                                !.rt[m.src].rt_pclist = @ \cup {e.rt_nexthop}],
                      n, m.src, e.rt_hops + 1, m.dst, e.rt_seqno)
     ELSE IF m.ttl - 1 = 0 THEN s
     ELSE BroadcastRequest(s, n, [m EXCEPT !.from = n, !.hops = @ + 1, !.ttl = @ - 1,
                                    !.dst_seqno = Max({@, e.rt_seqno})])

recvReply(s0, n, m) ==
  LET e == s0.rt[m.dst]
      better == Better(e, m.dst_seqno, m.hops)
      s == Flush([s0 EXCEPT !.rt[m.dst] =
                    ResetRequest(rt_update(e, m.dst_seqno, m.hops, m.from), m.hops)], n, m.dst)
      back == s.rt[m.ipdst]
  IN IF ~better THEN s0
     ELSE IF m.ipdst = n \/ back.rt_hops = INFINITY2 THEN s
     ELSE IF back.rt_flags # "UP" THEN Fail(s, "recvReply: rt_flags == RTF_UP")
     ELSE Unicast([s EXCEPT !.rt[m.dst].rt_pclist = @ \cup {back.rt_nexthop}],
                  [m EXCEPT !.from = n, !.to = back.rt_nexthop, !.hops = @ + 1])

(* The assertions about an entry that a broken link or an error brings     *)
(* down.                                                                   *)
MayBringDown(e) == e.rt_flags = "UP" /\ Even(e.rt_seqno)

recvError(s, n, m) ==
  LET seqno(d) == Max({u[2] : u \in {v \in m.unreachable : v[1] = d}})
      hit == {d \in {u[1] : u \in m.unreachable} :
                /\ s.rt[d].rt_hops # INFINITY2
                /\ s.rt[d].rt_nexthop = m.from
                /\ s.rt[d].rt_seqno <= seqno(d)}
      told == {d \in hit : s.rt[d].rt_pclist # {}}
      after(d) == rt_down([s.rt[d] EXCEPT !.rt_seqno = seqno(d), !.rt_pclist = {}])
  IN IF \E d \in hit : ~MayBringDown(s.rt[d]) THEN Fail(s, "recvError: rt_flags == RTF_UP, rt_seqno even")
     ELSE sendError(
            [s EXCEPT !.rt = [d \in Nodes |-> IF d \in hit THEN after(d) ELSE s.rt[d]],
                      !.cut = IF hit = {} THEN {} ELSE {m.from}],
            n, {<<d, seqno(d)>> : d \in told})

-----------------------------------------------------------------------------
(* Broken links.                                                           *)

MutBrokenRoute(e) == rt_down(e)

(* A route over a broken link.                                             *)
BrokenRoute(e) == rt_down([e EXCEPT !.rt_seqno = @ + 1])

handle_link_failure(s, n, id) ==
  LET hit == {d \in Nodes : s.rt[d].rt_hops # INFINITY2 /\ s.rt[d].rt_nexthop = id}
      after(d) == [IF d \in hit THEN BrokenRoute(s.rt[d]) ELSE s.rt[d]
                     EXCEPT !.rt_pclist = @ \ {id}]
      s1 == [s EXCEPT !.rt = [d \in Nodes |-> after(d)]]
  IN IF \E d \in hit : ~MayBringDown(s.rt[d])
       THEN Fail(s, "handle_link_failure: rt_flags == RTF_UP, rt_seqno even")
       ELSE sendError(s1, n, {<<d, s1.rt[d].rt_seqno>> : d \in hit})

nb_delete(s, n, id) == handle_link_failure([s EXCEPT !.seqno = @ + 2], n, id)

local_rt_repair(s, n, p, due) ==
  sendRequest([s EXCEPT !.rqueue = @ \cup {p}, !.rt[p.dst].rt_flags = "IN_REPAIR",
                        !.lrtimer = @ \cup {p}],
              n, p.dst, due)

(* rt_ll_failed, for a data packet p that could not be sent to p.to.       *)
rt_ll_failed(s, n, p, due) ==
  IF LocalRepair /\ p.num_forwards > s.rt[p.dst].rt_hops
    THEN local_rt_repair(s, n, p, due)
    ELSE nb_delete([s EXCEPT !.cut = {p.to}], n, p.to)

(* LocalRepairTimer::handle.                                               *)
repair_timeout(s, p) ==
  [s EXCEPT !.lrtimer = @ \ {p},
            !.rt[p.dst] = IF @.rt_flags = "UP" THEN @ ELSE rt_down(@)]

(* rt_purge, when the routes to the nodes in E have expired, visits the    *)
(* entries one after the other.                                            *)
PurgeEntry(s, n, d, E, due) ==
  IF d \notin Nodes \ E THEN s
  ELSE IF s.rt[d].rt_flags = "UP" THEN Flush(s, n, d)
  ELSE IF Buffered(s, d) # {} THEN sendRequest(s, n, d, due)
  ELSE s

rt_purge(s, n, E, due) ==
  LET lost == [s EXCEPT !.rqueue = {p \in @ : p.dst \notin E},
                        !.rt = [d \in Nodes |->
                                  IF d \in E THEN BrokenRoute(s.rt[d]) ELSE s.rt[d]]]
      visit[k \in 0..(LastNode + 1)] ==
        IF k = 0 THEN lost ELSE PurgeEntry(visit[k - 1], n, k - 1, E, due)
  IN IF \E d \in E : ~Even(s.rt[d].rt_seqno) THEN Fail(s, "rt_purge: rt_seqno%2")
     ELSE visit[LastNode + 1]

-----------------------------------------------------------------------------
(* Steps.                                                                  *)

(* What a handler of node n works on, and what it leaves behind when it    *)
(* was called for the packets in m, one or none.                           *)
State(n) == [seqno |-> node[n].seqno, bid |-> node[n].bid, rt |-> node[n].rt,
             seen |-> node[n].seen, rqueue |-> node[n].rqueue, lrtimer |-> node[n].lrtimer,
             out |-> {}, cut |-> {}, err |-> err]

(* The packets of n that filter() finds if they have not yet left the      *)
(* interface queue. A broadcast, of a request or a route error, has next   *)
(* hop 0.                                                                  *)
Filtered(n, s) ==
  {x \in msgs : /\ x.from = n
                /\ (IF x.type \in {"DATA", "RREP"} THEN x.to ELSE 0) \in s.cut}

(* How many requests the nodes in nd have made.                            *)
Requests(nd) == MapThenSumSet(LAMBDA x : nd[x].bid - 1, Nodes)

Commit(n, s, m) ==
  /\ node' = [node EXCEPT ![n] =
       [seqno |-> s.seqno, bid |-> s.bid, rt |-> s.rt, seen |-> s.seen,
        rqueue |-> s.rqueue, lrtimer |-> s.lrtimer]]
  /\ \E queued \in SUBSET Filtered(n, s) : msgs' = (msgs \ (m \cup queued)) \cup s.out
  /\ err' = s.err
  /\ Requests(node') <= MaxRequests

Running == err = "none"
Connected(m) == {m.from, m.to} \in links

(* An application at t[1] sends a packet to t[2].                          *)
Originate(t, due) ==
  /\ Running /\ sent < MaxData
  /\ sent' = sent + 1
  /\ Commit(t[1],
       rt_resolve(State(t[1]), t[1],
         [type |-> "DATA", id |-> sent + 1, src |-> t[1], dst |-> t[2],
          num_forwards |-> 0, from |-> t[1], to |-> t[1]], due), {})
  /\ UNCHANGED <<links, faults, failed>>

Handled(m, due) ==
  LET s == State(m.to)
  IN CASE m.type = "RREQ" -> recvRequest(s, m.to, m)
       [] m.type = "RREP" -> recvReply(s, m.to, m)
       [] m.type = "RERR" -> recvError(s, m.to, m)
       [] m.type = "DATA" -> IF m.dst = m.to THEN s ELSE recvData(s, m.to, m, due)

Receive(m, due) ==
  /\ Running /\ Connected(m)
  /\ Commit(m.to, Handled(m, due), {m})
  /\ UNCHANGED <<links, sent, faults, failed>>

(* The link layer gives up: a data packet goes back to rt_ll_failed, any   *)
(* other is lost.                                                          *)
CannotSend(m, due) ==
  /\ Running /\ ~Connected(m)
  /\ Commit(m.from,
       IF m.type = "DATA" THEN rt_ll_failed(State(m.from), m.from, m, due) ELSE State(m.from),
       {m})
  /\ UNCHANGED <<links, sent, faults, failed>>

(* A copy of a broadcast, which nobody acknowledges, collides.             *)
Collide(m) ==
  /\ Running /\ m.type \in {"RREQ", "RERR"}
  /\ faults < MaxFaults
  /\ faults' = faults + 1
  /\ msgs' = msgs \ {m}
  /\ UNCHANGED <<node, links, sent, failed, err>>

RouteCacheTimer(n, E, due) ==
  /\ Running
  /\ \A d \in E : node[n].rt[d].rt_flags = "UP"
  /\ faults + Cardinality(E) <= MaxFaults
  /\ E # {} \/ node[n].rqueue # {}
  /\ faults' = faults + Cardinality(E)
  /\ Commit(n, rt_purge(State(n), n, E, due), {})
  /\ UNCHANGED <<links, sent, failed>>

LocalRepairTimer(n, p) ==
  /\ Running
  /\ Commit(n, repair_timeout(State(n), p), {})
  /\ failed' = IF node[n].rt[p.dst].rt_flags = "IN_REPAIR" THEN failed \cup {p.dst} ELSE failed
  /\ UNCHANGED <<links, sent, faults>>

(* Nodes move: a link breaks or forms.                                     *)
Move(n, m) ==
  /\ Running /\ n < m
  /\ faults < MaxFaults
  /\ faults' = faults + 1
  /\ links' = IF {n, m} \in links THEN links \ {{n, m}} ELSE links \cup {{n, m}}
  /\ UNCHANGED <<node, msgs, sent, failed, err>>

Next ==
  \/ \E t \in Traffic, due \in BOOLEAN : Originate(t, due)
  \/ \E m \in msgs : \E due \in (IF m.type = "DATA" THEN BOOLEAN ELSE {TRUE}) :
       Receive(m, due) \/ CannotSend(m, due)
  \/ \E m \in msgs : Collide(m)
  \/ \E n \in Nodes, E \in SUBSET Nodes, due \in BOOLEAN : RouteCacheTimer(n, E, due)
  \/ \E n \in Nodes : \E p \in node[n].lrtimer : LocalRepairTimer(n, p)
  \/ \E n, m \in Nodes : Move(n, m)

Spec == Init /\ [][Next]_vars

-----------------------------------------------------------------------------
(* Property: no routing loop. For a destination whose local repair never   *)
(* failed, following the next hops of live routes never comes back to a    *)
(* node, whatever requests, replies and errors are still under way, lost   *)
(* or late: recvRequest and recvReply replace a route only by a newer or   *)
(* shorter one, and a broken route is never mistaken for a fresh one.      *)
LoopFree ==
  \A d \in Nodes \ failed :
    ~ \E S \in SUBSET (Nodes \ {d}) :
        /\ S # {}
        /\ \A n \in S : node[n].rt[d].rt_flags = "UP" /\ node[n].rt[d].rt_nexthop \in S

InRepair == \E n, d \in Nodes : node[n].rt[d].rt_flags = "IN_REPAIR"

(* Property: the assertions of handle_link_failure, recvError, recvReply,  *)
(* forward and rt_purge about the flags and the parity of a route hold, as *)
(* long as no route is under local repair.                                 *)
AssertsInRepair == err # "none" => InRepair

(* The assertions hold, as the code states them.                           *)
AssertionsHold == err = "none"

(* Property: no live route carries a sequence number ahead of its          *)
(* destination's own, though intermediate nodes raise the number of a      *)
(* route they lose: the destination overtakes it when it replies, so what  *)
(* it says later is always believed.                                       *)
NotAhead ==
  \A n, d \in Nodes :
    node[n].rt[d].rt_flags = "UP" => node[n].rt[d].rt_seqno <= node[d].seqno
=============================================================================
