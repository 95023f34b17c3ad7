----------------------------- MODULE Schedulers -----------------------------
(***************************************************************************)
(* The scheduler with the structures the code offers for its queue, side   *)
(* by side: every call that TimerHandler.tla makes of the abstract queue   *)
(* is made of the list, the heap, the calendar and the splay tree as well. *)
(* Scheduler/Map keeps a std::set ordered by time and uid_, which is the   *)
(* abstract queue itself.                                                  *)
(***************************************************************************)
EXTENDS TimerHandler, HeapQueue, SplayQueue, CalendarQueue

VARIABLES
  list,     \* ListScheduler::queue_
  heap,     \* HeapScheduler::hp_
  cal,      \* CalendarScheduler
  splay     \* SplayScheduler::root_

allvars == <<vars, list, heap, cal, splay>>

(* An event as the structures see it.                                      *)
Node(e, evs) == [id |-> e, time |-> evs[e].time, uid |-> evs[e].uid]

(* ListScheduler::insert goes in front of the first later event.           *)
list_insert(s, n) ==
  LET later == {i \in DOMAIN s : n.time < s[i].time}
  IN InsertAt(s, IF later = {} THEN Len(s) + 1 ELSE Min(later), n)

list_cancel(s, n) == RemoveAt(s, CHOOSE i \in DOMAIN s : s[i] = n)

(* The elements of S in the order of a strict total order.                 *)
Sorted(S, Less(_, _)) ==
  [i \in 1..Cardinality(S) |->
     CHOOSE n \in S : Cardinality({m \in S : Less(m, n)}) = i - 1]

SInit ==
  /\ Init
  /\ LET s == Sorted({Node(e, ev) : e \in queue}, LAMBDA a, b : a.uid < b.uid)
     IN /\ list = FoldLeft(list_insert, <<>>, s)
        /\ heap = FoldLeft(heap_insert, EmptyHeap, s)
        /\ cal = FoldLeft(insert, EmptyCalendar, s)
        /\ splay = FoldLeft(splay_insert, NIL, s)

(* What a call outside the loop takes out of the queue and puts into it:   *)
(* resched of a pending timer does both, in this order.                    *)
Taken == {Node(e, ev) : e \in {x \in queue : x \notin queue' \/ ev[x].uid # ev'[x].uid}}
Put == {Node(e, ev') : e \in {x \in queue' : x \notin queue \/ ev[x].uid # ev'[x].uid}}

Apply(q, Cancel(_, _), Insert(_, _)) ==
  FoldLeft(Insert, FoldLeft(Cancel, q, SetToSeq(Taken)), SetToSeq(Put))

CallStep ==
  /\ TimerCall \/ AtCall
  /\ list' = Apply(list, list_cancel, list_insert)
  /\ heap' = Apply(heap, heap_delete, heap_insert)
  /\ cal' = Apply(cal, cal_cancel, insert)
  /\ splay' = Apply(splay, splay_cancel, splay_insert)

DispatchStep ==
  /\ dispatch
  /\ list' = Tail(list)
  /\ heap' = heap_extract_min(heap)
  /\ cal' = cal_deque(cal)
  /\ splay' = splay_deque(splay)

(* Only RealTimeScheduler::run calls head(), which moves the calendar's    *)
(* own clock.                                                              *)
PeekStep ==
  /\ real_time_passes
  /\ cal' = IF queue = {} THEN cal ELSE AfterHead(cal)
  /\ UNCHANGED <<list, heap, splay>>

SNext ==
  \/ CallStep
  \/ DispatchStep
  \/ PeekStep
  \/ LoopStep /\ UNCHANGED <<list, heap, cal, splay>>

SSpec == SInit /\ [][SNext]_allvars

-----------------------------------------------------------------------------
Nodes == {Node(e, ev) : e \in queue}
DispatchOrder == Sorted(Nodes, LAMBDA a, b : Before(a.id, b.id))

(* All structures hold the events of the queue and would dispatch the same *)
(* one first: the earliest and, among simultaneous events, the one that    *)
(* was scheduled first (doc/sim.tex: "all schedulers should yeild the same *)
(* order of dispatching given the same input"). What a structure has       *)
(* forgotten, keeps twice or brings out of order differs here.             *)
SameOrder ==
  err = "none" =>
    /\ list = DispatchOrder
    /\ SplayInOrder(splay) = list
    /\ HeapContents(heap) = Nodes /\ Len(heap.elems) = Cardinality(queue)
    /\ \A i \in 2..Len(heap.elems) :
         ~ KEY_LESS_THAN(heap.elems[i], heap.elems[parent(i)])
    /\ UNION {ToSet(cal.buckets[i].list) : i \in DOMAIN cal.buckets} = Nodes
    /\ queue # {} => heap_min(heap) = Head(list) /\ cal_head(cal) = Head(list)

(* The calendar's statistics, on which the resizing and the assertions of  *)
(* cancel() depend: stat_qsize_ counts the distinct times, count_ those of *)
(* a bucket, qsize_ the events; and every event is in the bucket of its    *)
(* time, not before cal_clock_, in order of time.                          *)
CalendarExact ==
  err = "none" =>
    /\ cal.qsize = Cardinality(queue)
    /\ cal.stat_qsize = Cardinality({n.time : n \in Nodes})
    /\ \A i \in DOMAIN cal.buckets :
         LET b == cal.buckets[i].list
         IN /\ cal.buckets[i].count = Cardinality({n.time : n \in ToSet(b)})
            /\ \A j \in DOMAIN b : Hash(cal, b[j].time) = i /\ b[j].time >= cal.cal_clock
            /\ \A j \in 1..(Len(b) - 1) : b[j].time <= b[j + 1].time
=============================================================================
