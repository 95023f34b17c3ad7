------------------------- MODULE TimerHandlerProofs --------------------------
(***************************************************************************)
(* Theorems about the scheduler's loop and the timers, for every number of *)
(* timers and AtEvents, every script and every bound.                      *)
(***************************************************************************)
EXTENDS TimerHandler, NumberTheorems

(* What holds while the simulation runs. Besides the property: the AtEvent *)
(* that runs has left the queue, the uid_s in the queue differ and have    *)
(* been given out, and in a simulation nothing in the queue is overdue.    *)
StatusMatches ==
  /\ \A t \in Timers : status[t] = "PENDING" <=> t \in queue
  /\ \A t \in Timers : status[t] = "HANDLING" => running = t
  /\ \A e \in Events : e \in queue <=> ev[e].uid > 0

UidsDiffer ==
  /\ \A e \in queue : ev[e].uid < uid
  /\ \A e, f \in queue : ev[e].uid = ev[f].uid => e = f

NothingOverdue == ~rt => \A e \in queue : clock <= ev[e].time

Consistent ==
  /\ StatusMatches
  /\ UidsDiffer
  /\ NothingOverdue
  /\ running \in AtEvents => running \notin queue

IInv ==
  /\ TypeOK
  /\ err \notin Internal
  /\ err = "none" => Consistent

-----------------------------------------------------------------------------
(* Types. *)

EventType == [time : 0..MaxTime, uid : -MaxUid..MaxUid]

(* schedule() keeps the types of what it writes.                           *)
LEMMA ScheduleType ==
  ASSUME TypeOK, NEW e \in Events, NEW d \in Delays, schedule(e, d)
  PROVE  /\ uid' \in 1..(MaxUid + 1)
         /\ ev' \in [Events -> EventType]
         /\ queue' \in SUBSET Events
<1>1. d \in Nat /\ MaxTime \in Nat /\ MaxUid \in Nat
  BY DelaysAssumption, BoundsAssumption
<1>2. [time |-> clock + d, uid |-> uid] \in EventType
  BY <1>1 DEF TypeOK, schedule, EventType
<1> QED
  BY <1>1, <1>2 DEF TypeOK, schedule, EventType

(* cancel() negates a uid_, so it stays in range.                          *)
LEMMA DequeuedType ==
  ASSUME TypeOK, NEW e \in Events, Dequeued(e)
  PROVE  ev' \in [Events -> EventType] /\ queue' \in SUBSET Events
<1>1. ev[e] \in EventType /\ MaxUid \in Nat
  BY BoundsAssumption DEF TypeOK, EventType
<1>2. cancelled(e) \in -MaxUid..MaxUid
  BY <1>1 DEF cancelled, EventType
<1> QED
  BY <1>1, <1>2 DEF TypeOK, Dequeued, EventType

(* The first event in the queue: the least time, then the least uid_.      *)
LEMMA FirstIsFirst ==
  ASSUME TypeOK, UidsDiffer, queue # {}
  PROVE  First \in queue /\ \A f \in queue \ {First} : Before(First, f)
<1>1. \A e \in queue : e \in Events /\ ev[e].time \in Nat /\ ev[e].uid \in Int
                        /\ ev[e].uid >= -MaxUid
  BY BoundsAssumption DEF TypeOK
<1> DEFINE times == {ev[e].time : e \in queue}
<1>2. PICK t \in times : \A u \in times : t <= u
  <2>1. times \in SUBSET Nat /\ times # {}
    BY <1>1
  <2> HIDE DEF times
  <2> QED
    BY <2>1, NatMinimum
<1> DEFINE early == {e \in queue : ev[e].time = t}
           uids == {ev[e].uid : e \in early}
<1>3. PICK u \in uids : \A v \in uids : u <= v
  <2>1. uids \in SUBSET Int /\ uids # {} /\ \A v \in uids : -MaxUid <= v
    BY <1>1
  <2>2. -MaxUid \in Int
    BY BoundsAssumption
  <2> HIDE DEF uids
  <2> QED
    BY <2>1, <2>2, IntMinimum
<1>4. PICK e \in queue : ev[e].time = t /\ ev[e].uid = u
  OBVIOUS
<1>5. \A f \in queue \ {e} : Before(e, f)
  <2> SUFFICES ASSUME NEW f \in queue, f # e PROVE Before(e, f)
    OBVIOUS
  <2>1. t <= ev[f].time /\ t \in Nat
    BY <1>1, <1>2
  <2>2. ev[f].time = t => u <= ev[f].uid
    BY <1>3
  <2>3. ev[f].uid # u
    BY <1>4 DEF UidsDiffer
  <2> QED
    BY <1>1, <1>4, <2>1, <2>2, <2>3 DEF Before
<1> QED
  BY <1>5 DEF First

(* Every step keeps the types.                                             *)
LEMMA TypeStep == IInv /\ [Next]_vars => TypeOK'
<1> SUFFICES ASSUME IInv, [Next]_vars PROVE TypeOK'
  OBVIOUS
<1> USE DEF IInv
<1>1. ASSUME NEW t \in Timers, NEW d \in Delays, sched(t, d) \/ resched(t, d)
      PROVE  TypeOK'
  <2>1. schedule(t, d) /\ t \in Events
    BY <1>1 DEF sched, resched, Events
  <2> QED
    BY <1>1, <2>1, ScheduleType DEF TypeOK, sched, resched, Loop, EventType, Misuse, Internal
<1>2. ASSUME NEW t \in Timers, cancel(t) \/ force_cancel(t)
      PROVE  TypeOK'
  <2>1. Dequeued(t) /\ t \in Events
    BY <1>2 DEF cancel, force_cancel, Events
  <2> QED
    BY <1>2, <2>1, DequeuedType DEF TypeOK, cancel, force_cancel, Loop, EventType, Misuse
<1>3. ASSUME NEW d \in Delays, at(d)
      PROVE  TypeOK'
  <2>1. PICK e \in FreeAtEvents : schedule(e, d)
    BY <1>3 DEF at
  <2>2. e \in Events
    BY DEF FreeAtEvents, Events
  <2> QED
    BY <1>3, <2>1, <2>2, ScheduleType DEF TypeOK, at, Loop, EventType
<1>4. ASSUME NEW e \in Kept, cancel_at(e)
      PROVE  TypeOK'
  <2>1. e \in Events /\ 0 \in -MaxUid..MaxUid
    BY KeptAssumption, BoundsAssumption DEF Events
  <2> QED
    BY <1>4, <2>1 DEF TypeOK, cancel_at, Loop
<1>5. CASE LoopStep
  <2>1. CASE handled
    <3>1. 0 \in -MaxUid..MaxUid /\ AtEvents \subseteq Events
      BY BoundsAssumption DEF Events
    <3> QED
      BY <2>1, <3>1 DEF TypeOK, handled
  <2>2. CASE run \/ resume \/ leave_run \/ halt
    <3>1. 0 \in 0..MaxTime
      BY BoundsAssumption
    <3> QED
      BY <2>2, <3>1 DEF TypeOK, run, resume, leave_run, halt
  <2> QED
    BY <1>5, <2>1, <2>2 DEF LoopStep
<1>6. CASE dispatch
  <2>1. First \in queue /\ First \in Events
    BY <1>6, FirstIsFirst DEF dispatch, LoopTop, Consistent, TypeOK
  <2>2. ev[First].time \in 0..MaxTime /\ -ev[First].uid \in -MaxUid..MaxUid
    BY <2>1, BoundsAssumption DEF TypeOK
  <2> QED
    BY <1>6, <2>1, <2>2 DEF TypeOK, dispatch, Internal
<1>7. CASE real_time_passes
  BY <1>7, TicksAssumption, BoundsAssumption DEF TypeOK, real_time_passes
<1>8. CASE UNCHANGED vars
  BY <1>8 DEF TypeOK, vars
<1> QED
  BY <1>1, <1>2, <1>3, <1>4, <1>5, <1>6, <1>7, <1>8 DEF Next, TimerCall, AtCall

-----------------------------------------------------------------------------
(* Consistency, action by action. *)

(* A timer that is scheduled anew, whatever it was before, is pending, has *)
(* the newest uid_ and is not overdue.                                     *)
LEMMA ScheduledTimer ==
  ASSUME IInv, NEW t \in Timers, NEW d \in Delays, schedule(t, d),
         err = "none", status' = [status EXCEPT ![t] = "PENDING"],
         UNCHANGED Loop
  PROVE  Consistent'
<1>1. t \in Events /\ t \notin AtEvents /\ d \in Nat
  BY EventsAssumption, DelaysAssumption DEF Events
<1>2. /\ ev' = [ev EXCEPT ![t] = [time |-> clock + d, uid |-> uid]]
      /\ uid' = uid + 1 /\ queue' = queue \cup {t}
      /\ clock' = clock /\ running' = running /\ rt' = rt
  BY DEF schedule, Loop
<1>3. /\ uid \in Nat \ {0} /\ clock \in Nat
      /\ \A e \in queue : e \in Events
      /\ \A e \in Events : ev[e].uid \in Int /\ ev[e].time \in Nat
      /\ ev \in [Events -> EventType] /\ status \in [Timers -> {"IDLE", "PENDING", "HANDLING"}]
  BY BoundsAssumption DEF IInv, TypeOK, EventType
<1>4. StatusMatches'
  <2>1. \A e \in Events : ev'[e].uid = IF e = t THEN uid ELSE ev[e].uid
    BY <1>1, <1>2, <1>3
  <2>2. \A x \in Timers : status'[x] = IF x = t THEN "PENDING" ELSE status[x]
    BY <1>3
  <2> QED
    BY <1>2, <1>3, <2>1, <2>2 DEF StatusMatches, IInv, Consistent
<1>5. UidsDiffer'
  <2>1. \A e \in Events : ev'[e].uid = IF e = t THEN uid ELSE ev[e].uid
    BY <1>1, <1>2, <1>3
  <2> QED
    BY <1>1, <1>2, <1>3, <2>1 DEF UidsDiffer, IInv, Consistent
<1>6. NothingOverdue'
  <2>1. \A e \in Events : ev'[e].time = IF e = t THEN clock + d ELSE ev[e].time
    BY <1>1, <1>2, <1>3
  <2> QED
    BY <1>1, <1>2, <1>3, <2>1 DEF NothingOverdue, IInv, Consistent
<1>7. running' \in AtEvents => running' \notin queue'
  BY <1>1, <1>2 DEF IInv, Consistent
<1> QED
  BY <1>4, <1>5, <1>6, <1>7 DEF Consistent

(* An event that leaves the queue with a uid_ that is not positive.        *)
LEMMA LeavesQueue ==
  ASSUME IInv, err = "none", NEW e \in Events,
         queue' = queue \ {e},
         NEW u \in Int, u <= 0,
         ev' = [ev EXCEPT ![e].uid = u],
         uid' = uid
  PROVE  /\ \A x \in Events : x \in queue' <=> ev'[x].uid > 0
         /\ UidsDiffer'
         /\ \A x \in queue' : ev'[x].time = ev[x].time
<1>1. /\ \A x \in queue : x \in Events
      /\ \A x \in Events : ev[x].uid \in Int
      /\ ev \in [Events -> EventType]
  BY BoundsAssumption DEF IInv, TypeOK, EventType
<1>2. \A x \in Events : /\ ev'[x].uid = IF x = e THEN u ELSE ev[x].uid
                        /\ ev'[x].time = ev[x].time
  BY <1>1 DEF EventType
<1> QED
  BY <1>1, <1>2 DEF IInv, Consistent, StatusMatches, UidsDiffer

(* cancel() of a pending timer.                                            *)
LEMMA CancelledTimer ==
  ASSUME IInv, NEW t \in Timers, Dequeued(t), err = "none",
         status' = [status EXCEPT ![t] = "IDLE"],
         UNCHANGED <<Loop, uid>>
  PROVE  Consistent'
<1>1. t \in Events /\ ev[t].uid \in Int
  BY BoundsAssumption DEF Events, IInv, TypeOK
<1>2. cancelled(t) \in Int /\ cancelled(t) <= 0
  BY <1>1 DEF cancelled
<1>3. /\ \A x \in Events : x \in queue' <=> ev'[x].uid > 0
      /\ UidsDiffer'
      /\ \A x \in queue' : ev'[x].time = ev[x].time
  BY <1>1, <1>2, LeavesQueue DEF Dequeued
<1>4. \A x \in Timers : status'[x] = IF x = t THEN "IDLE" ELSE status[x]
  BY DEF IInv, TypeOK
<1>5. queue' = queue \ {t} /\ clock' = clock /\ running' = running /\ rt' = rt
  BY DEF Dequeued, Loop
<1>6. StatusMatches'
  BY <1>3, <1>4, <1>5 DEF StatusMatches, IInv, Consistent
<1>7. NothingOverdue'
  BY <1>3, <1>5 DEF NothingOverdue, IInv, Consistent
<1> QED
  BY <1>3, <1>5, <1>6, <1>7 DEF Consistent, IInv

(* The command "at" takes an AtEvent that is neither in the queue nor      *)
(* running.                                                                *)
LEMMA ScheduledAtEvent ==
  ASSUME IInv, NEW d \in Delays, at(d)
  PROVE  Consistent'
<1>1. PICK e \in FreeAtEvents : schedule(e, d)
  BY DEF at
<1>2. /\ e \in AtEvents /\ e \in Events /\ e \notin Timers /\ e \notin queue /\ e # running
      /\ d \in Nat
  BY EventsAssumption, DelaysAssumption DEF Events, FreeAtEvents
<1>3. /\ ev' = [ev EXCEPT ![e] = [time |-> clock + d, uid |-> uid]]
      /\ uid' = uid + 1 /\ queue' = queue \cup {e}
      /\ clock' = clock /\ running' = running /\ rt' = rt /\ status' = status
      /\ err = "none"
  BY <1>1 DEF schedule, Loop, at, CodeRuns
<1>4. /\ uid \in Nat \ {0} /\ clock \in Nat
      /\ \A x \in queue : x \in Events
      /\ \A x \in Events : ev[x].uid \in Int /\ ev[x].time \in Nat
      /\ ev \in [Events -> EventType]
  BY BoundsAssumption DEF IInv, TypeOK, EventType
<1>5. \A x \in Events : /\ ev'[x].uid = IF x = e THEN uid ELSE ev[x].uid
                        /\ ev'[x].time = IF x = e THEN clock + d ELSE ev[x].time
  BY <1>2, <1>3, <1>4
<1>6. StatusMatches'
  BY <1>2, <1>3, <1>4, <1>5 DEF StatusMatches, IInv, Consistent
<1>7. UidsDiffer'
  BY <1>2, <1>3, <1>4, <1>5 DEF UidsDiffer, IInv, Consistent
<1>8. NothingOverdue'
  BY <1>2, <1>3, <1>4, <1>5 DEF NothingOverdue, IInv, Consistent
<1> QED
  BY <1>2, <1>3, <1>6, <1>7, <1>8 DEF Consistent, IInv

(* The command "cancel".                                                   *)
LEMMA CancelledAtEvent ==
  ASSUME IInv, NEW e \in Kept, cancel_at(e)
  PROVE  Consistent'
<1>1. e \in AtEvents /\ e \in Events /\ e \notin Timers
  BY KeptAssumption, EventsAssumption DEF Events
<1>2. /\ queue' = queue \ {e} /\ clock' = clock /\ running' = running /\ rt' = rt
      /\ status' = status /\ err = "none" /\ uid' = uid
      /\ ev' = [ev EXCEPT ![e].uid = 0]
  BY DEF cancel_at, Loop, CodeRuns
<1>3. /\ \A x \in Events : x \in queue' <=> ev'[x].uid > 0
      /\ UidsDiffer'
      /\ \A x \in queue' : ev'[x].time = ev[x].time
  <2>1. 0 \in Int /\ 0 <= 0
    OBVIOUS
  <2> QED
    BY <1>1, <1>2, <2>1, LeavesQueue
<1>4. StatusMatches'
  BY <1>1, <1>2, <1>3 DEF StatusMatches, IInv, Consistent
<1>5. NothingOverdue'
  BY <1>2, <1>3 DEF NothingOverdue, IInv, Consistent
<1> QED
  BY <1>2, <1>3, <1>4, <1>5 DEF Consistent, IInv

(* dispatch() takes the first event: it is not overdue, and a timer's is   *)
(* pending.                                                                *)
LEMMA Dispatched ==
  ASSUME IInv, dispatch
  PROVE  Consistent' /\ err' = "none"
<1> DEFINE e == First
           t == IF rt THEN clock ELSE ev[e].time
<1>1. /\ err = "none" /\ running = NONE /\ Consistent
      /\ e \in queue /\ e \in Events /\ \A f \in queue \ {e} : Before(e, f)
  <2>1. err = "none" /\ running = NONE /\ queue # {}
    BY DEF dispatch, LoopTop
  <2>2. Consistent /\ UidsDiffer /\ TypeOK
    BY <2>1 DEF IInv, Consistent
  <2>3. e \in queue /\ \A f \in queue \ {e} : Before(e, f)
    BY <2>1, <2>2, FirstIsFirst
  <2> QED
    BY <2>1, <2>2, <2>3 DEF TypeOK
<1>2. /\ rt => ev[e].time <= clock
      /\ clock' = t
      /\ ev' = [ev EXCEPT ![e].uid = - ev[e].uid]
      /\ queue' = queue \ {e}
      /\ running' = e
      /\ status' = [x \in Timers |-> IF x = e THEN "HANDLING" ELSE status[x]]
      /\ err' = IF t < clock THEN "going backwards in time"
                ELSE IF e \in Timers /\ status[e] # "PENDING"
                       THEN "timer not pending" ELSE "none"
      /\ uid' = uid /\ rt' = rt
  BY DEF dispatch
<1>3. /\ \A x \in Events : ev[x].uid \in Int /\ ev[x].time \in Nat
      /\ \A x \in queue : x \in Events
      /\ clock \in Nat
  BY BoundsAssumption DEF IInv, TypeOK
<1> HIDE DEF e
<1>4. -ev[e].uid \in Int /\ -ev[e].uid <= 0
  BY <1>1, <1>3 DEF Consistent, StatusMatches
<1>5. /\ \A x \in Events : x \in queue' <=> ev'[x].uid > 0
      /\ UidsDiffer'
      /\ \A x \in queue' : ev'[x].time = ev[x].time
  BY <1>1, <1>2, <1>4, LeavesQueue
<1>6. StatusMatches'
  <2>1. \A x \in Timers : status[x] = "HANDLING" => x = NONE
    BY <1>1 DEF Consistent, StatusMatches
  <2>2. NONE \notin Timers
    BY EventsAssumption DEF Events
  <2>3. \A x \in Timers : status'[x] = IF x = e THEN "HANDLING" ELSE status[x]
    BY <1>2
  <2> QED
    BY <1>1, <1>2, <1>5, <2>1, <2>2, <2>3 DEF StatusMatches, Consistent
<1>7. NothingOverdue'
  <2> SUFFICES ASSUME ~rt, NEW f \in queue' PROVE clock' <= ev'[f].time
    BY <1>2 DEF NothingOverdue
  <2>1. Before(e, f)
    BY <1>1, <1>2
  <2> QED
    <3>1. ev[e].time <= ev[f].time
      <4>1. f \in Events /\ e \in Events
        BY <1>1, <1>2, <1>3
      <4>2. ev[e].time \in Nat /\ ev[f].time \in Nat
        BY <1>3, <4>1
      <4> QED
        BY <2>1, <4>2 DEF Before
    <3>2. clock' = ev[e].time
      BY <1>2
    <3> QED
      BY <1>5, <3>1, <3>2
<1>8. err' = "none"
  <2>1. ~(t < clock)
    <3>1. CASE rt
      BY <1>3, <3>1
    <3>2. CASE ~rt
      <4>1. clock <= ev[e].time
        BY <1>1, <3>2 DEF Consistent, NothingOverdue
      <4> QED
        BY <1>1, <1>3, <3>2, <4>1
    <3> QED
      BY <3>1, <3>2
  <2>2. e \in Timers => status[e] = "PENDING"
    BY <1>1 DEF Consistent, StatusMatches
  <2> QED
    BY <1>2, <2>1, <2>2
<1> QED
  BY <1>2, <1>5, <1>6, <1>7, <1>8 DEF Consistent

(* The handler returns.                                                    *)
LEMMA HandlerReturns ==
  ASSUME IInv, handled
  PROVE  Consistent'
<1>1. /\ err = "none" /\ Consistent /\ running \in Events /\ NONE \notin Events
      /\ running' = NONE /\ queue' = queue /\ uid' = uid /\ clock' = clock /\ rt' = rt
  BY EventsAssumption DEF handled, IInv, TypeOK
<1>2. \A x \in Timers :
        status'[x] = IF x = running /\ status[x] = "HANDLING" THEN "IDLE" ELSE status[x]
  BY DEF handled
<1>3. /\ ev \in [Events -> EventType]
      /\ \A x \in Events : ev[x].uid \in Int
      /\ \A x \in queue : x \in Events
  BY DEF IInv, TypeOK, EventType
<1>4. \A x \in Events :
        /\ ev'[x].time = ev[x].time
        /\ ev'[x].uid = IF x = running /\ x \in AtEvents THEN 0 ELSE ev[x].uid
  BY <1>1, <1>3 DEF handled, EventType
<1>5. StatusMatches'
  BY <1>1, <1>2, <1>3, <1>4 DEF StatusMatches, Consistent
<1>6. UidsDiffer'
  BY <1>1, <1>3, <1>4 DEF UidsDiffer, Consistent
<1>7. NothingOverdue'
  BY <1>1, <1>3, <1>4 DEF NothingOverdue, Consistent
<1>8. running' \notin AtEvents
  BY <1>1 DEF Events
<1> QED
  BY <1>5, <1>6, <1>7, <1>8 DEF Consistent

(* No step breaks the invariant: where it does not abort, the state is     *)
(* consistent again, and only the two misuses abort.                       *)
LEMMA InvStep == IInv /\ [Next]_vars => IInv'
<1> SUFFICES ASSUME IInv, [Next]_vars
             PROVE  err' \notin Internal /\ (err' = "none" => Consistent')
  BY TypeStep DEF IInv
<1> USE DEF Internal, Misuse
<1>1. ASSUME NEW t \in Timers, NEW d \in Delays, sched(t, d)
      PROVE  err' \notin Internal /\ (err' = "none" => Consistent')
  <2>1. status[t] = "IDLE" => ~(ev[t].uid > 0)
    BY <1>1 DEF IInv, Consistent, StatusMatches, sched, CodeRuns, Events
  <2>2. Consistent'
    BY <1>1, ScheduledTimer DEF sched, CodeRuns
  <2> QED
    BY <1>1, <2>1, <2>2 DEF sched
<1>2. ASSUME NEW t \in Timers, NEW d \in Delays, resched(t, d)
      PROVE  err' \notin Internal /\ (err' = "none" => Consistent')
  <2>1. ~(uid_before_sched(t) > 0)
    <3>1. ev[t].uid \in Int /\ (ev[t].uid > 0 => status[t] = "PENDING")
      <4>1. t \in Events /\ Consistent /\ TypeOK
        BY <1>2 DEF IInv, resched, CodeRuns, Events
      <4>2. ev[t].uid \in Int
        <5>1. ev \in [Events -> EventType]
          BY <4>1 DEF TypeOK, EventType
        <5> QED
          BY <4>1, <5>1, BoundsAssumption DEF EventType
      <4> QED
        BY <4>1, <4>2 DEF Consistent, StatusMatches
    <3> QED
      BY <3>1 DEF uid_before_sched, cancelled
  <2>2. Consistent'
    BY <1>2, ScheduledTimer DEF resched, CodeRuns
  <2> QED
    BY <1>2, <2>1, <2>2 DEF resched
<1>3. ASSUME NEW t \in Timers, cancel(t)
      PROVE  err' \notin Internal /\ (err' = "none" => Consistent')
  BY <1>3, CancelledTimer DEF cancel, CodeRuns
<1>4. ASSUME NEW t \in Timers, force_cancel(t)
      PROVE  err' \notin Internal /\ (err' = "none" => Consistent')
  BY <1>4, CancelledTimer DEF force_cancel, CodeRuns
<1>5. ASSUME NEW d \in Delays, at(d)
      PROVE  err' \notin Internal /\ (err' = "none" => Consistent')
  BY <1>5, ScheduledAtEvent DEF at, CodeRuns
<1>6. ASSUME NEW e \in Kept, cancel_at(e)
      PROVE  err' \notin Internal /\ (err' = "none" => Consistent')
  BY <1>6, CancelledAtEvent DEF cancel_at, CodeRuns
<1>7. CASE handled
  BY <1>7, HandlerReturns DEF handled
<1>8. CASE dispatch
  BY <1>8, Dispatched
<1>9. CASE run
  BY <1>9 DEF run, IInv, TypeOK, Consistent, StatusMatches, UidsDiffer, NothingOverdue
<1>10. CASE resume \/ leave_run \/ halt
  BY <1>10 DEF resume, leave_run, halt, LoopTop, CodeRuns, IInv, Consistent, StatusMatches,
               UidsDiffer, NothingOverdue
<1>11. CASE real_time_passes
  BY <1>11 DEF real_time_passes, LoopTop, IInv, Consistent, StatusMatches, UidsDiffer,
               NothingOverdue
<1>12. CASE UNCHANGED vars
  BY <1>12 DEF vars, IInv, Consistent, StatusMatches, UidsDiffer, NothingOverdue
<1> QED
  BY <1>1, <1>2, <1>3, <1>4, <1>5, <1>6, <1>7, <1>8, <1>9, <1>10, <1>11, <1>12
     DEF Next, TimerCall, AtCall, LoopStep

(* A script that schedules each of its AtEvents once starts consistent.    *)
LEMMA InvInit == Init => IInv
<1> SUFFICES ASSUME Init PROVE IInv
  OBVIOUS
<1>1. PICK p \in Preloads :
        /\ clock = 0 /\ uid = p.uid /\ running = NONE /\ rt = p.rt /\ err = "none"
        /\ looping = FALSE /\ halted = FALSE
        /\ ev = [e \in Events |->
               IF \E i \in DOMAIN p.at : p.at[i][1] = e
                 THEN LET i == CHOOSE i \in DOMAIN p.at : p.at[i][1] = e
                      IN [time |-> p.at[i][2], uid |-> i]
                 ELSE [time |-> 0, uid |-> 0]]
        /\ queue = {p.at[i][1] : i \in DOMAIN p.at}
        /\ status = [t \in Timers |-> "IDLE"]
  BY DEF Init
<1> DEFINE n == Len(p.at)
<1>2. /\ n \in Nat /\ DOMAIN p.at = 1..n /\ p.uid \in (n + 1)..MaxUid /\ p.rt \in BOOLEAN
      /\ \A i \in 1..n : p.at[i][1] \in AtEvents /\ p.at[i][2] \in 0..MaxTime
      /\ \A i, j \in 1..n : p.at[i][1] = p.at[j][1] => i = j
  BY PreloadAssumption
<1>3. \A e \in Events : e \in queue <=> \E i \in 1..n : p.at[i][1] = e
  BY <1>1, <1>2
<1> HIDE DEF n
<1>4. \A i \in 1..n : /\ p.at[i][1] \in Events
                      /\ ev[p.at[i][1]] = [time |-> p.at[i][2], uid |-> i]
  <2> SUFFICES ASSUME NEW i \in 1..n
               PROVE  /\ p.at[i][1] \in Events
                      /\ ev[p.at[i][1]] = [time |-> p.at[i][2], uid |-> i]
    OBVIOUS
  <2>1. p.at[i][1] \in Events
    BY <1>2 DEF Events
  <2>2. (CHOOSE j \in DOMAIN p.at : p.at[j][1] = p.at[i][1]) = i
    BY <1>2
  <2> QED
    BY <1>1, <1>2, <2>1, <2>2
<1>5. \A e \in Events : e \notin queue => ev[e] = [time |-> 0, uid |-> 0]
  BY <1>1, <1>2, <1>3
<1>6. \A e \in queue : \E i \in 1..n : e = p.at[i][1]
  BY <1>1, <1>2
<1>7. 0 \in 0..MaxTime /\ 0 \in -MaxUid..MaxUid /\ \A i \in 1..n : i \in -MaxUid..MaxUid
  BY <1>2, BoundsAssumption
<1>8. TypeOK
  <2>1. ev = [e \in Events |-> ev[e]]
    BY <1>1
  <2>2. \A e \in Events : ev[e] \in [time : 0..MaxTime, uid : -MaxUid..MaxUid]
    <3> TAKE e \in Events
    <3>1. CASE e \in queue
      <4>1. PICK i \in 1..n : e = p.at[i][1]
        BY <1>6, <3>1
      <4>2. ev[e] = [time |-> p.at[i][2], uid |-> i]
        BY <1>4, <4>1
      <4>3. p.at[i][2] \in 0..MaxTime
        BY <1>2
      <4> QED
        BY <1>7, <4>1, <4>2, <4>3
    <3>2. CASE e \notin queue
      BY <1>5, <1>7, <3>2
    <3> QED
      BY <3>1, <3>2
  <2>3. queue \subseteq Events
    BY <1>4, <1>6
  <2>4. uid \in 1..(MaxUid + 1)
    BY <1>1, <1>2, BoundsAssumption
  <2> QED
    BY <1>1, <1>2, <1>7, <2>1, <2>2, <2>3, <2>4 DEF TypeOK
<1>9. StatusMatches
  <2>1. \A e \in Events : e \in queue <=> ev[e].uid > 0
    <3> TAKE e \in Events
    <3>1. CASE e \in queue
      <4>1. PICK i \in 1..n : e = p.at[i][1]
        BY <1>6, <3>1
      <4> QED
        <5>1. ev[e] = [time |-> p.at[i][2], uid |-> i]
          BY <1>4, <4>1
        <5>2. ev[e].uid = i
          BY <5>1
        <5> QED
          BY <1>2, <3>1, <5>2
    <3>2. CASE e \notin queue
      BY <1>5, <3>2
    <3> QED
      BY <3>1, <3>2
  <2>2. \A t \in Timers : t \notin queue
    BY <1>2, <1>6, EventsAssumption
  <2> QED
    BY <1>1, <2>1, <2>2 DEF StatusMatches
<1>10. UidsDiffer
  <2>1. \A e \in queue : \E i \in 1..n : e = p.at[i][1] /\ ev[e].uid = i
    <3> TAKE e \in queue
    <3>1. PICK i \in 1..n : e = p.at[i][1]
      BY <1>6
    <3>2. ev[e] = [time |-> p.at[i][2], uid |-> i]
      BY <1>4, <3>1
    <3>3. ev[e].uid = i
      BY <3>2
    <3> QED
      BY <3>1, <3>3
  <2>2. \A i \in 1..n : i < uid
    BY <1>1, <1>2
  <2>3. \A e, f \in queue : ev[e].uid = ev[f].uid => e = f
    BY <2>1
  <2> QED
    BY <2>1, <2>2, <2>3 DEF UidsDiffer
<1>11. NothingOverdue
  <2>1. \A e \in queue : 0 <= ev[e].time
    <3>1. \A e \in queue : e \in Events
      BY <1>8 DEF TypeOK
    <3> QED
      BY <1>8, <3>1, BoundsAssumption DEF TypeOK
  <2> QED
    BY <1>1, <2>1 DEF NothingOverdue
<1>12. running \notin AtEvents
  BY <1>1, EventsAssumption DEF Events
<1> QED
  BY <1>1, <1>8, <1>9, <1>10, <1>11, <1>12 DEF IInv, Consistent, Internal

LEMMA Invariance == Spec => []IInv
  BY InvInit, InvStep, PTL DEF Spec

-----------------------------------------------------------------------------
(* The status of a timer and the queue of the scheduler agree in every     *)
(* state before an abort, for every order of calls of TimerHandler and     *)
(* Scheduler, from within expire() and from scripts.                       *)
THEOREM TimersSafe == Spec => []TimersMatchQueue
<1>1. IInv => TimersMatchQueue
  BY DEF IInv, Consistent, StatusMatches, TimersMatchQueue, TypeOK, Misuse, Internal
<1> QED
  BY <1>1, Invariance, PTL

(* schedule(), handle() and dispatch() never abort: no event is scheduled  *)
(* twice, no timer expires that is not pending, and the clock of a         *)
(* simulation never goes back, also across "run", "halt" and "resume".     *)
THEOREM NoInternalAbortSafe == Spec => []NoInternalAbort
<1>1. IInv => NoInternalAbort
  BY DEF IInv, NoInternalAbort
<1> QED
  BY <1>1, Invariance, PTL
=============================================================================
