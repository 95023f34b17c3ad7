---------------------------- MODULE TimerHandler ----------------------------
(***************************************************************************)
(* Scheduler (common/scheduler.cc) and TimerHandler                        *)
(* (common/timer-handler.cc): the run loop, the life of an event, the      *)
(* states of a timer, and the commands at, cancel, halt, resume and run.   *)
(*                                                                         *)
(* The queue behind the scheduler is abstract here: a set of events, of    *)
(* which deque() takes the first by time and, among equal times, by uid_.  *)
(* Schedulers.tla puts the five structures of the code next to it.         *)
(***************************************************************************)
EXTENDS Integers, Sequences, FiniteSets

CONSTANTS
  Timers,     \* the TimerHandlers, each with its own event_
  AtEvents,   \* room for AtEvents, allocated by the command "at"
  Delays,     \* delays that callers ask for
  Kept,       \* AtEvents whose id a script keeps for "cancel"
  Preloads,   \* what a script schedules with "at" before anything else: a
              \* sequence of <<AtEvent, time>>, uid_ after it, and whether
              \* the scheduler is Scheduler/RealTime
  Ticks,      \* how far the time of day moves between two looks at it
  MaxTime,    \* bound on the clock and on the times of events
  MaxUid      \* bound on uid_, and so on the number of calls of schedule()

Events == Timers \cup AtEvents
NONE == 0

ASSUME EventsAssumption == NONE \notin Events /\ Timers \cap AtEvents = {}
ASSUME DelaysAssumption == Delays \subseteq Nat
ASSUME TicksAssumption == Ticks \subseteq Nat
ASSUME BoundsAssumption == MaxTime \in Nat /\ MaxUid \in Nat
ASSUME KeptAssumption == Kept \subseteq AtEvents
ASSUME PreloadAssumption ==
  \A p \in Preloads :
     /\ p.at \in Seq(AtEvents \X (0..MaxTime))
     /\ p.uid \in (Len(p.at) + 1)..MaxUid
     /\ p.rt \in BOOLEAN
     /\ \A i, j \in DOMAIN p.at : p.at[i][1] = p.at[j][1] => i = j

VARIABLES
  clock,    \* clock_
  uid,      \* Scheduler::uid_, the next one to give away
  ev,       \* time_ and uid_ of every event
  queue,    \* the events in the scheduler's queue
  status,   \* status_ of every timer
  running,  \* the event whose handler runs, or NONE
  looping,  \* inside run()
  halted,   \* halted_
  rt,       \* the scheduler is a RealTimeScheduler
  err       \* reason of an abort()

vars == <<clock, uid, ev, queue, status, running, looping, halted, rt, err>>

Misuse == {"Couldn't schedule timer", "cancel timer which is not scheduled"}
Internal == {"Event UID not valid", "timer not pending", "going backwards in time"}

TypeOK ==
  /\ clock \in 0..MaxTime
  /\ uid \in 1..(MaxUid + 1)
  /\ ev \in [Events -> [time : 0..MaxTime, uid : -MaxUid..MaxUid]]
  /\ queue \in SUBSET Events
  /\ status \in [Timers -> {"IDLE", "PENDING", "HANDLING"}]
  /\ running \in Events \cup {NONE}
  /\ looping \in BOOLEAN /\ halted \in BOOLEAN /\ rt \in BOOLEAN
  /\ err \in {"none"} \cup Misuse \cup Internal

Init ==
  \E p \in Preloads :
    /\ clock = 0
    /\ uid = p.uid
    /\ ev = [e \in Events |->
               IF \E i \in DOMAIN p.at : p.at[i][1] = e
                 THEN LET i == CHOOSE i \in DOMAIN p.at : p.at[i][1] = e
                      IN [time |-> p.at[i][2], uid |-> i]
                 ELSE [time |-> 0, uid |-> 0]]
    /\ queue = {p.at[i][1] : i \in DOMAIN p.at}
    /\ status = [t \in Timers |-> "IDLE"]
    /\ running = NONE
    /\ looping = FALSE
    /\ halted = FALSE
    /\ rt = p.rt
    /\ err = "none"

-----------------------------------------------------------------------------
(* Calls that simulation code makes: from a handler, from a script outside *)
(* run(), or from Tcl_DoOneEvent in the loop of a RealTimeScheduler. After *)
(* an abort() no action is enabled; what such a step does to the other     *)
(* variables does not matter.                                              *)

CodeRuns ==
  /\ err = "none"
  /\ running # NONE \/ ~looping \/ rt

Before(e, f) ==
  \/ ev[e].time < ev[f].time
  \/ ev[e].time = ev[f].time /\ ev[e].uid < ev[f].uid

First == CHOOSE e \in queue : \A f \in queue \ {e} : Before(e, f)

(* schedule(), for an event whose uid_ is not positive: each caller below  *)
(* says in err' when it is.                                                *)
schedule(e, delay) ==
  /\ uid <= MaxUid
  /\ clock + delay <= MaxTime
  /\ ev' = [ev EXCEPT ![e] = [time |-> clock + delay, uid |-> uid]]
  /\ uid' = uid + 1
  /\ queue' = queue \cup {e}

(* cancel() of every scheduler: an event whose uid_ is not positive is not *)
(* in the queue.                                                           *)
cancelled(e) == IF ev[e].uid > 0 THEN - ev[e].uid ELSE ev[e].uid

Loop == <<clock, running, looping, halted, rt>>

sched(t, delay) ==
  /\ CodeRuns
  /\ schedule(t, delay)
  /\ status' = [status EXCEPT ![t] = "PENDING"]
  /\ err' = IF status[t] # "IDLE" THEN "Couldn't schedule timer"
            ELSE IF ev[t].uid > 0 THEN "Event UID not valid" ELSE "none"
  /\ UNCHANGED Loop

(* Mutant: resched() does not cancel a pending event.                      *)
MutUidBeforeSched(t) == ev[t].uid

uid_before_sched(t) ==
  IF status[t] = "PENDING" THEN cancelled(t) ELSE ev[t].uid

resched(t, delay) ==
  /\ CodeRuns
  /\ schedule(t, delay)
  /\ status' = [status EXCEPT ![t] = "PENDING"]
  /\ err' = IF uid_before_sched(t) > 0 THEN "Event UID not valid" ELSE "none"
  /\ UNCHANGED Loop

Dequeued(e) ==
  /\ ev' = [ev EXCEPT ![e].uid = cancelled(e)]
  /\ queue' = queue \ {e}

cancel(t) ==
  /\ CodeRuns
  /\ Dequeued(t)
  /\ status' = [status EXCEPT ![t] = "IDLE"]
  /\ err' = IF status[t] # "PENDING"
              THEN "cancel timer which is not scheduled" ELSE "none"
  /\ UNCHANGED <<Loop, uid>>

force_cancel(t) ==
  /\ CodeRuns
  /\ status[t] = "PENDING"
  /\ Dequeued(t)
  /\ status' = [status EXCEPT ![t] = "IDLE"]
  /\ UNCHANGED <<Loop, uid, err>>

(* The command "at": a new AtEvent. The one whose handler runs is only     *)
(* deleted after its script.                                               *)
FreeAtEvents == AtEvents \ (queue \cup {running})

at(delay) ==
  /\ CodeRuns
  /\ FreeAtEvents # {}
  /\ LET e == CHOOSE e \in FreeAtEvents : TRUE
     IN schedule(e, delay)
  /\ UNCHANGED <<Loop, status, err>>

(* The command "cancel" with the id that "at" returned: lookup(), cancel() *)
(* and delete. An id that is not in the queue is ignored.                  *)
cancel_at(e) ==
  /\ CodeRuns
  /\ e \in queue
  /\ queue' = queue \ {e}
  /\ ev' = [ev EXCEPT ![e].uid = 0]
  /\ UNCHANGED <<Loop, uid, status, err>>

halt ==
  /\ CodeRuns
  /\ ~halted
  /\ halted' = TRUE
  /\ UNCHANGED <<clock, uid, ev, queue, status, running, looping, rt, err>>

-----------------------------------------------------------------------------
(* run()                                                                   *)

(* The commands "run", which sets the clock back first, and "resume". A    *)
(* second reset() of a RealTimeScheduler, which would compute a new start  *)
(* of time from the old one, is left out.                                  *)
run ==
  /\ err = "none" /\ ~looping
  /\ rt => clock = 0
  /\ looping' = TRUE
  /\ clock' = 0
  /\ UNCHANGED <<uid, ev, queue, status, running, halted, rt, err>>

resume ==
  /\ err = "none" /\ ~looping
  /\ halted' = FALSE
  /\ looping' = TRUE
  /\ UNCHANGED <<clock, uid, ev, queue, status, running, rt, err>>

LoopTop == err = "none" /\ looping /\ running = NONE

(* The loop ends when halted_ is set, and in a simulation when no event is *)
(* left.                                                                   *)
leave_run ==
  /\ LoopTop
  /\ halted \/ (queue = {} /\ ~rt)
  /\ looping' = FALSE
  /\ UNCHANGED <<clock, uid, ev, queue, status, running, halted, rt, err>>

(* RealTimeScheduler::run reads the time of day and looks at head() every  *)
(* time round.                                                             *)
real_time_passes ==
  /\ LoopTop /\ rt /\ ~halted
  /\ clock' \in {clock + d : d \in Ticks} /\ clock' <= MaxTime
  /\ UNCHANGED <<uid, ev, queue, status, running, looping, halted, rt, err>>

(* dispatch(), up to the call of expire() or of the script of an AtEvent.  *)
dispatch ==
  /\ LoopTop /\ ~halted /\ queue # {}
  /\ LET e == First
         t == IF rt THEN clock ELSE ev[e].time
     IN /\ rt => ev[e].time <= clock
        /\ clock' = t
        /\ ev' = [ev EXCEPT ![e].uid = - ev[e].uid]
        /\ queue' = queue \ {e}
        /\ running' = e
        /\ status' = [x \in Timers |-> IF x = e THEN "HANDLING" ELSE status[x]]
        /\ err' = IF t < clock THEN "going backwards in time"
                  ELSE IF e \in Timers /\ status[e] # "PENDING"
                         THEN "timer not pending" ELSE "none"
  /\ UNCHANGED <<uid, looping, halted, rt>>

(* Mutant: a timer that expire() has scheduled again is idle as well.      *)
MutHandled ==
  /\ err = "none" /\ running # NONE
  /\ running' = NONE
  /\ status' = [x \in Timers |-> IF x = running THEN "IDLE" ELSE status[x]]
  /\ ev' = IF running \in AtEvents THEN [ev EXCEPT ![running].uid = 0] ELSE ev
  /\ UNCHANGED <<clock, uid, queue, looping, halted, rt, err>>

(* The handler returns: a timer that was not scheduled again is idle, an   *)
(* AtEvent is deleted.                                                     *)
handled ==
  /\ err = "none" /\ running # NONE
  /\ running' = NONE
  /\ status' = [x \in Timers |->
                  IF x = running /\ status[x] = "HANDLING" THEN "IDLE" ELSE status[x]]
  /\ ev' = IF running \in AtEvents THEN [ev EXCEPT ![running].uid = 0] ELSE ev
  /\ UNCHANGED <<clock, uid, queue, looping, halted, rt, err>>

-----------------------------------------------------------------------------
TimerCall ==
  \E t \in Timers :
    \/ \E d \in Delays : sched(t, d) \/ resched(t, d)
    \/ cancel(t)
    \/ force_cancel(t)

AtCall == (\E d \in Delays : at(d)) \/ (\E e \in Kept : cancel_at(e))

LoopStep == run \/ resume \/ leave_run \/ handled \/ halt

Next == TimerCall \/ AtCall \/ LoopStep \/ dispatch \/ real_time_passes

Spec == Init /\ [][Next]_vars

-----------------------------------------------------------------------------
(* status_ and the queue are kept by two classes that do not look at each  *)
(* other: a timer is TIMER_PENDING exactly while its event is in the       *)
(* queue, an event's uid_ is positive exactly then, and TIMER_HANDLING is  *)
(* left behind by no order of calls from within expire().                  *)
TimersMatchQueue ==
  err \notin Misuse =>
    /\ \A t \in Timers : status[t] = "PENDING" <=> t \in queue
    /\ \A t \in Timers : status[t] = "HANDLING" => running = t
    /\ \A e \in Events : e \in queue <=> ev[e].uid > 0

(* The aborts that callers cannot foresee, in schedule(), handle() and     *)
(* dispatch(), are not reached: only sched() of a timer that is not idle   *)
(* and cancel() of one that is not pending end a simulation, the two that  *)
(* timer-handler.h warns of.                                               *)
NoInternalAbort == err \notin Internal
=============================================================================
