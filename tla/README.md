# A verification model of ExpressPass for ns-2

The repository is ns-2.35 with one addition of its own: ExpressPass, a
credit-scheduled transport for data centres. A receiver paces small *credit*
packets towards the sender, every switch port limits credits to a fixed share of
its link, and the sender answers each credit with one data packet, so data meets
no congestion. The logic of the addition is in two classes, `Agent/XPass`
(`xpass/xpass.cc`) and `Queue/XPassDropTail` (`queue/xpass-drop-tail.cc`), on top
of ns-2's `Queue`, `LinkDelay`, `TimerHandler` and `Scheduler`. This directory
models those two classes, the event scheduler under them, and two protocols of
ns-2 that carry most of its state: the one-way TCP agents and AODV routing. TLC
checks the models; TLAPS proves the safety properties of the two classes, of the timers, of
two ports together, of TCP and of AODV for every size of the system.

## Inventory

| part | state | operations | interacts with | hard because |
|---|---|---|---|---|
| `XPassDropTail` | two `PacketQueue`s, `tokens_`, `token_bucket_clock_`, `credit_timer_` | `enque`, `deque`, `updateTokenBucket`, `expire` | called by `Queue::recv/resume/reset` and by its timer | three callers of `deque`, lazy refill in whole tokens, the timer is the only wakeup |
| `Queue`, `PacketQueue` | `blocked_`, list and byte count | `recv`, `resume`, `reset`; `enque`, `deque`, `remove` | hands packets to the link, is called back by it | `blocked_` has to agree with the link |
| `LinkDelay` | one `intr_` event | `recv` | schedules `intr_`, which calls `Queue::resume` | `intr_` may be scheduled only once |
| `XPassAgent`, data sender | `credit_recv_state_`, `curseq_`, `t_seqno_`, `credit_recved_`, `credit_recved_rtt_`, two timers | `advance-bytes`, `recv_credit`, `recv_nack`, `send_credit_stop`, `handle_sender_retransmit` | requests, data and stops to the receiver | early stop, retries, NACKs that restart a closed flow |
| `XPassAgent`, data receiver | `credit_send_state_`, `recv_next_`, `c_seqno_`, `c_recv_next_`, `cur_credit_rate_`, loss counts, three timers | `recv_credit_request`, `recv_data`, `recv_credit_stop`, `send_credit`, `handle_fct`, `handle_receiver_retransmit` | credits and NACKs to the sender | losses are inferred from gaps; timers of consecutive messages overlap |
| `credit_feedback_control` | `cur_credit_rate_`, `w_`, `can_increase_w_` | one function | reads the loss counts | integer truncation, clamps |
| `TimerHandler` | idle, pending, handling | `sched`, `resched`, `cancel`, `force_cancel`, `handle` | every timer above | `sched` aborts on a pending timer |
| `Scheduler` | clock, `uid_`, `halted_`, event queue (list, heap, calendar, splay) | `schedule`, `cancel`, `dispatch`, `run`, the commands `at`, `cancel`, `halt`, `resume` | everything | aborts on an event in the past or scheduled twice; five structures that must agree |
| `TcpAgent`, `RenoTcpAgent`, `NewRenoTcpAgent` | sequence numbers, `cwnd_`, `ssthresh_`, `dupacks_`, `dupwnd_`, `recover_`, the measured packet, `rtx_timer_` | `sendmsg`, `advanceby`, `recv`, `timeout`, `reset` | packets to a sink, acknowledgments back | lost packets and acknowledgments, early timeouts, partial acknowledgments |
| `TcpSink`, `DelAckSink` | `Acker`: `next_`, `maxseen_`, the ring `seen_`; a packet kept back | `recv`, `timeout`, `reset` | acknowledges to the sender | the ring is reused and doubled |
| `AODV` | own `seqno` and `bid`, route table, ids seen, send buffer, repair timers | `recvRequest`, `recvReply`, `recvError`, `rt_resolve`, `rt_ll_failed`, `rt_purge`, `LocalRepairTimer::handle` | packets between nodes; the link layer reports failures | messages lost, late and overtaking, links that break meanwhile |

What makes each part correct:

* port: credits leave at no more than the token rate with one bucket of burst; no
  packet waits for ever; the byte counts are exact; the link carries one packet
  at a time;
* agents: bytes arrive in order and once; every waiting state has the timer that
  leaves it; no `exit`/`abort` is reached; the flow ends on both sides and
  `fct.out` reports its size;
* rate control: the rate stays within its bounds and comes back after losses;
* ports together: what one port lets through, the opposite one can carry;
* scheduler: every structure dispatches the same event next; a timer is pending
  exactly while its event is queued;
* TCP: everything is delivered once, in order and in the end; no loss is left
  without a timer; round trips are measured on packets sent once;
* AODV: no routing loop; the destination can always overtake a number in use;
  the code's assertions hold.

`PROJECT.json` lists the components that are left out, and under `hazards` what a
test of this code would hardly reach.

## Modules

| module | what it is |
|---|---|
| `XPassDropTail` | a port: queue, token bucket, timer, `blocked_` and link |
| `CreditShaper` | abstract: a leaky bucket in continuous time |
| `XPassDropTailProofs` | theorems about a port |
| `XPassFlow` | one flow: data sender, data receiver and a lossy path |
| `FlowTransfer` | abstract: an in-order byte stream; what comes out is a prefix of what was submitted, each byte once |
| `XPassFlowProofs` | theorems about a flow |
| `CreditFeedback` | `credit_feedback_control` and `rtt_` of one agent |
| `CreditFeedbackProofs` | theorems about the rate and `rtt_` |
| `XPassDumbbell` | two instances of `XPassDropTail`, the two directions of a bottleneck, with the senders between them |
| `XPassDumbbellProofs` | a theorem about the two ports, from those about one |
| `TimerHandler` | timers, the run loop and the life of an event, over an abstract queue |
| `TimerHandlerProofs` | theorems about timers |
| `NumberTheorems` | lemmas about division, extrema and induction that the proofs share |
| `HeapQueue`, `SplayQueue`, `CalendarQueue` | the structures of the scheduler as operators |
| `Schedulers` | `TimerHandler` with all structures side by side |
| `Tcp` | the one-way TCP agents, their sinks and a lossy path |
| `TcpProofs` | theorems about the TCP agents and sinks |
| `Aodv` | nodes that run AODV over links that break and form |
| `AodvProofs` | theorems about AODV |
| `MC...` | what TLC runs on; values are in the `.cfg` files |

### `XPassDropTail`

Time is event driven: an action dispatches one event at its own time and never
passes one that is due earlier (`MayDispatch`, from `Scheduler::dispatch`). The unit of time is
chosen so that a token takes `TokenPeriod` units and a byte on the link
`TxPerByte`; the arithmetic of the bucket is then exact in integers. The rounding of
doubles is not modelled, the conversion to `int` and its overflow are (`ToInt`,
`Wrap`, with `INT_MAX` a constant).

| action | code |
|---|---|
| `RecvCredit`, `RecvData` | `Queue::recv` with `XPassDropTail::enque`, and `deque` when not blocked |
| `Resume` | `intr_` is dispatched and `Queue::resume` calls `deque` |
| `Expire` | `CreditTimer::expire` |
| `Reset` | `Queue::reset`: `deque` and drop until nothing comes, as one step |

`DequeAndSend` is `deque` and what its callers do with the result; its three
disjuncts are its three results: a credit, a data packet, nothing. `log` is a
history variable with the credits given to the link. `err` is the reason of an
`abort` or `exit`; no action is enabled after one.

### `XPassFlow`

An agent plays both roles, but they share no field except `rtt_`, which only
sets how long timers run. The model leaves the times of timers free, so one flow
in one direction stands for both. A pending timer is a flag; `sched` on a pending
timer sets `err`.

| action | code |
|---|---|
| `AdvanceBytes` | command `advance-bytes`, `advance_bytes` |
| `recv_credit_active`, `recv_credit_stop_sent`, `recv_credit_wasted` | `recv_credit` in the states REQUEST_SENT/RECEIVING, STOP_SENT, and CLOSE_WAIT/CLOSED |
| `recv_nack`, `send_credit_stop` | the functions of these names |
| `retransmit_request`, `retransmit_close_wait`, `retransmit_close` | `handle_sender_retransmit` by state |
| `recv_credit_request`, `recv_data`, `recv_credit_stop` | the functions of these names, with `process_ack` |
| `send_credit` | `SendCreditTimer::expire`, with `credit_feedback_control` and `construct_credit` |
| `handle_receiver_retransmit`, `handle_fct` | the functions of these names |
| `DropCredit`, `DropFlow`, `DropNack` | a port drops the packet; `Lossy` says which types it may drop |

Abstractions: a credit is its number; `cur_credit_rate_` is zero or positive
(`send_credit` at rate zero would be delayed for ever); whether
`credit_feedback_control` gets past its tests of time, and whether `rtt_` has
passed for the early stop, are free choices. The one relation between times that a
property needs is a constant: with `TimeoutCoversRoundTrip` the report timer does not
expire while credits, or the data they bring, are on their way, as with the default of
2 ms in a data centre. Two packets cannot leave the last
link at the same time, so none arrives while the zero-delay `credit_stop_timer_`
is pending (`SenderMayReceive`). `restarted` is history: a NACK has restarted the sender
with nothing left to send, and it has not stopped since. Data and stops share a FIFO, credits have their
own, since a port keeps two queues.

### `CreditFeedback`

Rates are integers as in the code, `(int)` of a quotient is `\div`; `w_` is in units of
1/`W`, time in whole units. `now` is the clock and `elapsed` is
`now() - last_credit_rate_update_`. An agent has one role or both (`Roles`), since `rtt_` is
the one field that they share: the data sender keeps the time of its request in it, the data
receiver averages round trips into it. A request is sent again when `retransmit_timeout_` has
passed without a credit, and the credit that ends the wait may come at any time, as a late
one does. A request may announce no packets; at the rate of zero that follows no credit is
due. The counts of credits stay at the bound `MaxTotal` when they reach it. `asked` stands for
the state CREDIT_REQUEST_SENT and its timer: when the outstanding request was sent. `disturbed`
and `first` are history: whether the last event was a loss or a new message, and whether the
rate is still the first of its message.

| action | code |
|---|---|
| `recv_credit_request`, `recv_data` | the functions of these names; `recv_data` with `update_rtt` |
| `send_credit` | `send_credit` when `credit_feedback_control` gets past its early returns |
| `send_credit_request` | `rtt_ = now()` in `construct_credit_request`, for a new request or one that `handle_sender_retransmit` sends again |
| `recv_first_credit` | `rtt_ = now() - rtt_` in `recv_credit` |
| `Idle` | the clock moves to the next event |

### `XPassDumbbell`

`A` and `B` are `INSTANCE XPassDropTail`. Credits of all flows leave through `A`; `AfterA`
hands a credit that `A` has put on its link to the sender it is for, `CreditAtSender`
answers with a segment over the host's link, and `PacketAtB` brings it to `B`. `Due` is
the scheduler: no part is dispatched past an event of another. A sender may stop with data
left (`stopped`), as `recv_credit` does when the credits on their way should suffice; later credits
bring the rest until it has none (`finished`). It makes no request after a stop. `SafeBuffer` is the largest
backlog that the bucket of `A`, the difference of the latencies and the stops can make.

### `TimerHandler`, `Schedulers`

| action | code |
|---|---|
| `sched`, `resched`, `cancel`, `force_cancel` | the functions of `TimerHandler`, called from a handler or a script |
| `at`, `cancel_at`, `halt`, `run`, `resume` | commands of `Scheduler` |
| `dispatch`, `handled` | `Scheduler::dispatch` up to the call of the handler, and what follows its return |
| `leave_run`, `real_time_passes` | the end of the loop of `run`; one turn of `RealTimeScheduler::run` |

`Schedulers` adds the list, the heap, the calendar and the tree. `CallStep`, `DispatchStep`
and `PeekStep` do to each of them what the abstract step did to the set. `heap_delete`
brings an entry to the root without looking at keys and removes the root, as the code
does; `cal_cancel` looks at both neighbours round the bucket's circle; the calendar grows
and shrinks, with the width from the measured gap or the fullest bucket. `Scheduler/Map`
is a `std::set` and therefore the abstract queue itself.

### `Tcp`

A handler runs to its end, so a function of the code is an operator from a sender to a
sender, in which `out` collects what it gives to the link; `snd`, `sink` and the two FIFOs
change once per event. `inc` stands for `lastreset_` and the time stamp of a packet.
`sent`, `resent` and `early` are history: the packets sent, sent more than once, and sent
before the application had produced them. Options have the defaults of `ns-default.tcl`.
`RingAssumption` says that the sender's window fits the sink's ring doubled twice; the model
stops doubling there, the code doubles as often as needed.

| action | code |
|---|---|
| `sendmsg`, `advanceby`, `stop` | the functions of these names and the command `advance 0` |
| `recv_ack` | `recv` of the three agents, by `variant` |
| `rtx_timeout` | `RtxTimer::expire`; early while something is on its way, up to `MaxSpurious` times |
| `sink_recv`, `delay_timeout` | `recv` and `timeout` of the sinks |
| `reset_both` | `reset` of both agents |
| `drop_data`, `drop_ack` | a full `DropTail` on the path |

### `Aodv`

A handler of node `n` maps the node's state to the next, with the packets it sends in
`out`, the next hops it filters from its interface queue in `cut` and a failed assertion in
`err`. Times are free: whether a route or a request has timed out is a choice. The link
layer either delivers a packet or, when the link is gone, reports a unicast data packet
to `rt_ll_failed`; a copy of a broadcast may collide. Nodes are numbers, as addresses are in
ns-2 (`NodesAssumption`).

| action | code |
|---|---|
| `Originate`, `Receive` | `recv`, `recvAODV` and the handlers behind it |
| `CannotSend` | the MAC's failure callback, `rt_ll_failed` |
| `RouteCacheTimer`, `LocalRepairTimer` | `rt_purge`; the end of a local repair |
| `Collide`, `Move` | collisions in the MAC, movement of nodes |

## Runs

Bounds are in the `.cfg` files. `CHECK_DEADLOCK FALSE` everywhere but in `feedback`, whose
clock goes on: a simulation ends when no event is left.

| run | result | shows |
|---|---|---|
| `port` | pass | bucket within its limits, no lost wakeup, link not used twice, timer neither early nor late, exact byte counts, credits conform to the rate over every window, refinement of `CreditShaper`; every accepted packet leaves |
| `flow_safety` | pass | two messages; credits, data and NACKs lost: all timer, state and sequence invariants, no abort, credits for a sender that waits for them unless a NACK restarted it with nothing left, refinement of `FlowTransfer` |
| `flow_credit_loss` | pass | only credits lost: delivery, closing and reporting, liveness included |
| `feedback` | pass | in each role and in both, with retries, late credits and requests for nothing: the rate of a receiver within its bounds, `rtt_` a duration where one role uses it and never negative where both do, recovery of both after losses and requests |
| `dumbbell` | pass | a data buffer of `SafeBuffer` never overflows; two credits never reach a sender together |
| `schedulers` | pass | the structures agree on the next event; the calendar's counts are exact; timers match the queue; no abort but the two that `timer-handler.h` warns of |
| `tcp` | pass | Karn's rule for packets that were not sent early, a timer while anything is outstanding, an exact sink, completion |
| `aodv` | pass | no loop unless a local repair failed, assertions hold unless one is under way, no number ahead of the destination's |
| `port_overflow` | violation | a long idle time overflows the token count |
| `flow_lost_stop` | violation | a lost CREDIT_STOP is never sent again |
| `flow_lost_request` | violation | a second stop meets a pending `fct_timer_`: abort |
| `aodv_repair` | violation | a second failed packet finds its route in repair: an assertion fails |

Each violation is described under `findings` in `PROJECT.json` with the line of the
repository it contradicts.

Why the bounds suffice. Port: two sizes of credit and of data, limits that two
packets fill, a bucket of three tokens and `TokenPeriod` 3 against `TxPerByte` 1
make partial tokens, drops, and a timer that races arrivals and the link all
happen within five arrivals; `INT_MAX` is large enough for `SimEnd` except in
`port_overflow`. Flow: segments of two bytes, flows of 1 to 5 bytes (one to three
packets, the last one short), so early stops, gaps, repeated NACKs and restarts
happen; two messages let the timers of one meet the next; two drops
are one more than any of the violations needs. `min_ethernet_size` is one more than the header,
so no frame is padded. `MaxCredits` bounds the credits;
the liveness properties allow for it (`CreditsExhausted`). Feedback: an agent of
each role and of both; requests for 0, 8 and 40 packets; round trips of 1 and 3 and a
timeout of 4, so that one request is tried twice, and answered late, before `MaxTime`; gaps
of two lost credits; a maximum of 50 over which truncation shows. `MaxWindow` is no less
than `MaxTime`, so that no `rtt_`, however mixed, holds an update of the rate back for ever
because of the bound.
Dumbbell: six credits of two flows with latencies 0 and 3 fill bucket and buffer; with a
`data_q_limit` one less, data is lost. Schedulers: queues are preloaded with nothing, with
simultaneous events, with eight events that fill four buckets a day apart, crowd one
bucket or lie years ahead, so that the calendar grows and shrinks; one to three more calls
of `schedule` and any number of cancels follow in any order. Tcp: a window of four and a
ring of four that has to double; two losses, one early timeout, one reset and one stop;
the path keeps its order. Aodv: a chain of four nodes, two data packets, two requests, two
faults (a link that breaks or forms, a route that expires, a collision); larger
instances exceed the time a run may take.

Fairness. `Resume` and `Expire` (port), and every handler of a packet or a timer
(flow), are weakly fair: the scheduler dispatches every event in its queue.
`AdvanceBytes`, arrivals, resets and drops have no fairness. Feedback: the clock,
the arrival of data and the credit timer, for a flow that goes on; nothing makes the first
credit of a request come, and both properties are about behaviours in which no request
is outstanding from some time on. Tcp: packets,
acknowledgments and the delayed-acknowledgment timer are handled, and the
retransmit timer expires when nothing else can happen (`RtxTimerExpires`); two of these
are stated by their effect on the FIFO, which no other action has. Losses, early
timeouts, resets and new data have no fairness.

## Proofs

All theorems hold for every value of the constants that satisfies the `ASSUME`s of the
component's module: any number of packets, flows, timers and messages, any sizes and
limits. What a theorem needs beyond that is a named hypothesis in its statement:

| hypothesis | says | needed because |
|---|---|---|
| `HorizonFits` | the tokens of a whole simulation fit an `int` | `port_overflow` |
| `ControlArrives` | requests and stops are not lost | `flow_lost_stop`, `flow_lost_request` |
| `NoPadding` | some unit of length divides the segment and all flow sizes, and a frame that carries one unit is not padded | `process_ack` counts padding as data (Observations) |
| `DataArrives` | data is not lost | a lost last segment goes unnoticed (Observations) |
| `TimeoutCoversRoundTrip` | the report waits for what is under way | `fct.out` is short otherwise (Observations) |
| `~ResetAnyTime` | TCP agents are reset with everything acknowledged | `reset` leaves `rtt_active_` set (Observations) |
| `~LocalRepair` | AODV is built without `AODV_LOCAL_REPAIR` | `aodv_repair` |

`NoPadding` holds with unit 1 in the runs, and with the default sizes of the code (84
bytes minimum, a header of 78, segments of 1460) for flow sizes that are multiples of 10.
`DataArrives` is what `XPassDumbbell` shows of a buffer of `SafeBuffer`.

**Port** (`XPassDropTailProofs`).
`Typing` and `ByteLengthSafe` need no hypothesis, the rest `HorizonFits`.

* `BucketSafe`, `WakeupSafe`, `LinkSafe`, `WakeOnTimeSafe`: none of the four is inductive alone.
  That a credit waits only with the timer pending needs the timer to be ahead of the
  clock, which needs the bucket to be short of the head's size, which needs the
  bucket's bounds; that the link is idle when the timer expires needs `blocked_` and
  `intr_` to agree. `IInv` is their conjunction with `TypeOK`, `TimerAhead` (a pending timer
  is never in the past) and `WakeExact` (the timer of an unblocked queue is exactly
  where the missing tokens are complete).
* `ByteLengthSafe`: both queues are `Exact`, and `deque` never sees bytes without packets.
* `ShaperRefinement`: the level of `CreditShaper` is a function of `tokens_`, the clock of the
  bucket and the time; a refill moves between them what time has already put in.
* `CreditsConformSafe`: the bytes of a window of `log` end in the present or before. `Conforming`
  adds the `Budget` to the property: what was spent since credit `i` and what is left in the
  bucket came out of one bucket and the time since `i`.

**Flow** (`XPassFlowProofs`). For every set of lossy packet types: `Typing`,
`SenderTimersSafe`, `ReceiverTimersSafe`, `CreditOrderSafe`, `DataNeverRefusedSafe`, `LossRateSafe`.
`CreditOrder` is stated through `Ordered(f, cs, lo, hi)`, an operator on the contents of the
channels; six lemmas say what each way of changing them does to it, and every action is one
of the six. From it follows that `recv_data` never takes its exits, hence that the distance it
counts is not negative, hence `LossCount`, the inductive form of `LossRateBelowOne`.

* `ClosedSafe`, `NoExitSafe` (`ControlArrives`): requests and stops in the FIFO
  bracket each other. `ControlPaired` says that every stop meets a receiver that sends credits,
  and that the last packet leaves it sending them exactly when the sender waits for them. So a
  stop never finds `fct_timer_` pending.
* `SequenceBoundsSafe`, `TransferRefinement` (`NoPadding`): `StreamPlaced` puts every
  sequence number, in the agents and in flight, a whole number of units into the stream, so
  what lies between two of them is empty or needs no padding. With `delivered` as long as
  `recv_next_` says, every step delivers nothing or the next segment.
* `CreditLoopSafe` (`ControlArrives` and `NoPadding`): `ControlPaired` gives a receiver that sends
  credits or a request on its way; it remains that the rate is positive. `Owed` says that a NACK
  on its way, and a sender that waits without having been restarted for nothing, have data behind
  them, since what a NACK names is before `curseq_`. `Supplied` says that a rate of zero and a
  request for nothing belong to such a restart or are followed by a stop (`Covered`), so they are
  never what an ordinary sender waits for.
* `InFlightSafe`, `RatePositiveSafe` (also `DataArrives`): `Smooth` says that the segments in flight
  carry the stream from `recv_next_` to `t_seqno_` without a gap, so that no NACK is ever sent;
  `RatePositive` that every request in flight announces packets.
* `FctSafe` (also `TimeoutCoversRoundTrip`): `Reported` says that a sender that closes has sent
  everything and that a receiver that has closed has nothing on its way.

**Rate control** (`CreditFeedbackProofs`): `RateSafe` and `RttSafe`, for every set of roles and any
number of retries. `RttIsDuration` says nothing of `rtt_` while a request is outstanding, and
so is not inductive. `RttInv` adds that a request is at most `retransmit_timeout_` old, since the
timer sends the next one, and that for an agent that only sends `rtt_` is then its time. That
`rtt_` is no more than the clock in any mix of roles is kept by each handler alone: the average
of two values that are no more than the clock, and the difference to it.

**Timers and run loop** (`TimerHandlerProofs`): `TimersSafe` and `NoInternalAbortSafe`. A timer is
pending exactly while its event is queued because a uid is never given twice
(`UidsDiffer`), `status_` follows the queue also inside the handler (`StatusMatches`),
and the clock is not past what is queued (`NothingOverdue`).

**Two ports** (`XPassDumbbellProofs`): `CreditsApartSafe`. The module instantiates
`XPassDropTailProofs` for both ports and cites what a step of a port does to its link
(`LinkStep`); what the port assumes of its constants is `PortAssumption` here. `DInv` adds that
credits reach their senders in the order in which they left `A` and none later than one that
leaves when the link of `A` is free next.

**TCP** (`TcpProofs`): `SenderNeverStuck`, `SinkDeliversInOrder`, and `KarnsAlgorithm` under
`~ResetAnyTime`, for each agent and sink, every window, any number of losses, early timeouts,
resets and stops. `IInv` is about the two ends and the path between them:

* the sender: the order of `highest_ack_`, `t_seqno_`, `maxseq_` and `curseq_`, the timer, what
  `sent`, `resent` and `early` may hold, and where the measured packet lies. That `newack` ends
  the measurement is not enough for `Karn`: Newreno's partial acknowledgments send again while a
  packet is measured, which is harmless since they stay at or below `recover_` and the
  measured packet is beyond it. `Drained` (nothing waits when all is acknowledged) makes a
  fast retransmit with nothing outstanding a packet that is `early`;
* the sink: packets between `next_` and `maxseen_` have slots of their own and the slot behind
  `maxseen_` is clear, so that a slot is never read as another packet's. A packet fits the
  ring, or the ring as `resize_buffers` leaves it, since no more than `wnd` are outstanding;
* the path: packets in flight were sent and acknowledgments in flight are for packets before the
  sink's `next_`, both up to the last reset. So the sender's `highest_ack_` stays behind `next_`,
  which keeps what is outstanding within the ring.

A lemma for each function of the agents says what it preserves; a handler is their
composition, and the loop of `send_much` is an induction over the packets it sends.

**AODV** (`AodvProofs`): `NoRoutingLoop`, `NumbersNotAhead`, `AssertionsOutsideRepair`, and
`AssertionsWithoutRepair` under `~LocalRepair`, for every set of fewer nodes than `NETWORK_DIAMETER`
and any number of packets and faults. `LoopFree` looks at routes alone and is not inductive. `IInv` adds what the messages say:
every live route and every reply, and every request for the way back, is backed by
the node it points to, which is the destination, or knows a larger number, or the same
number at fewer hops (`Backed`, `Knows`). What a node knows of a destination, as a pair of number and
hops, only gets better, unless a local repair failed, and so backing survives whatever the
next hop does meanwhile. In a loop the node with the largest number and the fewest hops
contradicts its successor. A number that a destination gives out is even and one that a
broken route carries is odd or none; this gives `NotAhead` and the assertions. Every handler
is shown `Sound` part by part; the visits of `rt_purge` are an induction over the nodes.

`NumberTheorems` has what the provers lack about `\div` and `%`, least and greatest elements, and
induction up to a bound in the form of a set (`UpTo`), which is enough for a recursive function
such as `Bytes`: the facts about sums of sizes are proved by it.

Only model-checked:

* liveness, which the prover does not handle: `EventuallyDrained`, `DataDelivered`, `FlowCloses`,
  `RttRecovers`, `RateRecovers` and `Completes`;
* `SameOrder` and `CalendarExact`: `HeapQueue` and `SplayQueue` declare recursive operators, which
  keeps `Schedulers` out of the prover's reach;
* `NoDataLost` of `XPassDumbbell`: a sum over windows of two ports and the segments between them.

## Observations

What the models show beyond the findings. Each can be seen by changing a constant or
stating the property named.

* `deque` of a port forwards a credit whenever the tokens suffice, data waiting or not;
  its comment (`xpass-drop-tail.cc:77`) gives data the higher priority.
* Only a later segment reveals a gap, so a lost last segment goes unnoticed and `fct.out`
  is short (`FctReportsFlowSize` with data in `Lossy`); and so it is without loss when the
  round trip exceeds `default_credit_stop_timeout_` (`TimeoutCoversRoundTrip` FALSE).
* `process_ack` counts the padding of a short last frame as data (`SequenceBounds` with
  `min_ethernet_size` two more than the header).
* A NACK to a flow that has sent everything announces no packets, since `recv_nack` builds the
  request before it sets `t_seqno_` back (`xpass.cc:273`). The receiver starts at rate zero and
  sends one credit, which cancels the sender's retransmit timer; the next is due after an
  infinite delay, and the data that was lost is never sent (`CreditLoopAlive` without
  `restarted`, or `RateIsPositive` with data in `Lossy`).
* When requests are lost too, a late credit cancels the retransmit timer and the sender
  waits for a receiver that sends nothing (`CreditLoopAlive`).
* An agent that sends and receives mixes the time of a request into `rtt_`
  (`recv_data` averages into it, `recv_credit` subtracts the average). It is never negative, but may
  be close to the time of simulation, which holds updates of the rate back until round
  trips have averaged it away (`RttIsDuration` with the bound of one role for both). Credits counted as lost after a stop are charged to
  the next message, whose counts are not reset.
* `schedule` aborts on a negative delay, which callers are assumed not to ask for; the overflow of
  `port_overflow` is a way to one.
* `TcpAgent::reset` leaves `rtt_active_` set, so after a reset with packets outstanding
  the first acknowledgment yields a sample that began before it (`Karn` with
  `ResetAnyTime`). Three duplicate acknowledgments that meet Reno with nothing outstanding,
  after early timeouts of the first packet and a stop, make it send a packet the application
  has not produced, without `send_much`'s test; it is measured, and sent again when it is
  produced (`Karn` without `early`, with `numdupacks` and `MaxSpurious` 3). `newtimer` never cancels the timer: `newack` has moved `t_seqno_` past the
  acknowledgment before it asks. `sendmsg` leaves `closed_` set, and `advance 0` puts
  `curseq_` at `maxseq_`, so that the last packet sent counts as not submitted.
* After a failed local repair AODV keeps the old sequence number (the increment at
  `aodv.cc:204` is commented out) and sends no error, although the comment above says it
  does: a loop can form. `rt_last_hop_count` starts at `INFINITY2`, so a first request
  is always network wide and `TTL_START` is never used. `local_rt_repair` passes
  `rt_req_timeout`, a point in time, as a delay. Next hop 0 also means "none".

## Plan

Done: the port, the flow and their abstract specifications; rate control, timers and event
queues, two ports and several flows together, TCP, AODV; the theorems above. Next, in order:

1. whole flows, with requests, NACKs and rate control, over the ports of `XPassDumbbell`;
2. Sack1 and its scoreboard; AODV with hello messages;
3. proofs of `NoDataLost`, from `CreditsConform` of `A` and the latencies of the senders, and of
   the event queues, with their structures written as recursive functions.

## Not modelled

The rounding of doubles, jitter, credit sizes and the times of a flow; the
utilisation records of `Queue`; dynamic links; the calendar's resize to the same size;
ECN, F-RTO, Quick-Start, time stamps and the round-trip estimator of TCP; AODV's hello
messages and the ageing of its caches; OTcl scripts, traces and output formats.
The other transports, routing protocols and MAC layers of ns-2.35 (SCTP, full TCP, DSR,
802.11, 802.15.4, diffusion, satellite) are not part of ExpressPass, and each is as large as
all that is modelled here: a faithful model of one is a project of its own.

The map names about 4,450 source lines, some 1.6% of the repository's roughly 287,000 lines
of implementation. That is most of `xpass.cc` and `xpass-drop-tail.cc` (what this fork adds to
ns-2) and the parts of the simulator listed above; it says nothing of the rest of ns-2.
