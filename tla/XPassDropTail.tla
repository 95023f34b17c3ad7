---------------------------- MODULE XPassDropTail ----------------------------
(***************************************************************************)
(* The output port of an ExpressPass switch or host: Queue/XPassDropTail   *)
(* (queue/xpass-drop-tail.cc) with the parts of Queue and PacketQueue      *)
(* (queue/queue.cc, queue/queue.h) and of LinkDelay (link/delay.cc) that   *)
(* it calls.  Credits and data wait in two FIFO queues; credits leave only *)
(* against the tokens of a token bucket that is refilled lazily, so the    *)
(* port has to be woken by a timer when credits wait on an idle link.      *)
(*                                                                         *)
(* Time is event driven, as in the simulator: every action dispatches one  *)
(* event at its own time, never passing an event that is due earlier.      *)
(* Times are whole multiples of a unit in which one token takes            *)
(* TokenPeriod units (token_refresh_rate_ = 1 / TokenPeriod) and one byte  *)
(* takes TxPerByte units on the link.  A packet is its size in bytes.      *)
(***************************************************************************)
EXTENDS Integers, Sequences

CONSTANTS
  CreditSizes,      \* sizes of the credit packets that may arrive
  DataSizes,        \* sizes of the other packets that may arrive
  credit_q_limit,   \* credit_q_limit_, in bytes
  data_q_limit,     \* data_q_limit_, in bytes
  max_tokens,       \* max_tokens_, in bytes
  TokenPeriod,      \* time units per token
  TxPerByte,        \* time units per byte on the link
  INT_MAX,          \* largest value of the C++ type int
  SimEnd,           \* the simulation dispatches no event after this time
  LastArrival,      \* bound: no packet arrives after this time
  MaxArrivals,      \* bound: packets that arrive
  MaxResets         \* bound: resets of the queue

ASSUME SizesAssumption ==
  /\ CreditSizes \subseteq Nat \ {0}
  /\ DataSizes \subseteq Nat \ {0}
  /\ \A s \in CreditSizes : s <= max_tokens

ASSUME LimitsAssumption ==
  /\ credit_q_limit \in Nat
  /\ data_q_limit \in Nat
  /\ max_tokens \in Nat

ASSUME TimeAssumption ==
  /\ TokenPeriod \in Nat \ {0}
  /\ TxPerByte \in Nat \ {0}
  /\ INT_MAX \in Nat \ {0}
  /\ SimEnd \in Nat
  /\ LastArrival \in 0..SimEnd
  /\ MaxArrivals \in Nat
  /\ MaxResets \in Nat

VARIABLES
  now,                  \* the scheduler's clock
  credit_q, data_q,     \* the two PacketQueues
  tokens,               \* tokens_
  token_bucket_clock,   \* token_bucket_clock_
  credit_timer,         \* expiry time of credit_timer_, or Never
  blocked,              \* Queue::blocked_
  intr,                 \* time of LinkDelay's pending intr_ event, or Never
  arrivals, resets,     \* inputs taken so far
  log,                  \* history: the credits given to the link, with times
  err                   \* why the process stopped, or "none"

vars == <<now, credit_q, data_q, tokens, token_bucket_clock, credit_timer,
          blocked, intr, arrivals, resets, log, err>>

Never == -1

-----------------------------------------------------------------------------
(* PacketQueue: a linked list with a running byte count. *)

EmptyQueue == [pkts |-> <<>>, bytes |-> 0]

Enque(q, size) == [pkts |-> Append(q.pkts, size), bytes |-> q.bytes + size]

Deque(q) == [pkts |-> Tail(q.pkts), bytes |-> q.bytes - Head(q.pkts)]

\* Mutant: remove() unlinks the packet but keeps its bytes in the count.
MutRemoveLast(q) == [pkts |-> SubSeq(q.pkts, 1, Len(q.pkts) - 1),
                     bytes |-> q.bytes]

\* remove(p) of the packet that was enqueued last.
RemoveLast(q) == [pkts |-> SubSeq(q.pkts, 1, Len(q.pkts) - 1),
                  bytes |-> q.bytes - q.pkts[Len(q.pkts)]]

\* XPassDropTail::enque: append, and take the packet out again (and drop it)
\* when the queue has grown past its limit.
EnqueOrDrop(q, size, limit) ==
  IF Enque(q, size).bytes > limit THEN RemoveLast(Enque(q, size))
                                  ELSE Enque(q, size)

\* Total size of the packets in a sequence.
Bytes(pkts) ==
  LET upTo[i \in 0..Len(pkts)] == IF i = 0 THEN 0 ELSE upTo[i-1] + pkts[i]
  IN  upTo[Len(pkts)]

-----------------------------------------------------------------------------
(* The token bucket. *)

Lesser(a, b) == IF a <= b THEN a ELSE b

\* The conversion (int)x of a nonnegative double: x86 yields INT_MIN when the
\* value does not fit.
ToInt(x) == IF x > INT_MAX THEN -INT_MAX - 1 ELSE x

\* Signed int arithmetic wraps around.
Wrap(x) == ((x + INT_MAX + 1) % (2 * (INT_MAX + 1))) - (INT_MAX + 1)

\* updateTokenBucket() at time t: whole tokens only, and the bucket's clock
\* advances by exactly the time those tokens took.
NewTokens(t) == IF t - token_bucket_clock <= 0
                THEN 0
                ELSE ToInt((t - token_bucket_clock) \div TokenPeriod)

\* Mutant: the bucket is not capped at max_tokens_.
MutTokensAt(t) == IF t - token_bucket_clock <= 0
                  THEN tokens
                  ELSE Wrap(tokens + NewTokens(t))

TokensAt(t) == IF t - token_bucket_clock <= 0
               THEN tokens
               ELSE Lesser(Wrap(tokens + NewTokens(t)), max_tokens)

\* Mutant: the bucket's clock is not advanced with the refill.
MutClockAt(t) == token_bucket_clock

ClockAt(t) == token_bucket_clock + NewTokens(t) * TokenPeriod

-----------------------------------------------------------------------------
(* deque() at time t on queues cq and dq, followed by what its three       *)
(* callers do with the result: a packet goes to the link and the queue is  *)
(* blocked, and without a packet the queue is left unblocked.  busy tells  *)
(* whether the link's one intr_ event is still scheduled.                  *)

\* Mutant: the caller of deque() does not set blocked_.
MutTransmit(size, t, busy) ==
  /\ blocked' = FALSE
  /\ intr' = t + size * TxPerByte
  /\ err' = IF busy THEN "Event UID not valid" ELSE err

\* LinkDelay::recv: schedule intr_ at the end of the transmission; the
\* scheduler aborts when intr_ is already scheduled.
Transmit(size, t, busy) ==
  /\ blocked' = TRUE
  /\ intr' = t + size * TxPerByte
  /\ err' = IF busy THEN "Event UID not valid" ELSE err

ForwardCredit(cq, dq, t, busy) ==
  /\ cq.pkts # <<>>
  /\ TokensAt(t) >= Head(cq.pkts)
  /\ credit_q' = Deque(cq)
  /\ data_q' = dq
  /\ tokens' = TokensAt(t) - Head(cq.pkts)
  /\ credit_timer' = Never
  /\ log' = Append(log, [at |-> t, size |-> Head(cq.pkts)])
  /\ Transmit(Head(cq.pkts), t, busy)

ForwardData(cq, dq, t, busy) ==
  /\ cq.pkts # <<>> => TokensAt(t) < Head(cq.pkts)
  /\ dq.pkts # <<>>
  /\ credit_q' = cq
  /\ data_q' = Deque(dq)
  /\ tokens' = TokensAt(t)
  /\ credit_timer' = Never
  /\ log' = log
  /\ Transmit(Head(dq.pkts), t, busy)

\* Mutants: the timer is not set again; the tokens at hand are ignored.
MutNoTimer(pkts, tok, t) == credit_timer' = Never
MutLongTimer(pkts, tok, t) ==
  credit_timer' = IF pkts # <<>> THEN t + Wrap(Head(pkts)) * TokenPeriod
                                 ELSE Never

\* credit_timer_.resched when the head credit waits for more than tok tokens.
\* A negative delay (after an int overflow) is let through with a warning, and
\* the scheduler aborts at its next dispatch, which is this very event.
SetCreditTimer(pkts, tok, t) ==
  credit_timer' = IF pkts # <<>>
                  THEN t + Wrap(Head(pkts) - tok) * TokenPeriod
                  ELSE Never

NegativeDelay(pkts, tok) == pkts # <<>> /\ Wrap(Head(pkts) - tok) < 0

ForwardNothing(cq, dq, t, busy) ==
  /\ cq.pkts # <<>> => TokensAt(t) < Head(cq.pkts)
  /\ dq.pkts = <<>>
  /\ credit_q' = cq
  /\ data_q' = dq
  /\ tokens' = TokensAt(t)
  /\ SetCreditTimer(cq.pkts, TokensAt(t), t)
  /\ blocked' = FALSE
  /\ intr' = IF busy THEN intr ELSE Never
  /\ log' = log
  /\ err' = CASE NegativeDelay(cq.pkts, TokensAt(t)) ->
                   "scheduler going backwards in time"
              [] cq.pkts = <<>> /\ cq.bytes > 0 /\ dq.bytes > 0 ->
                   "timer was not set"
              [] OTHER -> err

DequeAndSend(cq, dq, t, busy) ==
  /\ \/ ForwardCredit(cq, dq, t, busy)
     \/ ForwardData(cq, dq, t, busy)
     \/ ForwardNothing(cq, dq, t, busy)
  /\ token_bucket_clock' = ClockAt(t)

-----------------------------------------------------------------------------
(* The events. *)

\* An event at time t may be dispatched: none is due before it.
MayDispatch(t) ==
  /\ err = "none"
  /\ now <= t
  /\ t <= SimEnd
  /\ credit_timer # Never => t <= credit_timer
  /\ intr # Never => t <= intr

\* Queue::recv after enque has left the queues as cq and dq.
RecvWith(cq, dq, t) ==
  /\ MayDispatch(t)
  /\ arrivals < MaxArrivals
  /\ arrivals' = arrivals + 1
  /\ now' = t
  /\ IF blocked
     THEN /\ credit_q' = cq
          /\ data_q' = dq
          /\ UNCHANGED <<tokens, token_bucket_clock, credit_timer, blocked,
                         intr, log, err>>
     ELSE DequeAndSend(cq, dq, t, intr # Never)
  /\ UNCHANGED resets

RecvCredit(size, t) ==
  RecvWith(EnqueOrDrop(credit_q, size, credit_q_limit), data_q, t)

\* Mutant: the packet type is not looked at.
MutRecvData(size, t) ==
  RecvWith(EnqueOrDrop(credit_q, size, credit_q_limit), data_q, t)

RecvData(size, t) ==
  RecvWith(credit_q, EnqueOrDrop(data_q, size, data_q_limit), t)

\* Queue::resume, called through QueueHandler when the link has finished a
\* packet (intr_ is dispatched, so it may be scheduled again).
Resume ==
  /\ intr # Never
  /\ MayDispatch(intr)
  /\ now' = intr
  /\ DequeAndSend(credit_q, data_q, intr, FALSE)
  /\ UNCHANGED <<arrivals, resets>>

\* Mutant: the timer does not look at blocked_.
MutExpire ==
  /\ credit_timer # Never
  /\ MayDispatch(credit_timer)
  /\ now' = credit_timer
  /\ DequeAndSend(credit_q, data_q, credit_timer, intr # Never)
  /\ UNCHANGED <<arrivals, resets>>

\* CreditTimer::expire: the timer is idle again unless deque() sets it.
Expire ==
  /\ credit_timer # Never
  /\ MayDispatch(credit_timer)
  /\ now' = credit_timer
  /\ IF blocked
     THEN /\ credit_timer' = Never
          /\ UNCHANGED <<credit_q, data_q, tokens, token_bucket_clock, blocked,
                         intr, log, err>>
     ELSE DequeAndSend(credit_q, data_q, credit_timer, intr # Never)
  /\ UNCHANGED <<arrivals, resets>>

\* Queue::reset: deque() and drop until deque() returns nothing.  It drops
\* all data and the n credits, b bytes together, that the tokens pay for;
\* credits that are left wait on the timer even when the link is busy.
Reset(t, n, b) ==
  LET left == [pkts  |-> SubSeq(credit_q.pkts, n + 1, Len(credit_q.pkts)),
               bytes |-> credit_q.bytes - b]
  IN  /\ MayDispatch(t)
      /\ resets < MaxResets
      /\ resets' = resets + 1
      /\ now' = t
      /\ IF n = 0 THEN b = 0
         ELSE b = Bytes(SubSeq(credit_q.pkts, 1, n)) /\ b <= TokensAt(t)
      /\ left.pkts # <<>> => TokensAt(t) - b < Head(left.pkts)
      /\ credit_q' = left
      /\ data_q' = EmptyQueue
      /\ tokens' = TokensAt(t) - b
      /\ token_bucket_clock' = ClockAt(t)
      /\ SetCreditTimer(left.pkts, TokensAt(t) - b, t)
      /\ err' = IF NegativeDelay(left.pkts, TokensAt(t) - b)
                THEN "scheduler going backwards in time" ELSE err
      /\ UNCHANGED <<blocked, intr, arrivals, log>>

Init ==
  /\ now = 0
  /\ credit_q = EmptyQueue
  /\ data_q = EmptyQueue
  /\ tokens = 0
  /\ token_bucket_clock = 0
  /\ credit_timer = Never
  /\ blocked = FALSE
  /\ intr = Never
  /\ arrivals = 0
  /\ resets = 0
  /\ log = <<>>
  /\ err = "none"

Next ==
  \/ \E t \in now..LastArrival :
       \/ \E size \in CreditSizes : RecvCredit(size, t)
       \/ \E size \in DataSizes : RecvData(size, t)
       \/ \E n \in 0..Len(credit_q.pkts) : \E b \in 0..credit_q.bytes :
            Reset(t, n, b)
  \/ Resume
  \/ Expire

\* The scheduler dispatches every event that is due before the end.
Fairness == WF_vars(Resume) /\ WF_vars(Expire)

Spec == Init /\ [][Next]_vars /\ Fairness

-----------------------------------------------------------------------------
(* Properties. *)

TypeOK ==
  /\ now \in Nat
  /\ credit_q \in [pkts : Seq(CreditSizes), bytes : Int]
  /\ data_q \in [pkts : Seq(DataSizes), bytes : Int]
  /\ tokens \in Int
  /\ token_bucket_clock \in Int
  /\ credit_timer \in Int
  /\ blocked \in BOOLEAN
  /\ intr \in Int
  /\ arrivals \in 0..MaxArrivals
  /\ resets \in 0..MaxResets
  /\ log \in Seq([at : Nat, size : CreditSizes])
  /\ err \in {"none", "Event UID not valid", "timer was not set",
              "scheduler going backwards in time"}

\* The elapsed time of a whole simulation, converted to tokens, fits an int.
HorizonFits == (SimEnd \div TokenPeriod) + max_tokens <= INT_MAX

\* The bucket never holds a negative number of tokens nor more than
\* max_tokens_, its clock never runs ahead of the scheduler's, and no timer is
\* set in the past (updateTokenBucket and the delay computed in deque).
TokensInBucket ==
  /\ tokens \in 0..max_tokens
  /\ token_bucket_clock <= now
  /\ err # "scheduler going backwards in time"

\* A packet never waits on an idle link with nothing scheduled to send it:
\* when the queue is unblocked no data waits, and credits wait only while
\* credit_timer_ is pending at a time that has not passed.
NoLostWakeup ==
  ~blocked =>
    /\ data_q.pkts = <<>>
    /\ credit_q.pkts # <<>> => credit_timer >= now

\* blocked_ is set exactly while the link's intr_ event is pending, at a time
\* that has not passed, so the event is never scheduled twice and the scheduler
\* never aborts (Queue::recv, expire and resume against LinkDelay::recv).
LinkNotDoubleBooked ==
  /\ err # "Event UID not valid"
  /\ ~blocked => intr = Never
  /\ blocked => intr >= now

\* When credit_timer_ expires on an idle link the bucket holds enough tokens
\* for the credit at the head, and a whole token period earlier it did not:
\* the delay computed in deque is neither short nor long.
WakeOnTime ==
  ~blocked /\ credit_q.pkts # <<>> =>
    /\ TokensAt(credit_timer) >= Head(credit_q.pkts)
    /\ TokensAt(credit_timer - TokenPeriod) < Head(credit_q.pkts)

\* byteLength() equals the sizes of the packets in the list and stays within
\* the limit, whatever order of enque, remove, deque and reset, so deque's
\* check "Switch has non-zero queue, but timer was not set" never fails.
ByteLengthExact ==
  /\ err # "timer was not set"
  /\ credit_q.bytes = Bytes(credit_q.pkts)
  /\ credit_q.bytes <= credit_q_limit
  /\ data_q.bytes = Bytes(data_q.pkts)
  /\ data_q.bytes <= data_q_limit

\* The largest number of token periods' worth of time the bucket can hold:
\* a full bucket and a token that is almost complete.
Depth == TokenPeriod * max_tokens + TokenPeriod - 1

\* Over every window the credits given to the link conform to the token
\* rate with one bucket of burst, although the bucket is refilled lazily and
\* in whole tokens.
CreditsConform ==
  \A i \in 1..Len(log) : \A j \in i..Len(log) :
    TokenPeriod * Bytes([k \in 1..(j - i + 1) |-> log[i + k - 1].size])
      <= Depth + log[j].at - log[i].at

\* What the bucket is worth now, in time units.
Level == Lesser(Depth, TokenPeriod * tokens + now - token_bucket_clock)

\* The port is a credit shaper.
Shaper == INSTANCE CreditShaper WITH level <- Level
ShaperSpec == Shaper!Spec

\* Every packet that was accepted leaves (or is dropped by a reset) before
\* the end of a simulation long enough: credits are not starved by data, nor
\* data by credits, and no wakeup is lost.
EventuallyDrained == <>[](credit_q.pkts = <<>> /\ data_q.pkts = <<>>)

=============================================================================
