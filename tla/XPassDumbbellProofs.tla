------------------------- MODULE XPassDumbbellProofs -------------------------
(***************************************************************************)
(* Theorems about flows that share a bottleneck.  What is known of one     *)
(* port comes from XPassDropTailProofs, instantiated for port A and for    *)
(* port B.                                                                 *)
(***************************************************************************)
EXTENDS XPassDumbbell, SequenceTheorems, TLAPS

AP == INSTANCE XPassDropTailProofs WITH
        credit_q <- a_credit_q, data_q <- a_data_q, tokens <- a_tokens,
        token_bucket_clock <- a_token_bucket_clock, credit_timer <- a_credit_timer,
        blocked <- a_blocked, intr <- a_intr, arrivals <- a_arrivals,
        resets <- a_resets, log <- a_log, err <- a_err,
        MaxArrivals <- MaxCredits, MaxResets <- 0

BP == INSTANCE XPassDropTailProofs WITH
        credit_q <- b_credit_q, data_q <- b_data_q, tokens <- b_tokens,
        token_bucket_clock <- b_token_bucket_clock, credit_timer <- b_credit_timer,
        blocked <- b_blocked, intr <- b_intr, arrivals <- b_arrivals,
        resets <- b_resets, log <- b_log, err <- b_err,
        MaxArrivals <- 2 * MaxCredits, MaxResets <- 0

-----------------------------------------------------------------------------
(* The instances meet the assumptions of XPassDropTail, so that the lemmas *)
(* about a port hold of A and of B.                                        *)

LEMMA Constants ==
  /\ CreditSizes \subseteq Nat \ {0}
  /\ DataSizes \subseteq Nat \ {0}
  /\ \A s \in CreditSizes : s <= max_tokens
  /\ credit_q_limit \in Nat
  /\ data_q_limit \in Nat
  /\ max_tokens \in Nat
  /\ TokenPeriod \in Nat \ {0}
  /\ TxPerByte \in Nat \ {0}
  /\ INT_MAX \in Nat \ {0}
  /\ SimEnd \in Nat
  /\ LastArrival \in 0..SimEnd
  /\ MaxCredits \in Nat
  /\ 2 * MaxCredits \in Nat
  /\ 0 \in Nat
  BY PortAssumption, SegmentAssumption, BoundAssumption DEF DataSizes

LEMMA StepOfA ==
  ASSUME AP!TypeOK, AP!LinkOwned,
         \/ \E t \in Nat : \E size \in CreditSizes : AP!RecvCredit(size, t)
         \/ AP!Resume
         \/ AP!Expire
  PROVE  /\ AP!TypeOK' /\ AP!LinkOwned'
         /\ \/ a_log' = a_log /\ AP!LinkFree' >= AP!LinkFree
            \/ AP!LinkFree <= now' /\ AP!CreditLeaves(now')
  BY Constants, AP!LinkStep

LEMMA StepOfB ==
  ASSUME BP!TypeOK, BP!LinkOwned,
         \/ \E t \in Nat : \E size \in DataSizes : BP!RecvData(size, t)
         \/ BP!Resume
  PROVE  BP!TypeOK' /\ BP!LinkOwned'
  BY Constants, BP!LinkStep

\* The two instances of a port are the same.
LEMMA SamePort ==
  /\ A!Init <=> AP!Init
  /\ \A size, t : A!RecvCredit(size, t) <=> AP!RecvCredit(size, t)
  /\ A!Resume <=> AP!Resume
  /\ A!Expire <=> AP!Expire
  /\ B!Init <=> BP!Init
  /\ \A size, t : B!RecvData(size, t) <=> BP!RecvData(size, t)
  /\ B!Resume <=> BP!Resume
<1> USE DEF
      A!RecvWith, AP!RecvWith, B!RecvWith, BP!RecvWith, A!DequeAndSend,
      AP!DequeAndSend, B!DequeAndSend, BP!DequeAndSend, A!ForwardCredit,
      AP!ForwardCredit, B!ForwardCredit, BP!ForwardCredit, A!ForwardData,
      AP!ForwardData, B!ForwardData, BP!ForwardData, A!ForwardNothing,
      AP!ForwardNothing, B!ForwardNothing, BP!ForwardNothing, A!EnqueOrDrop,
      AP!EnqueOrDrop, B!EnqueOrDrop, BP!EnqueOrDrop, A!Enque, AP!Enque,
      B!Enque, BP!Enque, A!RemoveLast, AP!RemoveLast, B!RemoveLast,
      BP!RemoveLast, A!Deque, AP!Deque, B!Deque, BP!Deque, A!TokensAt,
      AP!TokensAt, B!TokensAt, BP!TokensAt, A!ClockAt, AP!ClockAt,
      B!ClockAt, BP!ClockAt, A!NewTokens, AP!NewTokens, B!NewTokens,
      BP!NewTokens, A!ToInt, AP!ToInt, B!ToInt, BP!ToInt, A!Wrap, AP!Wrap,
      B!Wrap, BP!Wrap, A!Lesser, AP!Lesser, B!Lesser, BP!Lesser, A!Transmit,
      AP!Transmit, B!Transmit, BP!Transmit, A!SetCreditTimer,
      AP!SetCreditTimer, B!SetCreditTimer, BP!SetCreditTimer,
      A!NegativeDelay, AP!NegativeDelay, B!NegativeDelay, BP!NegativeDelay,
      A!MayDispatch, AP!MayDispatch, B!MayDispatch, BP!MayDispatch, A!Never,
      AP!Never, B!Never, BP!Never, A!EmptyQueue, AP!EmptyQueue,
      B!EmptyQueue, BP!EmptyQueue
<1>1. A!Init <=> AP!Init
  BY Zenon DEF A!Init, AP!Init
<1>2. ASSUME NEW size, NEW t PROVE A!RecvCredit(size, t) <=> AP!RecvCredit(size, t)
  BY Zenon DEF A!RecvCredit, AP!RecvCredit
<1>3. A!Resume <=> AP!Resume
  BY Zenon DEF A!Resume, AP!Resume
<1>4. A!Expire <=> AP!Expire
  BY Zenon DEF A!Expire, AP!Expire
<1>5. B!Init <=> BP!Init
  BY Zenon DEF B!Init, BP!Init
<1>6. ASSUME NEW size, NEW t PROVE B!RecvData(size, t) <=> BP!RecvData(size, t)
  BY Zenon DEF B!RecvData, BP!RecvData
<1>7. B!Resume <=> BP!Resume
  BY Zenon DEF B!Resume, BP!Resume
<1> QED
  BY <1>1, <1>2, <1>3, <1>4, <1>5, <1>6, <1>7, Zenon

-----------------------------------------------------------------------------
(* Credits on the way to a sender.                                         *)

Packets == [at : Int, size : DataSizes]

\* When a credit reaches its sender: in the order in which they left A, and
\* none later than a credit would that left when A's link is free next.
Lined(c, f, free) ==
  /\ \A i \in 1..(Len(c) - 1) : c[i] < c[i + 1]
  /\ \A i \in 1..Len(c) : c[i] <= free + Latency[f]

DInv ==
  /\ AP!TypeOK /\ BP!TypeOK
  /\ AP!LinkOwned /\ BP!LinkOwned
  /\ credits \in [Flows -> Seq(Int)]
  /\ nic \in [Flows -> Int]
  /\ data \in [Flows -> Seq(Packets)]
  /\ \A f \in Flows : Lined(credits[f], f, AP!LinkFree)

\* A longer wait for the link changes nothing for the credits on the way.
LEMMA LinedLater ==
  ASSUME NEW c \in Seq(Int), NEW f \in Flows, NEW u \in Int, NEW v \in Int,
         u <= v, Lined(c, f, u)
  PROVE  Lined(c, f, v)
<1>1. Latency[f] \in Nat /\ \A i \in 1..Len(c) : c[i] \in Int
  BY LatencyAssumption, ElementOfSeq
<1>2. ASSUME NEW i \in 1..Len(c) PROVE c[i] <= v + Latency[f]
  <2>1. c[i] <= u + Latency[f] /\ c[i] \in Int
    BY <1>1 DEF Lined
  <2> QED
    BY <1>1, <2>1
<1> QED
  BY <1>2 DEF Lined

\* A credit reaches the sender.
LEMMA LinedTail ==
  ASSUME NEW c \in Seq(Int), NEW f \in Flows, NEW u \in Int,
         c # <<>>, Lined(c, f, u)
  PROVE  Tail(c) \in Seq(Int) /\ Lined(Tail(c), f, u)
<1> DEFINE d == Tail(c)
<1>1. Len(c) \in Nat \ {0}
  BY EmptySeq
<1>2. d \in Seq(Int) /\ Len(d) = Len(c) - 1 /\ \A i \in 1..Len(d) : d[i] = c[i + 1]
  BY HeadTailProperties
<1> HIDE DEF d
<1>3. ASSUME NEW i \in 1..(Len(d) - 1) PROVE d[i] < d[i + 1]
  <2>1. i \in 1..Len(d) /\ i + 1 \in 1..Len(d) /\ i + 1 \in 1..(Len(c) - 1)
    BY <1>1, <1>2
  <2>2. c[i + 1] < c[(i + 1) + 1]
    BY <2>1 DEF Lined
  <2> QED
    BY <1>2, <2>1, <2>2
<1>4. ASSUME NEW i \in 1..Len(d) PROVE d[i] <= u + Latency[f]
  <2>1. i + 1 \in 1..Len(c)
    BY <1>1, <1>2
  <2>2. c[i + 1] <= u + Latency[f]
    BY <2>1 DEF Lined
  <2> QED
    BY <1>2, <2>2
<1> QED
  BY <1>2, <1>3, <1>4 DEF Lined, d

\* A credit leaves A at time t on a link that is free by then, and is on the
\* link until v.
LEMMA LinedAppend ==
  ASSUME NEW c \in Seq(Int), NEW f \in Flows, NEW u \in Int, NEW t \in Int,
         NEW v \in Int, u <= t, t < v, Lined(c, f, u)
  PROVE  /\ Append(c, v + Latency[f]) \in Seq(Int)
         /\ Lined(Append(c, v + Latency[f]), f, v)
<1> DEFINE e == v + Latency[f]
           d == Append(c, e)
<1>1. Latency[f] \in Nat /\ e \in Int /\ Len(c) \in Nat
      /\ \A i \in 1..Len(c) : c[i] \in Int
  BY LatencyAssumption, ElementOfSeq, LenProperties
<1>2. /\ d \in Seq(Int) /\ Len(d) = Len(c) + 1
      /\ (\A i \in 1..Len(c) : d[i] = c[i]) /\ d[Len(c) + 1] = e
  <2> HIDE DEF e
  <2> QED
    BY <1>1, AppendProperties
<1>3. \A i \in 1..Len(c) : c[i] <= u + Latency[f]
  BY DEF Lined
<1>4. \A i \in 1..Len(c) : c[i] < e
  BY <1>1, <1>3
<1> HIDE DEF d
<1>5. ASSUME NEW i \in 1..(Len(d) - 1) PROVE d[i] < d[i + 1]
  <2>1. i \in 1..Len(c)
    BY <1>1, <1>2
  <2>2. CASE i = Len(c)
    BY <1>2, <1>4, <2>1, <2>2
  <2>3. CASE i # Len(c)
    <3>1. i \in 1..(Len(c) - 1) /\ i + 1 \in 1..Len(c)
      BY <1>1, <2>1, <2>3
    <3>2. c[i] < c[i + 1]
      BY <3>1 DEF Lined
    <3> QED
      BY <1>2, <2>1, <3>1, <3>2
  <2> QED
    BY <2>2, <2>3
<1>6. ASSUME NEW i \in 1..Len(d) PROVE d[i] <= v + Latency[f]
  <2>1. CASE i \in 1..Len(c)
    <3>1. d[i] < e /\ d[i] \in Int
      BY <1>1, <1>2, <1>4, <2>1
    <3> QED
      BY <1>1, <3>1
  <2>2. CASE i = Len(c) + 1
    BY <1>1, <1>2, <2>2
  <2> QED
    BY <1>1, <1>2, <2>1, <2>2
<1> QED
  BY <1>2, <1>5, <1>6 DEF Lined, d, e

\* Another part of the system moves the clock to a time at which nothing of
\* the port is overdue.
LEMMA AWaits ==
  ASSUME AP!TypeOK, AP!LinkOwned, now' \in Nat, now <= now',
         a_intr # -1 => now' <= a_intr, UNCHANGED aVars
  PROVE  AP!TypeOK' /\ AP!LinkOwned' /\ AP!LinkFree' >= AP!LinkFree
<1>1. UNCHANGED <<a_credit_q, a_data_q, a_tokens, a_token_bucket_clock, a_credit_timer,
                  a_blocked, a_intr, a_arrivals, a_resets, a_log, a_err>>
  BY DEF aVars
<1>2. AP!TypeOK'
  BY <1>1 DEF AP!TypeOK
<1>3. now \in Nat /\ a_intr \in Int /\ a_blocked \in BOOLEAN
  BY DEF AP!TypeOK
<1>4. (~a_blocked => a_intr = -1) /\ (a_blocked => a_intr >= now)
  BY DEF AP!LinkOwned, AP!Never
<1>5. a_blocked => a_intr >= now'
  BY <1>3, <1>4
<1>6. AP!LinkOwned'
  BY <1>1, <1>4, <1>5 DEF AP!LinkOwned, AP!Never
<1>7. AP!LinkFree' >= AP!LinkFree
  BY <1>1, <1>3 DEF AP!LinkFree
<1> QED
  BY <1>2, <1>6, <1>7

LEMMA BWaits ==
  ASSUME BP!TypeOK, BP!LinkOwned, now' \in Nat, now <= now',
         b_intr # -1 => now' <= b_intr, UNCHANGED bVars
  PROVE  BP!TypeOK' /\ BP!LinkOwned'
<1>1. UNCHANGED <<b_credit_q, b_data_q, b_tokens, b_token_bucket_clock, b_credit_timer,
                  b_blocked, b_intr, b_arrivals, b_resets, b_log, b_err>>
  BY DEF bVars
<1>2. BP!TypeOK'
  BY <1>1 DEF BP!TypeOK
<1>3. now \in Nat /\ b_intr \in Int /\ b_blocked \in BOOLEAN
  BY DEF BP!TypeOK
<1>4. (~b_blocked => b_intr = -1) /\ (b_blocked => b_intr >= now)
  BY DEF BP!LinkOwned, BP!Never
<1>5. b_blocked => b_intr >= now'
  BY <1>3, <1>4
<1>6. BP!LinkOwned'
  BY <1>1, <1>4, <1>5 DEF BP!LinkOwned, BP!Never
<1> QED
  BY <1>2, <1>6

\* A step of A: the credit that leaves is the last to reach its sender.
LEMMA CreditsAfterA ==
  ASSUME AP!TypeOK, AP!TypeOK',
         credits \in [Flows -> Seq(Int)],
         \A f \in Flows : Lined(credits[f], f, AP!LinkFree),
         NEW queued, AfterA(queued),
         \/ a_log' = a_log /\ AP!LinkFree' >= AP!LinkFree
         \/ AP!LinkFree <= now' /\ AP!CreditLeaves(now')
  PROVE  /\ credits' \in [Flows -> Seq(Int)]
         /\ \A f \in Flows : Lined(credits'[f], f, AP!LinkFree')
<1> DEFINE Logs == Seq([at : Nat, size : CreditSizes])
<1>1. /\ now \in Nat /\ a_intr \in Int /\ a_blocked \in BOOLEAN /\ a_log \in Logs
      /\ now' \in Nat /\ a_intr' \in Int /\ a_blocked' \in BOOLEAN /\ a_log' \in Logs
  BY DEF AP!TypeOK
<1>2. PICK u \in Int, v \in Int, t \in Nat :
        u = AP!LinkFree /\ v = AP!LinkFree' /\ t = now'
  BY <1>1 DEF AP!LinkFree
<1>3. Len(a_log) \in Nat
  BY <1>1, LenProperties
<1>4. \A f \in Flows : credits[f] \in Seq(Int) /\ Lined(credits[f], f, u)
  BY <1>2
<1>5. CASE a_log' = a_log /\ AP!LinkFree' >= AP!LinkFree
  <2>1. ~(Len(a_log') > Len(a_log)) /\ u <= v
    BY <1>2, <1>3, <1>5
  <2>2. credits' = credits
    BY <2>1 DEF AfterA
  <2>3. \A f \in Flows : Lined(credits[f], f, v)
    BY <1>4, <2>1, LinedLater
  <2> QED
    BY <1>2, <2>2, <2>3
<1>6. CASE AP!LinkFree <= now' /\ AP!CreditLeaves(now')
  <2>1. PICK h \in CreditSizes :
          /\ a_log' = Append(a_log, [at |-> now', size |-> h])
          /\ a_blocked' = TRUE
          /\ a_intr' = now' + h * TxPerByte
    BY <1>6, Zenon DEF AP!CreditLeaves
  <2>2. h \in Nat \ {0} /\ TxPerByte \in Nat \ {0}
    BY Constants
  <2>3. h * TxPerByte \in Nat \ {0}
    BY <2>2, Z3
  <2>4. v = t + h * TxPerByte
    BY <1>2, <2>1, Zenon DEF AP!LinkFree
  <2>5. u <= t /\ t < v
    BY <1>2, <1>6, <2>3, <2>4
  <2>6. /\ Len(a_log') = Len(a_log) + 1
        /\ a_log'[Len(a_log')] = [at |-> t, size |-> h]
    <3> DEFINE e == [at |-> t, size |-> h]
    <3>1. e \in [at : Nat, size : CreditSizes] /\ a_log' = Append(a_log, e)
      BY <1>2, <2>1
    <3> HIDE DEF e
    <3>2. Len(a_log') = Len(a_log) + 1 /\ a_log'[Len(a_log) + 1] = e
      BY <1>1, <3>1, AppendProperties
    <3> QED
      BY <3>2 DEF e
  <2>7. Len(a_log') > Len(a_log)
    BY <1>3, <2>6
  <2> DEFINE f == Head(queued)
             sent == a_log'[Len(a_log')]
             e == v + Latency[f]
  <2>8. credits' = [credits EXCEPT ![f] =
                      Append(@, sent.at + sent.size * TxPerByte + Latency[f])]
    BY <2>7, Zenon DEF AfterA
  <2>9. sent.at = t /\ sent.size = h
    BY <2>6
  <2>10. credits' = [credits EXCEPT ![f] = Append(@, e)]
    BY <2>4, <2>8, <2>9, Zenon
  <2> HIDE DEF f, e, sent
  <2>11. ASSUME NEW g \in Flows
         PROVE  credits'[g] \in Seq(Int) /\ Lined(credits'[g], g, v)
    <3>1. CASE g = f
      <4>1. credits'[g] = Append(credits[g], v + Latency[g])
        BY <2>10, <3>1 DEF e
      <4>2. /\ credits[g] \in Seq(Int) /\ Lined(credits[g], g, u)
            /\ u \in Int /\ t \in Int /\ v \in Int
        BY <1>4
      <4>3. /\ Append(credits[g], v + Latency[g]) \in Seq(Int)
            /\ Lined(Append(credits[g], v + Latency[g]), g, v)
        BY <2>5, <4>2, LinedAppend, Zenon
      <4> QED
        BY <4>1, <4>3, Zenon
    <3>2. CASE g # f
      <4>1. credits'[g] = credits[g]
        BY <2>10, <3>2
      <4>2. u <= v
        BY <2>5
      <4> QED
        BY <1>4, <4>1, <4>2, LinedLater
    <3> QED
      BY <3>1, <3>2
  <2>12. credits' \in [Flows -> Seq(Int)]
    <3>1. credits' = [g \in Flows |-> credits'[g]]
      BY <2>10
    <3> QED
      BY <2>11, <3>1
  <2> QED
    BY <1>2, <2>11, <2>12
<1> QED
  BY <1>5, <1>6

LEMMA DInvInit == Init => DInv
<1> SUFFICES ASSUME Init PROVE DInv
  OBVIOUS
<1>1. AP!Init /\ BP!Init
  BY SamePort DEF Init
<1>2. AP!TypeOK
  BY <1>1, Constants, AP!InitType
<1>3. BP!TypeOK
  BY <1>1, Constants, BP!InitType
<1>4. AP!LinkOwned /\ BP!LinkOwned
  BY <1>1 DEF AP!Init, BP!Init, AP!LinkOwned, BP!LinkOwned
<1>5. /\ credits = [f \in Flows |-> <<>>] /\ data = [f \in Flows |-> <<>>]
      /\ nic = [f \in Flows |-> 0]
  BY DEF Init
<1>6. <<>> \in Seq(Int) /\ <<>> \in Seq(Packets) /\ Len(<<>>) = 0
  BY EmptySeq
<1>7. /\ credits \in [Flows -> Seq(Int)] /\ nic \in [Flows -> Int]
      /\ data \in [Flows -> Seq(Packets)]
  BY <1>5, <1>6
<1>8. \A f \in Flows : Lined(credits[f], f, AP!LinkFree)
  BY <1>5, <1>6 DEF Lined
<1> QED
  BY <1>2, <1>3, <1>4, <1>7, <1>8 DEF DInv

LEMMA DInvStep == DInv /\ [Next]_vars => DInv'
<1> SUFFICES ASSUME DInv, [Next]_vars PROVE DInv'
  OBVIOUS
<1>0. /\ AP!TypeOK /\ BP!TypeOK /\ AP!LinkOwned /\ BP!LinkOwned
      /\ credits \in [Flows -> Seq(Int)] /\ nic \in [Flows -> Int]
      /\ data \in [Flows -> Seq(Packets)]
      /\ \A f \in Flows : Lined(credits[f], f, AP!LinkFree)
  BY DEF DInv
<1>1. /\ now \in Nat /\ a_intr \in Int /\ a_blocked \in BOOLEAN
      /\ a_credit_timer \in Int /\ b_intr \in Int
  <2>1. /\ now \in Nat /\ a_intr \in Int /\ a_blocked \in BOOLEAN
        /\ a_credit_timer \in Int
    BY <1>0 DEF AP!TypeOK
  <2>2. b_intr \in Int
    BY <1>0 DEF BP!TypeOK
  <2> QED
    BY <2>1, <2>2
<1>2. ASSUME NEW t \in Int, Due(t)
      PROVE  /\ t \in Nat /\ now <= t
             /\ a_intr # -1 => t <= a_intr
             /\ b_intr # -1 => t <= b_intr
  <2>1. /\ now <= t
        /\ a_intr # -1 => t <= a_intr
        /\ b_intr # -1 => t <= b_intr
    BY <1>2 DEF Due, A!MayDispatch, B!MayDispatch, A!Never, B!Never
  <2> QED
    BY <1>1, <2>1
\* a step of A alone
<1>3. ASSUME NEW t \in Nat, now' = t, Due(t), NEW queued, AfterA(queued),
             UNCHANGED <<bVars, nic, data>>,
             \/ \E size \in CreditSizes : AP!RecvCredit(size, t)
             \/ AP!Resume
             \/ AP!Expire
      PROVE  DInv'
  <2>1. /\ AP!TypeOK' /\ AP!LinkOwned'
        /\ \/ a_log' = a_log /\ AP!LinkFree' >= AP!LinkFree
           \/ AP!LinkFree <= now' /\ AP!CreditLeaves(now')
    BY <1>0, <1>3, StepOfA
  <2>2. now' \in Nat /\ now <= now' /\ (b_intr # -1 => now' <= b_intr)
    BY <1>2, <1>3
  <2>3. BP!TypeOK' /\ BP!LinkOwned'
    BY <1>0, <1>3, <2>2, BWaits
  <2>4. /\ credits' \in [Flows -> Seq(Int)]
        /\ \A f \in Flows : Lined(credits'[f], f, AP!LinkFree')
    BY <1>0, <1>3, <2>1, CreditsAfterA
  <2> QED
    BY <1>0, <1>3, <2>1, <2>3, <2>4 DEF DInv
\* a step that leaves A alone
<1>4. ASSUME NEW t \in Nat, now' = t, Due(t), UNCHANGED aVars,
             credits' \in [Flows -> Seq(Int)],
             \A f \in Flows : Lined(credits'[f], f, AP!LinkFree)
      PROVE  /\ AP!TypeOK' /\ AP!LinkOwned'
             /\ \A f \in Flows : Lined(credits'[f], f, AP!LinkFree')
  <2>1. now' \in Nat /\ now <= now' /\ (a_intr # -1 => now' <= a_intr)
    BY <1>2, <1>4
  <2>2. AP!TypeOK' /\ AP!LinkOwned' /\ AP!LinkFree' >= AP!LinkFree
    BY <1>0, <1>4, <2>1, AWaits
  <2>3. now' \in Nat /\ a_intr' \in Int /\ a_blocked' \in BOOLEAN
    BY <2>2 DEF AP!TypeOK
  <2>4. PICK u \in Int, v \in Int : u = AP!LinkFree /\ v = AP!LinkFree'
    BY <1>1, <2>3 DEF AP!LinkFree
  <2>5. u <= v
    BY <2>2, <2>4
  <2>6. \A f \in Flows : Lined(credits'[f], f, v)
    BY <1>4, <2>4, <2>5, LinedLater
  <2> QED
    BY <2>2, <2>4, <2>6
<1>5. ASSUME NEW f \in Flows, NEW size \in CreditSizes,
             NEW t \in FirstArrival..LastArrival, CreditAtA(f, size, t)
      PROVE  DInv'
  <2>1. t \in Int
    BY Constants, BoundAssumption
  <2>2. /\ Due(t) /\ AP!RecvCredit(size, t) /\ UNCHANGED <<bVars, nic, data>>
        /\ \E queued : AfterA(queued)
    BY <1>5, SamePort DEF CreditAtA
  <2>3. now' = t
    BY <2>2, Zenon DEF AP!RecvCredit, AP!RecvWith
  <2>4. t \in Nat
    BY <1>2, <2>1, <2>2
  <2> QED
    BY <1>3, <2>2, <2>3, <2>4
<1>6. CASE EventAtA
  <2>1. AfterA(waiting) /\ UNCHANGED <<bVars, nic, data>>
    BY <1>6 DEF EventAtA
  <2>2. CASE Due(a_intr) /\ A!Resume
    <3>1. AP!Resume
      BY <2>2, SamePort
    <3>2. now' = a_intr
      BY <3>1 DEF AP!Resume
    <3>3. a_intr \in Nat
      BY <1>1, <1>2, <2>2
    <3> QED
      BY <1>3, <2>1, <2>2, <3>1, <3>2, <3>3
  <2>3. CASE Due(a_credit_timer) /\ A!Expire
    <3>1. AP!Expire
      BY <2>3, SamePort
    <3>2. now' = a_credit_timer
      BY <3>1 DEF AP!Expire
    <3>3. a_credit_timer \in Nat
      BY <1>1, <1>2, <2>3
    <3> QED
      BY <1>3, <2>1, <2>3, <3>1, <3>2, <3>3
  <2> QED
    BY <1>6, <2>2, <2>3 DEF EventAtA
<1>7. ASSUME NEW f \in Flows, NEW size \in SegmentSizes, NEW last \in BOOLEAN,
             NEW early \in BOOLEAN, CreditAtSender(f, size, last, early)
      PROVE  DInv'
  <2> DEFINE c == credits[f]
             t == Head(c)
             idle == IF nic[f] > t THEN nic[f] ELSE t
             done(n) == idle + n * TxPerByte
             segment == [at |-> done(size), size |-> size]
             stop == [at |-> done(size + StopSize), size |-> StopSize]
             stops == f \notin stopped /\ (last \/ early)
  <2>1. /\ c # <<>> /\ Due(t) /\ now' = t
        /\ credits' = [credits EXCEPT ![f] = Tail(@)]
        /\ UNCHANGED <<aVars, bVars>>
    BY <1>7 DEF CreditAtSender
  <2>2. c \in Seq(Int) /\ t \in Int /\ Tail(c) \in Seq(Int)
    BY <1>0, <2>1, HeadTailProperties
  <2>3. t \in Nat /\ now <= t /\ (b_intr # -1 => t <= b_intr)
    <3> HIDE DEF t
    <3> QED
      BY <1>2, <2>1, <2>2
  <2>4. credits' \in [Flows -> Seq(Int)]
    BY <1>0, <2>1, <2>2
  <2>5. ASSUME NEW g \in Flows PROVE Lined(credits'[g], g, AP!LinkFree)
    <3>1. PICK u \in Int : u = AP!LinkFree
      BY <1>1 DEF AP!LinkFree
    <3>2. CASE g = f
      <4>1. credits'[g] = Tail(c)
        BY <1>0, <2>1, <3>2
      <4>2. Lined(c, f, u)
        BY <1>0, <3>1
      <4>3. Lined(Tail(c), f, u)
        <5> HIDE DEF c
        <5> QED
          BY <2>1, <2>2, <4>2, LinedTail
      <4> QED
        BY <3>1, <3>2, <4>1, <4>3
    <3>3. CASE g # f
      <4>1. credits'[g] = credits[g]
        BY <1>0, <2>1, <3>3
      <4> QED
        BY <1>0, <4>1
    <3> QED
      BY <3>2, <3>3
  <2>6. /\ AP!TypeOK' /\ AP!LinkOwned'
        /\ \A g \in Flows : Lined(credits'[g], g, AP!LinkFree')
    <3> HIDE DEF t
    <3> QED
      BY <1>4, <2>1, <2>3, <2>4, <2>5
  <2>7. BP!TypeOK' /\ BP!LinkOwned'
    <3> HIDE DEF t
    <3> QED
      BY <1>0, <2>1, <2>3, BWaits
  <2>8. nic' \in [Flows -> Int] /\ data' \in [Flows -> Seq(Packets)]
    <3>1. CASE f \in finished
      <4>1. nic' = nic /\ data' = data
        BY <1>7, <3>1 DEF CreditAtSender
      <4> QED
        BY <1>0, <4>1
    <3>2. CASE f \notin finished
      <4>1. /\ data' = [data EXCEPT ![f] =
                          @ \o IF stops THEN <<segment, stop>> ELSE <<segment>>]
            /\ nic' = [nic EXCEPT ![f] = IF stops THEN stop.at ELSE segment.at]
        BY <1>7, <3>2 DEF CreditAtSender
      <4>2. idle \in Int
        BY <1>0, <2>2
      <4>3. /\ size \in DataSizes /\ StopSize \in DataSizes
            /\ size \in Nat /\ StopSize \in Nat /\ TxPerByte \in Nat
        BY SegmentAssumption, Constants DEF DataSizes
      <4> HIDE DEF idle
      <4>4. ASSUME NEW n \in Nat PROVE done(n) \in Int
        <5>1. n * TxPerByte \in Nat
          BY <4>3
        <5> QED
          BY <4>2, <5>1
      <4>5. done(size) \in Int /\ done(size + StopSize) \in Int
        <5>1. size + StopSize \in Nat
          BY <4>3
        <5> HIDE DEF done
        <5> QED
          BY <4>3, <4>4, <5>1
      <4> HIDE DEF done
      <4>6. segment \in Packets /\ stop \in Packets /\ segment.at \in Int /\ stop.at \in Int
        BY <4>3, <4>5 DEF Packets
      <4> HIDE DEF segment, stop
      <4>7. nic' \in [Flows -> Int]
        BY <1>0, <4>1, <4>6
      <4>8. (IF stops THEN <<segment, stop>> ELSE <<segment>>) \in Seq(Packets)
        BY <4>6
      <4>9. data[f] \o (IF stops THEN <<segment, stop>> ELSE <<segment>>) \in Seq(Packets)
        BY <1>0, <4>8, ConcatProperties
      <4>10. data' \in [Flows -> Seq(Packets)]
        BY <1>0, <4>1, <4>9
      <4> QED
        BY <4>7, <4>10
    <3> QED
      BY <3>1, <3>2
  <2> QED
    BY <2>4, <2>6, <2>7, <2>8 DEF DInv
<1>8. ASSUME NEW f \in Flows, PacketAtB(f) PROVE DInv'
  <2> DEFINE p == Head(data[f])
  <2>1. /\ data[f] # <<>> /\ Due(p.at) /\ B!RecvData(p.size, p.at)
        /\ data' = [data EXCEPT ![f] = Tail(@)]
        /\ UNCHANGED <<aVars, credits, nic>>
    BY <1>8 DEF PacketAtB
  <2>2. data[f] \in Seq(Packets)
    BY <1>0
  <2>3. p \in Packets /\ Tail(data[f]) \in Seq(Packets)
    BY <2>1, <2>2, HeadTailProperties
  <2>4. PICK t \in Int, size \in DataSizes : t = p.at /\ size = p.size
    BY <2>3 DEF Packets
  <2>5. Due(t) /\ BP!RecvData(size, t)
    BY <2>1, <2>4, SamePort
  <2>6. t \in Nat
    BY <1>2, <2>5
  <2>7. now' = t
    BY <2>5, Zenon DEF BP!RecvData, BP!RecvWith
  <2>8. BP!TypeOK' /\ BP!LinkOwned'
    BY <1>0, <2>5, <2>6, StepOfB
  <2>9. /\ AP!TypeOK' /\ AP!LinkOwned'
        /\ \A g \in Flows : Lined(credits'[g], g, AP!LinkFree')
    BY <1>0, <1>4, <2>1, <2>5, <2>6, <2>7
  <2>10. data' \in [Flows -> Seq(Packets)]
    BY <1>0, <2>1, <2>3
  <2> QED
    BY <1>0, <2>1, <2>8, <2>9, <2>10 DEF DInv
<1>9. CASE EventAtB
  <2>1. Due(b_intr) /\ BP!Resume /\ UNCHANGED <<aVars, credits, nic, data>>
    BY <1>9, SamePort DEF EventAtB, pathVars
  <2>2. b_intr \in Nat
    BY <1>1, <1>2, <2>1
  <2>3. now' = b_intr
    BY <2>1 DEF BP!Resume
  <2>4. BP!TypeOK' /\ BP!LinkOwned'
    BY <1>0, <2>1, StepOfB
  <2>5. /\ AP!TypeOK' /\ AP!LinkOwned'
        /\ \A g \in Flows : Lined(credits'[g], g, AP!LinkFree')
    BY <1>0, <1>4, <2>1, <2>2, <2>3
  <2> QED
    BY <1>0, <2>1, <2>4, <2>5 DEF DInv
<1>10. CASE UNCHANGED vars
  <2>1. now' = now /\ UNCHANGED <<aVars, bVars, credits, nic, data>>
    BY <1>10 DEF vars, pathVars
  <2> QED
    BY <1>0, <2>1 DEF DInv, aVars, bVars, AP!TypeOK, BP!TypeOK, AP!LinkOwned,
                      BP!LinkOwned, AP!LinkFree
<1> QED
  BY <1>5, <1>6, <1>7, <1>8, <1>9, <1>10 DEF Next

\* Two credits never reach a sender at the same time, whatever the receivers
\* send and however the paths differ: A's link takes one credit at a time.
THEOREM CreditsApartSafe == Spec => []CreditsApart
<1>1. DInv => CreditsApart
  BY DEF DInv, Lined, CreditsApart
<1> QED
  BY <1>1, DInvInit, DInvStep, PTL DEF Spec

====
