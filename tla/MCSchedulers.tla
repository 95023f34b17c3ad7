---------------------------- MODULE MCSchedulers ----------------------------
EXTENDS Schedulers

(* Nothing; simultaneous events; eight events, as many times as a calendar *)
(* of four buckets holds before it grows, a day apart, crowded into one    *)
(* bucket, and in pairs with most of them years ahead; and a few events    *)
(* for a RealTimeScheduler.                                                *)
MCPreloads ==
  LET Load(f(_)) == [at |-> [i \in 1..8 |-> <<i + 2, f(i)>>], uid |-> 11, rt |-> FALSE]
  IN { [at |-> <<>>, uid |-> 9, rt |-> FALSE],
       [at |-> << <<3, 2>>, <<4, 2>>, <<5, 1>>, <<6, 2>> >>, uid |-> 10, rt |-> FALSE],
       Load(LAMBDA i : i),
       Load(LAMBDA i : 4 * (9 - i)),
       Load(LAMBDA i : 9 * (i \div 2)),
       [at |-> << <<3, 2>>, <<4, 9>> >>, uid |-> 10, rt |-> TRUE] }
=============================================================================
