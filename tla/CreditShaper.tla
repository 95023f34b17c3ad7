---------------------------- MODULE CreditShaper -----------------------------
(***************************************************************************)
(* What the credit queue of Queue/XPassDropTail promises to the network: a *)
(* leaky bucket in continuous time.  level is the credit budget in time    *)
(* units; it grows no faster than the clock, is never more than Depth, and *)
(* a credit of size s is sent only by spending TokenPeriod * s of it.  The *)
(* shaper may waste budget (a reset does) but never invents any.           *)
(***************************************************************************)
EXTENDS Integers, Sequences

CONSTANTS CreditSizes, TokenPeriod, Depth

VARIABLES now, level, log

shaperVars == <<now, level, log>>

Refilled(t) == IF level + (t - now) <= Depth THEN level + (t - now) ELSE Depth

\* Time passes, or budget is wasted.
Idle ==
  /\ now' >= now
  /\ level' >= 0
  /\ level' <= Refilled(now')
  /\ log' = log

\* A credit goes to the link.
SendCredit(size) ==
  /\ now' >= now
  /\ level' >= 0
  /\ level' <= Refilled(now') - TokenPeriod * size
  /\ log' = Append(log, [at |-> now', size |-> size])

Init ==
  /\ now = 0
  /\ level = 0
  /\ log = <<>>

Next == Idle \/ \E size \in CreditSizes : SendCredit(size)

Spec == Init /\ [][Next]_shaperVars

=============================================================================
