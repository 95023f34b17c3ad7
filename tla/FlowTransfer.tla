---------------------------- MODULE FlowTransfer -----------------------------
(***************************************************************************)
(* What a flow promises to its applications: the bytes submitted on one    *)
(* side reach the other in order, each once, and nothing else does.        *)
(* submitted counts the bytes, numbered from 1; delivered is the sequence  *)
(* of the numbers of the bytes that came out, in the order they did.       *)
(***************************************************************************)
EXTENDS Integers, Sequences

CONSTANT FlowSizes

VARIABLES submitted, delivered

Init == submitted = 0 /\ delivered = <<>>

Submit(nb) == submitted' = submitted + nb /\ delivered' = delivered

Deliver(n) ==
  /\ Len(delivered) + n <= submitted
  /\ delivered' = delivered \o [i \in 1..n |-> Len(delivered) + i]
  /\ submitted' = submitted

Next ==
  \/ \E nb \in FlowSizes : Submit(nb)
  \/ \E n \in 1..submitted : Deliver(n)

Spec == Init /\ [][Next]_<<submitted, delivered>>

=============================================================================
