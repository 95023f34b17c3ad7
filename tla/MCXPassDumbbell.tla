--------------------------- MODULE MCXPassDumbbell ---------------------------
(* Two flows, one of them with a distant sender.                           *)
EXTENDS XPassDumbbell

MCLatency == [f \in Flows |-> IF f = "near" THEN 0 ELSE 3]
=============================================================================
