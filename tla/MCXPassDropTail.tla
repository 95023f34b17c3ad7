--------------------------- MODULE MCXPassDropTail ---------------------------
(* Small ports for TLC: the values of the constants are in the cfg files.  *)
EXTENDS XPassDropTail
=============================================================================
