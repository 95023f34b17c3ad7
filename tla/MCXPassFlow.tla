----------------------------- MODULE MCXPassFlow -----------------------------
(* Small flows for TLC: the values of the constants are in the cfg files.  *)
EXTENDS XPassFlow
=============================================================================
