------------------------------- MODULE MCSPSC -------------------------------
(* SPSC on a ring of three or four slots, for each of the consumer loops.  *)
EXTENDS SPSC
=============================================================================
