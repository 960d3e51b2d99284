----------------------------- MODULE MCExchange -----------------------------
(* Exchange with short log lines and a short second.                       *)
EXTENDS Exchange
=============================================================================
