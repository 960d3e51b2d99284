----------------------------- MODULE ByteStream -----------------------------
(***************************************************************************)
(* What a TCP connection promises in one direction: bytes, numbered as     *)
(* they are written, come out once each and in order.  When a connection   *)
(* ends, what was furthest on its way is lost; what its writer has not     *)
(* handed over yet is kept for the next connection.                        *)
(***************************************************************************)
EXTENDS Integers, Sequences

VARIABLES
  written,     \* how many bytes have been written
  inFlight,    \* written and neither received nor lost
  received,    \* what came out
  ended        \* how many connections have ended

Init == written = 0 /\ inFlight = <<>> /\ received = <<>> /\ ended = 0

Write ==
  \E n \in 1 .. written' - written :
    /\ written' = written + n
    /\ inFlight' = inFlight \o [i \in 1 .. n |-> written + i]
    /\ UNCHANGED <<received, ended>>

Receive ==
  \E n \in 1 .. Len(inFlight) :
    /\ received' = received \o SubSeq(inFlight, 1, n)
    /\ inFlight' = SubSeq(inFlight, n + 1, Len(inFlight))
    /\ UNCHANGED <<written, ended>>

End ==
  /\ ended' = ended + 1
  /\ \E n \in 0 .. Len(inFlight) : inFlight' = SubSeq(inFlight, n + 1, Len(inFlight))
  /\ UNCHANGED <<written, received>>

Next == Write \/ Receive \/ End

Spec == Init /\ [][Next]_<<written, inFlight, received, ended>>
=============================================================================
