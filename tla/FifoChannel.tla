---------------------------- MODULE FifoChannel ----------------------------
(***************************************************************************)
(* What LFQueue promises its two threads: a bounded first-in first-out     *)
(* channel.  Elements are numbered in the order they are put; the consumer *)
(* takes each of them once, in that order.                                 *)
(***************************************************************************)
EXTENDS Integers, Sequences

CONSTANT Bound     \* how many elements the channel can hold

VARIABLES
  channel,    \* the elements put and not yet taken, oldest first
  sent,       \* the number of elements put
  received    \* the element taken last, 0 before the first

Init == channel = <<>> /\ sent = 0 /\ received = 0

Put ==
  /\ Len(channel) < Bound
  /\ sent' = sent + 1
  /\ channel' = Append(channel, sent + 1)
  /\ UNCHANGED received

Take ==
  /\ channel # <<>>
  /\ received' = Head(channel)
  /\ channel' = Tail(channel)
  /\ UNCHANGED sent

Next == Put \/ Take

Spec == Init /\ [][Next]_<<channel, sent, received>>
=============================================================================
