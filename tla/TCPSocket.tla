----------------------------- MODULE TCPSocket -----------------------------
(***************************************************************************)
(* The two buffers of a TCPSocket (tcp_socket.cpp) as a data structure:    *)
(* operators on the value of a socket, no variables.  TCPClient runs one   *)
(* socket under a program that sends and receives; TCPServer holds one for *)
(* each connection it has accepted.                                        *)
(*                                                                         *)
(* A buffer is the sequence of the bytes below its index                   *)
(* (next_recv_valid_index_, next_send_valid_index_); what lies behind the  *)
(* index is never read.  The descriptor is kept by the modules that use    *)
(* the socket, the timestamps are left out.                                *)
(***************************************************************************)
EXTENDS Integers, Sequences

CONSTANT TCPBufferSize   \* the size of either buffer

ASSUME TCPBufferAssumption == TCPBufferSize \in Nat \ {0}

-----------------------------------------------------------------------------
NewSocket == [recv_buffer_ |-> <<>>, send_buffer_ |-> <<>>]

Sockets == [recv_buffer_ : Seq(Nat), send_buffer_ : Seq(Nat)]

(* Both indices are within their buffers.                                  *)
InBounds(s) ==
  Len(s.recv_buffer_) <= TCPBufferSize /\ Len(s.send_buffer_) <= TCPBufferSize

UpTo(bytes, n) == SubSeq(bytes, 1, n)
After(bytes, n) == SubSeq(bytes, n + 1, Len(bytes))

Lesser(m, n) == IF m <= n THEN m ELSE n

(* send copies without looking at the size of its buffer: more than fits   *)
(* is written behind it.                                                   *)
Fits(s, data) == Len(s.send_buffer_) + Len(data) <= TCPBufferSize

Queued(s, data) == [s EXCEPT !.send_buffer_ = @ \o data]

(* A seeded fault: the size of the buffer is not reduced by the index.     *)
AllReceived(s, arrived) == Lesser(TCPBufferSize, Len(arrived))

(* How many of the bytes that have arrived recvmsg takes.  None of them if *)
(* the buffer is full, which looks like a peer that has closed.            *)
Received(s, arrived) == Lesser(TCPBufferSize - Len(s.recv_buffer_), Len(arrived))

(* A seeded fault: recvmsg writes to the start of the buffer.              *)
Overwritten(s, arrived) == [s EXCEPT !.recv_buffer_ = UpTo(arrived, Received(s, arrived))]

WithReceived(s, arrived) ==
  [s EXCEPT !.recv_buffer_ = @ \o UpTo(arrived, Received(s, arrived))]

(* A seeded fault: the callback forgets setNextRecvValidIndex.             *)
NotEmptied(s) == s

(* setNextRecvValidIndex(0), which is what callbacks do with data they     *)
(* have read.                                                              *)
Emptied(s) == [s EXCEPT !.recv_buffer_ = <<>>]

(* How many bytes of the send buffer ::send hands to a kernel that has     *)
(* room for so many.                                                       *)
Sent(s, room) == Lesser(Len(s.send_buffer_), room)

(* A seeded fault: the rest of a partial send is forgotten.                *)
AnyIsSent(s, room) == TRUE

(* sendAndRecv's ASSERT: nothing to send, or ::send took all of it.        *)
AllSent(s, room) == Sent(s, room) = Len(s.send_buffer_)

(* A seeded fault: the index is not reset after the send.                  *)
NotFlushed(s) == s

(* next_send_valid_index_ = 0.                                             *)
Flushed(s) == [s EXCEPT !.send_buffer_ = <<>>]
=============================================================================
