--------------------------- MODULE TCPSocketProofs ---------------------------
(***************************************************************************)
(* What the operations of a TCPSocket return, for buffers of every size.   *)
(***************************************************************************)
EXTENDS TCPSocket, SequenceTheorems, TLAPS

(* A sequence of bytes is cut into two pieces.                             *)
LEMMA PieceProperties ==
  ASSUME NEW bytes \in Seq(Nat), NEW n \in 0 .. Len(bytes)
  PROVE  /\ UpTo(bytes, n) \in Seq(Nat) /\ Len(UpTo(bytes, n)) = n
         /\ After(bytes, n) \in Seq(Nat) /\ Len(After(bytes, n)) = Len(bytes) - n
         /\ UpTo(bytes, n) \o After(bytes, n) = bytes
<1>1. Len(bytes) \in Nat /\ \A i \in 1 .. Len(bytes) : bytes[i] \in Nat
  BY LenProperties
<1>2. UpTo(bytes, n) \in Seq(Nat) /\ Len(UpTo(bytes, n)) = n
  BY <1>1, SubSeqProperties DEF UpTo
<1>3. After(bytes, n) \in Seq(Nat) /\ Len(After(bytes, n)) = Len(bytes) - n
  BY <1>1, SubSeqProperties DEF After
<1>4. SubSeq(bytes, 1, n) \o SubSeq(bytes, n + 1, Len(bytes)) = SubSeq(bytes, 1, Len(bytes))
  <2>1. 1 \in 1 .. Len(bytes) + 1 /\ n \in 1 - 1 .. Len(bytes) /\ Len(bytes) \in n .. Len(bytes)
    BY <1>1
  <2> QED
    BY <2>1, ConcatAdjacentSubSeq
<1>5. SubSeq(bytes, 1, Len(bytes)) = bytes
  BY SubSeqFull
<1> QED
  BY <1>2, <1>3, <1>4, <1>5 DEF UpTo, After

LEMMA PieceExtremes ==
  ASSUME NEW bytes \in Seq(Nat)
  PROVE  /\ UpTo(bytes, 0) = <<>> /\ After(bytes, 0) = bytes
         /\ UpTo(bytes, Len(bytes)) = bytes /\ After(bytes, Len(bytes)) = <<>>
<1>1. Len(bytes) \in Nat
  BY LenProperties
<1>2. SubSeq(bytes, 1, 0) = <<>> /\ SubSeq(bytes, Len(bytes) + 1, Len(bytes)) = <<>>
  BY <1>1, SubSeqEmpty
<1>3. SubSeq(bytes, 1, Len(bytes)) = bytes
  BY SubSeqFull
<1> QED
  BY <1>2, <1>3 DEF UpTo, After

(* What is left of a sequence is one, also if more is taken than there is. *)
LEMMA RestProperties ==
  ASSUME NEW bytes \in Seq(Nat), NEW n \in Nat
  PROVE  After(bytes, n) \in Seq(Nat)
<1>1. Len(bytes) \in Nat /\ \A i \in n + 1 .. Len(bytes) : bytes[i] \in Nat
  BY LenProperties, ElementOfSeq
<1> QED
  BY <1>1, SubSeqProperties DEF After

(* recvmsg takes what fits behind the index.                               *)
LEMMA ReceivedProperties ==
  ASSUME NEW s \in Sockets, InBounds(s), NEW bytes \in Seq(Nat)
  PROVE  /\ Received(s, bytes) \in 0 .. Len(bytes)
         /\ WithReceived(s, bytes) \in Sockets /\ InBounds(WithReceived(s, bytes))
         /\ WithReceived(s, bytes).recv_buffer_ =
              s.recv_buffer_ \o UpTo(bytes, Received(s, bytes))
         /\ WithReceived(s, bytes).send_buffer_ = s.send_buffer_
<1> DEFINE n == Received(s, bytes)
           piece == UpTo(bytes, n)
<1>1. /\ s.recv_buffer_ \in Seq(Nat) /\ Len(s.recv_buffer_) \in Nat /\ Len(bytes) \in Nat
      /\ Len(s.recv_buffer_) <= TCPBufferSize
  BY LenProperties DEF Sockets, InBounds
<1>2. n \in 0 .. Len(bytes) /\ n <= TCPBufferSize - Len(s.recv_buffer_)
  <2> DEFINE room == TCPBufferSize - Len(s.recv_buffer_)
  <2>1. room \in Nat
    BY <1>1, TCPBufferAssumption
  <2>2. n = IF room <= Len(bytes) THEN room ELSE Len(bytes)
    BY DEF Received, Lesser
  <2> HIDE DEF room, n
  <2>3. n \in 0 .. Len(bytes) /\ n <= room
    BY <1>1, <2>1, <2>2
  <2> QED
    BY <2>3 DEF room
<1> HIDE DEF n
<1>3. piece \in Seq(Nat) /\ Len(piece) = n
  BY <1>2, PieceProperties
<1> HIDE DEF piece
<1>4. s.recv_buffer_ \o piece \in Seq(Nat) /\ Len(s.recv_buffer_ \o piece) <= TCPBufferSize
  BY <1>1, <1>2, <1>3, ConcatProperties, TCPBufferAssumption
<1>5. WithReceived(s, bytes) = [s EXCEPT !.recv_buffer_ = s.recv_buffer_ \o piece]
  BY DEF WithReceived, piece, n
<1> QED
  BY <1>2, <1>4, <1>5 DEF Sockets, InBounds, n, piece

(* A socket with an empty receive buffer takes all that has arrived.       *)
LEMMA AllTaken ==
  ASSUME NEW s \in Sockets, InBounds(s), s.recv_buffer_ = <<>>,
         NEW bytes \in Seq(Nat), Len(bytes) <= TCPBufferSize
  PROVE  /\ Received(s, bytes) = Len(bytes)
         /\ WithReceived(s, bytes) \in Sockets
         /\ WithReceived(s, bytes).recv_buffer_ = bytes
         /\ WithReceived(s, bytes).send_buffer_ = s.send_buffer_
         /\ After(bytes, Received(s, bytes)) = <<>>
<1>1. Received(s, bytes) = Len(bytes)
  BY LenProperties, EmptySeq, TCPBufferAssumption DEF Received, Lesser
<1>2. <<>> \o bytes = bytes
  BY ConcatEmptySeq
<1>3. WithReceived(s, bytes).recv_buffer_ = <<>> \o UpTo(bytes, Len(bytes))
  BY <1>1, ReceivedProperties
<1>4. UpTo(bytes, Len(bytes)) = bytes /\ After(bytes, Len(bytes)) = <<>>
  BY PieceExtremes
<1>5. WithReceived(s, bytes) \in Sockets /\ WithReceived(s, bytes).send_buffer_ = s.send_buffer_
  BY ReceivedProperties
<1> QED
  BY <1>1, <1>2, <1>3, <1>4, <1>5

(* What ::send takes is bytes, and all of them if the ASSERT holds.        *)
LEMMA Taken ==
  ASSUME NEW s \in Sockets, NEW room \in Int
  PROVE  /\ UpTo(s.send_buffer_, Sent(s, room)) \in Seq(Nat)
         /\ AllSent(s, room) => UpTo(s.send_buffer_, Sent(s, room)) = s.send_buffer_
<1>1. s.send_buffer_ \in Seq(Nat) /\ Len(s.send_buffer_) \in Nat
  BY LenProperties DEF Sockets
<1>2. Sent(s, room) \in Int /\ Sent(s, room) <= Len(s.send_buffer_)
  BY <1>1 DEF Sent, Lesser
<1>3. \A i \in 1 .. Sent(s, room) : s.send_buffer_[i] \in Nat
  BY <1>1, <1>2, ElementOfSeq
<1>4. UpTo(s.send_buffer_, Sent(s, room)) \in Seq(Nat)
  BY <1>2, <1>3, SubSeqProperties DEF UpTo
<1>5. SubSeq(s.send_buffer_, 1, Len(s.send_buffer_)) = s.send_buffer_
  BY <1>1, SubSeqFull
<1> QED
  BY <1>4, <1>5 DEF AllSent, UpTo

(* To a kernel that has room ::send gives as many bytes as fit there.      *)
LEMMA SentProperties ==
  ASSUME NEW s \in Sockets, NEW room \in Nat
  PROVE  Sent(s, room) \in 0 .. Len(s.send_buffer_) /\ Sent(s, room) <= room
BY LenProperties DEF Sent, Lesser, Sockets

(* Emptying, queueing and flushing keep the type.                          *)
LEMMA EmptiedProperties ==
  ASSUME NEW s \in Sockets
  PROVE  /\ Emptied(s) \in Sockets
         /\ Emptied(s).recv_buffer_ = <<>> /\ Emptied(s).send_buffer_ = s.send_buffer_
BY EmptySeq DEF Emptied, Sockets

LEMMA FlushedProperties ==
  ASSUME NEW s \in Sockets
  PROVE  /\ Flushed(s) \in Sockets
         /\ Flushed(s).send_buffer_ = <<>> /\ Flushed(s).recv_buffer_ = s.recv_buffer_
BY EmptySeq DEF Flushed, Sockets

LEMMA QueuedProperties ==
  ASSUME NEW s \in Sockets, NEW data \in Seq(Nat)
  PROVE  /\ Queued(s, data) \in Sockets
         /\ Queued(s, data).recv_buffer_ = s.recv_buffer_
         /\ Queued(s, data).send_buffer_ = s.send_buffer_ \o data
<1>1. s.send_buffer_ \o data \in Seq(Nat)
  BY ConcatProperties DEF Sockets
<1> QED
  BY <1>1 DEF Queued, Sockets

-----------------------------------------------------------------------------
(* Where a byte is: sequences that follow one another.                     *)
LEMMA Regrouped ==
  ASSUME NEW a \in Seq(Nat), NEW b \in Seq(Nat), NEW c \in Seq(Nat)
  PROVE  (a \o b) \o c = a \o (b \o c)
OBVIOUS

LEMMA SecondOfTwo ==
  ASSUME NEW s \in Seq(Nat), NEW t \in Seq(Nat)
  PROVE  SubSeq(s \o t, Len(s) + 1, Len(s \o t)) = t
<1>1. Len(s) \in Nat /\ Len(t) \in Nat /\ Len(s \o t) = Len(s) + Len(t)
  BY LenProperties, ConcatProperties
<1>2. CASE t = <<>>
  <2>1. Len(t) = 0
    BY <1>2, EmptySeq
  <2> QED
    BY <1>1, <1>2, <2>1, SubSeqEmpty
<1>3. CASE t # <<>>
  <2>1. Len(t) > 0
    BY <1>1, <1>3, EmptySeq
  <2>2. SubSeq(s \o t, Len(s) + 1, Len(s) + Len(t)) = SubSeq(t, Len(s) + 1 - Len(s), Len(s) + Len(t) - Len(s))
    BY <1>1, <2>1, SubSeqOfConcat2
  <2>3. Len(s) + 1 - Len(s) = 1 /\ Len(s) + Len(t) - Len(s) = Len(t)
    BY <1>1
  <2>4. SubSeq(t, 1, Len(t)) = t
    BY SubSeqFull
  <2> QED
    BY <1>1, <2>2, <2>3, <2>4
<1> QED
  BY <1>2, <1>3

LEMMA FirstTaken ==
  ASSUME NEW s \in Seq(Nat), NEW t \in Seq(Nat), s # <<>>
  PROVE  /\ 1 \in 1 .. Len(s \o t)
         /\ SubSeq(s \o t, 1, 1) = <<Head(s)>>
         /\ SubSeq(s \o t, 1 + 1, Len(s \o t)) = Tail(s) \o t
<1>1. Len(s) \in Nat \ {0} /\ Len(t) \in Nat /\ Len(s \o t) = Len(s) + Len(t)
  BY LenProperties, ConcatProperties, EmptySeq
<1>2. Head(s) \in Nat /\ Tail(s) \in Seq(Nat) /\ s = <<Head(s)>> \o Tail(s)
  OBVIOUS
<1> DEFINE first == <<Head(s)>>
<1>3. first \in Seq(Nat) /\ Len(first) = 1
  BY <1>2
<1> HIDE DEF first
<1>4. s \o t = first \o (Tail(s) \o t) /\ Tail(s) \o t \in Seq(Nat)
  BY <1>2, <1>3, Regrouped, ConcatProperties DEF first
<1>5. SubSeq(s \o t, 1 + 1, Len(s \o t)) = Tail(s) \o t
  BY <1>3, <1>4, SecondOfTwo
<1>6. SubSeq(s \o t, 1, 1) = <<Head(s)>>
  <2> DEFINE both == s \o t
             cut == SubSeq(both, 1, 1)
  <2>1. both \in Seq(Nat) /\ Len(both) \in Nat \ {0} /\ both[1] = s[1] /\ s[1] \in Nat
    BY <1>1, ConcatProperties
  <2> HIDE DEF both
  <2>2. cut \in Seq(Nat) /\ Len(cut) = 1 /\ cut[1] = both[1]
    BY <2>1, SubSeqProperties
  <2> HIDE DEF cut
  <2>3. Len(first) = Len(cut) /\ \A i \in 1 .. Len(cut) : cut[i] = first[i]
    BY <1>3, <2>1, <2>2 DEF first
  <2>4. cut = first
    BY <1>3, <2>2, <2>3, SeqEqual
  <2> QED
    BY <2>4 DEF cut, both, first
<1> QED
  BY <1>1, <1>5, <1>6
=============================================================================
