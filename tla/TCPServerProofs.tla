-------------------------- MODULE TCPServerProofs --------------------------
(***************************************************************************)
(* Safety of TCPServer for any number of peers and bytes and for buffers   *)
(* of every size.                                                          *)
(***************************************************************************)
EXTENDS TCPServer, TCPSocketProofs

(* Between two sockets nothing is left in a send buffer, nor in a receive  *)
(* buffer that the callback empties: there is room for all that the kernel *)
(* has.                                                                    *)
BufferInv ==
  /\ pc = "send" => current \in Peers
  /\ \A c \in Peers :
       /\ Len(arrived[c]) <= KernelBuffer
       /\ callback # "keeps" => tcp[c].recv_buffer_ = <<>>
       /\ process = "up" /\ tcp[c].send_buffer_ # <<>> => pc = "send" /\ current = c

(* What was received is remembered until the callback for it.              *)
BatchInv == unfinished => recv /\ pc \in {"receive", "send"}

(* A socket that was found hung up gets nothing more, and what it had is   *)
(* received in a round of sendAndRecv.                                     *)
DropInv ==
  /\ pc = "accept" => polled
  /\ \A c \in disconnected_sockets_ :
       /\ link[c] = "reset"
       /\ callback # "keeps" /\ c \in sockets_ =>
            /\ pc = "idle" /\ ~ polled => arrived[c] = <<>>
            /\ pc \in {"receive", "send"} => c \in todo \/ arrived[c] = <<>>

IInv == TypeOK /\ ListsAgree /\ HangupNeverMissed /\ BufferInv /\ BatchInv /\ DropInv

-----------------------------------------------------------------------------
LEMMA InitIInv == Init => IInv
<1> SUFFICES ASSUME Init PROVE IInv
  OBVIOUS
<1>1. <<>> \in Seq(Nat) /\ <<>> \in Seq(Peers) /\ Len(<<>>) = 0
  BY EmptySeq
<1>2. TypeOK
  <2>1. NewSocket \in Sockets /\ InBounds(NewSocket)
    BY <1>1, TCPBufferAssumption DEF NewSocket, Sockets, InBounds
  <2> QED
    BY <1>1, <2>1 DEF Init, TypeOK
<1>3. ListsAgree /\ HangupNeverMissed /\ BatchInv /\ DropInv
  BY DEF Init, ListsAgree, HangupNeverMissed, BatchInv, DropInv
<1>4. BufferInv
  BY <1>1, TCPServerAssumption DEF Init, BufferInv, NewSocket
<1> QED
  BY <1>2, <1>3, <1>4 DEF IInv

-----------------------------------------------------------------------------
(* close and listen.  Connections may be reset that nobody had accepted.   *)
LEMMA ListenStep ==
  ASSUME IInv, Listen \/ Close
  PROVE  IInv'
<1> USE DEF IInv, loopVars, listVars, streamVars
<1>0. PICK next \in {"up", "assert"} :
        /\ Unlistened /\ process' = next
        /\ registered' \in {{}, {Listener}} /\ ready' = {} /\ listening' \in BOOLEAN
        /\ UNCHANGED <<loopVars, listVars, tcp, callback, arrived, leaving, streamVars, unfinished,
                       polled>>
        /\ BetweenCalls
  BY DEF Listen, Close, BetweenCalls
<1>1. link' = [c \in Peers |-> IF c \in Waiting THEN "reset" ELSE link[c]]
      /\ backlog' = <<>> /\ stalled' = FALSE
  BY <1>0 DEF Unlistened
<1>2. \A c \in Peers : link'[c] = link[c] \/ link'[c] = "reset"
  BY <1>1
<1>3. TypeOK'
  <2>1. link' \in [Peers -> {"none", "open", "fin", "reset"}]
    BY <1>1 DEF TypeOK
  <2>2. <<>> \in Seq(Peers)
    BY EmptySeq
  <2> QED
    BY <1>0, <1>1, <2>1, <2>2 DEF TypeOK
<1>4. ListsAgree' /\ HangupNeverMissed'
  BY <1>0, TCPServerAssumption DEF ListsAgree, HangupNeverMissed
<1>5. BufferInv' /\ BatchInv'
  BY <1>0 DEF BufferInv, BatchInv, BetweenCalls
<1>6. DropInv'
  BY <1>0, <1>2 DEF DropInv, TypeOK
<1> QED
  BY <1>3, <1>4, <1>5, <1>6

(* poll: what it deletes has nothing left, what hung up is noted.          *)
LEMMA PollStep ==
  ASSUME IInv, Poll
  PROVE  IInv'
<1> USE DEF IInv, listVars, linkVars, streamVars
<1> DEFINE events == {d \in Events : d \notin disconnected_sockets_}
<1>0. /\ pc = "idle" /\ process = "up" /\ process' \in {"up", "events"} /\ polled' = TRUE
      /\ sockets_' = sockets_ \ disconnected_sockets_
      /\ receive_sockets_' = (receive_sockets_ \ disconnected_sockets_) \cup (events \cap Peers)
      /\ disconnected_sockets_' = disconnected_sockets_ \cup Hangups(events)
      /\ registered' = registered \ disconnected_sockets_
      /\ pc' \in {"accept", "idle"} /\ ready' = {}
      /\ UNCHANGED <<todo, current, recv, tcp, callback, listening, backlog, stalled, linkVars,
                     streamVars, unfinished>>
  BY DEF Poll, BetweenCalls, ToDelete, Deleted
<1>1. /\ events \cap Peers = {c \in ready \cap Peers : HasInput(c) /\ c \notin disconnected_sockets_}
      /\ Hangups(events) = {c \in ready \cap Peers : HasHangup(c) /\ c \notin disconnected_sockets_}
  BY TCPServerAssumption DEF Events, Hangups, HasHangup, HasInput
<1>2. TypeOK'
  BY <1>0, <1>1 DEF TypeOK
<1>3. ListsAgree'
  <2>1. events \cap Peers \subseteq sockets_ \ disconnected_sockets_
    BY <1>1, TCPServerAssumption DEF ListsAgree, TypeOK
  <2>2. receive_sockets_' = sockets_'
    BY <1>0, <2>1 DEF ListsAgree
  <2>3. registered' \ {Listener} \subseteq sockets_'
    BY <1>0 DEF ListsAgree
  <2> QED
    BY <2>2, <2>3 DEF ListsAgree
<1>4. HangupNeverMissed'
  BY <1>0, <1>1 DEF HangupNeverMissed, HasHangup
<1>5. BufferInv' /\ BatchInv'
  BY <1>0 DEF BufferInv, BatchInv
<1>6. DropInv'
  BY <1>0, <1>1 DEF DropInv, HasHangup
<1> QED
  BY <1>2, <1>3, <1>4, <1>5, <1>6

(* One turn of the accept loop.                                            *)
LEMMA AcceptStep ==
  ASSUME IInv, Accept
  PROVE  IInv'
<1> USE DEF IInv, linkVars, streamVars
<1> DEFINE c == Head(backlog)
<1>0. /\ pc = "accept" /\ process = "up" /\ backlog # <<>> /\ backlog' = Tail(backlog)
      /\ UNCHANGED <<todo, current, recv, disconnected_sockets_, tcp, callback, listening, stalled,
                     linkVars, streamVars, unfinished, polled>>
      /\ \/ EpollAdd(c) /\ sockets_' = sockets_ \cup {c}
            /\ receive_sockets_' = receive_sockets_ \cup {c}
            /\ pc' = "accept" /\ process' = "up"
         \/ process' = "assert"
            /\ UNCHANGED <<registered, ready, sockets_, receive_sockets_, pc>>
  BY DEF Accept, ReceivedFrom, AfterAccept
<1>1. c \in Peers /\ backlog' \in Seq(Peers)
  BY <1>0, HeadTailProperties DEF TypeOK
<1>2. TypeOK'
  BY <1>0, <1>1 DEF TypeOK, EpollAdd
<1>3. ListsAgree'
  BY <1>0, <1>1 DEF ListsAgree, EpollAdd
<1>4. HangupNeverMissed'
  BY <1>0, <1>1 DEF HangupNeverMissed, EpollAdd, HasHangup, HasInput
<1>5. BufferInv' /\ BatchInv' /\ DropInv'
  BY <1>0 DEF BufferInv, BatchInv, DropInv
<1> QED
  BY <1>2, <1>3, <1>4, <1>5

LEMMA AcceptFailsStep ==
  ASSUME IInv, AcceptFails
  PROVE  IInv'
<1> USE DEF IInv, AcceptFails, listVars, linkVars, streamVars
<1>1. TypeOK'
  BY DEF TypeOK
<1>2. ListsAgree' /\ HangupNeverMissed'
  BY DEF ListsAgree, HangupNeverMissed, HasHangup
<1>3. BufferInv' /\ BatchInv' /\ DropInv'
  BY DEF BufferInv, BatchInv, DropInv
<1> QED
  BY <1>1, <1>2, <1>3

-----------------------------------------------------------------------------
(* Where sendAndRecv begins every socket is before it.                     *)
LEMMA SendAndRecvStep ==
  ASSUME IInv, SendAndRecv
  PROVE  IInv'
<1> USE DEF IInv, SendAndRecv, BetweenCalls, listVars, epollVars, linkVars, streamVars
<1>1. TypeOK'
  BY DEF TypeOK
<1>2. ListsAgree' /\ HangupNeverMissed'
  BY DEF ListsAgree, HangupNeverMissed, HasHangup
<1>3. BufferInv' /\ BatchInv'
  BY DEF BufferInv, BatchInv
<1>4. DropInv'
  BY DEF DropInv, ListsAgree
<1> QED
  BY <1>1, <1>2, <1>3, <1>4

(* What the callback does when recvmsg took something: it reads all of it  *)
(* or nothing, and its reply fits unless it is too long for any buffer.    *)
LEMMA CallbackEffect ==
  ASSUME NEW c \in Peers, NEW got \in Sockets, InBounds(got), TypeOK,
         got.send_buffer_ = <<>>, CalledBack(c, got)
  PROVE  \/ /\ process' = "overrun" /\ UNCHANGED <<tcp, handled, owed>>
            /\ callback = "replies" /\ HeaderLength + Len(got.recv_buffer_) > TCPBufferSize
         \/ \E next \in Sockets, read \in Seq(Nat), reply \in Seq(Nat) :
              /\ tcp' = [tcp EXCEPT ![c] = next] /\ InBounds(next)
              /\ handled' = [handled EXCEPT ![c] = @ \o read]
              /\ owed' = [owed EXCEPT ![c] = @ \o reply]
              /\ process' = process
              /\ next.send_buffer_ = reply
              /\ read \o next.recv_buffer_ = got.recv_buffer_
              /\ callback # "keeps" => next.recv_buffer_ = <<>>
<1> DEFINE data == got.recv_buffer_
           reply == Reply(data)
           left == LeftBy(got)
           next == Queued(left, reply)
<1>1. data \in Seq(Nat) /\ Len(data) \in Nat /\ <<>> \in Seq(Nat) /\ Len(<<>>) = 0
  BY LenProperties, EmptySeq DEF Sockets
<1>2. /\ left \in Sockets /\ left.send_buffer_ = <<>> /\ ReadBy(got) \in Seq(Nat)
      /\ ReadBy(got) \o left.recv_buffer_ = data
      /\ callback # "keeps" => left.recv_buffer_ = <<>>
      /\ Len(left.recv_buffer_) <= TCPBufferSize
  <2>1. data \o <<>> = data /\ <<>> \o data = data
    BY <1>1, ConcatEmptySeq
  <2>2. CASE callback = "keeps"
    BY <1>1, <2>1, <2>2 DEF ReadBy, LeftBy, InBounds
  <2>3. CASE callback # "keeps"
    <3>1. left = Emptied(got) /\ ReadBy(got) = data
      BY <2>3 DEF ReadBy, LeftBy
    <3> HIDE DEF left
    <3>2. left \in Sockets /\ left.recv_buffer_ = <<>> /\ left.send_buffer_ = <<>>
      BY <3>1, EmptiedProperties
    <3> QED
      BY <1>1, <2>1, <3>1, <3>2, TCPBufferAssumption
  <2> QED
    BY <2>2, <2>3
<1>3. reply \in Seq(Nat) /\ Len(reply) \in Nat /\ Len(reply) <= HeaderLength + Len(data)
  <2>1. Header \in Seq(Nat) /\ Len(Header) = HeaderLength
    BY TCPServerAssumption DEF Header
  <2>2. Header \o data \in Seq(Nat) /\ Len(Header \o data) = HeaderLength + Len(data)
    BY <1>1, <2>1, ConcatProperties
  <2> QED
    BY <1>1, <2>2, TCPServerAssumption DEF Reply
<1>4. CASE Fits(got, reply)
  <2>1. Len(reply) <= TCPBufferSize
    BY <1>1, <1>3, <1>4 DEF Fits
  <2>2. /\ next \in Sockets /\ next.recv_buffer_ = left.recv_buffer_
        /\ next.send_buffer_ = reply
    <3>1. <<>> \o reply = reply
      BY <1>3, ConcatEmptySeq
    <3> HIDE DEF left, reply
    <3> QED
      BY <1>2, <1>3, <3>1, QueuedProperties
  <2>3. InBounds(next)
    BY <1>2, <2>1, <2>2 DEF InBounds
  <2>4. /\ tcp' = [tcp EXCEPT ![c] = next]
        /\ handled' = [handled EXCEPT ![c] = @ \o ReadBy(got)]
        /\ owed' = [owed EXCEPT ![c] = @ \o reply]
        /\ process' = process
    BY <1>4 DEF CalledBack
  <2> HIDE DEF next, left, reply, data
  <2> QED
    BY <1>2, <1>3, <2>2, <2>3, <2>4 DEF data
<1>5. CASE ~ Fits(got, reply)
  <2>1. process' = "overrun" /\ UNCHANGED <<tcp, handled, owed>>
    BY <1>5 DEF CalledBack
  <2>2. Len(reply) > TCPBufferSize
    BY <1>1, <1>3, <1>5, TCPBufferAssumption DEF Fits
  <2>3. callback = "replies"
    BY <1>1, <2>2, TCPBufferAssumption DEF Reply
  <2> QED
    BY <1>1, <1>3, <2>1, <2>2, <2>3, TCPServerAssumption, TCPBufferAssumption
<1> QED
  BY <1>4, <1>5

(* What a socket receives goes to the end of its buffer, and from there to *)
(* the callback; with a callback that resets the index it receives all     *)
(* that the kernel has.                                                    *)
LEMMA ReceivesEffect ==
  ASSUME IInv, NEW c \in Peers, SocketReceives(c)
  PROVE  /\ process = "up" /\ pc = "receive" /\ c \in todo
         /\ todo' = todo \ {c} /\ current' = c /\ pc' = "send"
         /\ tcp[c].send_buffer_ = <<>>
         /\ UNCHANGED <<listVars, epollVars, callback, link, leaving, sent, polled>>
         /\ LET n == Received(tcp[c], arrived[c])
            IN  /\ n \in 0 .. Len(arrived[c])
                /\ arrived' = [arrived EXCEPT ![c] = After(@, n)]
                /\ recv' = (recv \/ n > 0) /\ unfinished' = (unfinished \/ n > 0)
                /\ callback # "keeps" => After(arrived[c], n) = <<>>
                /\ \/ /\ process' = "overrun" /\ UNCHANGED <<tcp, handled, owed>>
                      /\ HeaderLength + n > TCPBufferSize
                   \/ /\ process' = "up"
                      /\ \E next \in Sockets, read \in Seq(Nat), reply \in Seq(Nat) :
                           /\ tcp' = [tcp EXCEPT ![c] = next] /\ InBounds(next)
                           /\ handled' = [handled EXCEPT ![c] = @ \o read]
                           /\ owed' = [owed EXCEPT ![c] = @ \o reply]
                           /\ next.send_buffer_ = reply
                           /\ read \o next.recv_buffer_ =
                                tcp[c].recv_buffer_ \o UpTo(arrived[c], n)
                           /\ callback # "keeps" => next.recv_buffer_ = <<>>
<1> USE DEF IInv
<1> DEFINE n == Received(tcp[c], arrived[c])
           got == WithReceived(tcp[c], arrived[c])
<1>0. /\ process = "up" /\ pc = "receive" /\ c \in todo
      /\ todo' = todo \ {c} /\ current' = c /\ pc' = "send"
      /\ UNCHANGED <<listVars, epollVars, callback, link, leaving, sent, polled>>
      /\ arrived' = [arrived EXCEPT ![c] = After(@, n)]
      /\ recv' = (recv \/ n > 0) /\ unfinished' = (unfinished \/ n > 0)
      /\ IF n > 0 THEN CalledBack(c, got) ELSE UNCHANGED <<tcp, handled, owed, process>>
  BY DEF SocketReceives, AnyReceived
<1>1. /\ tcp[c] \in Sockets /\ InBounds(tcp[c]) /\ tcp[c].send_buffer_ = <<>>
      /\ arrived[c] \in Seq(Nat) /\ Len(arrived[c]) <= KernelBuffer /\ Len(arrived[c]) \in Nat
      /\ callback # "keeps" => tcp[c].recv_buffer_ = <<>>
      /\ <<>> \in Seq(Nat)
  BY <1>0, LenProperties, EmptySeq DEF TypeOK, BufferInv
<1>2. /\ n \in 0 .. Len(arrived[c]) /\ got \in Sockets /\ InBounds(got)
      /\ got.recv_buffer_ = tcp[c].recv_buffer_ \o UpTo(arrived[c], n)
      /\ got.send_buffer_ = <<>>
  BY <1>1, ReceivedProperties
<1>3. callback # "keeps" => After(arrived[c], n) = <<>> /\ Len(got.recv_buffer_) = n
  BY <1>1, AllTaken, TCPServerAssumption, TCPBufferAssumption
<1>4. CASE n > 0
  <2>1. CalledBack(c, got) /\ TypeOK
    BY <1>0, <1>4
  <2> HIDE DEF got
  <2>2. \/ /\ process' = "overrun" /\ UNCHANGED <<tcp, handled, owed>>
           /\ callback = "replies" /\ HeaderLength + Len(got.recv_buffer_) > TCPBufferSize
        \/ \E next \in Sockets, read \in Seq(Nat), reply \in Seq(Nat) :
             /\ tcp' = [tcp EXCEPT ![c] = next] /\ InBounds(next)
             /\ handled' = [handled EXCEPT ![c] = @ \o read]
             /\ owed' = [owed EXCEPT ![c] = @ \o reply]
             /\ process' = process
             /\ next.send_buffer_ = reply
             /\ read \o next.recv_buffer_ = got.recv_buffer_
             /\ callback # "keeps" => next.recv_buffer_ = <<>>
    BY <1>2, <2>1, CallbackEffect
  <2> HIDE DEF n
  <2> QED
    BY <1>0, <1>1, <1>2, <1>3, <2>2 DEF n
<1>5. CASE n = 0
  <2>1. UNCHANGED <<tcp, handled, owed, process>>
    BY <1>0, <1>5
  <2>2. UpTo(arrived[c], 0) = <<>> /\ tcp[c].recv_buffer_ \in Seq(Nat)
    BY <1>1, PieceExtremes DEF Sockets
  <2>3. /\ tcp' = [tcp EXCEPT ![c] = tcp[c]]
        /\ handled' = [handled EXCEPT ![c] = @ \o <<>>]
        /\ owed' = [owed EXCEPT ![c] = @ \o <<>>]
    <3>1. handled[c] \o <<>> = handled[c] /\ owed[c] \o <<>> = owed[c]
      BY ConcatEmptySeq DEF TypeOK
    <3> QED
      BY <2>1, <3>1 DEF TypeOK
  <2>4. <<>> \o tcp[c].recv_buffer_ = tcp[c].recv_buffer_ \o UpTo(arrived[c], n)
    BY <1>5, <2>2, ConcatEmptySeq
  <2> HIDE DEF n, got
  <2> QED
    BY <1>0, <1>1, <1>2, <1>3, <2>1, <2>3, <2>4 DEF n
<1>6. n > 0 \/ n = 0
  BY <1>2
<1> QED
  BY <1>4, <1>5, <1>6

LEMMA ReceivesStep ==
  ASSUME IInv, NEW c \in Peers, SocketReceives(c)
  PROVE  IInv'
<1> USE DEF IInv, listVars, epollVars
<1> DEFINE n == Received(tcp[c], arrived[c])
           rest == After(arrived[c], n)
<1>1. /\ process = "up" /\ pc = "receive" /\ c \in todo
      /\ todo' = todo \ {c} /\ current' = c /\ pc' = "send"
      /\ tcp[c].send_buffer_ = <<>>
      /\ UNCHANGED <<listVars, epollVars, callback, link, leaving, sent, polled>>
      /\ n \in 0 .. Len(arrived[c])
      /\ arrived' = [arrived EXCEPT ![c] = rest]
      /\ recv' = (recv \/ n > 0) /\ unfinished' = (unfinished \/ n > 0)
      /\ callback # "keeps" => rest = <<>>
  BY ReceivesEffect
<1>2. \/ process' = "overrun" /\ UNCHANGED <<tcp, handled, owed>>
      \/ /\ process' = "up"
         /\ \E next \in Sockets, read \in Seq(Nat), reply \in Seq(Nat) :
              /\ tcp' = [tcp EXCEPT ![c] = next] /\ InBounds(next)
              /\ handled' = [handled EXCEPT ![c] = @ \o read]
              /\ owed' = [owed EXCEPT ![c] = @ \o reply]
              /\ callback # "keeps" => next.recv_buffer_ = <<>>
  BY ReceivesEffect
<1>3. rest \in Seq(Nat) /\ Len(rest) <= KernelBuffer
  <2>1. arrived[c] \in Seq(Nat) /\ Len(arrived[c]) \in Nat /\ Len(arrived[c]) <= KernelBuffer
    BY LenProperties DEF TypeOK, BufferInv
  <2>2. KernelBuffer \in Nat
    BY TCPServerAssumption, TCPBufferAssumption
  <2> HIDE DEF n
  <2>3. rest \in Seq(Nat) /\ Len(rest) = Len(arrived[c]) - n
    BY <1>1, <2>1, PieceProperties
  <2> QED
    BY <1>1, <2>1, <2>2, <2>3
<1> HIDE DEF n, rest
<1>4. TypeOK'
  <2>1. /\ tcp' \in [Peers -> Sockets] /\ \A d \in Peers : InBounds(tcp'[d])
        /\ handled' \in [Peers -> Seq(Nat)] /\ owed' \in [Peers -> Seq(Nat)]
    <3>1. CASE UNCHANGED <<tcp, handled, owed>>
      BY <3>1 DEF TypeOK
    <3>2. ASSUME NEW next \in Sockets, NEW read \in Seq(Nat), NEW reply \in Seq(Nat),
                 tcp' = [tcp EXCEPT ![c] = next], InBounds(next),
                 handled' = [handled EXCEPT ![c] = @ \o read],
                 owed' = [owed EXCEPT ![c] = @ \o reply]
          PROVE  /\ tcp' \in [Peers -> Sockets] /\ \A d \in Peers : InBounds(tcp'[d])
                 /\ handled' \in [Peers -> Seq(Nat)] /\ owed' \in [Peers -> Seq(Nat)]
      <4>1. handled[c] \o read \in Seq(Nat) /\ owed[c] \o reply \in Seq(Nat)
        BY ConcatProperties DEF TypeOK
      <4> QED
        BY <3>2, <4>1 DEF TypeOK
    <3> QED
      BY <1>2, <3>1, <3>2
  <2>2. arrived' \in [Peers -> Seq(Nat)]
    BY <1>1, <1>3 DEF TypeOK
  <2>3. process' \in {"overrun", "up"} /\ recv' \in BOOLEAN /\ unfinished' \in BOOLEAN
    BY <1>1, <1>2 DEF TypeOK
  <2> QED
    BY <1>1, <2>1, <2>2, <2>3 DEF TypeOK
<1>5. ListsAgree' /\ HangupNeverMissed'
  BY <1>1 DEF ListsAgree, HangupNeverMissed, HasHangup
<1>6. BufferInv'
  <2>1. \A d \in Peers : Len(arrived'[d]) <= KernelBuffer
    BY <1>1, <1>3 DEF BufferInv, TypeOK
  <2>2. \A d \in Peers : callback # "keeps" => tcp'[d].recv_buffer_ = <<>>
    BY <1>2 DEF BufferInv, TypeOK
  <2>3. \A d \in Peers \ {c} : tcp'[d] = tcp[d]
    BY <1>2 DEF TypeOK
  <2> QED
    BY <1>1, <2>1, <2>2, <2>3 DEF BufferInv
<1>7. BatchInv'
  BY <1>1 DEF BatchInv
<1>8. DropInv'
  BY <1>1 DEF DropInv, TypeOK
<1> QED
  BY <1>4, <1>5, <1>6, <1>7, <1>8

(* After the ASSERT the send buffer is empty again, and what was in it is  *)
(* on its way.                                                             *)
LEMMA SendsEffect ==
  ASSUME IInv, SocketSends
  PROVE  /\ process = "up" /\ pc = "send" /\ pc' = "receive"
         /\ current \in Peers /\ current' = Listener
         /\ \E piece \in Seq(Nat) :
              /\ leaving' = [leaving EXCEPT ![current] = @ \o piece]
              /\ process' = "up" => piece = tcp[current].send_buffer_
         /\ \/ tcp' = [tcp EXCEPT ![current] = Flushed(@)] /\ process' = "up"
            \/ tcp' = tcp /\ process' = "assert"
         /\ UNCHANGED <<todo, recv, listVars, epollVars, callback, link, arrived, streamVars,
                        unfinished, polled>>
<1> USE DEF IInv
<1> DEFINE socket == tcp[current]
           piece == UpTo(socket.send_buffer_, Sent(socket, Room(current)))
<1>1. current \in Peers /\ socket \in Sockets /\ leaving[current] \in Seq(Nat)
  BY DEF TypeOK, BufferInv, SocketSends
<1>2. Room(current) \in Int
  BY <1>1, LenProperties, TCPServerAssumption, TCPBufferAssumption DEF Room
<1>3. /\ piece \in Seq(Nat)
      /\ AllSent(socket, Room(current)) => piece = socket.send_buffer_
  BY <1>1, <1>2, Taken
<1>4. /\ process = "up" /\ pc = "send" /\ pc' = "receive" /\ current' = Listener
      /\ leaving' = [leaving EXCEPT ![current] = @ \o piece]
      /\ \/ /\ AllSent(socket, Room(current)) /\ process' = "up"
            /\ tcp' = [tcp EXCEPT ![current] = Flushed(@)]
         \/ tcp' = tcp /\ process' = "assert"
      /\ UNCHANGED <<todo, recv, listVars, epollVars, callback, link, arrived, streamVars,
                     unfinished, polled>>
  BY DEF SocketSends
<1> HIDE DEF socket, piece
<1>5. process' = "up" => piece = tcp[current].send_buffer_
  BY <1>3, <1>4 DEF socket
<1> QED
  BY <1>1, <1>3, <1>4, <1>5

LEMMA SendsStep ==
  ASSUME IInv, SocketSends
  PROVE  IInv'
<1> USE DEF IInv, listVars, epollVars, streamVars
<1>1. PICK piece \in Seq(Nat) : leaving' = [leaving EXCEPT ![current] = @ \o piece]
  BY SendsEffect
<1>2. /\ process = "up" /\ pc = "send" /\ pc' = "receive"
      /\ current \in Peers /\ current' = Listener
      /\ \/ tcp' = [tcp EXCEPT ![current] = Flushed(@)] /\ process' = "up"
         \/ tcp' = tcp /\ process' = "assert"
      /\ UNCHANGED <<todo, recv, listVars, epollVars, callback, link, arrived, streamVars,
                     unfinished, polled>>
  BY SendsEffect
<1>3. leaving[current] \o piece \in Seq(Nat)
  BY <1>1, <1>2, ConcatProperties DEF TypeOK
<1> DEFINE flushed == Flushed(tcp[current])
<1>4. /\ flushed \in Sockets /\ InBounds(flushed)
      /\ flushed.send_buffer_ = <<>> /\ flushed.recv_buffer_ = tcp[current].recv_buffer_
  <2>1. tcp[current] \in Sockets /\ InBounds(tcp[current])
    BY <1>2 DEF TypeOK
  <2>2. /\ flushed \in Sockets
        /\ flushed.send_buffer_ = <<>> /\ flushed.recv_buffer_ = tcp[current].recv_buffer_
    BY <2>1, FlushedProperties
  <2> QED
    BY <2>1, <2>2, EmptySeq, TCPBufferAssumption DEF InBounds
<1>5. \/ tcp' = [tcp EXCEPT ![current] = flushed] /\ process' = "up"
      \/ tcp' = tcp /\ process' = "assert"
  BY <1>2
<1> HIDE DEF flushed
<1>6. TypeOK'
  BY <1>1, <1>2, <1>3, <1>4, <1>5 DEF TypeOK
<1>7. ListsAgree' /\ HangupNeverMissed'
  BY <1>2 DEF ListsAgree, HangupNeverMissed, HasHangup
<1>8. BufferInv'
  BY <1>2, <1>4, <1>5 DEF BufferInv, TypeOK
<1>9. BatchInv' /\ DropInv'
  BY <1>2 DEF BatchInv, DropInv
<1> QED
  BY <1>6, <1>7, <1>8, <1>9

(* At the end of the loop no socket is left before it.                     *)
LEMMA FinishesStep ==
  ASSUME IInv, Finishes
  PROVE  IInv'
<1> USE DEF IInv, Finishes, listVars, epollVars, linkVars, streamVars
<1>1. TypeOK'
  BY DEF TypeOK
<1>2. ListsAgree' /\ HangupNeverMissed'
  BY DEF ListsAgree, HangupNeverMissed, HasHangup
<1>3. BufferInv' /\ DropInv'
  BY DEF BufferInv, DropInv
<1>4. BatchInv'
  BY DEF BatchInv, TypeOK
<1> QED
  BY <1>1, <1>2, <1>3, <1>4

-----------------------------------------------------------------------------
(* What peers do leaves the lists alone, and is signalled if it is watched *)
(* for.                                                                    *)
LEMMA SignalledKeepsReady ==
  ASSUME IInv, NEW d, Signalled(d), registered' = registered
  PROVE  ready' \in SUBSET registered' /\ ready \subseteq ready'
         /\ (d \in registered => d \in ready')
BY DEF Signalled, IInv, TypeOK

(* A step of a connected peer leaves the server's types alone.             *)
LEMMA ServerTypesKept ==
  ASSUME TypeOK,
         UNCHANGED <<serverVars, listening, backlog, registered, stalled>>,
         ready' \in SUBSET registered',
         link' \in [Peers -> {"none", "open", "fin", "reset"}],
         arrived' \in [Peers -> Seq(Nat)], leaving' \in [Peers -> Seq(Nat)],
         sent' \in [Peers -> Nat], owed' \in [Peers -> Seq(Nat)]
  PROVE  TypeOK'
<1>1. /\ UNCHANGED <<sockets_, receive_sockets_, disconnected_sockets_, tcp, callback, pc, todo>>
      /\ UNCHANGED <<current, recv, process, handled, unfinished, polled>>
      /\ UNCHANGED <<listening, backlog, registered, stalled>>
  BY DEF serverVars, loopVars, listVars
<1>2. /\ tcp' \in [Peers -> Sockets]
      /\ \A c \in Peers : InBounds(tcp'[c])
      /\ handled' \in [Peers -> Seq(Nat)]
  BY <1>1 DEF TypeOK
<1> QED
  BY <1>1, <1>2 DEF TypeOK

LEMMA PeerConnectsStep ==
  ASSUME IInv, NEW c \in Peers, PeerConnects(c)
  PROVE  IInv'
<1> USE DEF IInv, PeerConnects, serverVars, loopVars, listVars, streamVars
<1>1. ready' \in SUBSET registered' /\ ready \subseteq ready'
  BY SignalledKeepsReady
<1>2. backlog' \in Seq(Peers)
  BY AppendProperties DEF TypeOK
<1>3. TypeOK'
  BY <1>1, <1>2 DEF TypeOK
<1>4. ListsAgree' /\ HangupNeverMissed'
  BY <1>1 DEF ListsAgree, HangupNeverMissed, HasHangup, TypeOK
<1>5. BufferInv' /\ BatchInv'
  BY DEF BufferInv, BatchInv
<1>6. DropInv'
  BY DEF DropInv, TypeOK
<1> QED
  BY <1>3, <1>4, <1>5, <1>6

LEMMA PeerSendsStep ==
  ASSUME IInv, NEW c \in Peers, PeerSends(c)
  PROVE  IInv'
<1> USE DEF IInv, PeerSends, serverVars, loopVars, listVars
<1>1. ready' \in SUBSET registered' /\ ready \subseteq ready'
  BY SignalledKeepsReady
<1>2. Append(arrived[c], sent[c] + 1) \in Seq(Nat)
      /\ Len(Append(arrived[c], sent[c] + 1)) = Len(arrived[c]) + 1
      /\ Len(arrived[c]) \in Nat
  BY AppendProperties, LenProperties DEF TypeOK
<1>3. TypeOK'
  <2>1. arrived' \in [Peers -> Seq(Nat)] /\ sent' \in [Peers -> Nat]
    BY <1>2 DEF TypeOK
  <2>2. UNCHANGED <<serverVars, listening, backlog, registered, stalled, link, leaving, owed>>
    OBVIOUS
  <2>3. link' \in [Peers -> {"none", "open", "fin", "reset"}]
        /\ leaving' \in [Peers -> Seq(Nat)] /\ owed' \in [Peers -> Seq(Nat)]
    BY <2>2 DEF TypeOK
  <2> HIDE DEF PeerSends, serverVars
  <2> QED
    BY <1>1, <2>1, <2>2, <2>3, ServerTypesKept
<1>4. ListsAgree' /\ HangupNeverMissed'
  BY <1>1 DEF ListsAgree, HangupNeverMissed, HasHangup
<1>5. BufferInv'
  <2>1. arrived' = [arrived EXCEPT ![c] = Append(@, sent[c] + 1)] /\ sent' = [sent EXCEPT ![c] = @ + 1]
    OBVIOUS
  <2>2. Len(arrived'[c]) <= KernelBuffer
    BY <1>2, <2>1, TCPServerAssumption, TCPBufferAssumption DEF TypeOK
  <2>3. \A d \in Peers \ {c} : arrived'[d] = arrived[d]
    BY <2>1 DEF TypeOK
  <2> QED
    BY <2>2, <2>3 DEF BufferInv
<1>6. BatchInv' /\ DropInv'
  BY DEF BatchInv, DropInv, TypeOK
<1> QED
  BY <1>3, <1>4, <1>5, <1>6

(* The end of the stream, and a reset.                                     *)
LEMMA PeerEndsStep ==
  ASSUME IInv, NEW c \in Peers, PeerCloses(c) \/ PeerResets(c)
  PROVE  IInv'
<1> USE DEF IInv, serverVars, loopVars, listVars, streamVars
<1>0. PICK end \in {"fin", "reset"} :
        /\ link[c] # "reset" /\ link' = [link EXCEPT ![c] = end]
        /\ leaving' = leaving \/ leaving' = [leaving EXCEPT ![c] = <<>>]
        /\ Signalled(c)
        /\ owed' = owed \/ owed' = [owed EXCEPT ![c] = <<>>]
        /\ UNCHANGED <<serverVars, listening, backlog, registered, stalled, arrived, sent>>
  BY DEF PeerCloses, PeerResets
<1>1. ready' \in SUBSET registered' /\ ready \subseteq ready' /\ (c \in registered => c \in ready')
  BY <1>0, SignalledKeepsReady
<1>2. TypeOK'
  <2>1. <<>> \in Seq(Nat)
    BY EmptySeq
  <2>2. link' \in [Peers -> {"none", "open", "fin", "reset"}]
    BY <1>0 DEF TypeOK
  <2>3. leaving' \in [Peers -> Seq(Nat)]
    BY <1>0, <2>1 DEF TypeOK
  <2>4. owed' \in [Peers -> Seq(Nat)]
    BY <1>0, <2>1 DEF TypeOK
  <2>5. UNCHANGED <<serverVars, listening, backlog, registered, stalled>>
    BY <1>0
  <2>6. arrived' \in [Peers -> Seq(Nat)] /\ sent' \in [Peers -> Nat]
    BY <1>0 DEF TypeOK
  <2> HIDE DEF serverVars
  <2> QED
    BY <1>1, <2>2, <2>3, <2>4, <2>5, <2>6, ServerTypesKept
<1>3. ListsAgree'
  BY <1>0 DEF ListsAgree
<1>4. HangupNeverMissed'
  BY <1>0, <1>1 DEF HangupNeverMissed, HasHangup, TypeOK
<1>5. BufferInv' /\ BatchInv'
  BY <1>0 DEF BufferInv, BatchInv
<1>6. DropInv'
  BY <1>0 DEF DropInv, TypeOK
<1> QED
  BY <1>2, <1>3, <1>4, <1>5, <1>6

LEMMA PeerReadsStep ==
  ASSUME IInv, NEW c \in Peers, PeerReads(c)
  PROVE  IInv'
<1> USE DEF IInv, PeerReads, serverVars, loopVars, listVars, epollVars
<1>1. After(owed[c], Len(leaving[c])) \in Seq(Nat) /\ <<>> \in Seq(Nat)
  BY RestProperties, LenProperties, EmptySeq DEF TypeOK
<1>2. TypeOK'
  <2>1. owed' \in [Peers -> Seq(Nat)] /\ leaving' \in [Peers -> Seq(Nat)]
    BY <1>1 DEF TypeOK
  <2>2. UNCHANGED <<serverVars, epollVars, link, arrived, sent>>
    OBVIOUS
  <2> HIDE DEF PeerReads
  <2> QED
    BY <2>1, <2>2 DEF TypeOK
<1>3. ListsAgree' /\ HangupNeverMissed'
  BY DEF ListsAgree, HangupNeverMissed, HasHangup
<1>4. BufferInv' /\ BatchInv' /\ DropInv'
  BY DEF BufferInv, BatchInv, DropInv
<1> QED
  BY <1>2, <1>3, <1>4

LEMMA NextStep ==
  ASSUME IInv, [Next]_vars
  PROVE  IInv'
<1>1. CASE Listen \/ Close
  BY <1>1, ListenStep
<1>2. CASE ServerThread
  BY <1>2, PollStep, AcceptStep, AcceptFailsStep, SendAndRecvStep, ReceivesStep, SendsStep,
     FinishesStep DEF ServerThread
<1>3. CASE \E c \in Peers : Peer(c)
  BY <1>3, PeerConnectsStep, PeerSendsStep, PeerEndsStep, PeerReadsStep DEF Peer
<1>4. CASE UNCHANGED vars
  <2> USE <1>4 DEF IInv, vars, loopVars, listVars, epollVars, linkVars, streamVars
  <2>1. TypeOK'
    BY DEF TypeOK
  <2>2. ListsAgree' /\ HangupNeverMissed'
    BY DEF ListsAgree, HangupNeverMissed, HasHangup
  <2>3. BufferInv' /\ BatchInv' /\ DropInv'
    BY DEF BufferInv, BatchInv, DropInv
  <2> QED
    BY <2>1, <2>2, <2>3
<1> QED
  BY <1>1, <1>2, <1>3, <1>4 DEF Next, Exited

THEOREM Invariance == Spec => []IInv
<1> QED
  BY InitIInv, NextStep, PTL DEF Spec

-----------------------------------------------------------------------------
(* For any number of peers and buffers of every size all variables keep    *)
(* their types: in particular both indices of every TCPSocket stay within  *)
(* its buffers unless the process has ended.                               *)
THEOREM TypeCorrect == Spec => []TypeOK
<1> QED
  BY Invariance, PTL DEF IInv

(* accept, poll and del keep the lists and the epoll to the same sockets.  *)
THEOREM ListsStayEqual == Spec => []ListsAgree
<1> QED
  BY Invariance, PTL DEF IInv

(* The edge of a reset is never lost, wherever in a round it comes.        *)
THEOREM HangupsAreNoted == Spec => []HangupNeverMissed
<1> QED
  BY Invariance, PTL DEF IInv

(* recv_finished_callback_ is called for everything that was received.     *)
THEOREM BatchesAreFinished == Spec => []BatchIsFinished
<1>1. IInv => BatchIsFinished
  BY DEF IInv, BatchInv, BatchIsFinished, BetweenCalls
<1> QED
  BY <1>1, Invariance, PTL

(* Between a reset that poll has found and the next poll, sendAndRecv      *)
(* receives what the socket had, if the callback keeps nothing: poll       *)
(* deletes no socket with something to be received, unless two polls       *)
(* follow one another.                                                     *)
THEOREM NothingIsDropped == Spec => NothingUnreadWhenDropped
<1> DEFINE Dropped == ~ polled /\ callback # "keeps" =>
                        \A c \in sockets_ \ sockets_' : arrived[c] = <<>>
<1>1. ASSUME IInv, [Next]_vars
      PROVE  [Dropped]_vars
  <2>1. CASE Poll
    <3> SUFFICES ASSUME ~ polled, callback # "keeps", NEW c \in sockets_ \ sockets_'
                 PROVE  arrived[c] = <<>>
      OBVIOUS
    <3>1. c \in disconnected_sockets_ /\ c \in sockets_ /\ pc = "idle"
      BY <2>1 DEF Poll, ToDelete, Deleted, BetweenCalls
    <3> QED
      BY <1>1, <3>1 DEF IInv, DropInv
  <2>2. CASE ~ Poll
    <3>1. sockets_ \subseteq sockets_'
      BY <1>1, <2>2 DEF Next, Listen, Close, ServerThread, Accept, AcceptFails, SendAndRecv,
         SocketReceives, SocketSends, Finishes, Peer, PeerConnects, PeerSends, PeerCloses,
         PeerResets, PeerReads, Exited, vars, serverVars, listVars
    <3> QED
      BY <3>1
  <2> QED
    BY <2>1, <2>2
<1> QED
  BY <1>1, Invariance, PTL DEF Spec, NothingUnreadWhenDropped

(* Only a reply that is longer than the whole send buffer can be written   *)
(* behind it: what earlier replies left there is gone by then.             *)
THEOREM RepliesDoFit == Spec => RepliesFit
<1> DEFINE Fit == process = "up" /\ process' = "overrun" =>
                    HeaderLength + Received(tcp[current'], arrived[current']) > TCPBufferSize
<1>1. ASSUME IInv, [Next]_vars
      PROVE  [Fit]_vars
  <2> SUFFICES ASSUME process = "up", process' = "overrun"
               PROVE  HeaderLength + Received(tcp[current'], arrived[current']) > TCPBufferSize
    OBVIOUS
  <2>1. PICK c \in Peers : SocketReceives(c)
    <3>1. ~ (Listen \/ Close \/ Poll \/ Accept \/ AcceptFails \/ SendAndRecv \/ SocketSends
             \/ Finishes \/ Exited \/ UNCHANGED vars)
      BY DEF Listen, Close, Poll, Accept, AcceptFails, SendAndRecv, SocketSends, Finishes,
         Exited, vars
    <3>2. ~ \E c \in Peers : Peer(c)
      BY DEF Peer, PeerConnects, PeerSends, PeerCloses, PeerResets, PeerReads, serverVars
    <3> QED
      BY <1>1, <3>1, <3>2 DEF Next, ServerThread
  <2>2. current' = c /\ HeaderLength + Received(tcp[c], arrived[c]) > TCPBufferSize
    BY <1>1, <2>1, ReceivesEffect
  <2> QED
    BY <2>2
<1> QED
  BY <1>1, Invariance, PTL DEF Spec, RepliesFit

-----------------------------------------------------------------------------
(* NoRequestIsLost and RepliesInOrder, by what each step does to one       *)
(* connection's bytes.                                                     *)
Numbers(n) == [i \in 1 .. n |-> i]

Requests(c) == handled[c] \o tcp[c].recv_buffer_ \o arrived[c]

Replies(c) == leaving[c] \o tcp[c].send_buffer_

LEMMA NextNumber ==
  ASSUME NEW n \in Nat
  PROVE  Numbers(n) \in Seq(Nat) /\ Numbers(n + 1) = Append(Numbers(n), n + 1)
<1>1. Numbers(n) \in Seq(Nat) /\ Len(Numbers(n)) = n /\ \A i \in 1 .. n : Numbers(n)[i] = i
  BY DEF Numbers
<1>2. Numbers(n + 1) \in Seq(Nat) /\ Len(Numbers(n + 1)) = n + 1
      /\ \A i \in 1 .. n + 1 : Numbers(n + 1)[i] = i
  BY DEF Numbers
<1>3. /\ Append(Numbers(n), n + 1) \in Seq(Nat) /\ Len(Append(Numbers(n), n + 1)) = n + 1
      /\ \A i \in 1 .. n : Append(Numbers(n), n + 1)[i] = i
      /\ Append(Numbers(n), n + 1)[n + 1] = n + 1
  BY <1>1, AppendProperties
<1>4. \A i \in 1 .. n + 1 : Numbers(n + 1)[i] = Append(Numbers(n), n + 1)[i]
  BY <1>2, <1>3
<1>5. Numbers(n + 1) = Append(Numbers(n), n + 1)
  BY <1>2, <1>3, <1>4, SeqEqual
<1> QED
  BY <1>1, <1>5

(* What a stream is made of.                                               *)
LEMMA StreamTypes ==
  ASSUME IInv, NEW c \in Peers
  PROVE  /\ handled[c] \in Seq(Nat) /\ owed[c] \in Seq(Nat)
         /\ arrived[c] \in Seq(Nat) /\ leaving[c] \in Seq(Nat)
         /\ tcp[c].recv_buffer_ \in Seq(Nat) /\ tcp[c].send_buffer_ \in Seq(Nat)
         /\ sent[c] \in Nat
BY DEF IInv, TypeOK, Sockets

(* Every step but a byte sent leaves what was requested as it is; that     *)
(* byte is its last.                                                       *)
LEMMA RequestsStep ==
  ASSUME IInv, [Next]_vars, NEW c \in Peers, process' = "up"
  PROVE  /\ process = "up"
         /\ \/ Requests(c)' = Requests(c) /\ sent'[c] = sent[c]
            \/ Requests(c)' = Append(Requests(c), sent[c] + 1) /\ sent'[c] = sent[c] + 1
<1> USE DEF Requests, loopVars, listVars, epollVars, linkVars, streamVars
<1>1. CASE Listen \/ Close
  BY <1>1 DEF Listen, Close, BetweenCalls
<1>2. CASE Poll \/ Accept \/ AcceptFails \/ SendAndRecv \/ Finishes
  BY <1>2 DEF Poll, Accept, AcceptFails, SendAndRecv, Finishes, BetweenCalls
<1>3. ASSUME NEW d \in Peers, SocketReceives(d)
      PROVE  process = "up" /\ Requests(c)' = Requests(c) /\ sent'[c] = sent[c]
  <2> DEFINE n == Received(tcp[d], arrived[d])
  <2>1. /\ process = "up" /\ sent' = sent /\ n \in 0 .. Len(arrived[d])
        /\ arrived' = [arrived EXCEPT ![d] = After(@, n)]
    BY <1>3, ReceivesEffect
  <2>2. PICK next \in Sockets, read \in Seq(Nat) :
          /\ tcp' = [tcp EXCEPT ![d] = next]
          /\ handled' = [handled EXCEPT ![d] = @ \o read]
          /\ read \o next.recv_buffer_ = tcp[d].recv_buffer_ \o UpTo(arrived[d], n)
    BY <1>3, ReceivesEffect
  <2> HIDE DEF n
  <2>3. CASE c # d
    BY <2>1, <2>2, <2>3 DEF IInv, TypeOK
  <2>4. CASE c = d
    <3>1. /\ handled'[c] = handled[c] \o read /\ tcp'[c] = next
          /\ arrived'[c] = After(arrived[c], n)
      BY <2>1, <2>2, <2>4 DEF IInv, TypeOK
    <3>2. next.recv_buffer_ \in Seq(Nat)
      BY DEF Sockets
    <3>3. handled[c] \in Seq(Nat) /\ tcp[c].recv_buffer_ \in Seq(Nat) /\ arrived[c] \in Seq(Nat)
      BY StreamTypes
    (* Bytes that move from one buffer into the next keep their places. *)
    <3>4. (handled[c] \o read) \o next.recv_buffer_ \o After(arrived[c], n)
            = handled[c] \o tcp[c].recv_buffer_ \o arrived[c]
      <4> DEFINE h == handled[c]
                 r == tcp[c].recv_buffer_
                 front == UpTo(arrived[c], n)
                 back == After(arrived[c], n)
                 left == next.recv_buffer_
      <4>1. read \o left = r \o front
        BY <2>2, <2>4
      <4>2. front \in Seq(Nat) /\ back \in Seq(Nat) /\ front \o back = arrived[c]
        BY <2>1, <2>4, <3>3, PieceProperties
      <4>3. h \in Seq(Nat) /\ r \in Seq(Nat) /\ left \in Seq(Nat)
        BY <3>2, <3>3
      <4> HIDE DEF h, r, front, back, left
      <4>4. (h \o read) \o left \o back = h \o r \o (front \o back)
        <5>1. (h \o read) \o left = h \o (read \o left)
          BY <4>3, Regrouped, Zenon
        <5>2. h \o (r \o front) = (h \o r) \o front
          <6>1. (h \o r) \o front = h \o (r \o front)
            BY <4>2, <4>3, Regrouped
          <6> QED
            BY <6>1, Zenon
        <5>3. ((h \o r) \o front) \o back = (h \o r) \o (front \o back)
          <6>1. h \o r \in Seq(Nat)
            BY <4>3, ConcatProperties
          <6> QED
            BY <4>2, <6>1, Regrouped, Zenon
        <5> QED
          BY <4>1, <5>1, <5>2, <5>3, Zenon
      <4> QED
        BY <4>2, <4>4 DEF h, r, back, left
    <3> QED
      BY <2>1, <3>1, <3>4
  <2> QED
    BY <2>3, <2>4
<1>4. CASE SocketSends
  <2>1. /\ current \in Peers /\ process = "up" /\ tcp' = [tcp EXCEPT ![current] = Flushed(@)]
        /\ UNCHANGED <<arrived, streamVars>>
    BY <1>4, SendsEffect
  <2>2. tcp'[c].recv_buffer_ = tcp[c].recv_buffer_
    <3>1. tcp[c] \in Sockets
      BY DEF IInv, TypeOK
    <3> QED
      BY <2>1, <3>1, FlushedProperties DEF IInv, TypeOK
  <2> QED
    BY <2>1, <2>2
<1>5. ASSUME NEW d \in Peers, PeerConnects(d) \/ PeerCloses(d) \/ PeerResets(d) \/ PeerReads(d)
      PROVE  process = "up" /\ Requests(c)' = Requests(c) /\ sent'[c] = sent[c]
  BY <1>5 DEF PeerConnects, PeerCloses, PeerResets, PeerReads, serverVars
<1>6. ASSUME NEW d \in Peers, PeerSends(d)
      PROVE  /\ process = "up"
             /\ \/ Requests(c)' = Requests(c) /\ sent'[c] = sent[c]
                \/ Requests(c)' = Append(Requests(c), sent[c] + 1) /\ sent'[c] = sent[c] + 1
  <2> USE <1>6 DEF PeerSends, serverVars
  <2>1. CASE c # d
    BY <2>1 DEF IInv, TypeOK
  <2>2. CASE c = d
    <3>1. /\ arrived'[c] = Append(arrived[c], sent[c] + 1) /\ sent'[c] = sent[c] + 1
          /\ tcp' = tcp /\ handled' = handled /\ process = "up"
      BY <2>2 DEF IInv, TypeOK
    <3> DEFINE front == handled[c] \o tcp[c].recv_buffer_
               x == sent[c] + 1
    <3>2. front \in Seq(Nat) /\ arrived[c] \in Seq(Nat) /\ x \in Nat
      BY StreamTypes, ConcatProperties
    <3> HIDE DEF front, x
    <3>3. front \o Append(arrived[c], x) = Append(front \o arrived[c], x)
      BY <3>2
    <3> QED
      BY <3>1, <3>3 DEF front, x
  <2> QED
    BY <2>1, <2>2
<1>8. CASE UNCHANGED vars
  BY <1>8 DEF vars
<1> QED
  BY <1>1, <1>2, <1>3, <1>4, <1>5, <1>6, <1>8 DEF Next, ServerThread, Peer, Exited

(* However the rounds cut the requests, however many connections there are *)
(* and whatever the callback does with what it is given, each byte is read *)
(* once and in order.                                                      *)
THEOREM RequestsAreNotLost == Spec => []NoRequestIsLost
<1> DEFINE SInv == process = "up" => \A c \in Peers : Requests(c) = Numbers(sent[c])
<1>1. Init => SInv
  BY DEF Init, Requests, Numbers, NewSocket
<1>2. ASSUME IInv, SInv, [Next]_vars PROVE SInv'
  <2> SUFFICES ASSUME process' = "up", NEW c \in Peers PROVE Requests(c)' = Numbers(sent'[c])
    BY DEF Requests
  <2>1. process = "up" /\ Requests(c) = Numbers(sent[c])
    BY <1>2, RequestsStep
  <2>2. sent[c] \in Nat
    BY <1>2, StreamTypes
  <2> QED
    BY <1>2, <2>1, <2>2, RequestsStep, NextNumber
<1>3. SInv => NoRequestIsLost
  BY DEF NoRequestIsLost, Requests, Numbers
<1> QED
  BY <1>1, <1>2, <1>3, Invariance, PTL DEF Spec

(* What a peer is owed stays what is on its way to it, while its           *)
(* connection is not reset.                                                *)
LEMMA RepliesStep ==
  ASSUME IInv, [Next]_vars, NEW c \in Peers, process' = "up", link'[c] # "reset"
  PROVE  /\ process = "up" /\ link[c] # "reset"
         /\ Replies(c) = owed[c] => Replies(c)' = owed'[c]
<1> USE DEF Replies, loopVars, listVars, epollVars, linkVars, streamVars
<1>1. CASE Listen \/ Close
  BY <1>1 DEF Listen, Close, Unlistened, BetweenCalls
<1>2. CASE Poll \/ Accept \/ AcceptFails \/ SendAndRecv \/ Finishes
  BY <1>2 DEF Poll, Accept, AcceptFails, SendAndRecv, Finishes, BetweenCalls
<1>3. ASSUME NEW d \in Peers, SocketReceives(d)
      PROVE  /\ process = "up" /\ link[c] # "reset"
             /\ Replies(c) = owed[c] => Replies(c)' = owed'[c]
  <2>1. process = "up" /\ tcp[d].send_buffer_ = <<>> /\ UNCHANGED <<link, leaving>>
    BY <1>3, ReceivesEffect
  <2>2. PICK next \in Sockets, reply \in Seq(Nat) :
          /\ tcp' = [tcp EXCEPT ![d] = next]
          /\ owed' = [owed EXCEPT ![d] = @ \o reply]
          /\ next.send_buffer_ = reply
    BY <1>3, ReceivesEffect
  <2>3. CASE c # d
    BY <2>1, <2>2, <2>3 DEF IInv, TypeOK
  <2>4. CASE c = d
    <3>1. tcp'[c].send_buffer_ = reply /\ owed'[c] = owed[c] \o reply
      BY <2>2, <2>4 DEF IInv, TypeOK
    <3>2. leaving[c] \o <<>> = leaving[c]
      BY StreamTypes, ConcatEmptySeq
    <3> QED
      BY <2>1, <2>4, <3>1, <3>2
  <2> QED
    BY <2>3, <2>4
<1>4. CASE SocketSends
  <2>1. PICK piece \in Seq(Nat) :
          /\ leaving' = [leaving EXCEPT ![current] = @ \o piece]
          /\ piece = tcp[current].send_buffer_
    BY <1>4, SendsEffect
  <2>2. /\ current \in Peers /\ process = "up" /\ tcp' = [tcp EXCEPT ![current] = Flushed(@)]
        /\ UNCHANGED <<link, streamVars>>
    BY <1>4, SendsEffect
  <2>3. CASE c # current
    BY <2>1, <2>2, <2>3 DEF IInv, TypeOK
  <2>4. CASE c = current
    <3>1. tcp[c] \in Sockets
      BY DEF IInv, TypeOK
    <3>2. tcp'[c].send_buffer_ = <<>>
      BY <2>2, <2>4, <3>1, FlushedProperties DEF IInv, TypeOK
    <3>3. leaving'[c] = leaving[c] \o tcp[c].send_buffer_
      BY <2>1, <2>4 DEF IInv, TypeOK
    <3>4. leaving[c] \o tcp[c].send_buffer_ \o <<>> = leaving[c] \o tcp[c].send_buffer_
      BY StreamTypes, ConcatProperties, ConcatEmptySeq
    <3> QED
      BY <2>2, <3>2, <3>3, <3>4
  <2> QED
    BY <2>3, <2>4
<1>5. ASSUME NEW d \in Peers, PeerConnects(d) \/ PeerSends(d) \/ PeerCloses(d) \/ PeerResets(d)
      PROVE  /\ process = "up" /\ link[c] # "reset"
             /\ Replies(c) = owed[c] => Replies(c)' = owed'[c]
  BY <1>5 DEF PeerConnects, PeerSends, PeerCloses, PeerResets, serverVars, IInv, TypeOK
<1>6. ASSUME NEW d \in Peers, PeerReads(d)
      PROVE  /\ process = "up" /\ link[c] # "reset"
             /\ Replies(c) = owed[c] => Replies(c)' = owed'[c]
  <2> USE <1>6 DEF PeerReads, serverVars
  <2>1. CASE c # d
    BY <2>1 DEF IInv, TypeOK
  <2>2. CASE c = d
    <3>1. leaving'[c] = <<>> /\ owed'[c] = After(owed[c], Len(leaving[c])) /\ tcp' = tcp
      BY <2>2 DEF IInv, TypeOK
    <3> DEFINE l == leaving[c]
               s == tcp[c].send_buffer_
    <3>2. l \in Seq(Nat) /\ s \in Seq(Nat)
      BY StreamTypes
    <3> HIDE DEF l, s
    <3>3. SubSeq(l \o s, Len(l) + 1, Len(l \o s)) = s /\ <<>> \o s = s
      BY <3>2, SecondOfTwo, ConcatEmptySeq
    <3> QED
      BY <3>1, <3>3 DEF After, l, s
  <2> QED
    BY <2>1, <2>2
<1>7. CASE UNCHANGED vars
  BY <1>7 DEF vars
<1> QED
  BY <1>1, <1>2, <1>3, <1>4, <1>5, <1>6, <1>7 DEF Next, ServerThread, Peer, Exited

(* Replies leave once and in order, however little of them ::send takes at *)
(* a time and however slowly the peers read.                               *)
THEOREM RepliesStayInOrder == Spec => []RepliesInOrder
<1> DEFINE OInv == process = "up" =>
                     \A c \in Peers : link[c] # "reset" => Replies(c) = owed[c]
<1>1. Init => OInv
  <2>1. <<>> \o <<>> = <<>>
    BY ConcatEmptySeq, EmptySeq
  <2> QED
    BY <2>1 DEF Init, Replies, NewSocket
<1>2. ASSUME IInv, OInv, [Next]_vars PROVE OInv'
  <2> SUFFICES ASSUME process' = "up", NEW c \in Peers, link'[c] # "reset"
               PROVE  Replies(c)' = owed'[c]
    BY DEF Replies
  <2> QED
    BY <1>2, RepliesStep
<1>3. OInv => RepliesInOrder
  BY DEF RepliesInOrder, Replies
<1> QED
  BY <1>1, <1>2, <1>3, Invariance, PTL DEF Spec
=============================================================================
