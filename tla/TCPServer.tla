----------------------------- MODULE TCPServer -----------------------------
(***************************************************************************)
(* TCPServer (tcp_server.cpp): one thread that calls poll and sendAndRecv  *)
(* in any order, and listen and close between them, over an edge-triggered *)
(* epoll; and the peers, which connect, send, close, reset and read at any *)
(* time.                                                                   *)
(*                                                                         *)
(* A peer is one connection and stands for the TCPSocket the server makes  *)
(* for it.  The socket lists are sets: every push_back looks for the       *)
(* socket first.  send_sockets_ is left out: a socket gets into it on      *)
(* EPOLLOUT only, which epoll_add never asks for, so it stays empty.       *)
(***************************************************************************)
EXTENDS TCPSocket, FiniteSets

CONSTANTS
  Peers,
  Listener,       \* the listener's entry in the epoll
  EventsLength,   \* the length of events_, 1024
  KernelBuffer,   \* bytes the kernel buffers in each direction of a connection
  HeaderLength,   \* bytes a reply has before the request it repeats
  MaxRequests     \* bound: bytes each peer sends

ASSUME TCPServerAssumption ==
  /\ Listener \notin Peers
  /\ EventsLength \in Nat \ {0}
  /\ KernelBuffer \in 1 .. TCPBufferSize   \* kernel buffers are far below 64 MiB
  /\ HeaderLength \in Nat /\ MaxRequests \in [Peers -> Nat]

VARIABLES
  \* the server
  sockets_, receive_sockets_, disconnected_sockets_,
  tcp,            \* the TCPSocket of each peer
  callback,       \* what recv_callback_ does: "keeps" the data, as the constructor's does;
                  \* resets the index and "replies", as the test's does, or is "silent"
  pc,             \* "idle" between calls; "accept" in poll; "receive", "send" in sendAndRecv
  todo,           \* the sockets the loop of sendAndRecv has before it
  current,        \* the socket it is at
  recv,           \* its local recv
  process,        \* "up", or how it ended
  \* the kernel
  listening,      \* the epoll and the listener are open
  backlog,        \* connections to be accepted, oldest first
  registered,     \* what the epoll watches
  ready,          \* what has had an event since the epoll last looked
  link, arrived, leaving,   \* each connection and its two buffers
  \* history
  sent,           \* bytes each peer has sent
  handled,        \* bytes of each that a callback has read and taken out of the buffer
  owed,           \* replies given to send that the peer has not read
  unfinished,     \* bytes were received and recv_finished_callback_ not called since
  polled,         \* poll was called, and sendAndRecv not since
  stalled         \* accept has failed with connections left, and none came since

loopVars == <<pc, todo, current, recv>>
listVars == <<sockets_, receive_sockets_, disconnected_sockets_>>
epollVars == <<listening, backlog, registered, ready, stalled>>
linkVars == <<link, arrived, leaving>>
streamVars == <<sent, handled, owed>>
vars == <<loopVars, listVars, epollVars, linkVars, streamVars, tcp, callback, process, unfinished,
          polled>>

-----------------------------------------------------------------------------
Init ==
  /\ sockets_ = {} /\ receive_sockets_ = {} /\ disconnected_sockets_ = {}
  /\ tcp = [c \in Peers |-> NewSocket]
  /\ callback \in {"keeps", "replies", "silent"}
  /\ pc = "idle" /\ todo = {} /\ current = Listener /\ recv = FALSE
  /\ process = "up"
  /\ listening = FALSE /\ backlog = <<>> /\ registered = {} /\ ready = {}
  /\ link = [c \in Peers |-> "none"]
  /\ arrived = [c \in Peers |-> <<>>] /\ leaving = [c \in Peers |-> <<>>]
  /\ sent = [c \in Peers |-> 0]
  /\ handled = [c \in Peers |-> <<>>] /\ owed = [c \in Peers |-> <<>>]
  /\ unfinished = FALSE /\ polled = FALSE /\ stalled = FALSE

Waiting == {backlog[i] : i \in DOMAIN backlog}

(* What epoll reports of a descriptor that has had an event: its state     *)
(* when epoll_wait looks, not when the event came.  EPOLLERR and EPOLLHUP  *)
(* need not be asked for, and come together with EPOLLIN.                  *)
HasInput(c) == arrived[c] # <<>> \/ link[c] \in {"fin", "reset"}
HasHangup(c) == link[c] = "reset"

Events ==
  {c \in ready \cap Peers : HasInput(c)}
    \cup (IF backlog # <<>> THEN ready \cap {Listener} ELSE {})

(* The event of a descriptor that the epoll watches.                       *)
Signalled(d) == ready' = IF d \in registered THEN ready \cup {d} ELSE ready

-----------------------------------------------------------------------------
(* close, at the start of listen or called by the program between two      *)
(* calls: accepted sockets stay open and in the lists, but nothing watches *)
(* them any more.  Connections nobody accepted are reset by the kernel.    *)
Unlistened ==
  /\ backlog' = <<>>
  /\ link' = [c \in Peers |-> IF c \in Waiting THEN "reset" ELSE link[c]]
  /\ stalled' = FALSE

BetweenCalls == process = "up" /\ pc = "idle"

Close ==
  /\ BetweenCalls /\ listening
  /\ Unlistened
  /\ listening' = FALSE /\ registered' = {} /\ ready' = {}
  /\ UNCHANGED <<loopVars, listVars, tcp, callback, process, arrived, leaving, streamVars,
                 unfinished, polled>>

(* listen: close, then a new epoll and a new listener, or an ASSERT.       *)
Listen ==
  /\ BetweenCalls
  /\ Unlistened
  /\ \/ listening' = TRUE /\ registered' = {Listener} /\ ready' = {} /\ UNCHANGED process
     \/ listening' = FALSE /\ registered' = {} /\ ready' = {} /\ process' = "assert"
  /\ UNCHANGED <<loopVars, listVars, tcp, callback, arrived, leaving, streamVars, unfinished,
                 polled>>

-----------------------------------------------------------------------------
(* A seeded fault: del forgets one of its lists.                           *)
DeletedFromSockets(gone) == [sockets |-> sockets_ \ gone, receive |-> receive_sockets_]

(* del of all these sockets, as far as the lists go.                       *)
Deleted(gone) == [sockets |-> sockets_ \ gone, receive |-> receive_sockets_ \ gone]

(* A seeded fault: EPOLLERR and EPOLLHUP are only looked at without        *)
(* EPOLLIN.                                                                *)
HangupsWithoutInput(events) == {c \in events \cap Peers : HasHangup(c) /\ ~ HasInput(c)}

(* The sockets that poll finds hung up.                                    *)
Hangups(events) == {c \in events \cap Peers : HasHangup(c)}

(* A seeded fault: poll deletes the sockets it has just found hung up.     *)
DeletedAtOnce == disconnected_sockets_ \cup Hangups(Events)

(* The sockets del is called for: those earlier polls have found hung up.  *)
(* None ever leaves the list.                                              *)
ToDelete == disconnected_sockets_

(* poll up to its accept loop.  epoll_wait may write 1 + sockets_.size()   *)
(* events, the size before del; past the end of events_ that is undefined. *)
(* The calls between which a peer could act commute with what it does.     *)
Poll ==
  /\ BetweenCalls
  /\ LET gone   == ToDelete
         events == {d \in Events : d \notin gone}
         lists  == Deleted(gone)
     IN  /\ IF Cardinality(events) <= EventsLength THEN UNCHANGED process
                                                   ELSE process' = "events"
         /\ sockets_' = lists.sockets
         /\ receive_sockets_' = lists.receive \cup (events \cap Peers)
         /\ disconnected_sockets_' = disconnected_sockets_ \cup Hangups(events)
         /\ registered' = registered \ gone
         /\ pc' = IF Listener \in events THEN "accept" ELSE "idle"
  /\ ready' = {} /\ polled' = TRUE
  /\ UNCHANGED <<todo, current, recv, tcp, callback, listening, backlog, stalled, linkVars,
                 streamVars, unfinished>>

(* epoll_add: what is there already counts as an event.                    *)
EpollAdd(c) ==
  /\ registered' = registered \cup {c}
  /\ ready' = IF HasInput(c) THEN ready \cup {c} ELSE ready

(* A seeded fault: poll accepts one connection.                            *)
PolledOnce == "idle"

(* The loop goes round until accept fails.                                 *)
AfterAccept == "accept"

(* A seeded fault: an accepted socket waits for an event to be received    *)
(* from.                                                                   *)
ReceivedFromLater(c) == receive_sockets_

(* The last lines of the accept loop.                                      *)
ReceivedFrom(c) == receive_sockets_ \cup {c}

(* One turn of the accept loop, and one of its ASSERTs failing.            *)
Accept ==
  /\ process = "up" /\ pc = "accept" /\ backlog # <<>>
  /\ LET c == Head(backlog)
     IN  \/ /\ EpollAdd(c)
            /\ sockets_' = sockets_ \cup {c}
            /\ receive_sockets_' = ReceivedFrom(c)
            /\ pc' = AfterAccept
            /\ UNCHANGED process
         \/ /\ process' = "assert"
            /\ UNCHANGED <<registered, ready, sockets_, receive_sockets_, pc>>
  /\ backlog' = Tail(backlog)
  /\ UNCHANGED <<todo, current, recv, disconnected_sockets_, tcp, callback, listening, stalled,
                 linkVars, streamVars, unfinished, polled>>

(* accept fails: nothing left, or no descriptor left.  In the second case  *)
(* nothing says that connections still wait.                               *)
AcceptFails ==
  /\ process = "up" /\ pc = "accept"
  /\ stalled' = (backlog # <<>>)
  /\ pc' = "idle"
  /\ UNCHANGED <<todo, current, recv, listVars, tcp, callback, process, listening, backlog,
                 registered, ready, linkVars, streamVars, unfinished, polled>>

-----------------------------------------------------------------------------
(* sendAndRecv begins.                                                     *)
SendAndRecv ==
  /\ BetweenCalls
  /\ recv' = FALSE /\ todo' = receive_sockets_ /\ pc' = "receive"
  /\ UNCHANGED <<current, listVars, epollVars, tcp, callback, process, linkVars, streamVars,
                 unfinished, polled>>

(* recv, after a socket whose sendAndRecv returned got.                    *)
AnyReceived(got) == recv \/ got

(* The callback, called with a socket that has received something.  What   *)
(* it replies is longer than what it was given, as the test's "TCPServer   *)
(* received msg:" makes it.                                                *)
Header == [i \in 1 .. HeaderLength |-> 0]

Reply(data) == IF callback = "replies" THEN Header \o data ELSE <<>>

(* What the callback reads and takes out of the buffer, the socket as it   *)
(* leaves it, and everything it does, if its reply fits the send buffer.   *)
ReadBy(s) == IF callback = "keeps" THEN <<>> ELSE s.recv_buffer_

LeftBy(s) == IF callback = "keeps" THEN s ELSE Emptied(s)

CalledBack(c, got) ==
  LET reply == Reply(got.recv_buffer_)
  IN  IF Fits(got, reply)
      THEN /\ tcp' = [tcp EXCEPT ![c] = Queued(LeftBy(got), reply)]
           /\ handled' = [handled EXCEPT ![c] = @ \o ReadBy(got)]
           /\ owed' = [owed EXCEPT ![c] = @ \o reply]
           /\ UNCHANGED process
      ELSE process' = "overrun" /\ UNCHANGED <<tcp, handled, owed>>

(* TCPSocket::sendAndRecv of one socket, first half: recvmsg, and the      *)
(* callback if it took anything.                                           *)
SocketReceives(c) ==
  /\ process = "up" /\ pc = "receive" /\ c \in todo
  /\ LET n == Received(tcp[c], arrived[c])
     IN  /\ IF n > 0 THEN CalledBack(c, WithReceived(tcp[c], arrived[c]))
                     ELSE UNCHANGED <<tcp, handled, owed, process>>
         /\ arrived' = [arrived EXCEPT ![c] = After(@, n)]
         /\ recv' = AnyReceived(n > 0)
         /\ unfinished' = (unfinished \/ n > 0)
  /\ todo' = todo \ {c} /\ current' = c /\ pc' = "send"
  /\ UNCHANGED <<listVars, epollVars, callback, link, leaving, sent, polled>>

Room(c) == IF link[c] \in {"open", "fin"} THEN KernelBuffer - Len(leaving[c]) ELSE 0

(* Second half: ::send and the ASSERT.  To a connection that was reset     *)
(* nothing can be sent: a reply to it ends the server.                     *)
SocketSends ==
  /\ process = "up" /\ pc = "send"
  /\ LET socket == tcp[current]
         room   == Room(current)
     IN  /\ leaving' = [leaving EXCEPT ![current] =
                          @ \o UpTo(socket.send_buffer_, Sent(socket, room))]
         /\ IF AllSent(socket, room)
            THEN tcp' = [tcp EXCEPT ![current] = Flushed(@)] /\ UNCHANGED process
            ELSE process' = "assert" /\ UNCHANGED tcp
  /\ pc' = "receive" /\ current' = Listener
  /\ UNCHANGED <<todo, recv, listVars, epollVars, callback, link, arrived, streamVars, unfinished,
                 polled>>

(* All sockets done: recv_finished_callback_ if any of them had something. *)
Finishes ==
  /\ process = "up" /\ pc = "receive" /\ todo = {}
  /\ unfinished' = (unfinished /\ ~ recv)
  /\ pc' = "idle" /\ recv' = FALSE /\ polled' = FALSE
  /\ UNCHANGED <<todo, current, listVars, epollVars, tcp, callback, process, linkVars, streamVars>>

ServerThread ==
  \/ Poll \/ Accept \/ AcceptFails
  \/ SendAndRecv \/ (\E c \in Peers : SocketReceives(c)) \/ SocketSends \/ Finishes

-----------------------------------------------------------------------------
(* The peers and the network.  What peers do after the process has ended   *)
(* is of no interest.                                                      *)
serverVars == <<loopVars, listVars, tcp, callback, process, handled, unfinished, polled>>

PeerConnects(c) ==
  /\ listening /\ link[c] = "none"
  /\ link' = [link EXCEPT ![c] = "open"]
  /\ backlog' = Append(backlog, c)
  /\ Signalled(Listener)
  /\ stalled' = FALSE
  /\ UNCHANGED <<serverVars, listening, registered, arrived, leaving, sent, owed>>

PeerSends(c) ==
  /\ link[c] = "open" /\ sent[c] < MaxRequests[c] /\ Len(arrived[c]) < KernelBuffer
  /\ sent' = [sent EXCEPT ![c] = @ + 1]
  /\ arrived' = [arrived EXCEPT ![c] = Append(@, sent[c] + 1)]
  /\ Signalled(c)
  /\ UNCHANGED <<serverVars, listening, backlog, registered, stalled, link, leaving, owed>>

(* The peer ends its half, and still reads.                                *)
PeerCloses(c) ==
  /\ link[c] = "open"
  /\ link' = [link EXCEPT ![c] = "fin"]
  /\ Signalled(c)
  /\ UNCHANGED <<serverVars, listening, backlog, registered, stalled, arrived, leaving, sent,
                 owed>>

(* What has arrived can still be read, and a connection still be accepted. *)
(* Nobody is owed anything any more.                                       *)
PeerResets(c) ==
  /\ link[c] \in {"open", "fin"}
  /\ link' = [link EXCEPT ![c] = "reset"]
  /\ leaving' = [leaving EXCEPT ![c] = <<>>]
  /\ owed' = [owed EXCEPT ![c] = <<>>]
  /\ Signalled(c)
  /\ UNCHANGED <<serverVars, listening, backlog, registered, stalled, arrived, sent>>

PeerReads(c) ==
  /\ leaving[c] # <<>>
  /\ owed' = [owed EXCEPT ![c] = After(@, Len(leaving[c]))]
  /\ leaving' = [leaving EXCEPT ![c] = <<>>]
  /\ UNCHANGED <<serverVars, epollVars, link, arrived, sent>>

Peer(c) ==
  /\ process = "up"
  /\ PeerConnects(c) \/ PeerSends(c) \/ PeerCloses(c) \/ PeerResets(c) \/ PeerReads(c)

Exited == process # "up" /\ UNCHANGED vars

Next ==
  \/ Listen \/ Close
  \/ ServerThread
  \/ \E c \in Peers : Peer(c)
  \/ Exited

(* The server's thread runs, and the program goes on calling poll and      *)
(* sendAndRecv, as often and in whatever order it likes: neither is        *)
(* forgotten for good.                                                     *)
Spec ==
  /\ Init /\ [][Next]_vars
  /\ WF_vars(ServerThread) /\ SF_vars(Poll) /\ SF_vars(SendAndRecv)

-----------------------------------------------------------------------------
(* Everything stays in its type, the sockets' buffers in their size.       *)
TypeOK ==
  /\ sockets_ \in SUBSET Peers /\ receive_sockets_ \in SUBSET Peers
  /\ disconnected_sockets_ \in SUBSET Peers
  /\ tcp \in [Peers -> Sockets] /\ \A c \in Peers : InBounds(tcp[c])
  /\ callback \in {"keeps", "replies", "silent"}
  /\ pc \in {"idle", "accept", "receive", "send"}
  /\ todo \in SUBSET Peers /\ current \in Peers \cup {Listener} /\ recv \in BOOLEAN
  /\ process \in {"up", "assert", "events", "overrun"}
  /\ listening \in BOOLEAN /\ backlog \in Seq(Peers)
  /\ registered \in SUBSET (Peers \cup {Listener}) /\ ready \in SUBSET registered
  /\ link \in [Peers -> {"none", "open", "fin", "reset"}]
  /\ arrived \in [Peers -> Seq(Nat)] /\ leaving \in [Peers -> Seq(Nat)]
  /\ sent \in [Peers -> Nat]
  /\ handled \in [Peers -> Seq(Nat)] /\ owed \in [Peers -> Seq(Nat)]
  /\ unfinished \in BOOLEAN /\ polled \in BOOLEAN /\ stalled \in BOOLEAN

(* The lists and the epoll keep to the same sockets through accepting,     *)
(* deleting and listening again (tcp_server.cpp:47-54, 110-117): what is   *)
(* watched is in sockets_, so epoll_wait's max_events leaves no event out, *)
(* and nothing is received from a socket that was deleted.                 *)
ListsAgree ==
  /\ receive_sockets_ = sockets_
  /\ registered \ {Listener} \subseteq sockets_

(* The epoll is edge-triggered, so a reset is reported once                *)
(* (tcp_server.cpp:86-93): of a socket that it watches, the event is yet   *)
(* to come or poll has noted it, also if the reset came with data or       *)
(* before the connection was accepted.                                     *)
HangupNeverMissed ==
  \A c \in registered \cap Peers : HasHangup(c) => c \in ready \cup disconnected_sockets_

(* A socket is deleted by a later poll than the one that found it hung up  *)
(* (tcp_server.cpp:58-60): if the program has called sendAndRecv between   *)
(* the two and its callback resets the index, what the socket still had to *)
(* say was received.  A second poll at once drops it, and so does a buffer *)
(* that defaultRecvCallback has let fill.                                  *)
NothingUnreadWhenDropped ==
  [][~ polled /\ callback # "keeps" => \A c \in sockets_ \ sockets_' : arrived[c] = <<>>]_vars

(* Whatever was received in a round, from the first socket or the last,    *)
(* recv_finished_callback_ was called for before the next                  *)
(* (tcp_server.cpp:122-129).                                               *)
BatchIsFinished == BetweenCalls => ~ unfinished

(* Each byte a peer has sent is read by a callback, kept in the buffer or  *)
(* still to be received, once and in order, on its own connection          *)
(* (tcp_server.cpp:123, tcp_socket.cpp:47-70): however the rounds cut the  *)
(* requests, and with a callback that never resets the index.              *)
NoRequestIsLost ==
  process = "up" =>
    \A c \in Peers :
      handled[c] \o tcp[c].recv_buffer_ \o arrived[c] = [i \in 1 .. sent[c] |-> i]

(* Of the replies given to send, a peer that was not reset is still to     *)
(* read just what leaves for it and what waits in the send buffer, in      *)
(* order, although ::send may take less than it is given                   *)
(* (tcp_socket.cpp:36-41, 72-78).                                          *)
RepliesInOrder ==
  process = "up" =>
    \A c \in Peers : link[c] # "reset" => leaving[c] \o tcp[c].send_buffer_ = owed[c]

(* send has no look at the size of its buffer (tcp_socket.cpp:36-41): a    *)
(* callback that replies writes behind it only if this one reply, with its *)
(* header, is longer than the whole buffer; nothing of an earlier reply is *)
(* ever in its way.                                                        *)
RepliesFit ==
  [][process = "up" /\ process' = "overrun" =>
       HeaderLength + Received(tcp[current'], arrived[current']) > TCPBufferSize]_vars

(* The listener is watched for edges too (tcp_server.cpp:95-118): however  *)
(* connections come, each is accepted, or refused by close, unless accept  *)
(* fails and none comes afterwards.                                        *)
ConnectionsAreAccepted ==
  \A c \in Peers : (c \in Waiting) ~> (c \notin Waiting \/ stalled \/ process # "up")

(* What arrives on an accepted connection is received, also if it was      *)
(* there before epoll_add and if the epoll is closed before it reports     *)
(* (tcp_server.cpp:114-117): with a callback that resets the index, and    *)
(* unless a reset connection is deleted first, by a poll after a poll.     *)
RequestsAreServed ==
  \A c \in Peers :
    (callback # "keeps" /\ c \in sockets_ /\ arrived[c] # <<>>)
      ~> \/ arrived[c] = <<>> \/ process # "up"
         \/ link[c] = "reset" /\ c \notin sockets_
=============================================================================
