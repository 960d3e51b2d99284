----------------------------- MODULE TCPClient -----------------------------
(***************************************************************************)
(* One TCPSocket, the single-threaded program that uses it, the kernel's   *)
(* two buffers of the connection, and the peer at its other end.  The      *)
(* program connects (as often as it likes), queues bytes with send and     *)
(* calls sendAndRecv.  sendAndRecv is two steps, one per system call, and  *)
(* the peer acts between them.                                             *)
(*                                                                         *)
(* The bytes of a direction are numbered in the order they are written, so *)
(* that a lost, repeated or misplaced byte shows.                          *)
(***************************************************************************)
EXTENDS TCPSocket, CreateSocket

CONSTANTS
  KernelBuffer,   \* bytes the kernel buffers in each direction
  MaxBytes,       \* bound: bytes written in each direction
  MaxConnects     \* bound: calls of connect

ASSUME TCPClientAssumption ==
  /\ KernelBuffer \in Nat \ {0}
  /\ MaxBytes \in Nat
  /\ MaxConnects \in Nat

VARIABLES
  fd_,        \* the descriptor, or Invalid
  socket,     \* the two buffers
  callback,   \* what the receive callback does: "takes" the data and resets the index,
              \* or "keeps" it as defaultRecvCallback does
  pc,         \* "idle", or "sends" in the middle of sendAndRecv
  process,    \* "up", or how it ended
  link,       \* the connection: "none", "connecting", "open", "fin", "reset"
  arrived,    \* received by the kernel, not yet by the program
  leaving,    \* accepted by the kernel from ::send, not yet read by the peer
  written, taken,       \* bytes given to send; bytes the callback has taken
  peerSent, peerGot,    \* bytes the peer has sent; bytes it has read
  connects, ended       \* calls of connect; connections that have ended

programVars == <<fd_, socket, callback, pc, process, written, taken, connects>>
linkVars == <<link, arrived, leaving, ended>>
peerVars == <<peerSent, peerGot>>
vars == <<programVars, socketVars, linkVars, peerVars>>

-----------------------------------------------------------------------------
Init ==
  /\ InitSockets
  /\ fd_ = Invalid /\ socket = NewSocket
  /\ callback \in {"takes", "keeps"}
  /\ pc = "idle" /\ process = "up"
  /\ link = "none" /\ arrived = <<>> /\ leaving = <<>>
  /\ written = 0 /\ taken = <<>> /\ peerSent = 0 /\ peerGot = <<>>
  /\ connects = 0 /\ ended = 0

(* The program is between two calls.                                       *)
Idle == process = "up" /\ pc = "idle" /\ ~ InProgress

(* The connection is gone, with what was in the kernel.                    *)
Disconnected(next) ==
  /\ link' = next /\ arrived' = <<>> /\ leaving' = <<>>
  /\ ended' = IF link = "none" THEN ended ELSE ended + 1

(* A seeded fault: connect forgets to close.                               *)
NothingClosed == made' = made

(* TCPSocket::close: the buffers and their indices stay as they are.       *)
DescriptorClosed ==
  made' = IF fd_ = Invalid THEN made ELSE [made EXCEPT ![fd_] = Closed]

Close ==
  /\ Idle /\ fd_ # Invalid
  /\ DescriptorClosed /\ fd_' = Invalid
  /\ Disconnected("none")
  /\ UNCHANGED <<call, lost, socket, callback, pc, process, written, taken, connects, peerVars>>

(* connect: close, then createSocket, of which the actions below are the   *)
(* steps.                                                                  *)
Connect(is_listening, addresses) ==
  /\ Idle /\ connects < MaxConnects
  /\ connects' = connects + 1
  /\ DescriptorClosed /\ fd_' = Invalid
  /\ Disconnected("none")
  /\ Begins(is_listening, addresses)
  /\ UNCHANGED <<lost, socket, callback, pc, process, written, taken, peerVars>>

(* The calls of createSocket that do not talk to the peer.                 *)
CallsKernel ==
  /\ \/ OpensDescriptor
     \/ \E name \in CallNames \ {"connect"} : Succeeds(name)
     \/ NextAddress
  /\ UNCHANGED <<programVars, linkVars, peerVars>>

(* connect() on a non-blocking descriptor: EINPROGRESS is no failure.  A   *)
(* connection that was made for an earlier address is out of reach.        *)
StartsConnecting ==
  /\ Succeeds("connect")
  /\ Disconnected("connecting")
  /\ UNCHANGED <<programVars, peerVars>>

ConnectReturns ==
  /\ \/ /\ ReturnsDescriptor
        /\ fd_' = call.fd
        /\ UNCHANGED linkVars
     \/ /\ ReturnsFailure
        /\ fd_' = Invalid
        /\ Disconnected("none")
  /\ UNCHANGED <<socket, callback, pc, process, written, taken, connects, peerVars>>

CreateSocketSteps == CallsKernel \/ StartsConnecting \/ ConnectReturns

-----------------------------------------------------------------------------
NewBytes(n) == [i \in 1 .. n |-> written + i]

(* send: copies, and does not call the kernel.                             *)
Send(n) ==
  /\ Idle /\ written + n <= MaxBytes
  /\ IF Fits(socket, NewBytes(n))
     THEN /\ socket' = Queued(socket, NewBytes(n))
          /\ written' = written + n
          /\ UNCHANGED process
     ELSE /\ process' = "overrun"
          /\ UNCHANGED <<socket, written>>
  /\ UNCHANGED <<fd_, callback, pc, taken, connects, socketVars, linkVars, peerVars>>

(* sendAndRecv, first half: recvmsg, and the callback if it took anything. *)
(* Without a connection nothing has arrived; an error, the end of the      *)
(* stream and a full buffer are all the same to the code: no data.         *)
Receives ==
  /\ Idle
  /\ LET got == WithReceived(socket, arrived)
     IN  IF Received(socket, arrived) > 0 /\ callback = "takes"
         THEN socket' = Emptied(got) /\ taken' = taken \o got.recv_buffer_
         ELSE socket' = got /\ UNCHANGED taken
  /\ arrived' = After(arrived, Received(socket, arrived))
  /\ pc' = "sends"
  /\ UNCHANGED <<fd_, callback, process, written, connects, socketVars, link, leaving, ended,
                 peerVars>>

(* How much ::send can take: nothing but on an established connection.     *)
Room == IF link \in {"open", "fin"} THEN KernelBuffer - Len(leaving) ELSE 0

(* sendAndRecv, second half: ::send of the whole buffer, and the ASSERT.   *)
(* If it fails the process exits; what ::send took is on its way.          *)
Sends ==
  /\ process = "up" /\ pc = "sends"
  /\ leaving' = leaving \o UpTo(socket.send_buffer_, Sent(socket, Room))
  /\ IF AllSent(socket, Room)
     THEN socket' = Flushed(socket) /\ UNCHANGED process
     ELSE /\ socket' = [socket EXCEPT !.send_buffer_ = After(@, Sent(socket, Room))]
          /\ process' = "assert"
  /\ pc' = "idle"
  /\ UNCHANGED <<fd_, callback, written, taken, connects, socketVars, link, arrived, ended,
                 peerVars>>

-----------------------------------------------------------------------------
(* The peer and the network.                                               *)
PeerAccepts ==
  /\ link = "connecting" /\ link' = "open"
  /\ UNCHANGED <<programVars, socketVars, arrived, leaving, ended, peerVars>>

PeerSends ==
  /\ link = "open" /\ peerSent < MaxBytes /\ Len(arrived) < KernelBuffer
  /\ peerSent' = peerSent + 1
  /\ arrived' = Append(arrived, peerSent + 1)
  /\ UNCHANGED <<programVars, socketVars, link, leaving, ended, peerGot>>

(* The peer ends its half; it may still read.                              *)
PeerCloses ==
  /\ link = "open" /\ link' = "fin"
  /\ UNCHANGED <<programVars, socketVars, arrived, leaving, ended, peerVars>>

(* Refused, or reset: what has arrived can still be read.                  *)
PeerResets ==
  /\ link \in {"connecting", "open", "fin"} /\ link' = "reset"
  /\ leaving' = <<>> /\ ended' = ended + 1
  /\ UNCHANGED <<programVars, socketVars, arrived, peerVars>>

PeerReads ==
  /\ leaving # <<>>
  /\ peerGot' = Append(peerGot, Head(leaving))
  /\ leaving' = Tail(leaving)
  /\ UNCHANGED <<programVars, socketVars, link, arrived, ended, peerSent>>

Exited == process # "up" /\ UNCHANGED vars

Next ==
  \/ Close
  \/ \E is_listening \in BOOLEAN, addresses \in 1 .. MaxAddresses :
       Connect(is_listening, addresses)
  \/ CreateSocketSteps
  \/ \E n \in 1 .. MaxBytes : Send(n)
  \/ Receives
  \/ Sends
  \/ PeerAccepts \/ PeerSends \/ PeerCloses \/ PeerResets \/ PeerReads
  \/ Exited

(* The program's thread runs and goes on calling sendAndRecv; nobody has   *)
(* to connect, to send or to read.                                         *)
Spec ==
  /\ Init /\ [][Next]_vars
  /\ WF_vars(CreateSocketSteps) /\ WF_vars(Receives) /\ WF_vars(Sends)

-----------------------------------------------------------------------------
StreamTypeOK ==
  /\ socket \in Sockets /\ InBounds(socket)
  /\ callback \in {"takes", "keeps"} /\ pc \in {"idle", "sends"}
  /\ process \in {"up", "assert", "overrun"}
  /\ link \in {"none", "connecting", "open", "fin", "reset"}
  /\ arrived \in Seq(Nat) /\ leaving \in Seq(Nat)
  /\ Len(arrived) <= KernelBuffer /\ Len(leaving) <= KernelBuffer
  /\ written \in Nat /\ peerSent \in Nat /\ connects \in Nat /\ ended \in Nat
  /\ taken \in Seq(Nat) /\ peerGot \in Seq(Nat)

(* Everything stays in its type, and both buffers in their size.           *)
TypeOK == CreateSocketTypeOK /\ fd_ \in Fds \cup {Invalid} /\ StreamTypeOK

(* Between two calls, what is open is the descriptor the program holds and *)
(* what createSocket left behind, which it does when a call fails after     *)
(* socket() and when there is another address (socket_utils.cpp:75,        *)
(* 82-123).  The one the program holds has been through every call that    *)
(* was asked for.                                                          *)
DescriptorsAccountedFor ==
  ~ InProgress =>
    /\ Open = lost \cup ({fd_} \ {Invalid})
    /\ fd_ \notin lost
    /\ fd_ # Invalid =>
         \E is_listening \in BOOLEAN :
           LET calls == SystemCalls(is_listening)
           IN  made[fd_] = {calls[i] : i \in DOMAIN calls}

(* Descriptors that are open and that no variable of the code leads to.    *)
Unheld == Open \ {fd_, call.fd}

(* A descriptor goes out of reach only inside createSocket, one at a time  *)
(* and with a call still to make: at the call that fails, or at the        *)
(* socket() of a further address.  Connecting again                        *)
(* (tcp_socket.cpp:26-34), close, and a createSocket that goes through all *)
(* its calls for its one address leave none behind.                        *)
OnlyCreateSocketLeaks ==
  [][Unheld' # Unheld =>
       /\ InProgress /\ call.calls # <<>> /\ fd_' = Invalid
       /\ Unheld' = Unheld \cup {call.fd}]_vars

(* What the program sends is a byte stream although ::send may take only a *)
(* part of the buffer (tcp_socket.cpp:72-78) and the buffer outlives its   *)
(* connection: the peer misses nothing in the middle and gets nothing      *)
(* twice.                                                                  *)
Outbound == INSTANCE ByteStream WITH
  written <- written, inFlight <- leaving \o socket.send_buffer_, received <- peerGot,
  ended <- ended
ImplementsOutbound == Outbound!Spec

(* What the program receives is a byte stream, whatever the size of the    *)
(* pieces, with a callback that takes them and with one that lets them     *)
(* fill the buffer (tcp_socket.cpp:47-69).                                 *)
Inbound == INSTANCE ByteStream WITH
  written <- peerSent, inFlight <- arrived, received <- taken \o socket.recv_buffer_,
  ended <- ended
ImplementsInbound == Inbound!Spec

(* A byte that has arrived is received, or its connection is given up, or  *)
(* the process ends: there is always room, if the callback resets the      *)
(* index (tcp_socket.cpp:48).                                              *)
EverythingIsReceived ==
  \A b \in 1 .. MaxBytes :
    (callback = "takes" /\ \E i \in DOMAIN arrived : arrived[i] = b)
      ~> (process # "up" \/ \A i \in DOMAIN arrived : arrived[i] # b)
=============================================================================
