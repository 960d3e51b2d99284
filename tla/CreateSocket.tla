---------------------------- MODULE CreateSocket ----------------------------
(***************************************************************************)
(* createSocket (socket_utils.cpp) as the system calls it makes, for the   *)
(* arguments TCPSocket::connect passes: TCP, non-blocking, with a          *)
(* timestamp, listening or not.  Any call may fail; createSocket then      *)
(* returns -1 and leaves the descriptor it had open.  It makes a socket    *)
(* for every address getaddrinfo gave and returns the last one.            *)
(***************************************************************************)
EXTENDS Integers, Sequences, FiniteSets

CONSTANTS
  MaxFd,          \* the kernel's limit: descriptors are 0 .. MaxFd
  MaxAddresses    \* how many addresses getaddrinfo may give

ASSUME CreateSocketAssumption == MaxFd \in Nat /\ MaxAddresses \in Nat \ {0}

VARIABLES
  made,    \* the calls each descriptor has been through; none if it is closed
  call,    \* the createSocket in progress: is_listening, the calls and addresses
           \* that remain, fd
  lost     \* descriptors left open that no variable of the program holds

socketVars == <<made, call, lost>>

-----------------------------------------------------------------------------
Fds == 0 .. MaxFd
Closed == {}
Open == {d \in Fds : made[d] # Closed}
FreeFds == Fds \ Open
Invalid == -1

(* The calls for one address, in the order of the code.                    *)
SystemCalls(is_listening) ==
  IF is_listening
  THEN <<"socket", "setNonBlocking", "setNoDelay", "SO_REUSEADDR", "bind", "listen",
         "SO_TIMESTAMP">>
  ELSE <<"socket", "setNonBlocking", "setNoDelay", "connect", "SO_TIMESTAMP">>

CallNames == {"socket", "setNonBlocking", "setNoDelay", "connect", "SO_REUSEADDR", "bind",
              "listen", "SO_TIMESTAMP"}

NoCall == [calls |-> <<>>, addresses |-> 0, fd |-> Invalid, is_listening |-> FALSE]
InProgress == call.addresses > 0

CreateSocketTypeOK ==
  /\ made \in [Fds -> SUBSET CallNames]
  /\ call \in [calls : Seq(CallNames), addresses : 0 .. MaxAddresses,
               fd : Fds \cup {Invalid}, is_listening : BOOLEAN]
  /\ lost \in SUBSET Fds

InitSockets ==
  /\ made = [d \in Fds |-> Closed]
  /\ call = NoCall
  /\ lost = {}

-----------------------------------------------------------------------------
(* getaddrinfo gives at least one address.                                 *)
Begins(is_listening, addresses) ==
  call' = [calls |-> SystemCalls(is_listening), addresses |-> addresses, fd |-> Invalid,
           is_listening |-> is_listening]

(* socket(): the lowest descriptor that is free.                           *)
OpensDescriptor ==
  /\ call.calls # <<>> /\ Head(call.calls) = "socket"
  /\ \E d \in FreeFds :
       /\ \A e \in FreeFds : d <= e
       /\ made' = [made EXCEPT ![d] = {"socket"}]
       /\ call' = [call EXCEPT !.fd = d, !.calls = Tail(@)]
  /\ UNCHANGED lost

(* Every other call, on the descriptor.                                    *)
Succeeds(name) ==
  /\ call.calls # <<>> /\ Head(call.calls) = name /\ name # "socket"
  /\ made' = [made EXCEPT ![call.fd] = @ \cup {name}]
  /\ call' = [call EXCEPT !.calls = Tail(@)]
  /\ UNCHANGED lost

(* The loop goes on to the next address without looking back.              *)
NextAddress ==
  /\ InProgress /\ call.calls = <<>> /\ call.addresses > 1
  /\ call' = [call EXCEPT !.addresses = @ - 1, !.calls = SystemCalls(call.is_listening)]
  /\ lost' = lost \cup {call.fd}
  /\ UNCHANGED made

ReturnsDescriptor ==
  /\ InProgress /\ call.calls = <<>> /\ call.addresses = 1
  /\ call' = NoCall
  /\ UNCHANGED <<made, lost>>

(* A call fails: -1.  socket() itself has nothing to leave behind.         *)
ReturnsFailure ==
  /\ InProgress /\ call.calls # <<>>
  /\ call' = NoCall
  /\ lost' = IF Head(call.calls) = "socket" THEN lost ELSE lost \cup {call.fd}
  /\ UNCHANGED made
=============================================================================
