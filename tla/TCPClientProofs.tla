--------------------------- MODULE TCPClientProofs ---------------------------
(***************************************************************************)
(* TCPClient for any number of descriptors, addresses, connects and bytes  *)
(* and for buffers of every size: types, descriptors, and that each        *)
(* direction implements ByteStream.                                        *)
(***************************************************************************)
EXTENDS TCPClient, TCPSocketProofs

(* The createSocket in progress has made its first k calls on one          *)
(* descriptor, which nothing else holds.                                   *)
Progress(k) ==
  LET calls == SystemCalls(call.is_listening)
  IN  /\ call.calls = SubSeq(calls, k + 1, Len(calls))
      /\ k = 0 => Open = lost
      /\ k > 0 => /\ call.fd \in Fds \ lost /\ Open = lost \cup {call.fd}
                  /\ made[call.fd] = {calls[i] : i \in 1 .. k}

CallInv ==
  /\ ~ InProgress => call.calls = <<>> /\ call.fd = Invalid
  /\ InProgress =>
       fd_ = Invalid /\ \E k \in 0 .. Len(SystemCalls(call.is_listening)) : Progress(k)

(* What concerns descriptors, and what concerns bytes.                     *)
SocketInv ==
  CreateSocketTypeOK /\ fd_ \in Fds \cup {Invalid} /\ DescriptorsAccountedFor /\ CallInv

LinkInv == link = "none" => arrived = <<>> /\ leaving = <<>>

StreamInv == StreamTypeOK /\ LinkInv

-----------------------------------------------------------------------------
(* createSocket's calls begin with the one that makes the descriptor.      *)
LEMMA CallSequence ==
  ASSUME NEW is_listening \in BOOLEAN
  PROVE  LET calls == SystemCalls(is_listening)
         IN  /\ calls \in Seq(CallNames) /\ Len(calls) \in Nat \ {0}
             /\ DOMAIN calls = 1 .. Len(calls)
             /\ calls[1] = "socket" /\ \A i \in 2 .. Len(calls) : calls[i] # "socket"
             /\ SubSeq(calls, 1, Len(calls)) = calls
<1> DEFINE calls == SystemCalls(is_listening)
<1>1. /\ calls \in Seq(CallNames) /\ Len(calls) \in Nat \ {0}
      /\ calls[1] = "socket" /\ \A i \in 2 .. Len(calls) : calls[i] # "socket"
  <2>1. CASE is_listening
    <3> DEFINE seven == <<"socket", "setNonBlocking", "setNoDelay", "SO_REUSEADDR", "bind",
                          "listen", "SO_TIMESTAMP">>
    <3>1. calls = seven
      BY <2>1 DEF SystemCalls
    <3>2. seven \in Seq(CallNames) /\ Len(seven) = 7
      BY DEF CallNames
    <3>3. /\ seven[1] = "socket" /\ seven[2] # "socket" /\ seven[3] # "socket"
          /\ seven[4] # "socket" /\ seven[5] # "socket" /\ seven[6] # "socket"
          /\ seven[7] # "socket"
      OBVIOUS
    <3> HIDE DEF seven, calls
    <3>4. \A i \in 2 .. 7 : i = 2 \/ i = 3 \/ i = 4 \/ i = 5 \/ i = 6 \/ i = 7
      OBVIOUS
    <3> QED
      BY <3>1, <3>2, <3>3, <3>4
  <2>2. CASE ~ is_listening
    <3> DEFINE five == <<"socket", "setNonBlocking", "setNoDelay", "connect", "SO_TIMESTAMP">>
    <3>1. calls = five
      BY <2>2 DEF SystemCalls
    <3>2. five \in Seq(CallNames) /\ Len(five) = 5
      BY DEF CallNames
    <3>3. /\ five[1] = "socket" /\ five[2] # "socket" /\ five[3] # "socket"
          /\ five[4] # "socket" /\ five[5] # "socket"
      OBVIOUS
    <3> HIDE DEF five, calls
    <3>4. \A i \in 2 .. 5 : i = 2 \/ i = 3 \/ i = 4 \/ i = 5
      OBVIOUS
    <3> QED
      BY <3>1, <3>2, <3>3, <3>4
  <2> QED
    BY <2>1, <2>2
<1> HIDE DEF calls
<1>2. DOMAIN calls = 1 .. Len(calls) /\ SubSeq(calls, 1, Len(calls)) = calls
  BY <1>1, LenProperties, SubSeqFull
<1> QED
  BY <1>1, <1>2 DEF calls

(* How far the calls have come is seen from those that remain.             *)
LEMMA WhereInCall ==
  ASSUME SocketInv, InProgress
  PROVE  LET calls == SystemCalls(call.is_listening)
         IN  \E k \in 0 .. Len(calls) :
               /\ Progress(k) /\ (call.calls = <<>> => k = Len(calls))
               /\ call.calls # <<>> =>
                    /\ k < Len(calls) /\ Head(call.calls) = calls[k + 1]
                    /\ Tail(call.calls) = SubSeq(calls, k + 2, Len(calls))
                    /\ (k = 0 <=> Head(call.calls) = "socket")
<1> DEFINE calls == SystemCalls(call.is_listening)
<1>1. call.is_listening \in BOOLEAN
  BY DEF SocketInv, CreateSocketTypeOK
<1>2. /\ calls \in Seq(CallNames) /\ Len(calls) \in Nat \ {0} /\ calls[1] = "socket"
      /\ \A i \in 2 .. Len(calls) : calls[i] # "socket"
  BY <1>1, CallSequence
<1>3. PICK k \in 0 .. Len(calls) : Progress(k)
  BY DEF SocketInv, CallInv
<1>4. call.calls = SubSeq(calls, k + 1, Len(calls))
  BY <1>3 DEF Progress
<1> HIDE DEF calls
<1>5. CASE k = Len(calls)
  <2>1. call.calls = <<>>
    BY <1>2, <1>4, <1>5, SubSeqEmpty
  <2> QED
    BY <1>3, <1>5, <2>1 DEF calls
<1>6. CASE k # Len(calls)
  <2>1. k + 1 \in 1 .. Len(calls) /\ Len(calls) \in k + 1 .. Len(calls)
    BY <1>2, <1>6
  <2>2. Head(call.calls) = calls[k + 1] /\ Tail(call.calls) = SubSeq(calls, (k + 1) + 1, Len(calls))
    BY <1>2, <1>4, <2>1, HeadTailOfSubSeq
  <2>3. call.calls # <<>>
    <3>1. \A i \in k + 1 .. Len(calls) : calls[i] \in CallNames
      BY <1>2, <2>1, ElementOfSeq
    <3>2. Len(call.calls) > 0
      BY <1>2, <1>4, <2>1, <3>1, SubSeqProperties
    <3> QED
      BY <3>2, EmptySeq
  <2>4. k = 0 <=> Head(call.calls) = "socket"
    BY <1>2, <2>1, <2>2
  <2>5. (k + 1) + 1 = k + 2
    OBVIOUS
  <2> QED
    BY <1>3, <2>1, <2>2, <2>3, <2>4, <2>5 DEF calls
<1> QED
  BY <1>5, <1>6

-----------------------------------------------------------------------------
(* Closing the program's descriptor leaves those that were lost.           *)
LEMMA ClosedLeavesLost ==
  ASSUME SocketInv, ~ InProgress, DescriptorClosed
  PROVE  made' \in [Fds -> SUBSET CallNames] /\ Open' = lost
<1>1. /\ made \in [Fds -> SUBSET CallNames] /\ fd_ \in Fds \cup {Invalid} /\ Invalid \notin Fds
      /\ Open = lost \cup ({fd_} \ {Invalid}) /\ fd_ \notin lost
  BY CreateSocketAssumption DEF SocketInv, CreateSocketTypeOK, DescriptorsAccountedFor, Fds, Invalid
<1>2. CASE fd_ = Invalid
  BY <1>1, <1>2 DEF DescriptorClosed, Open
<1>3. CASE fd_ # Invalid
  <2>1. made' = [made EXCEPT ![fd_] = {}] /\ fd_ \in Fds
    BY <1>1, <1>3 DEF DescriptorClosed, Closed
  <2>2. Open' = Open \ {fd_}
    BY <1>1, <2>1 DEF Open, Closed
  <2> QED
    BY <1>1, <1>3, <2>1, <2>2
<1> QED
  BY <1>2, <1>3

LEMMA CloseSocketStep ==
  ASSUME SocketInv, Close
  PROVE  SocketInv'
<1>1. /\ DescriptorClosed /\ fd_' = Invalid /\ UNCHANGED <<call, lost>> /\ ~ InProgress
  BY DEF Close, Idle
<1>2. made' \in [Fds -> SUBSET CallNames] /\ Open' = lost
  BY <1>1, ClosedLeavesLost
<1>3. Invalid \notin Fds
  BY CreateSocketAssumption DEF Fds, Invalid
<1>4. CreateSocketTypeOK'
  BY <1>1, <1>2 DEF SocketInv, CreateSocketTypeOK
<1>5. DescriptorsAccountedFor'
  BY <1>1, <1>2, <1>3 DEF SocketInv, CreateSocketTypeOK, DescriptorsAccountedFor
<1>6. CallInv'
  BY <1>1 DEF SocketInv, CallInv, InProgress
<1> QED
  BY <1>1, <1>4, <1>5, <1>6 DEF SocketInv

(* connect begins with every descriptor lost that is still open.           *)
LEMMA ConnectSocketStep ==
  ASSUME SocketInv, NEW is_listening \in BOOLEAN, NEW addresses \in 1 .. MaxAddresses,
         Connect(is_listening, addresses)
  PROVE  SocketInv'
<1> DEFINE calls == SystemCalls(is_listening)
<1>1. /\ DescriptorClosed /\ fd_' = Invalid /\ lost' = lost /\ ~ InProgress
      /\ call' = [calls |-> calls, addresses |-> addresses, fd |-> Invalid,
                  is_listening |-> is_listening]
  BY DEF Connect, Idle, Begins
<1>2. made' \in [Fds -> SUBSET CallNames] /\ Open' = lost
  BY <1>1, ClosedLeavesLost
<1>3. calls \in Seq(CallNames) /\ Len(calls) \in Nat /\ SubSeq(calls, 1, Len(calls)) = calls
  BY CallSequence
<1> HIDE DEF calls
<1>4. CreateSocketTypeOK'
  BY <1>1, <1>2, <1>3, CreateSocketAssumption DEF SocketInv, CreateSocketTypeOK
<1>5. InProgress'
  BY <1>1 DEF InProgress
<1>6. CallInv'
  <2>1. 0 \in 0 .. Len(SystemCalls(call'.is_listening)) /\ Progress(0)'
    BY <1>1, <1>2, <1>3 DEF Progress, calls
  <2> QED
    BY <1>1, <1>5, <2>1 DEF CallInv
<1> QED
  BY <1>1, <1>4, <1>5, <1>6 DEF SocketInv, DescriptorsAccountedFor

LEMMA OpensDescriptorStep ==
  ASSUME SocketInv, OpensDescriptor, fd_' = fd_
  PROVE  SocketInv'
<1> DEFINE calls == SystemCalls(call.is_listening)
<1>1. PICK d \in FreeFds :
        /\ made' = [made EXCEPT ![d] = {"socket"}]
        /\ call' = [call EXCEPT !.fd = d, !.calls = Tail(@)]
        /\ lost' = lost /\ call.calls # <<>> /\ Head(call.calls) = "socket"
  BY DEF OpensDescriptor
<1>2. InProgress /\ fd_ = Invalid
  BY <1>1 DEF SocketInv, CallInv
<1>3. calls[1] = "socket" /\ calls \in Seq(CallNames) /\ Len(calls) \in Nat
  BY CallSequence DEF SocketInv, CreateSocketTypeOK
<1>4. Open = lost /\ 1 \in 0 .. Len(calls) /\ Tail(call.calls) = SubSeq(calls, 2, Len(calls))
  <2>1. PICK k \in 0 .. Len(calls) :
          /\ Progress(k) /\ k < Len(calls) /\ k = 0
          /\ Tail(call.calls) = SubSeq(calls, k + 2, Len(calls))
    BY <1>1, <1>2, WhereInCall
  <2> QED
    BY <1>3, <2>1 DEF Progress
<1>5. /\ call' \in [calls : Seq(CallNames), addresses : 0 .. MaxAddresses,
                     fd : Fds \cup {Invalid}, is_listening : BOOLEAN]
      /\ call'.fd = d /\ call'.calls = Tail(call.calls) /\ call'.addresses = call.addresses
      /\ call'.is_listening = call.is_listening
  <2>1. Tail(call.calls) \in Seq(CallNames)
    BY <1>1, HeadTailProperties DEF SocketInv, CreateSocketTypeOK
  <2> QED
    BY <1>1, <2>1 DEF SocketInv, CreateSocketTypeOK, FreeFds
<1>6. d \in Fds \ lost /\ Open' = lost \cup {d} /\ made'[d] = {calls[i] : i \in 1 .. 1}
  BY <1>1, <1>3, <1>4 DEF SocketInv, CreateSocketTypeOK, FreeFds, Open, Closed
<1>7. CreateSocketTypeOK'
  BY <1>1, <1>5, <1>6 DEF SocketInv, CreateSocketTypeOK, CallNames
<1>8. InProgress'
  BY <1>2, <1>5 DEF InProgress
<1> HIDE DEF calls
<1>9. CallInv'
  <2>1. Progress(1)'
    BY <1>1, <1>4, <1>5, <1>6 DEF Progress, calls
  <2>2. 1 \in 0 .. Len(SystemCalls(call'.is_listening))
    BY <1>4, <1>5 DEF calls
  <2> QED
    BY <1>2, <1>8, <2>1, <2>2 DEF CallInv
<1> QED
  BY <1>2, <1>7, <1>8, <1>9 DEF SocketInv, DescriptorsAccountedFor

LEMMA SucceedsStep ==
  ASSUME SocketInv, NEW name \in CallNames, Succeeds(name), fd_' = fd_
  PROVE  SocketInv'
<1> DEFINE calls == SystemCalls(call.is_listening)
<1>1. /\ made' = [made EXCEPT ![call.fd] = @ \cup {name}]
      /\ call' = [call EXCEPT !.calls = Tail(@)]
      /\ lost' = lost /\ call.calls # <<>> /\ Head(call.calls) = name /\ name # "socket"
  BY DEF Succeeds
<1>2. InProgress /\ fd_ = Invalid
  BY <1>1 DEF SocketInv, CallInv
<1>3. PICK k \in 0 .. Len(calls) :
        /\ Progress(k) /\ k < Len(calls) /\ k # 0 /\ name = calls[k + 1]
        /\ Tail(call.calls) = SubSeq(calls, k + 2, Len(calls))
  BY <1>1, <1>2, WhereInCall
<1>4. calls \in Seq(CallNames) /\ Len(calls) \in Nat
  BY CallSequence DEF SocketInv, CreateSocketTypeOK
<1>5. /\ call' \in [calls : Seq(CallNames), addresses : 0 .. MaxAddresses,
                     fd : Fds \cup {Invalid}, is_listening : BOOLEAN]
      /\ call'.fd = call.fd /\ call'.calls = Tail(call.calls)
      /\ call'.addresses = call.addresses /\ call'.is_listening = call.is_listening
  <2>1. Tail(call.calls) \in Seq(CallNames)
    BY <1>1, HeadTailProperties DEF SocketInv, CreateSocketTypeOK
  <2> QED
    BY <1>1, <2>1 DEF SocketInv, CreateSocketTypeOK
<1>6. /\ call.fd \in Fds \ lost /\ Open = lost \cup {call.fd}
      /\ made[call.fd] = {calls[i] : i \in 1 .. k}
  BY <1>3, <1>4 DEF Progress
<1> HIDE DEF calls
<1>7. Open' = Open /\ made'[call.fd] = {calls[i] : i \in 1 .. k + 1}
  <2>1. made'[call.fd] = {calls[i] : i \in 1 .. k} \cup {calls[k + 1]}
    BY <1>1, <1>3, <1>6 DEF SocketInv, CreateSocketTypeOK
  <2>2. {calls[i] : i \in 1 .. k} \cup {calls[k + 1]} = {calls[i] : i \in 1 .. k + 1}
    BY <1>3, <1>4
  <2>3. Open' = Open
    BY <1>1, <1>6 DEF SocketInv, CreateSocketTypeOK, Open, Closed
  <2> QED
    BY <2>1, <2>2, <2>3
<1>8. CreateSocketTypeOK'
  BY <1>1, <1>5, <1>6 DEF SocketInv, CreateSocketTypeOK
<1>9. InProgress' /\ CallInv'
  <2>1. InProgress'
    BY <1>2, <1>5 DEF InProgress
  <2>2. k + 1 \in 0 .. Len(SystemCalls(call'.is_listening))
    BY <1>3, <1>4, <1>5 DEF calls
  <2>3. Progress(k + 1)'
    <3>1. (k + 1) + 1 = k + 2 /\ k + 1 # 0
      BY <1>3, <1>4
    <3>2. call'.calls = SubSeq(calls, (k + 1) + 1, Len(calls))
      BY <1>3, <1>5, <3>1
    <3>3. /\ call'.fd \in Fds \ lost' /\ Open' = lost' \cup {call'.fd}
          /\ made'[call'.fd] = {calls[i] : i \in 1 .. k + 1}
      BY <1>1, <1>5, <1>6, <1>7
    <3>4. SystemCalls(call'.is_listening) = calls
      BY <1>5 DEF calls
    <3> QED
      BY <3>1, <3>2, <3>3, <3>4 DEF Progress
  <2> QED
    BY <1>2, <2>1, <2>2, <2>3 DEF CallInv
<1> QED
  BY <1>2, <1>8, <1>9 DEF SocketInv, DescriptorsAccountedFor

LEMMA NextAddressStep ==
  ASSUME SocketInv, NextAddress, fd_' = fd_
  PROVE  SocketInv'
<1> DEFINE calls == SystemCalls(call.is_listening)
<1>1. /\ InProgress /\ call.calls = <<>> /\ call.addresses > 1
      /\ call' = [call EXCEPT !.addresses = @ - 1, !.calls = calls]
      /\ lost' = lost \cup {call.fd} /\ made' = made
  BY DEF NextAddress
<1>2. /\ calls \in Seq(CallNames) /\ Len(calls) \in Nat \ {0}
      /\ SubSeq(calls, 1, Len(calls)) = calls
  BY CallSequence DEF SocketInv, CreateSocketTypeOK
<1>3. Progress(Len(calls)) /\ fd_ = Invalid
  BY <1>1, WhereInCall DEF SocketInv, CallInv
<1>4. call.fd \in Fds /\ Open = lost'
  BY <1>1, <1>2, <1>3 DEF Progress
<1>5. /\ call' \in [calls : Seq(CallNames), addresses : 0 .. MaxAddresses,
                     fd : Fds \cup {Invalid}, is_listening : BOOLEAN]
      /\ call'.calls = calls /\ call'.addresses > 0 /\ call'.is_listening = call.is_listening
  <2>1. call.addresses - 1 \in 0 .. MaxAddresses /\ call.addresses - 1 > 0
    BY <1>1, CreateSocketAssumption DEF SocketInv, CreateSocketTypeOK
  <2> HIDE DEF calls
  <2> QED
    BY <1>1, <1>2, <2>1 DEF SocketInv, CreateSocketTypeOK
<1> HIDE DEF calls
<1>6. CreateSocketTypeOK'
  BY <1>1, <1>4, <1>5 DEF SocketInv, CreateSocketTypeOK
<1>7. InProgress' /\ CallInv'
  <2>1. 0 \in 0 .. Len(SystemCalls(call'.is_listening)) /\ Progress(0)'
    BY <1>1, <1>2, <1>4, <1>5 DEF Progress, Open, calls
  <2> QED
    BY <1>3, <1>5, <2>1 DEF CallInv, InProgress
<1> QED
  BY <1>3, <1>6, <1>7 DEF SocketInv, DescriptorsAccountedFor

(* The descriptor createSocket returns has been through all its calls.     *)
LEMMA ReturnsDescriptorStep ==
  ASSUME SocketInv, ReturnsDescriptor, fd_' = call.fd
  PROVE  SocketInv'
<1> DEFINE calls == SystemCalls(call.is_listening)
<1>1. /\ InProgress /\ call.calls = <<>> /\ call' = NoCall /\ UNCHANGED <<made, lost>>
  BY DEF ReturnsDescriptor
<1>2. Len(calls) \in Nat \ {0} /\ DOMAIN calls = 1 .. Len(calls) /\ call.is_listening \in BOOLEAN
  BY CallSequence DEF SocketInv, CreateSocketTypeOK
<1>3. Progress(Len(calls))
  BY <1>1, WhereInCall
<1>4. /\ fd_' \in Fds \ lost /\ Open = lost \cup {fd_'}
      /\ made[fd_'] = {calls[i] : i \in DOMAIN calls} /\ Invalid \notin Fds
  BY <1>2, <1>3, CreateSocketAssumption DEF Progress, Fds, Invalid
<1>5. CreateSocketTypeOK' /\ CallInv'
  <2>1. <<>> \in Seq(CallNames)
    BY EmptySeq
  <2> QED
    BY <1>1, <2>1, CreateSocketAssumption
    DEF SocketInv, CreateSocketTypeOK, CallInv, InProgress, NoCall
<1>6. DescriptorsAccountedFor'
  BY <1>1, <1>2, <1>4 DEF DescriptorsAccountedFor, Open
<1> QED
  BY <1>4, <1>5, <1>6 DEF SocketInv

LEMMA ReturnsFailureStep ==
  ASSUME SocketInv, ReturnsFailure, fd_' = Invalid
  PROVE  SocketInv'
<1> DEFINE calls == SystemCalls(call.is_listening)
<1>1. /\ InProgress /\ call.calls # <<>> /\ call' = NoCall /\ made' = made
      /\ lost' = IF Head(call.calls) = "socket" THEN lost ELSE lost \cup {call.fd}
  BY DEF ReturnsFailure
<1>2. Len(calls) \in Nat
  BY CallSequence DEF SocketInv, CreateSocketTypeOK
<1>3. PICK k \in 0 .. Len(calls) : Progress(k) /\ (k = 0 <=> Head(call.calls) = "socket")
  BY <1>1, WhereInCall
<1>4. Open = lost' /\ lost' \in SUBSET Fds /\ Invalid \notin Fds
  <2>1. Open = lost'
    <3>1. CASE k = 0
      BY <1>1, <1>3, <3>1 DEF Progress
    <3>2. CASE k > 0
      BY <1>1, <1>3, <3>2 DEF Progress
    <3> QED
      BY <1>2, <3>1, <3>2
  <2>2. Open \in SUBSET Fds /\ Invalid \notin Fds
    BY CreateSocketAssumption DEF Open, Fds, Invalid
  <2> QED
    BY <2>1, <2>2
<1>5. CreateSocketTypeOK' /\ CallInv'
  <2>1. <<>> \in Seq(CallNames)
    BY EmptySeq
  <2> QED
    BY <1>1, <1>4, <2>1, CreateSocketAssumption
    DEF SocketInv, CreateSocketTypeOK, CallInv, InProgress, NoCall
<1>6. DescriptorsAccountedFor'
  BY <1>1, <1>4 DEF DescriptorsAccountedFor, Open
<1> QED
  BY <1>5, <1>6 DEF SocketInv

(* No other action has to do with descriptors.                             *)
LEMMA SocketStep ==
  ASSUME SocketInv, [Next]_vars
  PROVE  SocketInv'
<1>1. CASE Close
  BY <1>1, CloseSocketStep
<1>2. ASSUME NEW is_listening \in BOOLEAN, NEW addresses \in 1 .. MaxAddresses,
             Connect(is_listening, addresses)
      PROVE  SocketInv'
  BY <1>2, ConnectSocketStep
<1>3. CASE CallsKernel
  <2>1. fd_' = fd_
    BY <1>3 DEF CallsKernel, programVars
  <2> QED
    BY <1>3, <2>1, OpensDescriptorStep, SucceedsStep, NextAddressStep DEF CallsKernel
<1>4. CASE StartsConnecting
  <2>1. Succeeds("connect") /\ fd_' = fd_ /\ "connect" \in CallNames
    BY <1>4 DEF StartsConnecting, programVars, CallNames
  <2> QED
    BY <2>1, SucceedsStep
<1>5. CASE ConnectReturns
  BY <1>5, ReturnsDescriptorStep, ReturnsFailureStep DEF ConnectReturns
<1>6. ASSUME UNCHANGED <<made, call, lost, fd_>> PROVE SocketInv'
  <2>1. CreateSocketTypeOK' /\ CallInv'
    <3>1. \A k : Progress(k)' <=> Progress(k)
      BY <1>6 DEF Progress, Open
    <3> QED
      BY <1>6, <3>1 DEF SocketInv, CreateSocketTypeOK, CallInv, InProgress
  <2>2. DescriptorsAccountedFor'
    BY <1>6 DEF SocketInv, DescriptorsAccountedFor, InProgress, Open
  <2> QED
    BY <1>6, <2>1, <2>2 DEF SocketInv
<1>7. CASE (\E n \in 1 .. MaxBytes : Send(n)) \/ Receives \/ Sends \/ Exited \/ UNCHANGED vars
  BY <1>6, <1>7 DEF Send, Receives, Sends, Exited, vars, programVars, socketVars
<1>8. CASE PeerAccepts \/ PeerSends \/ PeerCloses \/ PeerResets \/ PeerReads
  BY <1>6, <1>8
  DEF PeerAccepts, PeerSends, PeerCloses, PeerResets, PeerReads, programVars, socketVars
<1> QED
  BY <1>1, <1>2, <1>3, <1>4, <1>5, <1>7, <1>8 DEF Next, CreateSocketSteps

-----------------------------------------------------------------------------
(* A connection that ends takes what the kernel has with it.               *)
LEMMA DisconnectedEffect ==
  ASSUME StreamInv, NEW next, Disconnected(next)
  PROVE  /\ link' = next /\ arrived' = <<>> /\ leaving' = <<>>
         /\ \/ ended' = ended /\ arrived = <<>> /\ leaving = <<>>
            \/ ended' = ended + 1
BY DEF StreamInv, LinkInv, Disconnected

(* recvmsg and the callback move a piece from the kernel to what came out. *)
LEMMA ReceivesEffect ==
  ASSUME StreamInv, Receives
  PROVE  /\ \E n \in 0 .. Len(arrived) :
              /\ arrived' = After(arrived, n)
              /\ taken' \o socket'.recv_buffer_ =
                   (taken \o socket.recv_buffer_) \o UpTo(arrived, n)
         /\ socket' \in Sockets /\ InBounds(socket') /\ taken' \in Seq(Nat)
         /\ socket'.send_buffer_ = socket.send_buffer_
<1> DEFINE n == Received(socket, arrived)
           got == WithReceived(socket, arrived)
           piece == UpTo(arrived, n)
<1>1. /\ socket \in Sockets /\ InBounds(socket) /\ arrived \in Seq(Nat) /\ taken \in Seq(Nat)
      /\ socket.recv_buffer_ \in Seq(Nat)
  BY DEF StreamInv, StreamTypeOK, Sockets
<1>2. /\ n \in 0 .. Len(arrived) /\ got \in Sockets /\ InBounds(got)
      /\ got.recv_buffer_ = socket.recv_buffer_ \o piece
      /\ got.send_buffer_ = socket.send_buffer_
  BY <1>1, ReceivedProperties
<1>3. /\ arrived' = After(arrived, n)
      /\ \/ socket' = Emptied(got) /\ taken' = taken \o got.recv_buffer_
         \/ socket' = got /\ taken' = taken
  BY DEF Receives
<1> HIDE DEF n, got
<1>4. piece \in Seq(Nat)
  BY <1>1, <1>2, PieceProperties
<1> HIDE DEF piece
<1>5. taken \o (socket.recv_buffer_ \o piece) = (taken \o socket.recv_buffer_) \o piece
  <2> DEFINE buffer == socket.recv_buffer_
  <2>1. buffer \in Seq(Nat)
    BY <1>1
  <2> HIDE DEF buffer
  <2>2. taken \o (buffer \o piece) = (taken \o buffer) \o piece
    BY <1>1, <1>4, <2>1
  <2> QED
    BY <2>2 DEF buffer
<1>6. CASE socket' = Emptied(got) /\ taken' = taken \o got.recv_buffer_
  <2>1. got.recv_buffer_ \in Seq(Nat)
    BY <1>2 DEF Sockets
  <2>2. taken' \in Seq(Nat)
    BY <1>1, <1>6, <2>1, ConcatProperties
  <2>3. /\ socket' \in Sockets /\ socket'.recv_buffer_ = <<>>
        /\ socket'.send_buffer_ = socket.send_buffer_
    BY <1>2, <1>6, EmptiedProperties
  <2>4. InBounds(socket')
    BY <1>2, <2>3, EmptySeq, TCPBufferAssumption DEF InBounds
  <2>5. taken' \o socket'.recv_buffer_ = taken'
    BY <2>2, <2>3, ConcatEmptySeq
  <2> QED
    BY <1>2, <1>3, <1>5, <1>6, <2>2, <2>3, <2>4, <2>5 DEF piece
<1>7. CASE socket' = got /\ taken' = taken
  BY <1>1, <1>2, <1>3, <1>5, <1>7 DEF piece
<1> QED
  BY <1>3, <1>6, <1>7

(* ::send moves a piece from the buffer to the kernel, none without a      *)
(* connection.                                                             *)
LEMMA SendsEffect ==
  ASSUME StreamInv, Sends
  PROVE  /\ \E n \in 0 .. Len(socket.send_buffer_) :
              /\ leaving' = leaving \o UpTo(socket.send_buffer_, n)
              /\ socket'.send_buffer_ = After(socket.send_buffer_, n)
         /\ socket' \in Sockets /\ InBounds(socket')
         /\ leaving' \in Seq(Nat) /\ Len(leaving') <= KernelBuffer
         /\ link = "none" => leaving' = leaving
         /\ socket'.recv_buffer_ = socket.recv_buffer_
<1> DEFINE n == Sent(socket, Room)
           buffer == socket.send_buffer_
<1>1. /\ socket \in Sockets /\ InBounds(socket) /\ buffer \in Seq(Nat)
      /\ leaving \in Seq(Nat) /\ Len(leaving) \in Nat /\ Len(leaving) <= KernelBuffer
      /\ Len(buffer) \in Nat /\ Len(buffer) <= TCPBufferSize /\ KernelBuffer \in Nat
  BY LenProperties, TCPClientAssumption DEF StreamInv, StreamTypeOK, Sockets, InBounds
<1>2. Room \in Nat /\ Room <= KernelBuffer - Len(leaving) /\ (link = "none" => Room = 0)
  BY <1>1 DEF Room
<1>3. n \in 0 .. Len(buffer) /\ n <= Room
  BY <1>1, <1>2, SentProperties
<1>4. /\ leaving' = leaving \o UpTo(buffer, n)
      /\ \/ n = Len(buffer) /\ socket' = Flushed(socket)
         \/ socket' = [socket EXCEPT !.send_buffer_ = After(@, n)]
  BY DEF Sends, AllSent
<1> HIDE DEF n
<1>5. /\ UpTo(buffer, n) \in Seq(Nat) /\ Len(UpTo(buffer, n)) = n
      /\ After(buffer, n) \in Seq(Nat) /\ Len(After(buffer, n)) = Len(buffer) - n
  BY <1>1, <1>3, PieceProperties
<1>6. leaving' \in Seq(Nat) /\ Len(leaving') <= KernelBuffer
  <2>1. leaving' \in Seq(Nat) /\ Len(leaving') = Len(leaving) + n
    <3> DEFINE piece == UpTo(buffer, n)
    <3>1. piece \in Seq(Nat) /\ Len(piece) = n /\ leaving' = leaving \o piece
      BY <1>4, <1>5
    <3> HIDE DEF piece
    <3> QED
      BY <1>1, <3>1, ConcatProperties
  <2> QED
    BY <1>1, <1>2, <1>3, <2>1
<1>7. ASSUME link = "none" PROVE leaving' = leaving
  <2>1. UpTo(buffer, n) = <<>>
    BY <1>1, <1>2, <1>3, <1>7, PieceExtremes
  <2> QED
    BY <1>1, <1>4, <2>1, ConcatEmptySeq
<1>8. /\ socket' \in Sockets /\ socket'.recv_buffer_ = socket.recv_buffer_
      /\ socket'.send_buffer_ = After(buffer, n)
  <2>1. CASE n = Len(buffer) /\ socket' = Flushed(socket)
    <3>1. After(buffer, n) = <<>>
      BY <1>1, <2>1, PieceExtremes
    <3> QED
      BY <1>1, <2>1, <3>1, FlushedProperties
  <2>2. CASE socket' = [socket EXCEPT !.send_buffer_ = After(@, n)]
    BY <1>1, <1>5, <2>2 DEF Sockets
  <2> QED
    BY <1>4, <2>1, <2>2
<1>9. InBounds(socket')
  <2>1. Len(socket'.send_buffer_) <= TCPBufferSize
    BY <1>1, <1>3, <1>5, <1>8, TCPBufferAssumption
  <2> QED
    BY <1>1, <1>8, <2>1 DEF InBounds
<1> QED
  BY <1>3, <1>4, <1>6, <1>7, <1>8, <1>9

(* send, if the buffer holds it.                                           *)
LEMMA SendEffect ==
  ASSUME StreamInv, NEW n \in 1 .. MaxBytes, Send(n)
  PROVE  /\ socket' \in Sockets /\ InBounds(socket') /\ socket'.recv_buffer_ = socket.recv_buffer_
         /\ written' \in Nat
         /\ \/ UNCHANGED <<socket, written>>
            \/ /\ written' = written + n /\ NewBytes(n) \in Seq(Nat)
               /\ socket'.send_buffer_ = socket.send_buffer_ \o NewBytes(n)
<1>1. socket \in Sockets /\ InBounds(socket) /\ written \in Nat /\ n \in Nat
  BY TCPClientAssumption DEF StreamInv, StreamTypeOK
<1>2. CASE UNCHANGED <<socket, written>>
  BY <1>1, <1>2
<1>3. CASE Fits(socket, NewBytes(n)) /\ socket' = Queued(socket, NewBytes(n)) /\ written' = written + n
  <2>1. NewBytes(n) \in Seq(Nat)
    BY <1>1 DEF NewBytes
  <2>2. /\ socket' \in Sockets /\ socket'.recv_buffer_ = socket.recv_buffer_
        /\ socket'.send_buffer_ = socket.send_buffer_ \o NewBytes(n)
    BY <1>1, <1>3, <2>1, QueuedProperties
  <2>3. Len(socket'.send_buffer_) <= TCPBufferSize
    <3>1. socket.send_buffer_ \in Seq(Nat)
      BY <1>1 DEF Sockets
    <3> QED
      BY <1>3, <2>1, <2>2, <3>1, ConcatProperties DEF Fits
  <2> QED
    BY <1>1, <1>3, <2>1, <2>2, <2>3 DEF InBounds
<1> QED
  BY <1>2, <1>3 DEF Send

-----------------------------------------------------------------------------
LEMMA StreamStep ==
  ASSUME StreamInv, [Next]_vars
  PROVE  StreamInv'
<1>1. <<>> \in Seq(Nat) /\ Len(<<>>) = 0 /\ KernelBuffer \in Nat
  BY EmptySeq, TCPClientAssumption
<1>2. ASSUME NEW next \in {"none", "connecting"}, Disconnected(next),
             UNCHANGED <<socket, callback, pc, process, written, taken, peerVars>>,
             connects' \in Nat
      PROVE  StreamInv'
  <2>1. /\ link' = next /\ arrived' = <<>> /\ leaving' = <<>>
        /\ ended' = ended \/ ended' = ended + 1
    BY <1>2, DisconnectedEffect
  <2> QED
    BY <1>1, <1>2, <2>1 DEF StreamInv, StreamTypeOK, LinkInv, peerVars
<1>3. CASE Close
  BY <1>2, <1>3 DEF Close, StreamInv, StreamTypeOK
<1>4. ASSUME NEW is_listening \in BOOLEAN, NEW addresses \in 1 .. MaxAddresses,
             Connect(is_listening, addresses)
      PROVE  StreamInv'
  BY <1>2, <1>4 DEF Connect, StreamInv, StreamTypeOK
<1>5. CASE StartsConnecting
  BY <1>2, <1>5 DEF StartsConnecting, programVars, StreamInv, StreamTypeOK
<1>6. CASE ConnectReturns
  <2>1. CASE UNCHANGED linkVars
    BY <1>6, <2>1 DEF ConnectReturns, linkVars, peerVars, StreamInv, StreamTypeOK, LinkInv
  <2>2. CASE Disconnected("none")
    BY <1>2, <1>6, <2>2 DEF ConnectReturns, StreamInv, StreamTypeOK
  <2> QED
    BY <1>6, <2>1, <2>2 DEF ConnectReturns
<1>7. ASSUME NEW n \in 1 .. MaxBytes, Send(n) PROVE StreamInv'
  <2>1. socket' \in Sockets /\ InBounds(socket') /\ written' \in Nat
    BY <1>7, SendEffect
  <2> QED
    BY <1>7, <2>1 DEF Send, linkVars, peerVars, StreamInv, StreamTypeOK, LinkInv
<1>8. CASE Receives
  <2>1. /\ socket' \in Sockets /\ InBounds(socket') /\ taken' \in Seq(Nat)
    BY <1>8, ReceivesEffect
  <2>2. arrived' \in Seq(Nat) /\ Len(arrived') <= KernelBuffer /\ (arrived = <<>> => arrived' = <<>>)
    <3>1. PICK n \in 0 .. Len(arrived) : arrived' = After(arrived, n)
      BY <1>8, ReceivesEffect
    <3>2. arrived \in Seq(Nat) /\ Len(arrived) \in Nat /\ Len(arrived) <= KernelBuffer
      BY LenProperties DEF StreamInv, StreamTypeOK
    <3>3. arrived' \in Seq(Nat) /\ Len(arrived') = Len(arrived) - n
      BY <3>1, <3>2, PieceProperties
    <3>4. arrived = <<>> => arrived' = <<>>
      BY <1>1, <3>1, <3>2, <3>3, EmptySeq
    <3> QED
      BY <1>1, <3>2, <3>3, <3>4
  <2> QED
    BY <1>8, <2>1, <2>2 DEF Receives, peerVars, StreamInv, StreamTypeOK, LinkInv
<1>9. CASE Sends
  <2>1. /\ socket' \in Sockets /\ InBounds(socket')
        /\ leaving' \in Seq(Nat) /\ Len(leaving') <= KernelBuffer
        /\ link = "none" => leaving' = leaving
    BY <1>9, SendsEffect
  <2> QED
    BY <1>9, <2>1 DEF Sends, peerVars, StreamInv, StreamTypeOK, LinkInv
<1>10. CASE PeerSends
  <2>1. arrived' \in Seq(Nat) /\ Len(arrived') <= KernelBuffer /\ peerSent' \in Nat
    <3>1. arrived \in Seq(Nat) /\ peerSent + 1 \in Nat /\ Len(arrived) \in Nat
      BY LenProperties DEF StreamInv, StreamTypeOK
    <3> QED
      BY <1>1, <1>10, <3>1, AppendProperties DEF PeerSends
  <2> QED
    BY <1>10, <2>1 DEF PeerSends, programVars, StreamInv, StreamTypeOK, LinkInv
<1>11. CASE PeerReads
  <2>1. leaving' \in Seq(Nat) /\ Len(leaving') <= KernelBuffer /\ peerGot' \in Seq(Nat)
    <3>1. /\ leaving \in Seq(Nat) /\ peerGot \in Seq(Nat) /\ Len(leaving) \in Nat
          /\ Len(leaving) <= KernelBuffer
      BY LenProperties DEF StreamInv, StreamTypeOK
    <3>2. Head(leaving) \in Nat /\ Tail(leaving) \in Seq(Nat) /\ Len(Tail(leaving)) = Len(leaving) - 1
      BY <1>11, <3>1, HeadTailProperties DEF PeerReads
    <3> QED
      BY <1>1, <1>11, <3>1, <3>2, AppendProperties DEF PeerReads
  <2> QED
    BY <1>11, <2>1 DEF PeerReads, programVars, StreamInv, StreamTypeOK, LinkInv
<1>12. CASE PeerAccepts \/ PeerCloses \/ PeerResets
  <2>1. /\ link' \in {"open", "fin", "reset"} /\ (leaving' = leaving \/ leaving' = <<>>)
        /\ (ended' = ended \/ ended' = ended + 1) /\ UNCHANGED <<programVars, arrived, peerVars>>
    BY <1>12 DEF PeerAccepts, PeerCloses, PeerResets
  <2>2. leaving' \in Seq(Nat) /\ Len(leaving') <= KernelBuffer /\ ended' \in Nat
    <3>1. leaving \in Seq(Nat) /\ Len(leaving) <= KernelBuffer /\ ended \in Nat
      BY DEF StreamInv, StreamTypeOK
    <3>2. ended' \in Nat
      BY <2>1, <3>1
    <3>3. leaving' \in Seq(Nat) /\ Len(leaving') <= KernelBuffer
      <4>1. CASE leaving' = leaving
        BY <3>1, <4>1
      <4>2. CASE leaving' = <<>>
        BY <1>1, <4>2
      <4> QED
        BY <2>1, <4>1, <4>2
    <3> QED
      BY <3>2, <3>3
  <2> QED
    BY <2>1, <2>2 DEF programVars, peerVars, StreamInv, StreamTypeOK, LinkInv
<1>13. CASE CallsKernel \/ Exited \/ UNCHANGED vars
  BY <1>13 DEF CallsKernel, Exited, vars, programVars, linkVars, peerVars, StreamInv, StreamTypeOK,
     LinkInv
<1> QED
  BY <1>3, <1>4, <1>5, <1>6, <1>7, <1>8, <1>9, <1>10, <1>11, <1>12, <1>13
  DEF Next, CreateSocketSteps

LEMMA InitInvariants == Init => SocketInv /\ StreamInv
<1> SUFFICES ASSUME Init PROVE SocketInv /\ StreamInv
  OBVIOUS
<1>1. <<>> \in Seq(Nat) /\ <<>> \in Seq(CallNames) /\ Len(<<>>) = 0
  BY EmptySeq
<1>2. Open = {} /\ Invalid \notin Fds
  BY CreateSocketAssumption DEF Init, InitSockets, Open, Fds, Invalid
<1>3. SocketInv
  BY <1>1, <1>2, CreateSocketAssumption
  DEF Init, InitSockets, NoCall, Closed, SocketInv, CreateSocketTypeOK, DescriptorsAccountedFor,
      CallInv, InProgress
<1>4. NewSocket \in Sockets /\ InBounds(NewSocket)
  BY <1>1, TCPBufferAssumption DEF NewSocket, Sockets, InBounds
<1>5. StreamInv
  BY <1>1, <1>4, TCPClientAssumption DEF Init, StreamInv, StreamTypeOK, LinkInv
<1> QED
  BY <1>3, <1>5

THEOREM Invariance == Spec => [](SocketInv /\ StreamInv)
<1> QED
  BY InitInvariants, SocketStep, StreamStep, PTL DEF Spec

-----------------------------------------------------------------------------
(* Whatever fails and whenever the peer acts, all variables keep their     *)
(* types, and both indices of the socket stay within its buffers.          *)
THEOREM TypeCorrect == Spec => []TypeOK
<1>1. SocketInv /\ StreamInv => TypeOK
  BY DEF SocketInv, StreamInv, TypeOK
<1> QED
  BY <1>1, Invariance, PTL

(* What is open between two calls is what the program holds, ready for use, *)
(* and what createSocket left behind in socket_utils.cpp:82-123.           *)
THEOREM NoDescriptorUnaccounted == Spec => []DescriptorsAccountedFor
<1>1. SocketInv => DescriptorsAccountedFor
  BY DEF SocketInv
<1> QED
  BY <1>1, Invariance, PTL

(* The steps of createSocket and descriptors out of reach.                 *)
LeaksInside ==
  Unheld' # Unheld =>
    /\ InProgress /\ call.calls # <<>> /\ fd_' = Invalid
    /\ Unheld' = Unheld \cup {call.fd}

LEMMA OpensLeaks ==
  ASSUME SocketInv, OpensDescriptor, fd_' = fd_
  PROVE  LeaksInside
<1> DEFINE calls == SystemCalls(call.is_listening)
<1>1. PICK d \in FreeFds :
        /\ made' = [made EXCEPT ![d] = {"socket"}]
        /\ call' = [call EXCEPT !.fd = d, !.calls = Tail(@)]
        /\ call.calls # <<>> /\ Head(call.calls) = "socket"
  BY DEF OpensDescriptor
<1>2. InProgress /\ fd_ = Invalid
  BY <1>1 DEF SocketInv, CallInv
<1>3. call'.fd = d /\ Invalid \notin Fds
  BY <1>1, CreateSocketAssumption DEF SocketInv, CreateSocketTypeOK, Fds, Invalid
<1>4. Open' = Open \cup {d} /\ d \notin Open /\ Open \subseteq Fds
  BY <1>1 DEF SocketInv, CreateSocketTypeOK, FreeFds, Open, Closed
<1>5. Unheld' = Open /\ Unheld = Open \ {call.fd}
  BY <1>2, <1>3, <1>4 DEF Unheld
<1> QED
  BY <1>1, <1>2, <1>5 DEF LeaksInside

LEMMA ReturnsLeaks ==
  ASSUME SocketInv, ConnectReturns
  PROVE  LeaksInside
<1>1. /\ InProgress /\ call' = NoCall /\ made' = made /\ fd_ = Invalid
      /\ \/ fd_' = call.fd
         \/ fd_' = Invalid /\ call.calls # <<>>
  BY DEF ConnectReturns, ReturnsDescriptor, ReturnsFailure, SocketInv, CallInv
<1>2. call'.fd = Invalid /\ Open' = Open
  BY <1>1 DEF NoCall, Open
<1>3. Invalid \notin Open
  BY CreateSocketAssumption DEF Open, Fds, Invalid
<1>4. CASE fd_' = call.fd
  BY <1>1, <1>2, <1>4 DEF Unheld, LeaksInside
<1>5. CASE fd_' = Invalid /\ call.calls # <<>>
  <2>1. Unheld' = Open /\ Unheld = Open \ {call.fd}
    BY <1>1, <1>2, <1>3, <1>5 DEF Unheld
  <2> QED
    BY <1>1, <1>5, <2>1 DEF LeaksInside
<1> QED
  BY <1>1, <1>4, <1>5

(* A call on the descriptor, and the way to the next address, change what  *)
(* is held in no way.                                                      *)
LEMMA CallsLeak ==
  ASSUME SocketInv, fd_' = fd_, NextAddress \/ \E name \in CallNames : Succeeds(name)
  PROVE  LeaksInside
<1>1. CASE NextAddress
  <2>1. call'.fd = call.fd /\ made' = made
    BY <1>1 DEF NextAddress, SocketInv, CreateSocketTypeOK
  <2> QED
    BY <2>1 DEF LeaksInside, Unheld, Open
<1>2. ASSUME NEW name \in CallNames, Succeeds(name) PROVE LeaksInside
  <2> DEFINE calls == SystemCalls(call.is_listening)
  <2>1. /\ made' = [made EXCEPT ![call.fd] = @ \cup {name}]
        /\ call' = [call EXCEPT !.calls = Tail(@)]
        /\ call.calls # <<>> /\ Head(call.calls) = name /\ name # "socket"
    BY <1>2 DEF Succeeds
  <2>2. InProgress
    BY <2>1 DEF SocketInv, CallInv
  <2>3. PICK k \in 0 .. Len(calls) : Progress(k) /\ k < Len(calls) /\ k # 0
    BY <2>1, <2>2, WhereInCall
  <2>4. call.fd \in Open /\ call'.fd = call.fd
    BY <2>1, <2>3 DEF Progress, SocketInv, CreateSocketTypeOK
  <2>5. Open' = Open
    BY <2>1, <2>4 DEF SocketInv, CreateSocketTypeOK, Open, Closed
  <2> QED
    BY <2>4, <2>5 DEF LeaksInside, Unheld
<1> QED
  BY <1>1, <1>2

LEMMA ClosesLeak ==
  ASSUME SocketInv, ~ InProgress, DescriptorClosed, fd_' = Invalid,
         call'.fd = Invalid
  PROVE  Unheld' = Unheld
<1>1. Open' = lost /\ call.fd = Invalid /\ Invalid \notin Fds
  BY ClosedLeavesLost, CreateSocketAssumption DEF SocketInv, CallInv, Fds, Invalid
<1>2. Open = lost \cup ({fd_} \ {Invalid}) /\ fd_ \notin lost /\ lost \subseteq Fds
  BY DEF SocketInv, DescriptorsAccountedFor, CreateSocketTypeOK
<1> QED
  BY <1>1, <1>2 DEF Unheld

LEMMA StepLeaks ==
  ASSUME SocketInv, [Next]_vars
  PROVE  [LeaksInside]_vars
<1>1. CASE Close
  <2>1. ~ InProgress /\ DescriptorClosed /\ fd_' = Invalid /\ call' = call
    BY <1>1 DEF Close, Idle
  <2>2. call'.fd = Invalid
    BY <2>1 DEF SocketInv, CallInv
  <2> QED
    BY <2>1, <2>2, ClosesLeak DEF LeaksInside
<1>2. ASSUME NEW is_listening \in BOOLEAN, NEW addresses \in 1 .. MaxAddresses,
             Connect(is_listening, addresses)
      PROVE  LeaksInside
  <2>1. ~ InProgress /\ DescriptorClosed /\ fd_' = Invalid /\ call'.fd = Invalid
    BY <1>2 DEF Connect, Idle, Begins
  <2> QED
    BY <2>1, ClosesLeak DEF LeaksInside
<1>3. CASE CallsKernel
  <2>1. fd_' = fd_
    BY <1>3 DEF CallsKernel, programVars
  <2> QED
    BY <1>3, <2>1, OpensLeaks, CallsLeak DEF CallsKernel
<1>4. CASE StartsConnecting
  <2>1. Succeeds("connect") /\ fd_' = fd_ /\ "connect" \in CallNames
    BY <1>4 DEF StartsConnecting, programVars, CallNames
  <2> QED
    BY <2>1, CallsLeak
<1>5. CASE ConnectReturns
  BY <1>5, ReturnsLeaks
<1>6. ASSUME UNCHANGED <<made, call, fd_>> PROVE LeaksInside
  BY <1>6 DEF LeaksInside, Unheld, Open
<1>7. CASE (\E n \in 1 .. MaxBytes : Send(n)) \/ Receives \/ Sends \/ Exited
  BY <1>6, <1>7 DEF Send, Receives, Sends, Exited, vars, programVars, socketVars
<1>8. CASE PeerAccepts \/ PeerSends \/ PeerCloses \/ PeerResets \/ PeerReads
  BY <1>6, <1>8
  DEF PeerAccepts, PeerSends, PeerCloses, PeerResets, PeerReads, programVars, socketVars
<1> QED
  BY <1>1, <1>2, <1>3, <1>4, <1>5, <1>7, <1>8 DEF Next, CreateSocketSteps

(* Whatever call of createSocket fails and however many addresses there    *)
(* are, the descriptors it leaves behind (socket_utils.cpp:75, 82-123) are *)
(* all that go out of reach: connect and close lose none of their own.     *)
THEOREM LeaksAreCreateSockets == Spec => OnlyCreateSocketLeaks
<1>1. SocketInv /\ [Next]_vars => [LeaksInside]_vars
  BY StepLeaks
<1>2. Spec => [][LeaksInside]_vars
  BY <1>1, Invariance, PTL DEF Spec
<1> QED
  BY <1>2 DEF OnlyCreateSocketLeaks, LeaksInside

-----------------------------------------------------------------------------
(* Both directions, step by step.  A connection that ends drops what the   *)
(* kernel has, and what the program has stays.                             *)
LEMMA OutboundInit == Init => Outbound!Init
<1>1. <<>> \o <<>> = <<>>
  BY EmptySeq, ConcatEmptySeq
<1> QED
  BY <1>1 DEF Init, NewSocket, Outbound!Init

LEMMA InboundInit == Init => Inbound!Init
<1>1. <<>> \o <<>> = <<>>
  BY EmptySeq, ConcatEmptySeq
<1> QED
  BY <1>1 DEF Init, NewSocket, Inbound!Init

LEMMA OutboundStep ==
  ASSUME StreamInv, [Next]_vars
  PROVE  [Outbound!Next]_<<written, leaving \o socket.send_buffer_, peerGot, ended>>
<1> DEFINE buffer == socket.send_buffer_
           Same == UNCHANGED <<written, leaving \o socket.send_buffer_, peerGot, ended>>
<1>1. /\ leaving \in Seq(Nat) /\ buffer \in Seq(Nat) /\ peerGot \in Seq(Nat) /\ written \in Nat
      /\ ended \in Nat /\ <<>> \in Seq(Nat)
  BY EmptySeq DEF StreamInv, StreamTypeOK, Sockets
<1>2. ASSUME leaving' = <<>>, ended' = ended + 1, UNCHANGED <<written, peerGot, socket>>
      PROVE  Outbound!End
  <2>1. <<>> \o buffer = buffer
    BY <1>1, ConcatEmptySeq
  <2> HIDE DEF buffer
  <2>2. Len(leaving) \in 0 .. Len(leaving \o buffer)
    BY <1>1, LenProperties, ConcatProperties
  <2>3. SubSeq(leaving \o buffer, Len(leaving) + 1, Len(leaving \o buffer)) = buffer
    BY <1>1, SecondOfTwo
  <2> QED
    BY <1>2, <2>1, <2>2, <2>3 DEF Outbound!End, buffer
<1>3. ASSUME NEW next, Disconnected(next), UNCHANGED <<written, peerGot, socket>>
      PROVE  Outbound!End \/ Same
  BY <1>2, <1>3, DisconnectedEffect
<1>4. CASE Close \/ StartsConnecting
  BY <1>3, <1>4 DEF Close, StartsConnecting, programVars, peerVars, Outbound!Next
<1>5. ASSUME NEW is_listening \in BOOLEAN, NEW addresses \in 1 .. MaxAddresses,
             Connect(is_listening, addresses)
      PROVE  Outbound!Next \/ Same
  BY <1>3, <1>5 DEF Connect, peerVars, Outbound!Next
<1>6. CASE ConnectReturns
  BY <1>3, <1>6 DEF ConnectReturns, linkVars, peerVars, Outbound!Next
<1>7. ASSUME NEW n \in 1 .. MaxBytes, Send(n) PROVE Outbound!Next \/ Same
  <2>1. UNCHANGED <<leaving, peerGot, ended>>
    BY <1>7 DEF Send, linkVars, peerVars
  <2>2. CASE UNCHANGED <<socket, written>>
    BY <2>1, <2>2
  <2>3. CASE /\ written' = written + n /\ NewBytes(n) \in Seq(Nat)
             /\ socket'.send_buffer_ = buffer \o NewBytes(n)
    <3> DEFINE new == NewBytes(n)
    <3>1. new = [i \in 1 .. n |-> written + i] /\ n \in 1 .. written' - written
      BY <1>1, <2>3, TCPClientAssumption DEF NewBytes
    <3>2. leaving' \o socket'.send_buffer_ = leaving \o (buffer \o new)
      BY <2>1, <2>3
    <3>3. leaving \o (buffer \o new) = (leaving \o buffer) \o new
      <4>1. leaving \in Seq(Nat) /\ buffer \in Seq(Nat) /\ new \in Seq(Nat)
        BY <1>1, <2>3
      <4> HIDE DEF new, buffer
      <4> QED
        BY <4>1, Regrouped
    <3> HIDE DEF new, buffer
    <3> QED
      BY <2>1, <2>3, <3>1, <3>2, <3>3 DEF Outbound!Next, Outbound!Write, buffer
  <2> QED
    BY <1>7, <2>2, <2>3, SendEffect
<1>8. CASE Sends
  <2>1. PICK n \in 0 .. Len(buffer) :
          leaving' = leaving \o UpTo(buffer, n) /\ socket'.send_buffer_ = After(buffer, n)
    BY <1>8, SendsEffect
  <2> DEFINE piece == UpTo(buffer, n)
             rest == After(buffer, n)
  <2>2. piece \in Seq(Nat) /\ rest \in Seq(Nat) /\ piece \o rest = buffer
    BY <1>1, PieceProperties
  <2>3. leaving' \o socket'.send_buffer_ = (leaving \o piece) \o rest
    BY <2>1
  <2>4. leaving \in Seq(Nat) /\ piece \in Seq(Nat) /\ rest \in Seq(Nat)
    BY <1>1, <2>2
  <2> HIDE DEF piece, rest, buffer
  <2>5. (leaving \o piece) \o rest = leaving \o (piece \o rest)
    BY <2>4, Regrouped
  <2> QED
    BY <1>8, <2>2, <2>3, <2>5 DEF Sends, peerVars, buffer
<1>9. CASE Receives
  BY <1>8, <1>9, ReceivesEffect DEF Receives, peerVars
<1>10. CASE PeerReads
  <2>1. /\ peerGot' = Append(peerGot, Head(leaving)) /\ leaving' = Tail(leaving)
        /\ leaving # <<>> /\ UNCHANGED <<written, socket, ended>>
    BY <1>10 DEF PeerReads, programVars
  <2> HIDE DEF buffer
  <2> DEFINE stream == leaving \o buffer
  <2>2. /\ 1 \in 1 .. Len(stream) /\ SubSeq(stream, 1, 1) = <<Head(leaving)>>
        /\ SubSeq(stream, 1 + 1, Len(stream)) = Tail(leaving) \o buffer
    BY <1>1, <2>1, FirstTaken
  <2>3. Append(peerGot, Head(leaving)) = peerGot \o <<Head(leaving)>>
    BY <1>1, <2>1, HeadTailProperties, AppendIsConcat
  <2>4. (leaving \o buffer)' = Tail(leaving) \o buffer
    BY <2>1 DEF buffer
  <2>5. peerGot' = peerGot \o SubSeq(stream, 1, 1)
    BY <2>1, <2>2, <2>3
  <2> QED
    BY <2>1, <2>2, <2>4, <2>5 DEF Outbound!Next, Outbound!Receive, buffer
<1>11. CASE PeerResets
  BY <1>2, <1>11 DEF PeerResets, programVars, peerVars, Outbound!Next
<1>12. CASE PeerAccepts \/ PeerSends \/ PeerCloses \/ CallsKernel \/ Exited \/ UNCHANGED vars
  BY <1>12 DEF PeerAccepts, PeerSends, PeerCloses, CallsKernel, Exited, vars, programVars, linkVars,
     peerVars
<1> QED
  BY <1>4, <1>5, <1>6, <1>7, <1>8, <1>9, <1>10, <1>11, <1>12 DEF Next, CreateSocketSteps

(* The peer's number, as one write of the stream.                          *)
LEMMA OneByte ==
  ASSUME StreamInv
  PROVE  Append(arrived, peerSent + 1) = arrived \o [i \in 1 .. 1 |-> peerSent + i]
<1>1. arrived \in Seq(Nat) /\ peerSent \in Nat
  BY DEF StreamInv, StreamTypeOK
<1> DEFINE byte == [i \in 1 .. 1 |-> peerSent + i]
<1>2. byte = <<peerSent + 1>>
  BY <1>1
<1>3. Append(arrived, peerSent + 1) = arrived \o <<peerSent + 1>>
  BY <1>1, AppendIsConcat
<1> QED
  BY <1>2, <1>3

LEMMA InboundStep ==
  ASSUME StreamInv, [Next]_vars
  PROVE  [Inbound!Next]_<<peerSent, arrived, taken \o socket.recv_buffer_, ended>>
<1> DEFINE Same == UNCHANGED <<peerSent, arrived, taken \o socket.recv_buffer_, ended>>
<1>1. /\ arrived \in Seq(Nat) /\ Len(arrived) \in Nat /\ peerSent \in Nat
      /\ taken \o socket.recv_buffer_ \in Seq(Nat)
  <2>1. arrived \in Seq(Nat) /\ taken \in Seq(Nat) /\ socket.recv_buffer_ \in Seq(Nat)
        /\ peerSent \in Nat
    BY DEF StreamInv, StreamTypeOK, Sockets
  <2> QED
    BY <2>1, LenProperties, ConcatProperties
<1>2. ASSUME NEW n \in 0 .. Len(arrived), arrived' = After(arrived, n), ended' = ended + 1,
             UNCHANGED <<peerSent, taken, socket>>
      PROVE  Inbound!End
  BY <1>2 DEF After, Inbound!End
<1>3. ASSUME NEW next, Disconnected(next), UNCHANGED <<peerSent, taken, socket>>
      PROVE  Inbound!End \/ Same
  <2>1. /\ arrived' = <<>>
        /\ ended' = ended + 1 \/ (arrived' = arrived /\ ended' = ended)
    BY <1>3, DisconnectedEffect
  <2>2. CASE arrived' = arrived /\ ended' = ended
    BY <1>3, <2>2
  <2>3. CASE ended' = ended + 1
    <3>1. arrived' = After(arrived, Len(arrived)) /\ Len(arrived) \in 0 .. Len(arrived)
      BY <1>1, <2>1, PieceExtremes
    <3> QED
      BY <1>2, <1>3, <2>3, <3>1
  <2> QED
    BY <2>1, <2>2, <2>3
<1>4. CASE Close \/ StartsConnecting
  BY <1>3, <1>4 DEF Close, StartsConnecting, programVars, peerVars, Inbound!Next
<1>5. ASSUME NEW is_listening \in BOOLEAN, NEW addresses \in 1 .. MaxAddresses,
             Connect(is_listening, addresses)
      PROVE  Inbound!Next \/ Same
  BY <1>3, <1>5 DEF Connect, peerVars, Inbound!Next
<1>6. CASE ConnectReturns
  BY <1>3, <1>6 DEF ConnectReturns, linkVars, peerVars, Inbound!Next
<1>7. ASSUME NEW n \in 1 .. MaxBytes, Send(n) PROVE Same
  <2>1. socket'.recv_buffer_ = socket.recv_buffer_
    BY <1>7, SendEffect
  <2> QED
    BY <1>7, <2>1 DEF Send, linkVars, peerVars
<1>8. CASE Receives
  <2>1. PICK n \in 0 .. Len(arrived) :
          /\ arrived' = After(arrived, n)
          /\ taken' \o socket'.recv_buffer_ = (taken \o socket.recv_buffer_) \o UpTo(arrived, n)
    BY <1>8, ReceivesEffect
  <2>2. UNCHANGED <<peerSent, ended>>
    BY <1>8 DEF Receives, peerVars
  <2>3. CASE n = 0
    <3>1. UpTo(arrived, n) = <<>> /\ After(arrived, n) = arrived
      BY <1>1, <2>3, PieceExtremes
    <3>2. (taken \o socket.recv_buffer_) \o <<>> = taken \o socket.recv_buffer_
      BY <1>1, ConcatEmptySeq
    <3> QED
      BY <2>1, <2>2, <3>1, <3>2
  <2>4. CASE n # 0
    <3>1. n \in 1 .. Len(arrived)
      BY <1>1, <2>4
    <3> QED
      BY <2>1, <2>2, <3>1 DEF UpTo, After, Inbound!Next, Inbound!Receive
  <2> QED
    BY <2>3, <2>4
<1>9. CASE Sends
  <2>1. socket'.recv_buffer_ = socket.recv_buffer_
    BY <1>9, SendsEffect
  <2> QED
    BY <1>9, <2>1 DEF Sends, peerVars
<1>10. CASE PeerSends
  <2>1. /\ arrived' = arrived \o [i \in 1 .. 1 |-> peerSent + i] /\ peerSent' = peerSent + 1
        /\ UNCHANGED <<taken \o socket.recv_buffer_, ended>>
    BY <1>10, OneByte DEF PeerSends, programVars
  <2>2. 1 \in 1 .. peerSent' - peerSent
    BY <1>1, <2>1
  <2> QED
    BY <2>1, <2>2 DEF Inbound!Next, Inbound!Write
<1>11. CASE PeerResets
  <2>1. arrived' = After(arrived, 0) /\ 0 \in 0 .. Len(arrived)
    BY <1>1, <1>11, PieceExtremes DEF PeerResets
  <2> QED
    BY <1>2, <1>11, <2>1 DEF PeerResets, programVars, peerVars, Inbound!Next
<1>12. CASE PeerAccepts \/ PeerCloses \/ PeerReads \/ CallsKernel \/ Exited \/ UNCHANGED vars
  BY <1>12 DEF PeerAccepts, PeerCloses, PeerReads, CallsKernel, Exited, vars, programVars, linkVars,
     peerVars
<1> QED
  BY <1>4, <1>5, <1>6, <1>7, <1>8, <1>9, <1>10, <1>11, <1>12 DEF Next, CreateSocketSteps

-----------------------------------------------------------------------------
(* What the program sends is a byte stream: ::send in pieces and a buffer  *)
(* that outlives its connection lose nothing in the middle, and repeat     *)
(* nothing.                                                                *)
THEOREM OutboundIsStream == Spec => ImplementsOutbound
<1>1. Spec => Outbound!Init
               /\ [][Outbound!Next]_<<written, leaving \o socket.send_buffer_, peerGot, ended>>
  BY OutboundInit, OutboundStep, Invariance, PTL DEF Spec
<1> QED
  BY <1>1 DEF ImplementsOutbound, Outbound!Spec

(* What the program receives is a byte stream, in pieces of any size, with *)
(* a callback that takes them and with one that lets them fill the buffer. *)
THEOREM InboundIsStream == Spec => ImplementsInbound
<1>1. Spec => Inbound!Init
               /\ [][Inbound!Next]_<<peerSent, arrived, taken \o socket.recv_buffer_, ended>>
  BY InboundInit, InboundStep, Invariance, PTL DEF Spec
<1> QED
  BY <1>1 DEF ImplementsInbound, Inbound!Spec
=============================================================================
