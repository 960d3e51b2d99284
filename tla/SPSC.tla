-------------------------------- MODULE SPSC --------------------------------
(***************************************************************************)
(* One producer thread and one consumer thread on an LFQueue, at the grain *)
(* of the queue's atomic operations.  The producer is any of the four      *)
(* places that write through getNextToWriteTo (Logger::pushValue,          *)
(* MatchingEngine::sendClientResponse and sendMarketUpdate, the queue's    *)
(* test).  The consumer is one of the three loops the code has:            *)
(*   "engine"  MatchingEngine::run looks at getNextToRead alone;           *)
(*   "logger"  Logger::flushQueue also asks that size() is not zero;       *)
(*   "test"    ConsumeFunc asks size() first and takes a null pointer from *)
(*             getNextToRead for a fatal error.                            *)
(*                                                                         *)
(* The queue never refuses an element: getNextToWriteTo does not look at   *)
(* the read index.  Spec is that code.  SizedSpec adds what the code takes *)
(* for granted, that the queue was made large enough: the producer starts  *)
(* a new element only while fewer than NumElem - 1 are outstanding.        *)
(***************************************************************************)
EXTENDS LFQueue, Sequences

CONSTANTS
  ConsumerLoops,  \* the loops the consumer may be running
  MaxElems        \* bound: how many elements the producer writes

ASSUME SPSCAssumption ==
  /\ ConsumerLoops \subseteq {"engine", "logger", "test"}
  /\ MaxElems \in Nat

VARIABLES
  loop,       \* which loop the consumer runs, chosen once
  ppc,        \* where the producer is
  wptr,       \* the slot it was given
  cpc,        \* where the consumer is
  rptr,       \* the slot it was given, or NullPtr
  published,  \* how many elements the write index has passed
  retired,    \* how many elements the read index has passed
  received    \* the element the consumer read last

producerVars == <<ppc, wptr, published>>
consumerVars == <<loop, cpc, rptr, retired, received>>
vars == <<queueVars, producerVars, consumerVars>>

ConsumerStart == IF loop = "test" THEN "size" ELSE "next"

Init ==
  /\ InitQueue
  /\ loop \in ConsumerLoops
  /\ ppc = "idle" /\ wptr = 0 /\ published = 0
  /\ cpc = ConsumerStart /\ rptr = NullPtr /\ retired = 0 /\ received = 0

-----------------------------------------------------------------------------
(* The producer.                                                           *)

BeginElement ==
  /\ ppc = "idle" /\ published < MaxElems
  /\ wptr' = NextToWriteTo
  /\ ppc' = "fill"
  /\ UNCHANGED <<queueVars, published, consumerVars>>

FillElement ==
  /\ ppc = "fill"
  /\ FillSlot(wptr, published + 1)
  /\ ppc' = "publish"
  /\ UNCHANGED <<wptr, published, consumerVars>>

PublishElement ==
  /\ ppc = "publish"
  /\ StoreWriteIndex
  /\ published' = published + 1
  /\ ppc' = "count"
  /\ UNCHANGED <<wptr, consumerVars>>

CountElement ==
  /\ ppc = "count"
  /\ IncrementCount
  /\ ppc' = "idle"
  /\ UNCHANGED <<wptr, published, consumerVars>>

FinishElement == FillElement \/ PublishElement \/ CountElement

-----------------------------------------------------------------------------
(* The consumer.                                                           *)

AskNext ==
  /\ cpc = "next"
  /\ rptr' = NextToRead
  /\ cpc' = CASE loop = "logger"                       -> "size"
              [] loop # "logger" /\ rptr' # NullPtr -> "read"
              [] loop = "engine" /\ rptr' = NullPtr -> "next"
              [] loop = "test"   /\ rptr' = NullPtr -> "fatal"
  /\ UNCHANGED <<queueVars, producerVars, loop, retired, received>>

(* A seeded fault: the logger's loop does not ask for the size.            *)
AskSizeIgnored ==
  /\ cpc = "size"
  /\ cpc' = CASE loop = "logger" -> IF rptr # NullPtr THEN "read" ELSE "next"
              [] loop = "test"   -> IF Size # 0 THEN "next" ELSE "done"
  /\ UNCHANGED <<queueVars, producerVars, loop, rptr, retired, received>>

AskSize ==
  /\ cpc = "size"
  /\ cpc' = CASE loop = "logger" ->
                   IF Size # 0 /\ rptr # NullPtr THEN "read" ELSE "next"
              [] loop = "test" ->
                   IF Size # 0 THEN "next" ELSE "done"
  /\ UNCHANGED <<queueVars, producerVars, loop, rptr, retired, received>>

ReadElement ==
  /\ cpc = "read"
  /\ received' = store_[rptr]
  /\ cpc' = "retire"
  /\ UNCHANGED <<queueVars, producerVars, loop, rptr, retired>>

RetireElement ==
  /\ cpc = "retire"
  /\ StoreReadIndex
  /\ retired' = retired + 1
  /\ cpc' = "uncount"
  /\ UNCHANGED <<producerVars, loop, rptr, received>>

UncountElement ==
  /\ cpc = "uncount"
  /\ DecrementCount
  /\ cpc' = ConsumerStart
  /\ UNCHANGED <<producerVars, loop, rptr, retired, received>>

Consume == AskNext \/ AskSize \/ ReadElement \/ RetireElement \/ UncountElement

-----------------------------------------------------------------------------
(* The test's consumer returns once it finds the queue empty, or calls     *)
(* FATAL; the producer stops at MaxElems.                                  *)
Stopped == cpc \in {"done", "fatal"} /\ ppc = "idle" /\ UNCHANGED vars

HasRoom == published - retired < NumElem - 1

Next == BeginElement \/ FinishElement \/ Consume \/ Stopped

SizedNext == (HasRoom /\ BeginElement) \/ FinishElement \/ Consume \/ Stopped

(* Both threads run: the consumer's loop never blocks, and an updateWriteIndex *)
(* that was begun is finished.  Nothing obliges the producer to begin one.     *)
Fairness == WF_vars(Consume) /\ WF_vars(FinishElement)

Spec == Init /\ [][Next]_vars

SizedSpec == Init /\ [][SizedNext]_vars /\ Fairness

-----------------------------------------------------------------------------
(* Every variable stays in its type.                                       *)
TypeOK ==
  /\ QueueTypeOK
  /\ loop \in ConsumerLoops
  /\ ppc \in {"idle", "fill", "publish", "count"}
  /\ wptr \in Indices
  /\ published \in 0 .. MaxElems
  /\ cpc \in {"next", "size", "read", "retire", "uncount", "done", "fatal"}
  /\ rptr \in Indices \cup {NullPtr}
  /\ retired \in Nat
  /\ received \in Nat

(* The consumer never reads a slot while the producer is writing it: the   *)
(* slots themselves are plain memory (lf_queue.h:7), only the indices are  *)
(* atomic.                                                                 *)
NoSlotRace == ~ (ppc = "fill" /\ cpc = "read" /\ wptr = rptr)

(* No element is lost, repeated or reordered: what the consumer has read   *)
(* is exactly the element after the last one it retired.                   *)
InOrder == received = retired + (IF cpc = "retire" THEN 1 ELSE 0)

(* When no call is in progress size() is the number of elements between    *)
(* the two indices, however often the counter wrapped on the way.          *)
CountAtRest ==
  (ppc = "idle" /\ cpc \in {"next", "size", "done"}) =>
     num_elements_ = published - retired

(* A consumer that asks size() before it reads never takes the counter     *)
(* below zero, where it would wrap to 2^w - 1.  (MatchingEngine::run does  *)
(* not ask, and may: an element is visible before it is counted.)          *)
CountNeverWraps == loop # "engine" => num_elements_ <= NumElem

(* size() # 0 means that getNextToRead will not return null:               *)
(* tests/test_lfqueue.cpp:13-17 calls FATAL when it does.                  *)
SizeMeansReadable == cpc # "fatal"

(* Every element the producer published reaches the consumer, where the    *)
(* consumer's loop is endless: the test's returns when it finds nothing.   *)
EveryElementArrives ==
  \A n \in 1 .. MaxElems : (loop # "test" /\ published >= n) ~> received >= n

(* The ring implements a FIFO channel of NumElem - 1 elements.  What is in *)
(* the channel are the slots from the first one the consumer has not read  *)
(* up to the write index.                                                  *)
Channel ==
  LET taken == retired + (IF cpc = "retire" THEN 1 ELSE 0)
  IN  [k \in 1 .. published - taken |->
         store_[(next_read_index_ + (taken - retired) + k - 1) % NumElem]]

Fifo == INSTANCE FifoChannel
          WITH Bound <- NumElem - 1, channel <- Channel, sent <- published

ImplementsFifo == Fifo!Spec
=============================================================================
