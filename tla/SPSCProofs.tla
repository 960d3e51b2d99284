----------------------------- MODULE SPSCProofs -----------------------------
(***************************************************************************)
(* What SPSC's SizedSpec guarantees for every ring size, every number of   *)
(* elements, every width of the counter and each of the consumer loops.    *)
(*                                                                         *)
(* The argument: the two indices and the ghost counts published and        *)
(* retired determine each other (RingInv), so the slots between the        *)
(* indices hold exactly the elements published and not retired, in order,  *)
(* and the slot under the write index is not one of them.  num_elements_   *)
(* lags behind by what each thread has yet to add or subtract (CountInv).  *)
(***************************************************************************)
EXTENDS SPSC, SequenceTheorems, TLAPS

(* An index computed without a division.                                   *)
Wrap(x) == IF x < NumElem THEN x ELSE x - NumElem

Outstanding == published - retired

Counted == IF ppc = "count" THEN published - 1 ELSE published
Uncounted == IF cpc = "uncount" THEN retired - 1 ELSE retired

RingInv ==
  /\ Outstanding \in 0 .. NumElem - 1
  /\ next_write_index_ = Wrap(next_read_index_ + Outstanding)
  /\ \A k \in 0 .. Outstanding - 1 :
       store_[Wrap(next_read_index_ + k)] = retired + k + 1

ProducerInv ==
  /\ ppc \in {"fill", "publish"} =>
       wptr = next_write_index_ /\ Outstanding < NumElem - 1 /\ published < MaxElems
  /\ ppc = "publish" => store_[wptr] = published + 1

ConsumerInv ==
  /\ cpc \in {"read", "retire"} => rptr = next_read_index_ /\ Outstanding > 0
  /\ (cpc = "size" /\ loop = "logger" /\ rptr # NullPtr) =>
       rptr = next_read_index_ /\ Outstanding > 0
  /\ InOrder

CountInv ==
  /\ IF Counted < Uncounted
     THEN num_elements_ = Counted - Uncounted + CounterMod
     ELSE num_elements_ = Counted - Uncounted
  /\ loop # "engine" => Counted >= retired
  /\ (loop = "logger" /\ cpc \in {"read", "retire"}) => Counted > retired
  /\ (loop = "test" /\ cpc \in {"next", "read", "retire"}) => Counted > retired

(* "size" is a step of the loops that ask, "fatal" of no reachable state.  *)
LoopInv ==
  /\ loop = "engine" => cpc # "size"
  /\ cpc # "fatal"

IInv == TypeOK /\ RingInv /\ ProducerInv /\ ConsumerInv /\ CountInv /\ LoopInv

-----------------------------------------------------------------------------
(* Going one slot further is going round the ring.                         *)
LEMMA SuccessorWraps ==
  ASSUME NEW i \in Indices
  PROVE  Successor(i) = Wrap(i + 1) /\ Successor(i) \in Indices
BY LFQueueAssumption DEF Successor, Wrap, Indices

(* The counter is incremented and decremented modulo 2^w.                  *)
LEMMA CounterSteps ==
  ASSUME NEW n \in 0 .. CounterMod - 1
  PROVE  /\ (n + 1) % CounterMod = IF n = CounterMod - 1 THEN 0 ELSE n + 1
         /\ (n + CounterMod - 1) % CounterMod = IF n = 0 THEN CounterMod - 1 ELSE n - 1
<1>1. n < CounterMod - 1 => (n + 1) % CounterMod = n + 1
  BY LFQueueAssumption
<1>2. CounterMod % CounterMod = 0
  BY LFQueueAssumption
<1>3. n > 0 => (n + CounterMod - 1) % CounterMod = n - 1
  BY LFQueueAssumption
<1>4. (CounterMod - 1) % CounterMod = CounterMod - 1
  BY LFQueueAssumption
<1> QED
  BY <1>1, <1>2, <1>3, <1>4, LFQueueAssumption

(* Two slots fewer than NumElem apart, going round, are different slots.   *)
LEMMA WrapInjective ==
  ASSUME NEW i \in Indices, NEW j \in Indices, NEW k \in Indices, j # k
  PROVE  Wrap(i + j) # Wrap(i + k) /\ Wrap(i + j) \in Indices
BY LFQueueAssumption DEF Wrap, Indices

(* Between the indices the ring is not empty, so the read index is not the *)
(* write index and getNextToRead does not return null; at most NumElem - 1 *)
(* slots are between them, so the write index does not meet the read index *)
(* again.                                                                  *)
LEMMA NullMeansEmpty ==
  ASSUME TypeOK, RingInv
  PROVE  (next_read_index_ = next_write_index_) <=> (Outstanding = 0)
BY LFQueueAssumption DEF TypeOK, QueueTypeOK, RingInv, Wrap, Indices, Outstanding

LEMMA InitIInv == Init => IInv
<1> SUFFICES ASSUME Init PROVE IInv
  OBVIOUS
<1> USE LFQueueAssumption, SPSCAssumption DEF Init, InitQueue, ConsumerStart
<1>1. TypeOK
  BY DEF TypeOK, QueueTypeOK, Indices
<1>2. RingInv
  BY DEF RingInv, Outstanding, Wrap
<1>3. ProducerInv /\ ConsumerInv /\ LoopInv
  BY DEF ProducerInv, ConsumerInv, InOrder, LoopInv
<1>4. CountInv
  <2>1. Counted = 0 /\ Uncounted = 0
    BY DEF Counted, Uncounted
  <2> QED
    BY <2>1 DEF CountInv
<1> QED
  BY <1>1, <1>2, <1>3, <1>4 DEF IInv

LEMMA NextIInv == IInv /\ [SizedNext]_vars => IInv'
<1> SUFFICES ASSUME IInv, [SizedNext]_vars PROVE IInv'
  OBVIOUS
<1> USE LFQueueAssumption, SPSCAssumption DEF IInv
<1>0. loop \in {"engine", "logger", "test"}
  BY SPSCAssumption DEF TypeOK
<1>1. CASE HasRoom /\ BeginElement
  <2> USE <1>1 DEF BeginElement, HasRoom, NextToWriteTo, queueVars, consumerVars
  <2>1. TypeOK'
    BY DEF TypeOK, QueueTypeOK
  <2>2. RingInv' /\ LoopInv'
    BY DEF RingInv, Outstanding, Wrap, LoopInv
  <2>3. ProducerInv'
    <3>1. Outstanding' = Outstanding
      BY DEF Outstanding
    <3> QED
      BY <3>1 DEF ProducerInv, Outstanding
  <2>4. ConsumerInv'
    BY DEF ConsumerInv, InOrder, Outstanding
  <2>5. CountInv'
    <3>1. Counted' = Counted /\ Uncounted' = Uncounted
      BY DEF Counted, Uncounted
    <3> QED
      BY <3>1 DEF CountInv
  <2> QED BY <2>1, <2>2, <2>3, <2>4, <2>5
<1>2. CASE FillElement
  <2> USE <1>2 DEF FillElement, FillSlot, consumerVars
  <2>1. TypeOK'
    BY DEF TypeOK, QueueTypeOK
  <2>2. ASSUME NEW k \in 0 .. Outstanding - 1
        PROVE  Wrap(next_read_index_ + k) # wptr /\ Wrap(next_read_index_ + k) \in Indices
    <3>1. k \in Indices /\ Outstanding \in Indices /\ k # Outstanding
      BY DEF Outstanding, RingInv, Indices
    <3> QED
      BY <2>2, <3>1, WrapInjective DEF RingInv, ProducerInv, TypeOK, QueueTypeOK
  <2>3. RingInv'
    <3>1. Outstanding' = Outstanding
      BY DEF Outstanding
    <3> QED
      BY <2>2, <3>1 DEF RingInv, Wrap, TypeOK, QueueTypeOK
  <2>4. ProducerInv'
    <3>1. Outstanding' = Outstanding
      BY DEF Outstanding
    <3> QED
      BY <3>1 DEF ProducerInv, TypeOK, QueueTypeOK
  <2>5. ConsumerInv' /\ LoopInv'
    BY DEF ConsumerInv, InOrder, Outstanding, LoopInv
  <2>6. CountInv'
    BY DEF CountInv, Counted, Uncounted, TypeOK
  <2> QED BY <2>1, <2>3, <2>4, <2>5, <2>6
<1>3. CASE PublishElement
  <2> USE <1>3 DEF PublishElement, StoreWriteIndex, consumerVars
  <2>1. Outstanding' = Outstanding + 1 /\ Outstanding < NumElem - 1 /\ Outstanding \in Nat
    BY DEF Outstanding, RingInv, ProducerInv, TypeOK
  <2>2. /\ next_write_index_' \in Indices
        /\ next_write_index_' = Wrap(next_read_index_ + Outstanding + 1)
    <3>1. /\ next_write_index_ \in Indices /\ next_read_index_ \in Indices
          /\ next_write_index_' = Successor(next_write_index_)
          /\ next_write_index_ = Wrap(next_read_index_ + Outstanding)
      BY DEF TypeOK, QueueTypeOK, RingInv
    <3>2. next_write_index_' \in Indices /\ next_write_index_' = Wrap(next_write_index_ + 1)
      BY <3>1, SuccessorWraps
    <3>3. Wrap(Wrap(next_read_index_ + Outstanding) + 1) = Wrap(next_read_index_ + Outstanding + 1)
      BY <2>1, <3>1, LFQueueAssumption DEF Wrap, Indices
    <3> QED
      BY <3>1, <3>2, <3>3
  <2>3. TypeOK'
    <3>1. published' \in 0 .. MaxElems
      BY DEF TypeOK, ProducerInv, Outstanding
    <3> QED
      BY <2>2, <3>1 DEF TypeOK, QueueTypeOK
  <2>4. RingInv'
    <3>1. \A k \in 0 .. Outstanding : store_[Wrap(next_read_index_ + k)] = retired + k + 1
      BY <2>1 DEF RingInv, ProducerInv, Outstanding, TypeOK
    <3>2. Outstanding' \in 0 .. NumElem - 1
      BY <2>1
    <3>3. next_write_index_' = Wrap(next_read_index_ + Outstanding')
      BY <2>1, <2>2 DEF TypeOK, QueueTypeOK, Indices
    <3> QED
      BY <2>1, <3>1, <3>2, <3>3 DEF RingInv, Wrap
  <2>5. ProducerInv'
    BY DEF ProducerInv
  <2>6. ConsumerInv' /\ LoopInv'
    BY <2>1 DEF ConsumerInv, InOrder, LoopInv
  <2>7. CountInv'
    BY DEF CountInv, Counted, Uncounted, TypeOK
  <2> QED BY <2>3, <2>4, <2>5, <2>6, <2>7
<1>4. CASE CountElement
  <2> USE <1>4 DEF CountElement, IncrementCount, consumerVars
  <2>1. Outstanding' = Outstanding
    BY DEF Outstanding
  <2>2. TypeOK'
    BY CounterSteps DEF TypeOK, QueueTypeOK
  <2>3. RingInv' /\ ProducerInv' /\ ConsumerInv' /\ LoopInv'
    BY <2>1 DEF RingInv, Wrap, ProducerInv, ConsumerInv, InOrder, LoopInv
  <2>4. CountInv'
    <3>1. /\ Counted' = Counted + 1 /\ Uncounted' = Uncounted
          /\ Counted \in Int /\ Uncounted \in Int
          /\ Counted = published - 1 /\ Uncounted <= retired
          /\ published - retired < NumElem /\ published - retired >= 0
          /\ retired \in Nat /\ published \in Nat /\ Uncounted >= retired - 1
      BY DEF Counted, Uncounted, TypeOK, RingInv, Outstanding
    <3>2. num_elements_' = IF num_elements_ = CounterMod - 1 THEN 0 ELSE num_elements_ + 1
      BY CounterSteps DEF TypeOK, QueueTypeOK
    <3>3. IF Counted' < Uncounted' THEN num_elements_' = Counted' - Uncounted' + CounterMod
                           ELSE num_elements_' = Counted' - Uncounted'
      <4>1. CASE Counted < Uncounted
        BY <3>1, <3>2, <4>1 DEF CountInv
      <4>2. CASE ~ (Counted < Uncounted)
        <5>1. num_elements_ = Counted - Uncounted /\ Counted - Uncounted < NumElem
          BY <3>1, <4>2 DEF CountInv
        <5>2. num_elements_' = Counted' - Uncounted' /\ ~ (Counted' < Uncounted')
          BY <3>1, <3>2, <4>2, <5>1
        <5> QED
          BY <5>2
      <4> QED
        BY <4>1, <4>2
    <3> QED
      BY <3>1, <3>3 DEF CountInv
  <2> QED BY <2>2, <2>3, <2>4
<1>5. CASE AskNext
  <2> USE <1>5 DEF AskNext, NextToRead, queueVars, producerVars
  <2>1. Outstanding' = Outstanding /\ Counted' = Counted /\ Uncounted' = retired /\ Uncounted = retired
    BY DEF Outstanding, Counted, Uncounted, TypeOK
  <2>2. TypeOK'
    BY DEF TypeOK, QueueTypeOK
  <2>3. RingInv' /\ ProducerInv'
    BY <2>1 DEF RingInv, Wrap, ProducerInv
  <2>4. rptr' # NullPtr => rptr' = next_read_index_ /\ Outstanding > 0
    BY NullMeansEmpty DEF RingInv
  <2>5. loop = "test" => rptr' # NullPtr
    <3>1. loop = "test" => Outstanding # 0
      BY DEF CountInv, Counted, Outstanding, TypeOK
    <3>2. NullPtr # next_read_index_
      BY DEF TypeOK, QueueTypeOK, Indices
    <3> QED
      BY <3>1, <3>2, NullMeansEmpty
  <2>6. ConsumerInv'
    BY <1>0, <2>1, <2>4 DEF ConsumerInv, InOrder
  <2>7. CountInv'
    BY <2>1 DEF CountInv
  <2>8. LoopInv'
    BY <1>0, <2>5 DEF LoopInv
  <2> QED BY <2>2, <2>3, <2>6, <2>7, <2>8
<1>6. CASE AskSize
  <2> USE <1>6 DEF AskSize, Size, queueVars, producerVars
  <2>0. loop \in {"logger", "test"}
    BY <1>0 DEF LoopInv
  <2>1. Outstanding' = Outstanding /\ Counted' = Counted /\ Uncounted' = retired /\ Uncounted = retired
    BY <2>0 DEF Outstanding, Counted, Uncounted, TypeOK
  <2>2. TypeOK' /\ LoopInv'
    BY <2>0 DEF TypeOK, QueueTypeOK, LoopInv
  <2>3. RingInv' /\ ProducerInv'
    BY <2>1 DEF RingInv, Wrap, ProducerInv
  <2>4. ConsumerInv'
    BY <2>0, <2>1 DEF ConsumerInv, InOrder
  <2>5. CountInv'
    <3>1. num_elements_ # 0 => Counted > retired
      BY <2>0, <2>1 DEF CountInv, Counted, TypeOK
    <3> QED
      BY <2>0, <2>1, <3>1 DEF CountInv
  <2> QED BY <2>2, <2>3, <2>4, <2>5
<1>7. CASE ReadElement
  <2> USE <1>7 DEF ReadElement, queueVars, producerVars
  <2>1. Outstanding' = Outstanding /\ Counted' = Counted /\ Uncounted' = retired /\ Uncounted = retired
    BY DEF Outstanding, Counted, Uncounted, TypeOK
  <2>2. store_[rptr] = retired + 1 /\ store_[rptr] \in Nat
    <3>1. 0 \in 0 .. Outstanding - 1 /\ rptr = next_read_index_ /\ next_read_index_ \in Indices
      BY DEF ConsumerInv, RingInv, TypeOK, QueueTypeOK
    <3>2. store_[Wrap(next_read_index_ + 0)] = retired + 0 + 1
      BY <3>1 DEF RingInv
    <3> QED
      BY <3>1, <3>2 DEF Wrap, Indices, TypeOK
  <2>3. TypeOK' /\ LoopInv'
    BY <2>2 DEF TypeOK, QueueTypeOK, LoopInv
  <2>4. RingInv' /\ ProducerInv'
    BY <2>1 DEF RingInv, Wrap, ProducerInv
  <2>5. ConsumerInv'
    BY <2>1, <2>2 DEF ConsumerInv, InOrder
  <2>6. CountInv'
    BY <2>1 DEF CountInv
  <2> QED BY <2>3, <2>4, <2>5, <2>6
<1>8. CASE RetireElement
  <2> USE <1>8 DEF RetireElement, StoreReadIndex, producerVars
  <2>1. /\ Outstanding' = Outstanding - 1 /\ Outstanding \in 1 .. NumElem - 1
        /\ retired \in Nat /\ retired' = retired + 1
    BY DEF Outstanding, RingInv, ConsumerInv, TypeOK
  <2>2. /\ next_read_index_ \in Indices
        /\ next_read_index_' \in Indices
        /\ next_read_index_' = Wrap(next_read_index_ + 1)
    BY SuccessorWraps DEF TypeOK, QueueTypeOK
  <2>3. TypeOK' /\ LoopInv'
    BY <2>1, <2>2 DEF TypeOK, QueueTypeOK, LoopInv
  <2>4. \A k \in 0 .. NumElem - 2 :
          Wrap(Wrap(next_read_index_ + 1) + k) = Wrap(next_read_index_ + (k + 1))
    BY <2>2 DEF Wrap, Indices
  <2>5. RingInv'
    <3>1. Outstanding' \in 0 .. NumElem - 1
      BY <2>1
    <3>2. next_write_index_' = Wrap(next_read_index_' + Outstanding')
      BY <2>1, <2>2, <2>4 DEF RingInv
    <3>3. ASSUME NEW k \in 0 .. Outstanding' - 1
          PROVE  store_[Wrap(next_read_index_' + k)] = retired' + k + 1
      <4>1. k + 1 \in 0 .. Outstanding - 1 /\ k \in 0 .. NumElem - 2
        BY <2>1
      <4>2. store_[Wrap(next_read_index_ + (k + 1))] = retired + (k + 1) + 1
        BY <4>1 DEF RingInv
      <4> QED
        BY <2>1, <2>2, <2>4, <4>1, <4>2
    <3> QED
      BY <3>1, <3>2, <3>3 DEF RingInv, Wrap
  <2>6. ProducerInv'
    BY <2>1 DEF ProducerInv, TypeOK
  <2>7. ConsumerInv'
    BY <2>1 DEF ConsumerInv, InOrder
  <2>8. CountInv'
    <3>1. Counted' = Counted /\ Uncounted = retired /\ Uncounted' = retired /\ Counted \in Int
      BY DEF Counted, Uncounted, TypeOK
    <3> QED
      BY <1>0, <2>1, <3>1 DEF CountInv
  <2> QED BY <2>3, <2>5, <2>6, <2>7, <2>8
<1>9. CASE UncountElement
  <2> USE <1>9 DEF UncountElement, DecrementCount, ConsumerStart, producerVars
  <2>1. Outstanding' = Outstanding
    BY DEF Outstanding
  <2>2. TypeOK' /\ LoopInv'
    BY CounterSteps DEF TypeOK, QueueTypeOK, LoopInv
  <2>3. RingInv' /\ ProducerInv'
    BY <2>1 DEF RingInv, Wrap, ProducerInv
  <2>4. ConsumerInv'
    BY <2>1 DEF ConsumerInv, InOrder
  <2>5. CountInv'
    <3>1. /\ Counted' = Counted /\ Uncounted' = retired /\ Uncounted = retired - 1
          /\ Counted \in Int /\ Counted >= published - 1 /\ Counted <= published
          /\ published - retired < NumElem /\ published - retired >= 0
          /\ retired \in Nat /\ published \in Nat
      BY DEF Counted, Uncounted, TypeOK, RingInv, Outstanding
    <3>2. num_elements_' = IF num_elements_ = 0 THEN CounterMod - 1 ELSE num_elements_ - 1
      BY CounterSteps DEF TypeOK, QueueTypeOK
    <3>3. IF Counted' < Uncounted' THEN num_elements_' = Counted' - Uncounted' + CounterMod
                           ELSE num_elements_' = Counted' - Uncounted'
      <4>1. CASE Counted < Uncounted
        BY <3>1, <3>2, <4>1 DEF CountInv
      <4>2. CASE ~ (Counted < Uncounted)
        BY <3>1, <3>2, <4>2 DEF CountInv
      <4> QED
        BY <4>1, <4>2
    <3> QED
      BY <3>1, <3>3 DEF CountInv
  <2> QED BY <2>2, <2>3, <2>4, <2>5
<1>10. CASE UNCHANGED vars
  BY <1>10 DEF vars, queueVars, producerVars, consumerVars, TypeOK, QueueTypeOK, RingInv, Wrap,
     Outstanding, ProducerInv, ConsumerInv, InOrder, CountInv, Counted, Uncounted, LoopInv
<1> QED
  BY <1>1, <1>2, <1>3, <1>4, <1>5, <1>6, <1>7, <1>8, <1>9, <1>10
  DEF SizedNext, FinishElement, Consume, Stopped

-----------------------------------------------------------------------------
LEMMA Invariance == SizedSpec => []IInv
BY InitIInv, NextIInv, PTL DEF SizedSpec

(* Every variable keeps its type.                                          *)
THEOREM TypeCorrect == SizedSpec => []TypeOK
BY Invariance, PTL DEF IInv

(* The consumer reads the elements in the order they were written, each of *)
(* them once: no overrun, however long the queue runs.                     *)
THEOREM ReadsInOrder == SizedSpec => []InOrder
BY Invariance, PTL DEF IInv, ConsumerInv

(* Producer and consumer are never in the same slot: store_ needs no       *)
(* atomicity.                                                              *)
THEOREM SlotsDoNotRace == SizedSpec => []NoSlotRace
<1>1. IInv => NoSlotRace
  <2> SUFFICES ASSUME IInv, ppc = "fill", cpc = "read" PROVE wptr # rptr
    BY DEF NoSlotRace
  <2> QED
    BY NullMeansEmpty DEF IInv, ProducerInv, ConsumerInv
<1> QED
  BY <1>1, Invariance, PTL

(* Between calls size() is exact.                                          *)
THEOREM CountIsExactAtRest == SizedSpec => []CountAtRest
<1>1. IInv => CountAtRest
  <2> SUFFICES ASSUME IInv, ppc = "idle", cpc \in {"next", "size", "done"}
               PROVE  num_elements_ = published - retired
    BY DEF CountAtRest
  <2>1. Counted = published /\ Uncounted = retired /\ ~ (published < retired)
    BY DEF Counted, Uncounted, IInv, RingInv, Outstanding, TypeOK
  <2> QED
    BY <2>1 DEF IInv, CountInv
<1> QED
  BY <1>1, Invariance, PTL

(* The loops that ask size() keep the unsigned counter from wrapping below *)
(* zero.                                                                   *)
THEOREM CounterDoesNotWrap == SizedSpec => []CountNeverWraps
<1>1. IInv => CountNeverWraps
  <2> SUFFICES ASSUME IInv, loop # "engine" PROVE num_elements_ <= NumElem
    BY DEF CountNeverWraps
  <2>1. /\ Counted >= retired /\ Counted <= published /\ Counted \in Int
        /\ Uncounted <= retired /\ Uncounted >= retired - 1 /\ Uncounted \in Int
        /\ published - retired < NumElem /\ published \in Int /\ retired \in Int
    BY LFQueueAssumption DEF Counted, Uncounted, IInv, CountInv, RingInv, Outstanding, TypeOK
  <2>2. num_elements_ = Counted - Uncounted
    BY <2>1 DEF IInv, CountInv
  <2> QED
    BY <2>1, <2>2, LFQueueAssumption
<1> QED
  BY <1>1, Invariance, PTL

(* The queue's test cannot end in its FATAL("nullptr error").              *)
THEOREM SizeIsHonest == SizedSpec => []SizeMeansReadable
BY Invariance, PTL DEF IInv, LoopInv, SizeMeansReadable

-----------------------------------------------------------------------------
(* The slots the refinement mapping reads hold consecutive elements.       *)
LEMMA ChannelContents ==
  IInv => /\ published - received \in Nat
          /\ Channel = [k \in 1 .. published - received |-> received + k]
<1> SUFFICES ASSUME IInv
             PROVE  /\ published - received \in Nat
                    /\ Channel = [k \in 1 .. published - received |-> received + k]
  OBVIOUS
<1> DEFINE taken == retired + (IF cpc = "retire" THEN 1 ELSE 0)
<1>1. received = taken /\ taken \in {retired, retired + 1}
  BY DEF IInv, ConsumerInv, InOrder, TypeOK
<1>2. published - taken \in Nat /\ taken - retired \in {0, 1}
      /\ taken \in Nat /\ retired \in Nat /\ published \in Nat
      /\ published - retired \in 0 .. NumElem - 1
  BY <1>1 DEF IInv, ConsumerInv, RingInv, Outstanding, TypeOK
<1>3. ASSUME NEW k \in 1 .. published - taken
      PROVE  store_[(next_read_index_ + (taken - retired) + k - 1) % NumElem] = taken + k
  <2> DEFINE j == taken - retired + k - 1
  <2> HIDE DEF taken
  <2>1. j \in 0 .. Outstanding - 1 /\ j \in Indices
    BY <1>2, LFQueueAssumption DEF Outstanding, Indices
  <2>2. next_read_index_ + (taken - retired) + k - 1 = next_read_index_ + j
        /\ next_read_index_ \in Indices
    BY <1>2 DEF IInv, TypeOK, QueueTypeOK, Indices
  <2>3. (next_read_index_ + j) % NumElem = Wrap(next_read_index_ + j)
    <3> HIDE DEF j
    <3> QED BY <2>1, <2>2, LFQueueAssumption DEF Wrap, Indices
  <2>4. store_[Wrap(next_read_index_ + j)] = retired + j + 1
    BY <2>1 DEF IInv, RingInv
  <2> QED
    BY <1>2, <2>1, <2>2, <2>3, <2>4
<1> QED
  BY <1>1, <1>2, <1>3 DEF Channel

LEMMA InitRefines == Init => Fifo!Init
BY DEF Init, InitQueue, ConsumerStart, Channel, Fifo!Init

(* A sequence of consecutive numbers, one longer or one shorter.           *)
LEMMA ConsecutiveNumbers ==
  ASSUME NEW lo \in Nat, NEW n \in Nat
  PROVE  LET run(l, m) == [k \in 1 .. m |-> l + k]
         IN  /\ run(lo, n) \in Seq(Nat) /\ Len(run(lo, n)) = n
             /\ run(lo, n + 1) = Append(run(lo, n), lo + n + 1)
             /\ n > 0 => Head(run(lo, n)) = lo + 1 /\ run(lo + 1, n - 1) = Tail(run(lo, n))
<1> DEFINE run(l, m) == [k \in 1 .. m |-> l + k]
<1>1. run(lo, n) \in Seq(Nat) /\ Len(run(lo, n)) = n
  OBVIOUS
<1>2. run(lo, n + 1) = Append(run(lo, n), lo + n + 1)
  <2>1. /\ Append(run(lo, n), lo + n + 1) \in Seq(Nat)
        /\ Len(Append(run(lo, n), lo + n + 1)) = n + 1
        /\ \A k \in 1 .. n + 1 : Append(run(lo, n), lo + n + 1)[k] = lo + k
    BY <1>1
  <2> QED
    BY <2>1
<1>3. ASSUME n > 0
      PROVE  Head(run(lo, n)) = lo + 1 /\ run(lo + 1, n - 1) = Tail(run(lo, n))
  <2>1. run(lo, n) # <<>>
    BY <1>1, <1>3
  <2>2. /\ Tail(run(lo, n)) \in Seq(Nat) /\ Len(Tail(run(lo, n))) = n - 1
        /\ \A k \in 1 .. n - 1 : Tail(run(lo, n))[k] = lo + 1 + k
    BY <1>1, <1>3, <2>1
  <2>3. Head(run(lo, n)) = lo + 1
    BY <1>1, <1>3, <2>1
  <2>4. run(lo + 1, n - 1) \in Seq(Nat) /\ Len(run(lo + 1, n - 1)) = n - 1
    BY <1>3
  <2>5. \A k \in 1 .. n - 1 : run(lo + 1, n - 1)[k] = Tail(run(lo, n))[k]
    BY <1>3, <2>2
  <2>6. run(lo + 1, n - 1) = Tail(run(lo, n))
    <3> DEFINE left == run(lo + 1, n - 1)
               right == Tail(run(lo, n))
    <3>1. left \in Seq(Nat) /\ right \in Seq(Nat) /\ Len(left) = Len(right)
      BY <2>2, <2>4
    <3>2. \A k \in 1 .. Len(left) : left[k] = right[k]
      BY <2>4, <2>5
    <3> HIDE DEF left, right
    <3>3. left = right
      BY <3>1, <3>2, SeqEqual
    <3> QED
      BY <3>3 DEF left, right
  <2> QED
    BY <2>3, <2>6
<1> QED
  BY <1>1, <1>2, <1>3

LEMMA StepRefines ==
  IInv /\ IInv' /\ [SizedNext]_vars => [Fifo!Next]_<<Channel, published, received>>
<1> SUFFICES ASSUME IInv, IInv', [SizedNext]_vars
             PROVE  Fifo!Next \/ UNCHANGED <<Channel, published, received>>
  OBVIOUS
<1> DEFINE n == published - received
           run(l, m) == [k \in 1 .. m |-> l + k]
<1>1. n \in Nat /\ received \in Nat /\ published \in Nat /\ Channel = run(received, n)
  BY ChannelContents DEF IInv, TypeOK
<1>2. n' \in Nat /\ Channel' = run(received', n')
  <2>1. (IInv => /\ published - received \in Nat
                 /\ Channel = [k \in 1 .. published - received |-> received + k])'
    BY ChannelContents, PTL
  <2> QED
    BY <2>1 DEF IInv, TypeOK
<1>3. CASE PublishElement
  <2>1. received' = received /\ published' = published + 1 /\ n < NumElem - 1
    BY <1>3, LFQueueAssumption
    DEF PublishElement, consumerVars, IInv, ProducerInv, ConsumerInv, InOrder, Outstanding, TypeOK
  <2>2. Channel' = Append(Channel, published + 1) /\ Len(Channel) < NumElem - 1
    BY <1>1, <1>2, <2>1, ConsecutiveNumbers
  <2> QED
    BY <2>1, <2>2 DEF Fifo!Next, Fifo!Put
<1>4. CASE ReadElement
  <2>1. received' = received + 1 /\ published' = published
    BY <1>4 DEF ReadElement, producerVars, IInv, ConsumerInv, InOrder, TypeOK
  <2>2. n > 0 /\ Channel' = run(received + 1, n - 1)
    BY <1>1, <1>2, <2>1
  <2>3. Head(Channel) = received + 1 /\ Channel' = Tail(Channel) /\ Len(Channel) = n
    BY <1>1, <2>2, ConsecutiveNumbers
  <2>4. Channel # <<>>
    BY <2>2, <2>3
  <2> QED
    BY <2>1, <2>3, <2>4 DEF Fifo!Next, Fifo!Take
<1>5. ASSUME ~ PublishElement, ~ ReadElement
      PROVE  UNCHANGED <<Channel, published, received>>
  <2>1. published' = published /\ received' = received
    BY <1>5 DEF SizedNext, FinishElement, Consume, Stopped, vars, producerVars, consumerVars,
       BeginElement, FillElement, CountElement, AskNext, AskSize, RetireElement, UncountElement
  <2> QED
    BY <1>1, <1>2, <2>1
<1> QED
  BY <1>3, <1>4, <1>5

(* The ring, used by two threads at the grain of its atomic steps, is a    *)
(* FIFO channel of NumElem - 1 elements.                                   *)
THEOREM RingImplementsFifo == SizedSpec => ImplementsFifo
<1>1. SizedSpec => Fifo!Init /\ [][Fifo!Next]_<<Channel, published, received>>
  BY Invariance, InitRefines, StepRefines, PTL DEF SizedSpec
<1> QED
  BY <1>1 DEF ImplementsFifo, Fifo!Spec
=============================================================================
