------------------------------ MODULE LFQueue ------------------------------
(***************************************************************************)
(* The ring of include/lf_queue.h: its four members and the atomic steps   *)
(* its methods are made of.  Every member function is one or two of these  *)
(* steps; the modules that use the queue (SPSC here) say which thread      *)
(* takes them and in what order.                                           *)
(*                                                                         *)
(* The three indices are seq_cst atomics, so their loads and stores        *)
(* interleave.  next_write_index_ is stored by the producer alone and      *)
(* next_read_index_ by the consumer alone; a thread's load of its own      *)
(* index and the store that follows are therefore one step.                *)
(***************************************************************************)
EXTENDS Integers

CONSTANTS
  NumElem,      \* the constructor's num_elem, the size of store_
  CounterMod,   \* 2^w for the width w of num_elements_ (std::size_t)
  NullPtr       \* what getNextToRead returns when it sees nothing to read

ASSUME LFQueueAssumption ==
  /\ NumElem \in Nat \ {0}
  /\ CounterMod \in Nat
  /\ CounterMod > NumElem
  /\ NullPtr \notin Nat

VARIABLES
  store_,             \* the slots; a slot holds the ordinal of an element, 0 is T()
  next_read_index_,
  next_write_index_,
  num_elements_

queueVars == <<store_, next_read_index_, next_write_index_, num_elements_>>

-----------------------------------------------------------------------------
Indices == 0 .. NumElem - 1

InitQueue ==
  /\ store_ = [i \in Indices |-> 0]
  /\ next_read_index_ = 0
  /\ next_write_index_ = 0
  /\ num_elements_ = 0

QueueTypeOK ==
  /\ store_ \in [Indices -> Nat]
  /\ next_read_index_ \in Indices
  /\ next_write_index_ \in Indices
  /\ num_elements_ \in 0 .. CounterMod - 1

(* A seeded fault: the index does not wrap.                                *)
Unwrapped(i) == i + 1

Successor(i) == (i + 1) % NumElem

(* A seeded fault: the producer is given the slot one further.             *)
OneFurther == Successor(next_write_index_)

(* The slot that getNextToWriteTo returns: whatever is under the write     *)
(* index, read or not.                                                     *)
NextToWriteTo == next_write_index_

(* The assignment the caller makes through that pointer.                   *)
FillSlot(i, elem) ==
  /\ store_' = [store_ EXCEPT ![i] = elem]
  /\ UNCHANGED <<next_read_index_, next_write_index_, num_elements_>>

(* updateWriteIndex, first statement: the element becomes visible.         *)
StoreWriteIndex ==
  /\ next_write_index_' = Successor(next_write_index_)
  /\ UNCHANGED <<store_, next_read_index_, num_elements_>>

(* updateWriteIndex, second statement: and only then is it counted.        *)
IncrementCount ==
  /\ num_elements_' = (num_elements_ + 1) % CounterMod
  /\ UNCHANGED <<store_, next_read_index_, next_write_index_>>

(* A seeded fault: the indices are not compared.                           *)
NextToReadUnchecked == next_read_index_

(* A seeded fault: the last element is taken for none.                     *)
NextToReadLagging ==
  IF next_read_index_ = next_write_index_ \/ Successor(next_read_index_) = next_write_index_
  THEN NullPtr ELSE next_read_index_

(* getNextToRead.                                                          *)
NextToRead ==
  IF next_read_index_ = next_write_index_ THEN NullPtr ELSE next_read_index_

(* updataReadIndex, first statement: the slot is given back.               *)
StoreReadIndex ==
  /\ next_read_index_' = Successor(next_read_index_)
  /\ UNCHANGED <<store_, next_write_index_, num_elements_>>

(* A seeded fault: the element is not counted out.                         *)
CountKept == UNCHANGED queueVars

(* updataReadIndex, second statement.                                      *)
DecrementCount ==
  /\ num_elements_' = (num_elements_ + CounterMod - 1) % CounterMod
  /\ UNCHANGED <<store_, next_read_index_, next_write_index_>>

Size == num_elements_
=============================================================================
