------------------------------ MODULE MemPool ------------------------------
(***************************************************************************)
(* The fixed-size object pool of include/mem_pool.h as a data structure:   *)
(* operators on the value of a pool, no variables.  MemPoolClient runs it  *)
(* under a client that allocates and deallocates; MEOrderBook holds two    *)
(* of them, one for its orders and one for its price levels.               *)
(*                                                                         *)
(* A block is the index of an Object in store_; the pointer that allocate  *)
(* hands out is that index.                                                *)
(***************************************************************************)
EXTENDS Integers

CONSTANT NumElems   \* the constructor's num_elems, the size of store_

(* The constructor reads store_[0], so an empty pool cannot be built.      *)
ASSUME NumElemsAssumption == NumElems \in Nat \ {0}

-----------------------------------------------------------------------------
Blocks == 0 .. NumElems - 1

Pools == [is_free_ : [Blocks -> BOOLEAN], next_free_index : Blocks]

NewPool == [is_free_ |-> [b \in Blocks |-> TRUE], next_free_index |-> 0]

FreeBlocks(pool) == {b \in Blocks : pool.is_free_[b]}

(* How many times the loop of updateNextFreeIndex increments a cursor that *)
(* wraps at store_.size(), to bring it from block i to block j.            *)
Increments(i, j) == IF i <= j THEN j - i ELSE j - i + NumElems

(* The first free block at or after the cursor, going round.               *)
NextFreeIndex(pool) ==
  CHOOSE b \in FreeBlocks(pool) :
    \A other \in FreeBlocks(pool) :
      Increments(pool.next_free_index, b) <= Increments(pool.next_free_index, other)

(* A seeded fault: the loop gives up before it has looked at the block     *)
(* just behind the one it began at.                                        *)
OutOfSpaceEarly(pool) ==
  FreeBlocks(pool) \subseteq {b \in Blocks : Increments(b, pool.next_free_index) = 1}

(* The loop comes back to where it began exactly when no block is free: it *)
(* then calls FATAL.                                                       *)
OutOfSpace(pool) == FreeBlocks(pool) = {}

(* allocate's first ASSERT: the block under the cursor is free.            *)
CursorIsFree(pool) == pool.is_free_[pool.next_free_index]

(* The block that allocate constructs the object in.                       *)
AllocatedBlock(pool) == pool.next_free_index

(* A seeded fault: the cursor moves one block on and does not look for a   *)
(* free one.                                                               *)
BlindlyAdvanced(pool) ==
  LET taken == [pool EXCEPT !.is_free_[pool.next_free_index] = FALSE]
  IN  [taken EXCEPT !.next_free_index = (@ + 1) % NumElems]

(* A seeded fault: the cursor does not wrap.                               *)
AdvancedPastTheEnd(pool) ==
  LET taken == [pool EXCEPT !.is_free_[pool.next_free_index] = FALSE]
  IN  [taken EXCEPT !.next_free_index = @ + 1]

(* The pool after the block is marked in use, before the cursor moves.     *)
Taken(pool) == [pool EXCEPT !.is_free_[pool.next_free_index] = FALSE]

(* The pool after an allocate that did not end in FATAL.                   *)
Allocated(pool) == [Taken(pool) EXCEPT !.next_free_index = NextFreeIndex(Taken(pool))]

(* deallocate's second ASSERT: the block is in use.                        *)
InUse(pool, block) == ~ pool.is_free_[block]

(* A seeded fault: the block is not marked free.                           *)
DeallocationForgotten(pool, block) == pool

Deallocated(pool, block) == [pool EXCEPT !.is_free_[block] = TRUE]
=============================================================================
