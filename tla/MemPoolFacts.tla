---------------------------- MODULE MemPoolFacts ----------------------------
(***************************************************************************)
(* What allocate and deallocate do to a pool of any size.                  *)
(***************************************************************************)
EXTENDS MemPool, WellFoundedInduction, TLAPS

(* A non-empty set of naturals has a least element.                        *)
LEMMA LeastNatural ==
  ASSUME NEW T \in SUBSET Nat, T # {}
  PROVE  \E x \in T : \A y \in T : x <= y
<1>1. PICK x \in T : \A y \in T : ~ (<<y, x>> \in OpToRel(<, Nat))
  BY NatLessThanWellFounded, WFMin
<1>2. ASSUME NEW y \in T
      PROVE  x <= y
  <2>1. ~ (<<y, x>> \in OpToRel(<, Nat))
    BY <1>1
  <2>2. ~ (y < x)
    BY <2>1 DEF OpToRel
  <2> QED
    BY <2>2
<1> QED
  BY <1>2

-----------------------------------------------------------------------------
(* The number of increments is a natural number.                           *)
LEMMA IncrementsNat ==
  ASSUME NEW i \in Blocks, NEW j \in Blocks
  PROVE  Increments(i, j) \in Nat
BY NumElemsAssumption DEF Blocks, Increments

(* updateNextFreeIndex stops at a free block whenever there is one.        *)
LEMMA NextFreeIndexIsFree ==
  ASSUME NEW p \in Pools, ~ OutOfSpace(p)
  PROVE  NextFreeIndex(p) \in FreeBlocks(p)
<1> DEFINE distances == {Increments(p.next_free_index, b) : b \in FreeBlocks(p)}
<1>1. p.next_free_index \in Blocks /\ FreeBlocks(p) \subseteq Blocks
  BY DEF Pools, FreeBlocks
<1>2. distances \in SUBSET Nat /\ distances # {}
  BY <1>1, IncrementsNat DEF OutOfSpace
<1>3. PICK least \in distances : \A d \in distances : least <= d
  <2> HIDE DEF distances
  <2> QED BY <1>2, LeastNatural
<1>4. PICK b \in FreeBlocks(p) : least = Increments(p.next_free_index, b)
  BY <1>3
<1>5. \A other \in FreeBlocks(p) :
        Increments(p.next_free_index, b) <= Increments(p.next_free_index, other)
  BY <1>3, <1>4
<1> QED
  BY <1>4, <1>5 DEF NextFreeIndex

(* allocate that finds another free block: what it returns was free, the   *)
(* rest of the pool is as it was, and the new cursor is on a free block.   *)
LEMMA AllocateEffect ==
  ASSUME NEW p \in Pools, CursorIsFree(p), ~ OutOfSpace(Taken(p))
  PROVE  /\ Allocated(p) \in Pools
         /\ CursorIsFree(Allocated(p))
         /\ FreeBlocks(Allocated(p)) = FreeBlocks(p) \ {AllocatedBlock(p)}
         /\ AllocatedBlock(p) \in FreeBlocks(p)
<1> DEFINE t == Taken(p)
<1>1. /\ t \in Pools
      /\ FreeBlocks(t) = FreeBlocks(p) \ {p.next_free_index}
      /\ p.next_free_index \in FreeBlocks(p)
  BY DEF Pools, Taken, FreeBlocks, CursorIsFree
<1>2. NextFreeIndex(t) \in FreeBlocks(t)
  BY <1>1, NextFreeIndexIsFree
<1>3. /\ Allocated(p) \in Pools
      /\ Allocated(p).is_free_ = t.is_free_
      /\ Allocated(p).next_free_index = NextFreeIndex(t)
  <2> HIDE DEF t
  <2>1. Allocated(p) = [t EXCEPT !.next_free_index = NextFreeIndex(t)]
    BY DEF Allocated, t
  <2>2. NextFreeIndex(t) \in Blocks
    BY <1>2 DEF FreeBlocks
  <2> QED
    BY <1>1, <2>1, <2>2 DEF Pools
<1>4. CursorIsFree(Allocated(p))
  BY <1>2, <1>3 DEF CursorIsFree, FreeBlocks
<1>5. FreeBlocks(Allocated(p)) = FreeBlocks(t)
  BY <1>3 DEF FreeBlocks
<1> QED
  BY <1>1, <1>3, <1>4, <1>5 DEF AllocatedBlock

(* deallocate frees one block and leaves the cursor where it was.          *)
LEMMA DeallocateEffect ==
  ASSUME NEW p \in Pools, NEW b \in Blocks
  PROVE  /\ Deallocated(p, b) \in Pools
         /\ Deallocated(p, b).next_free_index = p.next_free_index
         /\ FreeBlocks(Deallocated(p, b)) = FreeBlocks(p) \cup {b}
         /\ CursorIsFree(p) => CursorIsFree(Deallocated(p, b))
BY DEF Pools, Deallocated, FreeBlocks, CursorIsFree
=============================================================================
