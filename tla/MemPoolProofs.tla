--------------------------- MODULE MemPoolProofs ---------------------------
(***************************************************************************)
(* What holds of a MemPool of any size under any sequence of calls: the    *)
(* cursor is never stale, so allocate's ASSERT cannot fire and no live     *)
(* object is handed out twice; the pool runs out only when it is full; a   *)
(* freed block is not the next one handed out.                             *)
(***************************************************************************)
EXTENDS MemPoolClient, MemPoolFacts

-----------------------------------------------------------------------------
(* The inductive invariant: the four invariants together.  That the pool   *)
(* runs out only when full needs the pool and the client to agree, and     *)
(* that a live block is not handed out needs the cursor on a free one.     *)
IInv == TypeOK /\ PoolMatchesClient /\ CursorNeverStale /\ RunsOutOnlyWhenFull

LEMMA InitIInv == Init => IInv
<1> SUFFICES ASSUME Init PROVE IInv
  OBVIOUS
<1>1. NewPool \in Pools /\ FreeBlocks(NewPool) = Blocks /\ CursorIsFree(NewPool)
  BY NumElemsAssumption DEF NewPool, Pools, FreeBlocks, Blocks, CursorIsFree
<1> QED
  BY <1>1 DEF Init, IInv, TypeOK, PoolMatchesClient, CursorNeverStale,
              RunsOutOnlyWhenFull, Statuses

LEMMA AllocateIInv == IInv /\ Allocate => IInv'
<1> SUFFICES ASSUME IInv, Allocate PROVE IInv'
  OBVIOUS
<1> USE DEF IInv, TypeOK, PoolMatchesClient, CursorNeverStale, RunsOutOnlyWhenFull
<1>1. CursorIsFree(pool) /\ status' = AllocateOutcome
  BY DEF Allocate
<1>2. CASE OutOfSpace(Taken(pool))
  <2>1. status' = "fatal_space" /\ pool' = Taken(pool) /\ held' = held
    BY <1>1, <1>2 DEF Allocate, AllocateOutcome
  <2>2. /\ Taken(pool) \in Pools
        /\ FreeBlocks(Taken(pool)) = {}
        /\ Taken(pool).next_free_index = pool.next_free_index
        /\ FreeBlocks(pool) = {pool.next_free_index}
    BY <1>1, <1>2 DEF Pools, Taken, FreeBlocks, OutOfSpace, CursorIsFree
  <2>3. held = Blocks \ {pool.next_free_index}
    BY <2>2 DEF Allocate
  <2> QED
    BY <2>1, <2>2, <2>3 DEF Statuses
<1>3. CASE ~ OutOfSpace(Taken(pool))
  <2>1. /\ status' = "running" /\ pool' = Allocated(pool)
        /\ held' = held \cup {AllocatedBlock(pool)}
    BY <1>1, <1>3 DEF Allocate, AllocateOutcome
  <2>2. /\ pool' \in Pools
        /\ CursorIsFree(pool')
        /\ FreeBlocks(pool') = FreeBlocks(pool) \ {AllocatedBlock(pool)}
        /\ AllocatedBlock(pool) \in FreeBlocks(pool)
    BY <1>1, <1>3, <2>1, AllocateEffect
  <2>3. AllocatedBlock(pool) \in Blocks /\ held = Blocks \ FreeBlocks(pool)
    BY <2>2 DEF FreeBlocks, Allocate
  <2> QED
    BY <2>1, <2>2, <2>3 DEF Statuses
<1> QED
  BY <1>2, <1>3

LEMMA DeallocateIInv ==
  ASSUME IInv, NEW elem \in Blocks \cup {Foreign}, Deallocate(elem)
  PROVE  IInv'
<1> USE DEF IInv, TypeOK, PoolMatchesClient, CursorNeverStale, RunsOutOnlyWhenFull
<1>1. CASE UNCHANGED <<pool, held>>
  BY <1>1 DEF Deallocate, Statuses
<1>2. CASE ~ UNCHANGED <<pool, held>>
  <2>1. /\ elem \in Blocks /\ status = "running" /\ status' = status
        /\ pool' = Deallocated(pool, elem) /\ held' = held \ {elem}
    BY <1>2 DEF Deallocate
  <2>2. /\ pool' \in Pools
        /\ FreeBlocks(pool') = FreeBlocks(pool) \cup {elem}
        /\ CursorIsFree(pool')
    BY <2>1, DeallocateEffect
  <2> QED
    BY <2>1, <2>2
<1> QED
  BY <1>1, <1>2

LEMMA NextIInv == IInv /\ [Next]_vars => IInv'
<1> SUFFICES ASSUME IInv, [Next]_vars PROVE IInv'
  OBVIOUS
<1>1. CASE Allocate
  BY <1>1, AllocateIInv
<1>2. ASSUME NEW elem \in Blocks \cup {Foreign}, Deallocate(elem)
      PROVE  IInv'
  BY <1>2, DeallocateIInv
<1>3. CASE UNCHANGED vars
  BY <1>3 DEF vars, IInv, TypeOK, PoolMatchesClient, CursorNeverStale, RunsOutOnlyWhenFull
<1> QED
  BY <1>1, <1>2, <1>3 DEF Next, Exited

LEMMA IInvHolds == Spec => []IInv
BY InitIInv, NextIInv, PTL DEF Spec

-----------------------------------------------------------------------------
(* Every variable of a pool and its client keeps its type.                 *)
THEOREM TypeCorrect == Spec => []TypeOK
<1>1. IInv => TypeOK BY DEF IInv
<1> QED BY <1>1, IInvHolds, PTL

(* The pool and the client agree on what is in use.                        *)
THEOREM PoolAgreesWithClient == Spec => []PoolMatchesClient
<1>1. IInv => PoolMatchesClient BY DEF IInv
<1> QED BY <1>1, IInvHolds, PTL

(* allocate's ASSERT (mem_pool.h:38) never fires: the block under the      *)
(* cursor is free whenever allocate is called.                             *)
THEOREM AllocateNeverAsserts == Spec => []CursorNeverStale
<1>1. IInv => CursorNeverStale BY DEF IInv
<1> QED BY <1>1, IInvHolds, PTL

(* "MemPool out of space" means that every block is in use.                *)
THEOREM FatalOnlyWhenFull == Spec => []RunsOutOnlyWhenFull
<1>1. IInv => RunsOutOnlyWhenFull BY DEF IInv
<1> QED BY <1>1, IInvHolds, PTL

(* A step that frees a block leaves the cursor on another one.             *)
THEOREM FreedBlockIsNotNext == Spec => NoImmediateReuse
<1>1. IInv /\ [Next]_vars =>
        [\A b \in Blocks : (~ pool.is_free_[b] /\ pool'.is_free_[b])
                             => AllocatedBlock(pool') # b]_vars
  <2> SUFFICES ASSUME IInv, Next, NEW b \in Blocks,
                      ~ pool.is_free_[b], pool'.is_free_[b]
               PROVE  AllocatedBlock(pool') # b
    OBVIOUS
  <2>1. pool \in Pools /\ pool' # pool
    BY DEF IInv, TypeOK
  <2>2. CASE Allocate
    <3>1. pool' = Taken(pool) \/ (CursorIsFree(pool) /\ ~ OutOfSpace(Taken(pool))
                                   /\ pool' = Allocated(pool))
      BY <2>1, <2>2 DEF Allocate, AllocateOutcome
    <3>2. b \notin FreeBlocks(pool) /\ b \in FreeBlocks(pool')
      BY DEF FreeBlocks
    <3>3. CASE pool' = Taken(pool)
      BY <2>1, <3>2, <3>3 DEF FreeBlocks, Taken, Pools
    <3> QED
      BY <2>1, <3>1, <3>2, <3>3, AllocateEffect
  <2>3. ASSUME NEW elem \in Blocks \cup {Foreign}, Deallocate(elem)
        PROVE  AllocatedBlock(pool') # b
    <3>1. elem \in Blocks /\ status = "running" /\ pool' = Deallocated(pool, elem)
      BY <2>1, <2>3 DEF Deallocate
    <3>2. pool'.next_free_index = pool.next_free_index
      BY <2>1, <3>1, DeallocateEffect
    <3>3. pool.is_free_[pool.next_free_index]
      BY <3>1 DEF IInv, CursorNeverStale, CursorIsFree
    <3> QED
      BY <3>2, <3>3 DEF AllocatedBlock
  <2> QED
    BY <2>1, <2>2, <2>3 DEF Next, Exited, vars
<1> QED
  BY <1>1, IInvHolds, PTL DEF Spec, NoImmediateReuse
=============================================================================
