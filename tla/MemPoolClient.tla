--------------------------- MODULE MemPoolClient ---------------------------
(***************************************************************************)
(* One MemPool and the code that uses it.  The client holds the pointers   *)
(* it was given and may hand any pointer back: one it holds, one it has    *)
(* already returned, or one into another pool.  allocate and deallocate    *)
(* are whole actions: a pool is used by one thread.                        *)
(***************************************************************************)
EXTENDS MemPool

VARIABLES
  pool,     \* store_'s is_free_ flags and next_free_index
  held,     \* the blocks whose pointers the client was given and not returned
  status    \* "running", or how the process ended

vars == <<pool, held, status>>

(* A pointer that is not into store_: another pool's, or the caller's own. *)
Foreign == NumElems

Statuses == {"running",
             "assert_free",      \* ASSERT at mem_pool.h:38
             "fatal_space",      \* FATAL  at mem_pool.h:20
             "assert_belongs",   \* ASSERT at mem_pool.h:49
             "assert_in_use"}    \* ASSERT at mem_pool.h:51

Init ==
  /\ pool = NewPool
  /\ held = {}
  /\ status = "running"

-----------------------------------------------------------------------------
(* allocate: the ASSERT, the block marked, the object constructed, the     *)
(* cursor moved.  A failed ASSERT or FATAL ends the process before the     *)
(* pointer is returned.                                                    *)
AllocateOutcome ==
  IF ~ CursorIsFree(pool) THEN "assert_free"
  ELSE IF OutOfSpace(Taken(pool)) THEN "fatal_space"
  ELSE "running"

Allocate ==
  /\ status = "running"
  /\ status' = AllocateOutcome
  /\ CASE status' = "assert_free" -> UNCHANGED <<pool, held>>
       [] status' = "fatal_space" -> pool' = Taken(pool) /\ UNCHANGED held
       [] status' = "running"     -> /\ pool' = Allocated(pool)
                                     /\ held' = held \cup {AllocatedBlock(pool)}

(* deallocate of the pointer to a block, or of a foreign pointer.          *)
Deallocate(elem) ==
  /\ status = "running"
  /\ \/ /\ elem = Foreign
        /\ status' = "assert_belongs"
        /\ UNCHANGED <<pool, held>>
     \/ /\ elem # Foreign
        /\ ~ InUse(pool, elem)
        /\ status' = "assert_in_use"
        /\ UNCHANGED <<pool, held>>
     \/ /\ elem # Foreign
        /\ InUse(pool, elem)
        /\ pool' = Deallocated(pool, elem)
        /\ held' = held \ {elem}
        /\ UNCHANGED status

(* exit(EXIT_FAILURE): nothing happens any more.                           *)
Exited == status # "running" /\ UNCHANGED vars

Next ==
  \/ Allocate
  \/ \E elem \in Blocks \cup {Foreign} : Deallocate(elem)
  \/ Exited

Spec == Init /\ [][Next]_vars

-----------------------------------------------------------------------------
(* Every variable stays in its type.                                       *)
TypeOK ==
  /\ pool \in Pools
  /\ held \in SUBSET Blocks
  /\ status \in Statuses

(* While the process runs, the pool's idea of what is in use and the       *)
(* client's agree: no object is lost, none is free and still held.  Both   *)
(* allocate (which moves a cursor past used blocks) and deallocate (which  *)
(* leaves the cursor alone) have to keep it.                               *)
PoolMatchesClient == status = "running" => held = Blocks \ FreeBlocks(pool)

(* The cursor left by one call is good for the next, whatever deallocate   *)
(* calls come in between: allocate's own ASSERT (mem_pool.h:38) is dead    *)
(* code, and so a live object is never handed out twice.                   *)
CursorNeverStale ==
  /\ status = "running" => CursorIsFree(pool)
  /\ status # "assert_free"

(* The pool gives up (FATAL) only when all its blocks are taken, and it    *)
(* does so one object early: the client then holds NumElems - 1 objects    *)
(* and the last block was taken for an object nobody received.             *)
RunsOutOnlyWhenFull ==
  status = "fatal_space" =>
    /\ FreeBlocks(pool) = {}
    /\ held = Blocks \ {pool.next_free_index}

(* A block that was just returned is never the next one handed out, so a   *)
(* caller that still reads through the pointer it has just returned (as    *)
(* removeOrder's callers could) reads the dead object and not a new one.   *)
NoImmediateReuse ==
  [][\A b \in Blocks :
       (~ pool.is_free_[b] /\ pool'.is_free_[b]) => AllocatedBlock(pool') # b]_vars
=============================================================================
