-------------------------- MODULE MEOrderBookProofs --------------------------
(***************************************************************************)
(* The order book of any size, under any sequence of calls: types, levels, *)
(* handles, first in first out, and what a subscriber knows.               *)
(***************************************************************************)
EXTENDS MEOrderBook, FiniteSetTheorems, TLAPS

OrderPoolFacts == INSTANCE MemPoolFacts WITH NumElems <- ME_MAX_ORDER_IDS
LevelPoolFacts == INSTANCE MemPoolFacts WITH NumElems <- ME_MAX_PRICE_LEVELS

(* Numbers only: a block is no nullptr, nor what an allocator left.        *)
LEMMA Blocks ==
  /\ Null \notin OrderPool!Blocks /\ Null \notin LevelPool!Blocks
  /\ Wild \notin OrderPool!Blocks /\ Wild \notin LevelPool!Blocks
  /\ OrderPool!Blocks \subseteq Nat /\ LevelPool!Blocks \subseteq Nat
  /\ NoObject = {Null, Wild}
BY MEOrderBookAssumption DEF OrderPool!Blocks, LevelPool!Blocks, NoObject

LEMMA IndexOfPrice ==
  ASSUME NEW price \in Nat
  PROVE  PriceToIndex(price) \in Slots
BY MEOrderBookAssumption DEF PriceToIndex, Slots

-----------------------------------------------------------------------------
(* The two pools.                                                          *)
LEMMA OrderPoolProperties ==
  ASSUME NEW p \in OrderPool!Pools
  PROVE  /\ OrderPool!FreeBlocks(p) \subseteq OrderPool!Blocks
         /\ OrderPool!AllocatedBlock(p) \in OrderPool!Blocks
         /\ \A o \in OrderPool!Blocks :
              /\ OrderPool!InUse(p, o) <=> o \notin OrderPool!FreeBlocks(p)
              /\ OrderPool!Deallocated(p, o) \in OrderPool!Pools
              /\ OrderPool!FreeBlocks(OrderPool!Deallocated(p, o)) = OrderPool!FreeBlocks(p) \cup {o}
BY DEF OrderPool!Blocks, OrderPool!Pools, OrderPool!FreeBlocks, OrderPool!AllocatedBlock,
   OrderPool!InUse, OrderPool!Deallocated

LEMMA LevelPoolProperties ==
  ASSUME NEW p \in LevelPool!Pools
  PROVE  /\ LevelPool!FreeBlocks(p) \subseteq LevelPool!Blocks
         /\ LevelPool!AllocatedBlock(p) \in LevelPool!Blocks
         /\ \A l \in LevelPool!Blocks :
              /\ LevelPool!InUse(p, l) <=> l \notin LevelPool!FreeBlocks(p)
              /\ LevelPool!Deallocated(p, l) \in LevelPool!Pools
              /\ LevelPool!FreeBlocks(LevelPool!Deallocated(p, l)) = LevelPool!FreeBlocks(p) \cup {l}
BY DEF LevelPool!Blocks, LevelPool!Pools, LevelPool!FreeBlocks, LevelPool!AllocatedBlock,
   LevelPool!InUse, LevelPool!Deallocated

LEMMA OrderAllocated ==
  ASSUME NEW p \in OrderPool!Pools, OrderPool!CursorIsFree(p),
         ~ OrderPool!OutOfSpace(OrderPool!Taken(p))
  PROVE  /\ OrderPool!Allocated(p) \in OrderPool!Pools
         /\ OrderPool!AllocatedBlock(p) \in OrderPool!FreeBlocks(p)
         /\ OrderPool!FreeBlocks(OrderPool!Allocated(p)) =
              OrderPool!FreeBlocks(p) \ {OrderPool!AllocatedBlock(p)}
BY OrderPoolFacts!AllocateEffect, MEOrderBookAssumption
DEF OrderPool!Blocks, OrderPool!Pools, OrderPool!FreeBlocks, OrderPool!Increments,
    OrderPool!NextFreeIndex, OrderPool!OutOfSpace, OrderPool!CursorIsFree,
    OrderPool!AllocatedBlock, OrderPool!Taken, OrderPool!Allocated,
    OrderPoolFacts!Blocks, OrderPoolFacts!Pools, OrderPoolFacts!FreeBlocks,
    OrderPoolFacts!Increments, OrderPoolFacts!NextFreeIndex, OrderPoolFacts!OutOfSpace,
    OrderPoolFacts!CursorIsFree, OrderPoolFacts!AllocatedBlock, OrderPoolFacts!Taken,
    OrderPoolFacts!Allocated

LEMMA LevelAllocated ==
  ASSUME NEW p \in LevelPool!Pools, LevelPool!CursorIsFree(p),
         ~ LevelPool!OutOfSpace(LevelPool!Taken(p))
  PROVE  /\ LevelPool!Allocated(p) \in LevelPool!Pools
         /\ LevelPool!AllocatedBlock(p) \in LevelPool!FreeBlocks(p)
         /\ LevelPool!FreeBlocks(LevelPool!Allocated(p)) =
              LevelPool!FreeBlocks(p) \ {LevelPool!AllocatedBlock(p)}
BY LevelPoolFacts!AllocateEffect, MEOrderBookAssumption
DEF LevelPool!Blocks, LevelPool!Pools, LevelPool!FreeBlocks, LevelPool!Increments,
    LevelPool!NextFreeIndex, LevelPool!OutOfSpace, LevelPool!CursorIsFree,
    LevelPool!AllocatedBlock, LevelPool!Taken, LevelPool!Allocated,
    LevelPoolFacts!Blocks, LevelPoolFacts!Pools, LevelPoolFacts!FreeBlocks,
    LevelPoolFacts!Increments, LevelPoolFacts!NextFreeIndex, LevelPoolFacts!OutOfSpace,
    LevelPoolFacts!CursorIsFree, LevelPoolFacts!AllocatedBlock, LevelPoolFacts!Taken,
    LevelPoolFacts!Allocated

LEMMA NewPools ==
  /\ OrderPool!NewPool \in OrderPool!Pools
  /\ OrderPool!FreeBlocks(OrderPool!NewPool) = OrderPool!Blocks
  /\ LevelPool!NewPool \in LevelPool!Pools
  /\ LevelPool!FreeBlocks(LevelPool!NewPool) = LevelPool!Blocks
BY MEOrderBookAssumption
DEF OrderPool!Blocks, OrderPool!Pools, OrderPool!FreeBlocks, OrderPool!NewPool,
    LevelPool!Blocks, LevelPool!Pools, LevelPool!FreeBlocks, LevelPool!NewPool

-----------------------------------------------------------------------------
(* A book stays a book when one field is replaced by another of its type.  *)
LEMMA OrdersReplaced ==
  ASSUME NEW b \in Books, NEW f \in [OrderPool!Blocks -> Orders \cup {Null}]
  PROVE  [b EXCEPT !.order = f] \in Books
BY DEF Books

LEMMA LevelsReplaced ==
  ASSUME NEW b \in Books, NEW f \in [LevelPool!Blocks -> Levels \cup {Null}]
  PROVE  [b EXCEPT !.level = f] \in Books
BY DEF Books

LEMMA StatusReplaced ==
  ASSUME NEW b \in Books, NEW how \in Statuses \ {"running"}
  PROVE  Ended(b, how) \in Books /\ ~ Running(Ended(b, how))
BY DEF Books, Ended, Running

(* One field of one order, or of one level.                                *)
LEMMA OrderFields ==
  ASSUME NEW order \in Orders, NEW o \in OrderPool!Blocks \cup {Null}
  PROVE  [order EXCEPT !.prev_order_ = o] \in Orders /\ [order EXCEPT !.next_order_ = o] \in Orders
BY DEF Orders

LEMMA LevelFields ==
  ASSUME NEW level \in Levels, NEW l \in LevelPool!Blocks \cup {Null}, NEW o \in OrderPool!Blocks
  PROVE  /\ [level EXCEPT !.prev_entry_ = l] \in Levels /\ [level EXCEPT !.next_entry_ = l] \in Levels
         /\ [level EXCEPT !.first_me_order_ = o] \in Levels
BY DEF Levels

-----------------------------------------------------------------------------
(* Levels that have been constructed, in use or freed; every pointer to a  *)
(* level leads to one of them, and from it to a constructed order.         *)
Made(b) == {l \in LevelPool!Blocks : b.level[l] # Null}

PointersInv(b) ==
  /\ \A l \in Made(b) :
       /\ b.order[b.level[l].first_me_order_] # Null
       /\ {b.level[l].prev_entry_, b.level[l].next_entry_} \subseteq Made(b) \cup {Null}
  /\ {b.bids_by_price_, b.asks_by_price_} \subseteq Made(b) \cup {Null}

(* Nothing but the lists of levels has changed.                            *)
Relinked(b, c) ==
  /\ c \in Books /\ PointersInv(c) /\ Made(c) = Made(b)
  /\ \A l \in Made(b) : c.level[l].first_me_order_ = b.level[l].first_me_order_
  /\ c.order = b.order /\ c.order_pool_ = b.order_pool_
  /\ c.orders_at_price_pool_ = b.orders_at_price_pool_
  /\ c.price_orders_at_price_ = b.price_orders_at_price_
  /\ c.cid_oid_to_order_ = b.cid_oid_to_order_
  /\ c.next_market_order_id_ = b.next_market_order_id_
  /\ c.status = b.status

LEMMA RelinkedOnce ==
  ASSUME NEW b \in Books, PointersInv(b), NEW l \in Made(b), NEW to \in Made(b) \cup {Null}
  PROVE  /\ Relinked(b, [b EXCEPT !.level[l].prev_entry_ = to])
         /\ Relinked(b, [b EXCEPT !.level[l].next_entry_ = to])
<1>1. /\ b.level \in [LevelPool!Blocks -> Levels \cup {Null}] /\ l \in LevelPool!Blocks
      /\ to \in LevelPool!Blocks \cup {Null} /\ b.level[l] \in Levels /\ Null \notin Levels
  BY NullAssumption DEF Books, Made
<1>2. ASSUME NEW level \in Levels,
             level.first_me_order_ = b.level[l].first_me_order_,
             {level.prev_entry_, level.next_entry_} \subseteq Made(b) \cup {Null}
      PROVE  Relinked(b, [b EXCEPT !.level = [b.level EXCEPT ![l] = level]])
  <2> DEFINE f == [b.level EXCEPT ![l] = level]
             c == [b EXCEPT !.level = f]
  <2>1. f \in [LevelPool!Blocks -> Levels \cup {Null}]
    BY <1>1
  <2>2. \A k \in LevelPool!Blocks : f[k] = IF k = l THEN level ELSE b.level[k]
    BY <1>1
  <2> HIDE DEF f
  <2>3. c \in Books
    BY <2>1, LevelsReplaced
  <2>4. /\ c.level = f /\ c.order = b.order /\ c.order_pool_ = b.order_pool_
        /\ c.orders_at_price_pool_ = b.orders_at_price_pool_
        /\ c.price_orders_at_price_ = b.price_orders_at_price_
        /\ c.cid_oid_to_order_ = b.cid_oid_to_order_
        /\ c.next_market_order_id_ = b.next_market_order_id_ /\ c.status = b.status
        /\ c.bids_by_price_ = b.bids_by_price_ /\ c.asks_by_price_ = b.asks_by_price_
    BY DEF Books
  <2> HIDE DEF c
  <2>5. Made(c) = Made(b)
    BY <1>1, <1>2, <2>2, <2>4 DEF Made
  <2>6. \A k \in Made(b) : c.level[k].first_me_order_ = b.level[k].first_me_order_
    BY <1>2, <2>2, <2>4 DEF Made
  <2>7. PointersInv(c)
    BY <1>2, <2>2, <2>4, <2>5, <2>6 DEF PointersInv, Made
  <2> QED
    BY <2>3, <2>4, <2>5, <2>6, <2>7 DEF Relinked, c, f
<1>3. {b.level[l].prev_entry_, b.level[l].next_entry_} \subseteq Made(b) \cup {Null}
  BY DEF PointersInv
<1>4. /\ [b EXCEPT !.level[l].prev_entry_ = to] =
           [b EXCEPT !.level = [b.level EXCEPT ![l] = [b.level[l] EXCEPT !.prev_entry_ = to]]]
      /\ [b EXCEPT !.level[l].next_entry_ = to] =
           [b EXCEPT !.level = [b.level EXCEPT ![l] = [b.level[l] EXCEPT !.next_entry_ = to]]]
  OBVIOUS
<1>5. Relinked(b, [b EXCEPT !.level[l].prev_entry_ = to])
  <2> DEFINE level == [b.level[l] EXCEPT !.prev_entry_ = to]
  <2>1. /\ level \in Levels /\ level.first_me_order_ = b.level[l].first_me_order_
        /\ level.prev_entry_ = to /\ level.next_entry_ = b.level[l].next_entry_
    BY <1>1 DEF Levels
  <2> HIDE DEF level
  <2>2. Relinked(b, [b EXCEPT !.level = [b.level EXCEPT ![l] = level]])
    BY <1>2, <1>3, <2>1
  <2> QED
    BY <1>4, <2>2 DEF level
<1>6. Relinked(b, [b EXCEPT !.level[l].next_entry_ = to])
  <2> DEFINE level == [b.level[l] EXCEPT !.next_entry_ = to]
  <2>1. /\ level \in Levels /\ level.first_me_order_ = b.level[l].first_me_order_
        /\ level.next_entry_ = to /\ level.prev_entry_ = b.level[l].prev_entry_
    BY <1>1 DEF Levels
  <2> HIDE DEF level
  <2>2. Relinked(b, [b EXCEPT !.level = [b.level EXCEPT ![l] = level]])
    BY <1>2, <1>3, <2>1
  <2> QED
    BY <1>4, <2>2 DEF level
<1> QED
  BY <1>5, <1>6

LEMMA HeadMoved ==
  ASSUME NEW b \in Books, PointersInv(b), NEW head \in {"bids_by_price_", "asks_by_price_"},
         NEW l \in Made(b) \cup {Null}
  PROVE  Relinked(b, [b EXCEPT ![head] = l])
<1> DEFINE c == [b EXCEPT ![head] = l]
<1>1. l \in LevelPool!Blocks \cup {Null}
  BY DEF Made
<1>2. /\ c \in Books
      /\ c.level = b.level /\ c.order = b.order /\ c.order_pool_ = b.order_pool_
      /\ c.orders_at_price_pool_ = b.orders_at_price_pool_
      /\ c.price_orders_at_price_ = b.price_orders_at_price_
      /\ c.cid_oid_to_order_ = b.cid_oid_to_order_
      /\ c.next_market_order_id_ = b.next_market_order_id_ /\ c.status = b.status
      /\ c.bids_by_price_ \in {b.bids_by_price_, l} /\ c.asks_by_price_ \in {b.asks_by_price_, l}
  BY <1>1 DEF Books
<1> HIDE DEF c
<1> QED
  BY <1>2 DEF Relinked, PointersInv, Made, c

LEMMA RelinkedNever ==
  ASSUME NEW b \in Books, PointersInv(b)
  PROVE  Relinked(b, b)
BY DEF Relinked

LEMMA RelinkedAgain ==
  ASSUME NEW b, NEW c, Relinked(b, c)
  PROVE  /\ \A l \in Made(b), to \in Made(b) \cup {Null} :
              /\ Relinked(b, [c EXCEPT !.level[l].prev_entry_ = to])
              /\ Relinked(b, [c EXCEPT !.level[l].next_entry_ = to])
         /\ \A head \in {"bids_by_price_", "asks_by_price_"}, l \in Made(b) \cup {Null} :
              /\ Relinked(b, [c EXCEPT ![head] = l])
              /\ c[head] \in Made(b) \cup {Null}
<1>1. c \in Books /\ PointersInv(c) /\ Made(c) = Made(b)
  BY DEF Relinked
<1>2. ASSUME NEW d, Relinked(c, d) PROVE Relinked(b, d)
  BY <1>2 DEF Relinked
<1>3. \A l \in Made(b), to \in Made(b) \cup {Null} :
        /\ Relinked(b, [c EXCEPT !.level[l].prev_entry_ = to])
        /\ Relinked(b, [c EXCEPT !.level[l].next_entry_ = to])
  BY <1>1, <1>2, RelinkedOnce
<1>4. \A head \in {"bids_by_price_", "asks_by_price_"}, l \in Made(b) \cup {Null} :
        Relinked(b, [c EXCEPT ![head] = l])
  BY <1>1, <1>2, HeadMoved
<1>5. \A head \in {"bids_by_price_", "asks_by_price_"} : c[head] \in Made(b) \cup {Null}
  BY <1>1 DEF PointersInv
<1> QED
  BY <1>3, <1>4, <1>5

-----------------------------------------------------------------------------
(* The invariant of a running book, part by part.                          *)

(* The levels in use are the mapped ones, each at one index.               *)
MapInv(b) ==
  /\ LiveLevels(b) = MappedLevels(b)
  /\ LiveLevels(b) \subseteq Made(b)
  /\ \A i, j \in Slots :
       /\ b.price_orders_at_price_[i] \notin NoObject
       /\ b.price_orders_at_price_[i] = b.price_orders_at_price_[j]
       => i = j

(* The first order at an index, if there is a level.                       *)
FirstAt(b, i) ==
  IF b.price_orders_at_price_[i] \in NoObject THEN Null
  ELSE b.level[b.price_orders_at_price_[i]].first_me_order_

Firsts(b) == [i \in Slots |-> FirstAt(b, i)]

IndexOf(order) == PriceToIndex(order.price_)

(* Live orders are linked in both directions, among those of their index;  *)
(* but for the link back to the first one, links lead to younger orders.   *)
LinksInv(order, live, first) ==
  /\ \A o \in live :
       /\ order[o] \in Orders
       /\ order[o].prev_order_ \in live /\ order[o].next_order_ \in live
       /\ order[order[o].next_order_].prev_order_ = o
       /\ order[order[o].prev_order_].next_order_ = o
       /\ IndexOf(order[order[o].next_order_]) = IndexOf(order[o])
       /\ first[IndexOf(order[o])] # Null
       /\ \/ order[o].next_order_ = first[IndexOf(order[o])]
          \/ order[o].market_order_id_ < order[order[o].next_order_].market_order_id_
  /\ \A i \in Slots : first[i] # Null => first[i] \in live /\ IndexOf(order[first[i]]) = i

(* Market order ids are given out once.  What is freed has links to itself *)
(* only: whatever leads there cannot reach an order in use.                *)
BlocksInv(order, live, bound) ==
  /\ \A o \in OrderPool!Blocks :
       order[o] # Null =>
         /\ order[o].market_order_id_ < bound
         /\ o \notin live => order[o].prev_order_ \in {o, Null}
  /\ \A o, p \in OrderPool!Blocks :
       /\ order[o] # Null /\ order[p] # Null
       /\ order[o].market_order_id_ = order[p].market_order_id_
       => o = p

(* The table leads to orders in use with these ids, and to all of them     *)
(* unless ids are used again.                                              *)
HandlesInv(table, order, live) ==
  /\ \A c \in Clients, id \in OrderIds :
       table[c][id] \notin NoObject =>
         /\ table[c][id] \in live
         /\ order[table[c][id]].client_id_ = c
         /\ order[table[c][id]].client_order_id_ = id
  /\ ~ ClientsReuseIds =>
       \A o \in live : table[order[o].client_id_][order[o].client_order_id_] = o

BookInv(b) ==
  /\ PointersInv(b) /\ MapInv(b)
  /\ LinksInv(b.order, LiveOrders(b), Firsts(b))
  /\ BlocksInv(b.order, LiveOrders(b), b.next_market_order_id_)
  /\ HandlesInv(b.cid_oid_to_order_, b.order, LiveOrders(b))

IInv == TypeOK /\ SubscriberHasTheBook /\ (Running(book) => BookInv(book))

-----------------------------------------------------------------------------
(* The lists of levels: each operation relinks them or ends the process.   *)
LEMMA InsertedAfterEffect ==
  ASSUME NEW b \in Books, PointersInv(b), NEW target \in Made(b), NEW l \in Made(b)
  PROVE  /\ InsertedAfter(b, target, l) \in Books
         /\ Running(InsertedAfter(b, target, l)) => Relinked(b, InsertedAfter(b, target, l))
<1> DEFINE next == b.level[target].next_entry_
           b1 == [b EXCEPT !.level[next].prev_entry_ = l]
           b2 == [b1 EXCEPT !.level[l].next_entry_ = next]
           b3 == [b2 EXCEPT !.level[target].next_entry_ = l]
           b4 == [b3 EXCEPT !.level[l].prev_entry_ = target]
<1>1. next \in Made(b) \cup {Null}
  BY DEF PointersInv
<1>2. CASE next = Null
  BY <1>2, StatusReplaced DEF InsertedAfter, Statuses
<1>3. CASE next # Null
  <2>1. InsertedAfter(b, target, l) = b4
    BY <1>3 DEF InsertedAfter
  <2> HIDE DEF next
  <2>2. Relinked(b, b1)
    BY <1>1, <1>3, RelinkedNever, RelinkedAgain
  <2> HIDE DEF b1
  <2>3. Relinked(b, b2)
    BY <1>1, <1>3, <2>2, RelinkedAgain
  <2> HIDE DEF b2
  <2>4. Relinked(b, b3)
    BY <1>1, <1>3, <2>3, RelinkedAgain
  <2> HIDE DEF b3
  <2>5. Relinked(b, b4)
    BY <1>1, <1>3, <2>4, RelinkedAgain
  <2> QED
    BY <2>1, <2>5 DEF Relinked
<1> QED
  BY <1>2, <1>3

LEMMA InsertedBeforeEffect ==
  ASSUME NEW b \in Books, PointersInv(b), NEW target \in Made(b), NEW l \in Made(b)
  PROVE  /\ InsertedBefore(b, target, l) \in Books
         /\ Running(InsertedBefore(b, target, l)) => Relinked(b, InsertedBefore(b, target, l))
<1> DEFINE prev == b.level[target].prev_entry_
           b1 == [b EXCEPT !.level[prev].next_entry_ = l]
           b2 == [b1 EXCEPT !.level[l].prev_entry_ = prev]
           b3 == [b2 EXCEPT !.level[l].next_entry_ = target]
           b4 == [b3 EXCEPT !.level[target].prev_entry_ = l]
<1>1. prev \in Made(b) \cup {Null}
  BY DEF PointersInv
<1>2. CASE prev = Null
  BY <1>2, StatusReplaced DEF InsertedBefore, Statuses
<1>3. CASE prev # Null
  <2>1. InsertedBefore(b, target, l) = b4
    BY <1>3 DEF InsertedBefore
  <2> HIDE DEF prev
  <2>2. Relinked(b, b1)
    BY <1>1, <1>3, RelinkedNever, RelinkedAgain
  <2> HIDE DEF b1
  <2>3. Relinked(b, b2)
    BY <1>1, <1>3, <2>2, RelinkedAgain
  <2> HIDE DEF b2
  <2>4. Relinked(b, b3)
    BY <1>1, <1>3, <2>3, RelinkedAgain
  <2> HIDE DEF b3
  <2>5. Relinked(b, b4)
    BY <1>1, <1>3, <2>4, RelinkedAgain
  <2> QED
    BY <2>1, <2>5 DEF Relinked
<1> QED
  BY <1>2, <1>3

LEMMA WalkedIntoEffect ==
  ASSUME NEW b \in Books, PointersInv(b), NEW best \in Made(b), NEW l \in Made(b)
  PROVE  /\ WalkedInto(b, best, l) \in Books
         /\ Running(WalkedInto(b, best, l)) => Relinked(b, WalkedInto(b, best, l))
<1> DEFINE prev == b.level[best].prev_entry_
<1>1. prev \in Made(b) \cup {Null}
  BY DEF PointersInv
<1>2. CASE best \in Following(b, best) /\ prev # Null
  <2>1. WalkedInto(b, best, l) = InsertedAfter(b, prev, l)
    BY <1>2 DEF WalkedInto
  <2> QED
    BY <1>1, <1>2, <2>1, InsertedAfterEffect
<1>3. CASE ~ (best \in Following(b, best) /\ prev # Null)
  <2>1. PICK how \in {"segv", "hang"} : WalkedInto(b, best, l) = Ended(b, how)
    BY <1>3 DEF WalkedInto
  <2> QED
    BY <2>1, StatusReplaced DEF Statuses
<1> QED
  BY <1>2, <1>3

(* The table of prices.                                                    *)
LEMMA MapReplaced ==
  ASSUME NEW b \in Books, PointersInv(b), NEW i \in Slots, NEW l \in Made(b) \cup {Null}
  PROVE  LET c == [b EXCEPT !.price_orders_at_price_[i] = l]
         IN  /\ c \in Books /\ PointersInv(c) /\ Made(c) = Made(b)
             /\ c.price_orders_at_price_ = [b.price_orders_at_price_ EXCEPT ![i] = l]
             /\ c.level = b.level /\ c.order = b.order /\ c.order_pool_ = b.order_pool_
             /\ c.orders_at_price_pool_ = b.orders_at_price_pool_
             /\ c.cid_oid_to_order_ = b.cid_oid_to_order_
             /\ c.next_market_order_id_ = b.next_market_order_id_ /\ c.status = b.status
             /\ c.bids_by_price_ = b.bids_by_price_ /\ c.asks_by_price_ = b.asks_by_price_
<1> DEFINE c == [b EXCEPT !.price_orders_at_price_[i] = l]
<1>1. l \in LevelPool!Blocks \cup NoObject
  BY Blocks DEF Made
<1>2. /\ c \in Books
      /\ c.price_orders_at_price_ = [b.price_orders_at_price_ EXCEPT ![i] = l]
      /\ c.level = b.level /\ c.order = b.order /\ c.order_pool_ = b.order_pool_
      /\ c.orders_at_price_pool_ = b.orders_at_price_pool_
      /\ c.cid_oid_to_order_ = b.cid_oid_to_order_
      /\ c.next_market_order_id_ = b.next_market_order_id_ /\ c.status = b.status
      /\ c.bids_by_price_ = b.bids_by_price_ /\ c.asks_by_price_ = b.asks_by_price_
  BY <1>1 DEF Books
<1> HIDE DEF c
<1>3. PointersInv(c) /\ Made(c) = Made(b)
  BY <1>2 DEF PointersInv, Made
<1> QED
  BY <1>2, <1>3 DEF c

(* addOrdersAtPrice: the level is in the table and somewhere in a list.    *)
LEMMA LevelAddedEffect ==
  ASSUME NEW b \in Books, PointersInv(b), NEW l \in Made(b)
  PROVE  LET i == PriceToIndex(b.level[l].price_)
             mapped == [b EXCEPT !.price_orders_at_price_[i] = l]
         IN  /\ LevelAdded(b, l) \in Books
             /\ Running(LevelAdded(b, l)) => Relinked(mapped, LevelAdded(b, l))
<1> DEFINE level == b.level[l]
           i == PriceToIndex(level.price_)
           mapped == [b EXCEPT !.price_orders_at_price_[i] = l]
           head == AddHead(level.side_)
           best == b[head]
           res == LevelAdded(b, l)
<1>1. level \in Levels
  BY DEF Books, Made
<1>2. i \in Slots
  BY <1>1, MEOrderBookAssumption, IndexOfPrice DEF Levels
<1>3. head \in {"bids_by_price_", "asks_by_price_"} /\ best \in Made(b) \cup {Null}
  BY DEF PointersInv, AddHead
<1>4. res = IF best = Null THEN
                [mapped EXCEPT ![head] = l, !.level[l].prev_entry_ = l, !.level[l].next_entry_ = l]
            ELSE IF Worse(level.side_, level.price_, b.level[best].price_) THEN
                WalkedInto(mapped, best, l)
            ELSE IF Running(InsertedBefore(mapped, best, l))
                    /\ level.side_ = "BUY" /\ level.price_ > b.level[best].price_
                 THEN [InsertedBefore(mapped, best, l) EXCEPT ![head] = l]
                 ELSE InsertedBefore(mapped, best, l)
  BY DEF LevelAdded
<1>5. mapped \in Books /\ PointersInv(mapped) /\ Made(mapped) = Made(b)
  BY <1>2, MapReplaced
<1> HIDE DEF level, i, mapped, head, best, res
<1>6. CASE best = Null
  <2> DEFINE b1 == [mapped EXCEPT ![head] = l]
             b2 == [b1 EXCEPT !.level[l].prev_entry_ = l]
             b3 == [b2 EXCEPT !.level[l].next_entry_ = l]
  <2>1. res = b3
    BY <1>4, <1>6
  <2>2. Relinked(mapped, b1)
    BY <1>3, <1>5, RelinkedNever, RelinkedAgain
  <2> HIDE DEF b1
  <2>3. Relinked(mapped, b2)
    BY <1>5, <2>2, RelinkedAgain
  <2> HIDE DEF b2
  <2>4. Relinked(mapped, b3)
    BY <1>5, <2>3, RelinkedAgain
  <2> HIDE DEF b3
  <2> QED
    BY <2>1, <2>4 DEF Relinked, res, mapped, i, level
<1>7. CASE best # Null /\ Worse(level.side_, level.price_, b.level[best].price_)
  <2>1. res = WalkedInto(mapped, best, l)
    BY <1>4, <1>7
  <2> QED
    BY <1>3, <1>5, <1>7, <2>1, WalkedIntoEffect DEF res, mapped, i, level
<1>8. CASE best # Null /\ ~ Worse(level.side_, level.price_, b.level[best].price_)
  <2> DEFINE inserted == InsertedBefore(mapped, best, l)
  <2>1. res = inserted \/ (Running(inserted) /\ res = [inserted EXCEPT ![head] = l])
    BY <1>4, <1>8
  <2>2. inserted \in Books /\ (Running(inserted) => Relinked(mapped, inserted))
    BY <1>3, <1>5, <1>8, InsertedBeforeEffect
  <2> HIDE DEF inserted
  <2>3. CASE res = inserted
    BY <2>2, <2>3 DEF res, mapped, i, level
  <2>4. CASE Running(inserted) /\ res = [inserted EXCEPT ![head] = l]
    <3>1. Relinked(mapped, res)
      BY <1>3, <1>5, <2>2, <2>4, RelinkedAgain
    <3> QED
      BY <3>1 DEF Relinked, res, mapped, i, level
  <2> QED
    BY <2>1, <2>3, <2>4
<1> QED
  BY <1>6, <1>7, <1>8

LEMMA LevelUnlinkedEffect ==
  ASSUME NEW b \in Books, PointersInv(b), NEW l \in Made(b), NEW side \in Sides
  PROVE  /\ LevelUnlinked(b, side, l) \in Books
         /\ Running(LevelUnlinked(b, side, l)) => Relinked(b, LevelUnlinked(b, side, l))
<1> DEFINE head == RemoveHead(side)
           prev == b.level[l].prev_entry_
           next == b.level[l].next_entry_
           b1 == [b EXCEPT !.level[prev].next_entry_ = next]
           b2 == [b1 EXCEPT !.level[next].prev_entry_ = prev]
           b3 == [b2 EXCEPT !.level[l].prev_entry_ = Null]
           b4 == [b3 EXCEPT !.level[l].next_entry_ = Null]
           to == IF b[head] = l THEN next ELSE b[head]
           b5 == [b4 EXCEPT ![head] = to]
           res == LevelUnlinked(b, side, l)
<1>1. prev \in Made(b) \cup {Null} /\ next \in Made(b) \cup {Null}
  BY DEF PointersInv
<1>2. head \in {"bids_by_price_", "asks_by_price_"}
  BY DEF RemoveHead
<1>3. CASE next = l
  <2>1. res = [b EXCEPT ![head] = Null]
    BY <1>3 DEF LevelUnlinked
  <2> HIDE DEF head, res
  <2>2. Relinked(b, [b EXCEPT ![head] = Null])
    BY <1>2, HeadMoved
  <2>3. Relinked(b, res)
    BY <2>1, <2>2
  <2>4. res \in Books
    BY <2>3 DEF Relinked
  <2> QED
    BY <2>3, <2>4 DEF res
<1>4. CASE next # l /\ (prev = Null \/ next = Null)
  <2>1. res = Ended(b, "segv")
    BY <1>4 DEF LevelUnlinked
  <2> QED
    BY <2>1, StatusReplaced DEF Statuses
<1>5. CASE next # l /\ prev # Null /\ next # Null
  <2>1. res = b5
    BY <1>5 DEF LevelUnlinked
  <2> HIDE DEF head, next, prev
  <2>2. Relinked(b, b1)
    BY <1>1, <1>5, RelinkedNever, RelinkedAgain
  <2> HIDE DEF b1
  <2>3. Relinked(b, b2)
    BY <1>1, <1>5, <2>2, RelinkedAgain
  <2> HIDE DEF b2
  <2>4. Relinked(b, b3)
    BY <1>1, <1>5, <2>3, RelinkedAgain
  <2> HIDE DEF b3
  <2>5. Relinked(b, b4)
    BY <1>1, <1>5, <2>4, RelinkedAgain
  <2> HIDE DEF b4
  <2>6. to \in Made(b) \cup {Null}
    BY <1>1, <1>2 DEF PointersInv
  <2> HIDE DEF to
  <2>7. Relinked(b, b5)
    BY <1>2, <2>5, <2>6, RelinkedAgain
  <2> QED
    BY <2>1, <2>7 DEF Relinked
<1> QED
  BY <1>3, <1>4, <1>5

-----------------------------------------------------------------------------
(* Blocks taken from a pool and given back.                                *)
SameLevels(b, c) ==
  /\ c.level = b.level /\ c.orders_at_price_pool_ = b.orders_at_price_pool_
  /\ c.price_orders_at_price_ = b.price_orders_at_price_
  /\ c.bids_by_price_ = b.bids_by_price_ /\ c.asks_by_price_ = b.asks_by_price_

SameOrders(b, c) == c.order = b.order /\ c.order_pool_ = b.order_pool_

SameTable(b, c) ==
  /\ c.cid_oid_to_order_ = b.cid_oid_to_order_
  /\ c.next_market_order_id_ = b.next_market_order_id_ /\ c.status = b.status

LEMMA ConstructedOrderEffect ==
  ASSUME NEW b \in Books, NEW order \in Orders
  PROVE  LET built == ConstructedOrder(b, order)
             o == OrderPool!AllocatedBlock(b.order_pool_)
         IN  /\ built \in Books
             /\ Running(built) =>
                  /\ o \in OrderPool!Blocks \ LiveOrders(b)
                  /\ LiveOrders(built) = LiveOrders(b) \cup {o}
                  /\ built.order = [b.order EXCEPT ![o] = order]
                  /\ SameLevels(b, built) /\ SameTable(b, built)
<1> DEFINE pool == b.order_pool_
           o == OrderPool!AllocatedBlock(pool)
           written == [b EXCEPT !.order[o] = order]
           built == ConstructedOrder(b, order)
<1>1. /\ pool \in OrderPool!Pools /\ o \in OrderPool!Blocks
      /\ OrderPool!FreeBlocks(pool) \subseteq OrderPool!Blocks
  BY OrderPoolProperties DEF Books
<1>2. /\ written \in Books /\ written.order = [b.order EXCEPT ![o] = order]
      /\ SameLevels(b, written) /\ SameTable(b, written) /\ written.order_pool_ = pool
  BY <1>1 DEF Books, SameLevels, SameTable
<1>3. CASE ~ OrderPool!CursorIsFree(pool) \/ OrderPool!OutOfSpace(OrderPool!Taken(pool))
  <2>1. built = Ended(b, "assert") \/ built = Ended(written, "fatal")
    BY <1>3 DEF ConstructedOrder
  <2> HIDE DEF built, written
  <2>2. built \in Books /\ ~ Running(built)
    BY <1>2, <2>1, StatusReplaced DEF Statuses
  <2> QED
    BY <2>2 DEF built
<1>4. CASE OrderPool!CursorIsFree(pool) /\ ~ OrderPool!OutOfSpace(OrderPool!Taken(pool))
  <2> DEFINE left == OrderPool!Allocated(pool)
  <2>1. built = [written EXCEPT !.order_pool_ = left]
    BY <1>2, <1>4 DEF ConstructedOrder
  <2>2. /\ left \in OrderPool!Pools /\ o \in OrderPool!FreeBlocks(pool)
        /\ OrderPool!FreeBlocks(left) = OrderPool!FreeBlocks(pool) \ {o}
    BY <1>1, <1>4, OrderAllocated
  <2> HIDE DEF built, written, left
  <2>3. /\ built \in Books /\ built.order = written.order /\ SameLevels(written, built)
        /\ SameTable(written, built) /\ built.order_pool_ = left
    BY <1>2, <2>1, <2>2 DEF Books, SameLevels, SameTable
  <2>4. o \in OrderPool!Blocks \ LiveOrders(b) /\ LiveOrders(built) = LiveOrders(b) \cup {o}
    BY <1>1, <2>2, <2>3 DEF LiveOrders
  <2> QED
    BY <1>2, <2>3, <2>4 DEF SameLevels, SameTable, built
<1> QED
  BY <1>3, <1>4

LEMMA ConstructedLevelEffect ==
  ASSUME NEW b \in Books, NEW level \in Levels
  PROVE  LET built == ConstructedLevel(b, level)
             l == LevelPool!AllocatedBlock(b.orders_at_price_pool_)
         IN  /\ built \in Books
             /\ Running(built) =>
                  /\ l \in LevelPool!Blocks \ LiveLevels(b)
                  /\ LiveLevels(built) = LiveLevels(b) \cup {l}
                  /\ built.level = [b.level EXCEPT ![l] = level]
                  /\ built.price_orders_at_price_ = b.price_orders_at_price_
                  /\ built.bids_by_price_ = b.bids_by_price_
                  /\ built.asks_by_price_ = b.asks_by_price_
                  /\ SameOrders(b, built) /\ SameTable(b, built)
<1> DEFINE pool == b.orders_at_price_pool_
           l == LevelPool!AllocatedBlock(pool)
           written == [b EXCEPT !.level[l] = level]
           built == ConstructedLevel(b, level)
<1>1. /\ pool \in LevelPool!Pools /\ l \in LevelPool!Blocks
      /\ LevelPool!FreeBlocks(pool) \subseteq LevelPool!Blocks
  BY LevelPoolProperties DEF Books
<1>2. /\ written \in Books /\ written.level = [b.level EXCEPT ![l] = level]
      /\ written.price_orders_at_price_ = b.price_orders_at_price_
      /\ written.bids_by_price_ = b.bids_by_price_ /\ written.asks_by_price_ = b.asks_by_price_
      /\ SameOrders(b, written) /\ SameTable(b, written) /\ written.orders_at_price_pool_ = pool
  BY <1>1 DEF Books, SameOrders, SameTable
<1>3. CASE ~ LevelPool!CursorIsFree(pool) \/ LevelPool!OutOfSpace(LevelPool!Taken(pool))
  <2>1. built = Ended(b, "assert") \/ built = Ended(written, "fatal")
    BY <1>3 DEF ConstructedLevel
  <2> HIDE DEF built, written
  <2>2. built \in Books /\ ~ Running(built)
    BY <1>2, <2>1, StatusReplaced DEF Statuses
  <2> QED
    BY <2>2 DEF built
<1>4. CASE LevelPool!CursorIsFree(pool) /\ ~ LevelPool!OutOfSpace(LevelPool!Taken(pool))
  <2> DEFINE left == LevelPool!Allocated(pool)
  <2>1. built = [written EXCEPT !.orders_at_price_pool_ = left]
    BY <1>2, <1>4 DEF ConstructedLevel
  <2>2. /\ left \in LevelPool!Pools /\ l \in LevelPool!FreeBlocks(pool)
        /\ LevelPool!FreeBlocks(left) = LevelPool!FreeBlocks(pool) \ {l}
    BY <1>1, <1>4, LevelAllocated
  <2> HIDE DEF built, written, left
  <2>3. /\ built \in Books /\ built.level = written.level
        /\ built.price_orders_at_price_ = written.price_orders_at_price_
        /\ built.bids_by_price_ = written.bids_by_price_
        /\ built.asks_by_price_ = written.asks_by_price_
        /\ SameOrders(written, built) /\ SameTable(written, built)
        /\ built.orders_at_price_pool_ = left
    BY <1>2, <2>1, <2>2 DEF Books, SameOrders, SameTable
  <2>4. l \in LevelPool!Blocks \ LiveLevels(b) /\ LiveLevels(built) = LiveLevels(b) \cup {l}
    BY <1>1, <2>2, <2>3 DEF LiveLevels
  <2> QED
    BY <1>2, <2>3, <2>4 DEF SameOrders, SameTable, built
<1> QED
  BY <1>3, <1>4

LEMMA DeallocatedOrderEffect ==
  ASSUME NEW b \in Books, NEW o \in OrderPool!Blocks
  PROVE  LET c == DeallocatedOrder(b, o)
         IN  /\ c \in Books
             /\ Running(c) => /\ o \in LiveOrders(b) /\ LiveOrders(c) = LiveOrders(b) \ {o}
                              /\ c.order = b.order /\ SameLevels(b, c) /\ SameTable(b, c)
<1> DEFINE c == DeallocatedOrder(b, o)
           pool == b.order_pool_
           left == OrderPool!Deallocated(pool, o)
<1>1. CASE ~ OrderPool!InUse(pool, o)
  <2>1. c = Ended(b, "assert")
    BY <1>1 DEF DeallocatedOrder
  <2> QED
    BY <2>1, StatusReplaced DEF Statuses
<1>2. CASE OrderPool!InUse(pool, o)
  <2>1. c = [b EXCEPT !.order_pool_ = left]
    BY <1>2 DEF DeallocatedOrder
  <2>2. pool \in OrderPool!Pools
    BY DEF Books
  <2>3. /\ left \in OrderPool!Pools /\ o \notin OrderPool!FreeBlocks(pool)
        /\ OrderPool!FreeBlocks(left) = OrderPool!FreeBlocks(pool) \cup {o}
    BY <1>2, <2>2, OrderPoolProperties
  <2> HIDE DEF c, left
  <2>4. /\ c \in Books /\ c.order = b.order /\ SameLevels(b, c) /\ SameTable(b, c)
        /\ c.order_pool_ = left
    BY <2>1, <2>3 DEF Books, SameLevels, SameTable
  <2>5. o \in LiveOrders(b) /\ LiveOrders(c) = LiveOrders(b) \ {o}
    BY <2>3, <2>4 DEF LiveOrders
  <2> QED
    BY <2>4, <2>5 DEF c
<1> QED
  BY <1>1, <1>2

LEMMA DeallocatedLevelEffect ==
  ASSUME NEW b \in Books, NEW l \in LevelPool!Blocks
  PROVE  LET c == DeallocatedLevel(b, l)
         IN  /\ c \in Books
             /\ Running(c) => /\ l \in LiveLevels(b) /\ LiveLevels(c) = LiveLevels(b) \ {l}
                              /\ c.level = b.level
                              /\ c.price_orders_at_price_ = b.price_orders_at_price_
                              /\ c.bids_by_price_ = b.bids_by_price_
                              /\ c.asks_by_price_ = b.asks_by_price_
                              /\ SameOrders(b, c) /\ SameTable(b, c)
<1> DEFINE c == DeallocatedLevel(b, l)
           pool == b.orders_at_price_pool_
           left == LevelPool!Deallocated(pool, l)
<1>1. CASE ~ LevelPool!InUse(pool, l)
  <2>1. c = Ended(b, "assert")
    BY <1>1 DEF DeallocatedLevel
  <2> QED
    BY <2>1, StatusReplaced DEF Statuses
<1>2. CASE LevelPool!InUse(pool, l)
  <2>1. c = [b EXCEPT !.orders_at_price_pool_ = left]
    BY <1>2 DEF DeallocatedLevel
  <2>2. pool \in LevelPool!Pools
    BY DEF Books
  <2>3. /\ left \in LevelPool!Pools /\ l \notin LevelPool!FreeBlocks(pool)
        /\ LevelPool!FreeBlocks(left) = LevelPool!FreeBlocks(pool) \cup {l}
    BY <1>2, <2>2, LevelPoolProperties
  <2> HIDE DEF c, left
  <2>4. /\ c \in Books /\ c.level = b.level
        /\ c.price_orders_at_price_ = b.price_orders_at_price_
        /\ c.bids_by_price_ = b.bids_by_price_ /\ c.asks_by_price_ = b.asks_by_price_
        /\ SameOrders(b, c) /\ SameTable(b, c) /\ c.orders_at_price_pool_ = left
    BY <2>1, <2>3 DEF Books, SameOrders, SameTable
  <2>5. l \in LiveLevels(b) /\ LiveLevels(c) = LiveLevels(b) \ {l}
    BY <2>3, <2>4 DEF LiveLevels
  <2> QED
    BY <2>4, <2>5 DEF c
<1> QED
  BY <1>1, <1>2

(* removeOrdersAtPrice: the level of an index is gone, the others stay.    *)
LEMMA LevelRemovedEffect ==
  ASSUME NEW b \in Books, PointersInv(b), MapInv(b), NEW side \in Sides, NEW price \in Nat
  PROVE  LET c == LevelRemoved(b, side, price)
             i == PriceToIndex(price)
         IN  /\ c \in Books
             /\ Running(c) => /\ Running(b) /\ b.price_orders_at_price_[i] \notin NoObject
                              /\ PointersInv(c) /\ MapInv(c)
                              /\ \A j \in Slots : FirstAt(c, j) = IF j = i THEN Null ELSE FirstAt(b, j)
                              /\ SameOrders(b, c) /\ SameTable(b, c)
<1> DEFINE i == PriceToIndex(price)
           l == b.price_orders_at_price_[i]
           c == LevelRemoved(b, side, price)
           u == LevelUnlinked(b, side, l)
           v == [u EXCEPT !.price_orders_at_price_[i] = Null]
<1>1. i \in Slots
  BY IndexOfPrice
<1>2. CASE l \in NoObject
  BY <1>2, StatusReplaced DEF LevelRemoved, OrdersAtPrice, Statuses
<1>3. CASE l \notin NoObject
  <2>1. l \in MappedLevels(b) /\ l \in LiveLevels(b) /\ l \in Made(b) /\ l \in LevelPool!Blocks
    BY <1>1, <1>3 DEF MappedLevels, MapInv, Made
  <2>2. c = IF Running(u) THEN DeallocatedLevel(v, l) ELSE u
    BY <1>3 DEF LevelRemoved, OrdersAtPrice
  <2>3. u \in Books /\ (Running(u) => Relinked(b, u))
    BY <2>1, LevelUnlinkedEffect
  <2> HIDE DEF c, u
  <2>4. CASE ~ Running(u)
    BY <2>2, <2>3, <2>4 DEF c
  <2>5. CASE Running(u)
    <3>1. PointersInv(u) /\ Made(u) = Made(b) /\ Relinked(b, u)
      BY <2>3, <2>5 DEF Relinked
    <3>2. /\ v \in Books /\ PointersInv(v) /\ Made(v) = Made(u)
          /\ v.price_orders_at_price_ = [u.price_orders_at_price_ EXCEPT ![i] = Null]
          /\ v.level = u.level /\ SameOrders(u, v) /\ SameTable(u, v)
          /\ v.orders_at_price_pool_ = u.orders_at_price_pool_
          /\ v.bids_by_price_ = u.bids_by_price_ /\ v.asks_by_price_ = u.asks_by_price_
      BY <1>1, <2>3, <3>1, MapReplaced DEF SameOrders, SameTable
    <3> HIDE DEF v
    <3>3. c \in Books
      BY <2>1, <2>2, <2>5, <3>2, DeallocatedLevelEffect
    <3>4. ASSUME Running(c)
          PROVE  /\ Running(b) /\ PointersInv(c) /\ MapInv(c)
                 /\ \A j \in Slots : FirstAt(c, j) = IF j = i THEN Null ELSE FirstAt(b, j)
                 /\ SameOrders(b, c) /\ SameTable(b, c)
      <4>1. /\ LiveLevels(c) = LiveLevels(v) \ {l} /\ c.level = v.level
            /\ c.price_orders_at_price_ = v.price_orders_at_price_
            /\ c.bids_by_price_ = v.bids_by_price_ /\ c.asks_by_price_ = v.asks_by_price_
            /\ SameOrders(v, c) /\ SameTable(v, c)
        BY <2>1, <2>2, <2>5, <3>2, <3>4, DeallocatedLevelEffect
      <4>2. SameOrders(b, c) /\ SameTable(b, c) /\ Running(b)
        BY <3>1, <3>2, <3>4, <4>1 DEF SameOrders, SameTable, Relinked, Running
      <4>3. PointersInv(c) /\ Made(c) = Made(b)
        BY <3>1, <3>2, <4>1 DEF PointersInv, Made, SameOrders
      <4>4. /\ b.price_orders_at_price_ \in [Slots -> LevelPool!Blocks \cup NoObject]
            /\ c.price_orders_at_price_ = [b.price_orders_at_price_ EXCEPT ![i] = Null]
        BY <3>1, <3>2, <4>1 DEF Relinked, Books
      <4>5. \A j \in Slots : c.price_orders_at_price_[j] =
                               IF j = i THEN Null ELSE b.price_orders_at_price_[j]
        BY <4>4
      <4>6. LiveLevels(c) = LiveLevels(b) \ {l}
        BY <3>1, <3>2, <4>1 DEF LiveLevels, Relinked
      <4>7. MappedLevels(c) = MappedLevels(b) \ {l}
        BY <1>1, <1>3, <4>5, Blocks DEF MappedLevels, MapInv
      <4>8. MapInv(c)
        BY <4>3, <4>5, <4>6, <4>7, Blocks DEF MapInv
      <4>9. \A j \in Slots : FirstAt(c, j) = IF j = i THEN Null ELSE FirstAt(b, j)
        <5> SUFFICES ASSUME NEW j \in Slots, j # i, b.price_orders_at_price_[j] \notin NoObject
                     PROVE  FirstAt(c, j) = FirstAt(b, j)
          BY <4>5, Blocks DEF FirstAt
        <5>1. b.price_orders_at_price_[j] \in Made(b)
          BY DEF MapInv, MappedLevels
        <5> QED
          BY <3>1, <3>2, <4>1, <4>5, <5>1 DEF FirstAt, Relinked
      <4> QED
        BY <4>2, <4>3, <4>8, <4>9
    <3> QED
      BY <1>3, <3>3, <3>4 DEF c
  <2> QED
    BY <2>4, <2>5
<1> QED
  BY <1>2, <1>3

-----------------------------------------------------------------------------
(* The lists of orders.                                                    *)
LEMMA OrderTypes ==
  ASSUME NEW order \in Orders
  PROVE  IndexOf(order) \in Slots /\ order.market_order_id_ \in Nat
<1>1. order.price_ \in Prices /\ order.market_order_id_ \in 1 .. MaxMarketOrderId
  BY DEF Orders
<1>2. order.price_ \in Nat
  BY <1>1, MEOrderBookAssumption
<1>3. order.market_order_id_ \in Nat
  BY <1>1
<1> QED
  BY <1>2, <1>3, IndexOfPrice DEF IndexOf

(* The first order of an index is the only one without older neighbours:   *)
(* an order that is its own predecessor is alone.                          *)
LEMMA AloneAtIndex ==
  ASSUME NEW order, NEW live, NEW first, LinksInv(order, live, first),
         NEW o \in live, order[o].prev_order_ = o
  PROVE  \A p \in live : IndexOf(order[p]) = IndexOf(order[o]) => p = o
<1> DEFINE i == IndexOf(order[o])
           Others == {p \in live : IndexOf(order[p]) = i /\ p # o}
           mid(p) == order[p].market_order_id_
<1> SUFFICES Others = {}
  OBVIOUS
<1>1. order[o].next_order_ = o /\ first[i] = o
  <2>1. order[o].next_order_ = o
    BY DEF LinksInv
  <2>2. order[o] \in Orders /\ (order[o].next_order_ = first[i] \/ mid(o) < mid(order[o].next_order_))
    BY DEF LinksInv
  <2> QED
    BY <2>1, <2>2, OrderTypes
<1>2. \A p \in Others : order[p].next_order_ \in Others /\ mid(p) < mid(order[p].next_order_)
  <2> TAKE p \in Others
  <2>1. order[p].next_order_ # o
    BY DEF LinksInv
  <2>2. /\ order[p].next_order_ \in live /\ IndexOf(order[order[p].next_order_]) = i
        /\ order[p].next_order_ = first[i] \/ mid(p) < mid(order[p].next_order_)
    BY DEF LinksInv
  <2> QED
    BY <1>1, <2>1, <2>2
<1>3. \A p \in Others : mid(p) \in 1 .. MaxMarketOrderId
  BY DEF LinksInv, Orders
<1> HIDE DEF Others, mid
<1>4. ASSUME NEW q \in Others PROVE FALSE
  <2> DEFINE distances == {MaxMarketOrderId - mid(p) : p \in Others}
  <2>1. distances \in SUBSET Nat /\ distances # {}
    BY <1>3, <1>4, MEOrderBookAssumption
  <2>2. PICK least \in distances : \A d \in distances : least <= d
    <3> HIDE DEF distances
    <3> QED
      BY <2>1, OrderPoolFacts!LeastNatural, MEOrderBookAssumption
  <2>3. PICK p \in Others : least = MaxMarketOrderId - mid(p)
    BY <2>2
  <2>4. PICK next \in Others : mid(p) < mid(next)
    BY <1>2
  <2>5. least <= MaxMarketOrderId - mid(next)
    BY <2>2
  <2>6. mid(p) \in Int /\ mid(next) \in Int /\ MaxMarketOrderId \in Int
    BY <1>3, MEOrderBookAssumption
  <2> QED
    BY <2>3, <2>4, <2>5, <2>6
<1> QED
  BY <1>4

LEMMA LinksStarted ==
  ASSUME NEW order, NEW live, NEW first, LinksInv(order, live, first),
         NEW o, o \notin live, o # Null,
         NEW order2, NEW first2,
         order2[o] \in Orders, order2[o].prev_order_ = o, order2[o].next_order_ = o,
         first[IndexOf(order2[o])] = Null,
         \A p \in live : order2[p] = order[p],
         \A i \in Slots : first2[i] = IF i = IndexOf(order2[o]) THEN o ELSE first[i]
  PROVE  LinksInv(order2, live \cup {o}, first2)
<1>1. IndexOf(order2[o]) \in Slots /\ first2[IndexOf(order2[o])] = o
  BY OrderTypes
<1>2. \A p \in live :
        /\ order[p].next_order_ \in live /\ order[p].prev_order_ \in live
        /\ IndexOf(order[p]) \in Slots /\ IndexOf(order[p]) # IndexOf(order2[o])
  BY OrderTypes DEF LinksInv
<1>3. ASSUME NEW p \in live
      PROVE  /\ order2[p] \in Orders
             /\ order2[p].prev_order_ \in live /\ order2[p].next_order_ \in live
             /\ order2[order2[p].next_order_].prev_order_ = p
             /\ order2[order2[p].prev_order_].next_order_ = p
             /\ IndexOf(order2[order2[p].next_order_]) = IndexOf(order2[p])
             /\ first2[IndexOf(order2[p])] # Null
             /\ \/ order2[p].next_order_ = first2[IndexOf(order2[p])]
                \/ order2[p].market_order_id_ < order2[order2[p].next_order_].market_order_id_
  BY <1>2, <1>3 DEF LinksInv
<1>4. ASSUME NEW i \in Slots, first2[i] # Null
      PROVE  first2[i] \in live \cup {o} /\ IndexOf(order2[first2[i]]) = i
  BY <1>4 DEF LinksInv
<1> QED
  BY <1>1, <1>3, <1>4 DEF LinksInv

LEMMA LinksAppended ==
  ASSUME NEW order, NEW live, NEW first, LinksInv(order, live, first),
         NEW o, o \notin live,
         NEW order2, NEW f, NEW last,
         order2[o] \in Orders,
         first[IndexOf(order2[o])] = f, f # Null, last = order[f].prev_order_,
         order2[o].prev_order_ = last, order2[o].next_order_ = f,
         \A p \in live :
           /\ order2[p] \in Orders
           /\ order2[p].price_ = order[p].price_
           /\ order2[p].market_order_id_ = order[p].market_order_id_
           /\ order2[p].next_order_ = IF p = last THEN o ELSE order[p].next_order_
           /\ order2[p].prev_order_ = IF p = f THEN o ELSE order[p].prev_order_
           /\ order[p].market_order_id_ < order2[o].market_order_id_
  PROVE  LinksInv(order2, live \cup {o}, first)
<1> DEFINE i == IndexOf(order2[o])
<1>1. i \in Slots /\ f \in live /\ IndexOf(order[f]) = i
  BY OrderTypes DEF LinksInv
<1>2. last \in live /\ order[last].next_order_ = f /\ IndexOf(order[last]) = i
  BY <1>1 DEF LinksInv
<1>3. \A p \in live : IndexOf(order2[p]) = IndexOf(order[p])
  BY DEF IndexOf
<1>4. ASSUME NEW p \in live
      PROVE  /\ order2[p] \in Orders
             /\ order2[p].prev_order_ \in live \cup {o} /\ order2[p].next_order_ \in live \cup {o}
             /\ order2[order2[p].next_order_].prev_order_ = p
             /\ order2[order2[p].prev_order_].next_order_ = p
             /\ IndexOf(order2[order2[p].next_order_]) = IndexOf(order2[p])
             /\ first[IndexOf(order2[p])] # Null
             /\ \/ order2[p].next_order_ = first[IndexOf(order2[p])]
                \/ order2[p].market_order_id_ < order2[order2[p].next_order_].market_order_id_
  <2>1. /\ order[p].prev_order_ \in live /\ order[p].next_order_ \in live
        /\ order[order[p].next_order_].prev_order_ = p
        /\ order[order[p].prev_order_].next_order_ = p
        /\ IndexOf(order[order[p].next_order_]) = IndexOf(order[p])
        /\ first[IndexOf(order[p])] # Null
        /\ \/ order[p].next_order_ = first[IndexOf(order[p])]
           \/ order[p].market_order_id_ < order[order[p].next_order_].market_order_id_
    BY DEF LinksInv
  <2>2. order2[order2[p].next_order_].prev_order_ = p
    BY <1>2, <2>1
  <2>3. order2[order2[p].prev_order_].next_order_ = p
    BY <1>2, <2>1
  <2>4. IndexOf(order2[order2[p].next_order_]) = IndexOf(order2[p])
    BY <1>2, <1>3, <2>1
  <2>5. \/ order2[p].next_order_ = first[IndexOf(order2[p])]
        \/ order2[p].market_order_id_ < order2[order2[p].next_order_].market_order_id_
    BY <1>2, <1>3, <2>1
  <2> QED
    BY <1>3, <2>1, <2>2, <2>3, <2>4, <2>5
<1>5. /\ order2[f].prev_order_ = o /\ order2[last].next_order_ = o
      /\ IndexOf(order2[f]) = i
  BY <1>1, <1>2, <1>3
<1>6. ASSUME NEW j \in Slots, first[j] # Null
      PROVE  first[j] \in live /\ IndexOf(order2[first[j]]) = j
  BY <1>3, <1>6 DEF LinksInv
<1> QED
  BY <1>1, <1>2, <1>4, <1>5, <1>6 DEF LinksInv

LEMMA LinksRemoved ==
  ASSUME NEW order, NEW live, NEW first, LinksInv(order, live, first),
         NEW o \in live, order[o].prev_order_ = o, NEW first2,
         \A i \in Slots : first2[i] = IF i = IndexOf(order[o]) THEN Null ELSE first[i]
  PROVE  LinksInv(order, live \ {o}, first2)
<1>1. ASSUME NEW p \in live \ {o}
      PROVE  /\ order[p].next_order_ # o /\ order[p].prev_order_ # o
             /\ IndexOf(order[p]) \in Slots /\ IndexOf(order[p]) # IndexOf(order[o])
  <2>1. order[p].next_order_ # o /\ order[p].prev_order_ # o
    BY <1>1 DEF LinksInv
  <2>2. IndexOf(order[p]) \in Slots
    BY OrderTypes DEF LinksInv
  <2>3. IndexOf(order[p]) # IndexOf(order[o])
    BY AloneAtIndex
  <2> QED
    BY <2>1, <2>2, <2>3
<1>2. ASSUME NEW i \in Slots, first2[i] # Null
      PROVE  first2[i] \in live \ {o} /\ IndexOf(order[first2[i]]) = i
  BY <1>2 DEF LinksInv
<1> QED
  BY <1>1, <1>2 DEF LinksInv

LEMMA LinksUnlinked ==
  ASSUME NEW order, NEW live, NEW first, LinksInv(order, live, first),
         Null \notin live,
         NEW o \in live, NEW order2, NEW first2, NEW before, NEW after,
         before = order[o].prev_order_, after = order[o].next_order_, before # o,
         \A p \in live \ {o} :
           /\ order2[p] \in Orders
           /\ order2[p].price_ = order[p].price_
           /\ order2[p].market_order_id_ = order[p].market_order_id_
           /\ order2[p].next_order_ = IF p = before THEN after ELSE order[p].next_order_
           /\ order2[p].prev_order_ = IF p = after THEN before ELSE order[p].prev_order_,
         \A i \in Slots : first2[i] = IF first[i] = o THEN after ELSE first[i]
  PROVE  LinksInv(order2, live \ {o}, first2)
<1> DEFINE i == IndexOf(order[o])
<1>1. /\ before \in live \ {o} /\ after \in live \ {o} /\ i \in Slots
      /\ IndexOf(order[before]) = i /\ IndexOf(order[after]) = i
      /\ order[before].next_order_ = o /\ order[after].prev_order_ = o
  BY OrderTypes DEF LinksInv
<1>2. \A p \in live \ {o} : IndexOf(order2[p]) = IndexOf(order[p])
  BY DEF IndexOf
<1>3. \A p \in live : order[p].market_order_id_ \in Nat /\ IndexOf(order[p]) \in Slots
  BY OrderTypes DEF LinksInv
<1>4. ASSUME NEW p \in live \ {o}
      PROVE  /\ order2[p] \in Orders
             /\ order2[p].prev_order_ \in live \ {o} /\ order2[p].next_order_ \in live \ {o}
             /\ order2[order2[p].next_order_].prev_order_ = p
             /\ order2[order2[p].prev_order_].next_order_ = p
             /\ IndexOf(order2[order2[p].next_order_]) = IndexOf(order2[p])
             /\ first2[IndexOf(order2[p])] # Null
             /\ \/ order2[p].next_order_ = first2[IndexOf(order2[p])]
                \/ order2[p].market_order_id_ < order2[order2[p].next_order_].market_order_id_
  <2>1. /\ order[p].prev_order_ \in live /\ order[p].next_order_ \in live
        /\ order[order[p].next_order_].prev_order_ = p
        /\ order[order[p].prev_order_].next_order_ = p
        /\ IndexOf(order[order[p].next_order_]) = IndexOf(order[p])
        /\ first[IndexOf(order[p])] # Null
        /\ \/ order[p].next_order_ = first[IndexOf(order[p])]
           \/ order[p].market_order_id_ < order[order[p].next_order_].market_order_id_
    BY DEF LinksInv
  <2>2. (order[p].next_order_ = o <=> p = before) /\ (order[p].prev_order_ = o <=> p = after)
    BY <1>1, <2>1
  <2>3. order2[p].prev_order_ \in live \ {o} /\ order2[p].next_order_ \in live \ {o}
    BY <1>1, <2>1, <2>2
  <2>4. order2[order2[p].next_order_].prev_order_ = p
    BY <1>1, <2>1, <2>2, <2>3
  <2>5. order2[order2[p].prev_order_].next_order_ = p
    BY <1>1, <2>1, <2>2, <2>3
  <2>6. IndexOf(order2[order2[p].next_order_]) = IndexOf(order2[p])
    BY <1>1, <1>2, <2>1, <2>3
  <2>7. first2[IndexOf(order2[p])] # Null
    BY <1>1, <1>2, <1>3, <2>1 DEF LinksInv
  <2>8. \/ order2[p].next_order_ = first2[IndexOf(order2[p])]
        \/ order2[p].market_order_id_ < order2[order2[p].next_order_].market_order_id_
    <3>1. CASE p = before
      <4>1. order2[p].next_order_ = after /\ IndexOf(order2[p]) = i
        BY <1>1, <1>2, <3>1
      <4>2. order[p].market_order_id_ < order[o].market_order_id_ \/ first[i] = o
        BY <1>1, <2>1, <3>1
      <4>3. after = first[i] \/ order[o].market_order_id_ < order[after].market_order_id_
        BY DEF LinksInv
      <4> QED
        BY <1>1, <1>3, <3>1, <4>1, <4>2, <4>3
    <3>2. CASE p # before
      BY <1>2, <1>3, <2>1, <2>2, <2>3, <3>2
    <3> QED
      BY <3>1, <3>2
  <2> QED
    BY <2>3, <2>4, <2>5, <2>6, <2>7, <2>8
<1>5. ASSUME NEW j \in Slots, first2[j] # Null
      PROVE  first2[j] \in live \ {o} /\ IndexOf(order2[first2[j]]) = j
  <2>1. CASE first[j] = o
    <3>1. j = i
      BY <1>5, <2>1 DEF LinksInv
    <3> QED
      BY <1>1, <1>2, <2>1, <3>1
  <2>2. CASE first[j] # o
    BY <1>2, <1>5, <2>2 DEF LinksInv
  <2> QED
    BY <2>1, <2>2
<1> QED
  BY <1>4, <1>5 DEF LinksInv

-----------------------------------------------------------------------------
(* One link of one order; nothing else of any order changes.               *)
OrderStores == [OrderPool!Blocks -> Orders \cup {Null}]

SameButLinks(order, other) ==
  /\ other.client_id_ = order.client_id_ /\ other.client_order_id_ = order.client_order_id_
  /\ other.market_order_id_ = order.market_order_id_
  /\ other.side_ = order.side_ /\ other.price_ = order.price_
  /\ other.quantity_ = order.quantity_ /\ other.priority_ = order.priority_

LEMMA PrevWritten ==
  ASSUME NEW f \in OrderStores, NEW o \in OrderPool!Blocks, f[o] # Null,
         NEW to \in OrderPool!Blocks \cup {Null},
         NEW g, g = [f EXCEPT ![o].prev_order_ = to]
  PROVE  /\ g \in OrderStores
         /\ \A p \in OrderPool!Blocks : g[p] = Null <=> f[p] = Null
         /\ \A p \in OrderPool!Blocks : p # o => g[p] = f[p]
         /\ SameButLinks(f[o], g[o]) /\ g[o].next_order_ = f[o].next_order_
         /\ g[o].prev_order_ = to
<1> DEFINE order == [f[o] EXCEPT !.prev_order_ = to]
<1>1. f[o] \in Orders
  BY DEF OrderStores
<1>2. /\ order \in Orders /\ SameButLinks(f[o], order)
      /\ order.next_order_ = f[o].next_order_ /\ order.prev_order_ = to
  BY <1>1, OrderFields DEF Orders, SameButLinks
<1>3. g = [f EXCEPT ![o] = order]
  OBVIOUS
<1> HIDE DEF order
<1>4. /\ g \in OrderStores /\ g[o] = order
      /\ \A p \in OrderPool!Blocks : p # o => g[p] = f[p]
      /\ \A p \in OrderPool!Blocks : g[p] = Null <=> f[p] = Null
  BY <1>1, <1>2, <1>3, NullAssumption DEF OrderStores
<1> QED
  BY <1>2, <1>4

LEMMA NextWritten ==
  ASSUME NEW f \in OrderStores, NEW o \in OrderPool!Blocks, f[o] # Null,
         NEW to \in OrderPool!Blocks \cup {Null},
         NEW g, g = [f EXCEPT ![o].next_order_ = to]
  PROVE  /\ g \in OrderStores
         /\ \A p \in OrderPool!Blocks : g[p] = Null <=> f[p] = Null
         /\ \A p \in OrderPool!Blocks : p # o => g[p] = f[p]
         /\ SameButLinks(f[o], g[o]) /\ g[o].prev_order_ = f[o].prev_order_
         /\ g[o].next_order_ = to
<1> DEFINE order == [f[o] EXCEPT !.next_order_ = to]
<1>1. f[o] \in Orders
  BY DEF OrderStores
<1>2. /\ order \in Orders /\ SameButLinks(f[o], order)
      /\ order.prev_order_ = f[o].prev_order_ /\ order.next_order_ = to
  BY <1>1, OrderFields DEF Orders, SameButLinks
<1>3. g = [f EXCEPT ![o] = order]
  OBVIOUS
<1> HIDE DEF order
<1>4. /\ g \in OrderStores /\ g[o] = order
      /\ \A p \in OrderPool!Blocks : p # o => g[p] = f[p]
      /\ \A p \in OrderPool!Blocks : g[p] = Null <=> f[p] = Null
  BY <1>1, <1>2, <1>3, NullAssumption DEF OrderStores
<1> QED
  BY <1>2, <1>4

LEMMA SameTwice ==
  ASSUME NEW r, NEW s, NEW t, SameButLinks(r, s), SameButLinks(s, t)
  PROVE  SameButLinks(r, t)
BY DEF SameButLinks

LEMMA SameNever == \A r : SameButLinks(r, r)
BY DEF SameButLinks

(* The four links of an order that is taken out of its list.               *)
Spliced(f, o, before, after) ==
  [f EXCEPT ![before].next_order_ = after, ![after].prev_order_ = before,
            ![o].prev_order_ = Null, ![o].next_order_ = Null]

LEMMA NeighboursLinked ==
  ASSUME NEW f \in OrderStores, NEW o \in OrderPool!Blocks,
         NEW before \in OrderPool!Blocks, NEW after \in OrderPool!Blocks,
         f[o] # Null, f[before] # Null, f[after] # Null, before # o, after # o
  PROVE  LET g == Spliced(f, o, before, after)
         IN  /\ g \in OrderStores
             /\ g[o].prev_order_ = Null
             /\ \A p \in OrderPool!Blocks :
                  /\ g[p] = Null <=> f[p] = Null
                  /\ f[p] # Null => SameButLinks(f[p], g[p])
                  /\ p \notin {o, before, after} => g[p] = f[p]
                  /\ p # o /\ f[p] # Null =>
                       /\ g[p].next_order_ = IF p = before THEN after ELSE f[p].next_order_
                       /\ g[p].prev_order_ = IF p = after THEN before ELSE f[p].prev_order_
<1> DEFINE f1 == [f EXCEPT ![before].next_order_ = after]
           f2 == [f1 EXCEPT ![after].prev_order_ = before]
           f3 == [f2 EXCEPT ![o].prev_order_ = Null]
           f4 == [f3 EXCEPT ![o].next_order_ = Null]
           g == Spliced(f, o, before, after)
<1>1. g = f4
  BY DEF Spliced
<1>2. /\ f1 \in OrderStores
      /\ \A p \in OrderPool!Blocks : (f1[p] = Null <=> f[p] = Null) /\ (p # before => f1[p] = f[p])
      /\ SameButLinks(f[before], f1[before]) /\ f1[before].prev_order_ = f[before].prev_order_
      /\ f1[before].next_order_ = after
  BY NextWritten
<1> HIDE DEF f1
<1>3. /\ f2 \in OrderStores
      /\ \A p \in OrderPool!Blocks : (f2[p] = Null <=> f1[p] = Null) /\ (p # after => f2[p] = f1[p])
      /\ SameButLinks(f1[after], f2[after]) /\ f2[after].next_order_ = f1[after].next_order_
      /\ f2[after].prev_order_ = before
  <2>1. f1[after] # Null
    BY <1>2
  <2> QED
    BY <1>2, <2>1, PrevWritten
<1> HIDE DEF f2
<1>4. /\ f3 \in OrderStores
      /\ \A p \in OrderPool!Blocks : (f3[p] = Null <=> f2[p] = Null) /\ (p # o => f3[p] = f2[p])
      /\ SameButLinks(f2[o], f3[o]) /\ f3[o].prev_order_ = Null
  <2>1. f2[o] # Null
    BY <1>2, <1>3
  <2> QED
    BY <1>3, <2>1, PrevWritten
<1> HIDE DEF f3
<1>5. /\ f4 \in OrderStores
      /\ \A p \in OrderPool!Blocks : (f4[p] = Null <=> f3[p] = Null) /\ (p # o => f4[p] = f3[p])
      /\ SameButLinks(f3[o], f4[o]) /\ f4[o].prev_order_ = f3[o].prev_order_
  <2>1. f3[o] # Null
    BY <1>2, <1>3, <1>4
  <2> QED
    BY <1>4, <2>1, NextWritten
<1> HIDE DEF f4, g
<1>6. ASSUME NEW p \in OrderPool!Blocks
      PROVE  /\ g[p] = Null <=> f[p] = Null
             /\ f[p] # Null => SameButLinks(f[p], g[p])
             /\ p \notin {o, before, after} => g[p] = f[p]
  <2>1. SameButLinks(f[p], f1[p])
    BY <1>2, SameNever
  <2>2. SameButLinks(f1[p], f2[p])
    BY <1>3, SameNever
  <2>3. SameButLinks(f2[p], f3[p])
    BY <1>4, SameNever
  <2>4. SameButLinks(f3[p], f4[p])
    BY <1>5, SameNever
  <2>5. SameButLinks(f[p], g[p])
    BY <1>1, <2>1, <2>2, <2>3, <2>4, SameTwice
  <2> QED
    BY <1>1, <1>2, <1>3, <1>4, <1>5, <2>5
<1>7. ASSUME NEW p \in OrderPool!Blocks, p # o
      PROVE  /\ g[p].next_order_ = IF p = before THEN after ELSE f[p].next_order_
             /\ g[p].prev_order_ = IF p = after THEN before ELSE f[p].prev_order_
  BY <1>1, <1>2, <1>3, <1>4, <1>5, <1>7
<1> QED
  BY <1>1, <1>4, <1>5, <1>6, <1>7 DEF g

-----------------------------------------------------------------------------
(* An order taken out of its list, as either path of removeOrder does it:  *)
(* the order is still allocated, and nothing in use leads to it.           *)
LevelStores == [LevelPool!Blocks -> Levels \cup {Null}]

Unlinked(b, u, o) ==
  /\ u \in Books /\ Running(b)
  /\ PointersInv(u) /\ MapInv(u)
  /\ LinksInv(u.order, LiveOrders(b) \ {o}, Firsts(u))
  /\ u.order_pool_ = b.order_pool_ /\ SameTable(b, u)
  /\ \A p \in OrderPool!Blocks :
       /\ u.order[p] = Null <=> b.order[p] = Null
       /\ b.order[p] # Null => SameButLinks(b.order[p], u.order[p])
       /\ p \notin LiveOrders(b) => u.order[p] = b.order[p]
  /\ u.order[o].prev_order_ \in {o, Null}

LEMMA FirstWritten ==
  ASSUME NEW f \in LevelStores, NEW l \in LevelPool!Blocks, f[l] # Null,
         NEW o \in OrderPool!Blocks, NEW g, g = [f EXCEPT ![l].first_me_order_ = o]
  PROVE  /\ g \in LevelStores
         /\ \A k \in LevelPool!Blocks : g[k] = Null <=> f[k] = Null
         /\ \A k \in LevelPool!Blocks : k # l => g[k] = f[k]
         /\ g[l].first_me_order_ = o
         /\ g[l].prev_entry_ = f[l].prev_entry_ /\ g[l].next_entry_ = f[l].next_entry_
<1> DEFINE level == [f[l] EXCEPT !.first_me_order_ = o]
<1>1. f[l] \in Levels
  BY DEF LevelStores
<1>2. /\ level \in Levels /\ level.first_me_order_ = o
      /\ level.prev_entry_ = f[l].prev_entry_ /\ level.next_entry_ = f[l].next_entry_
  BY <1>1, LevelFields DEF Levels
<1>3. g = [f EXCEPT ![l] = level]
  OBVIOUS
<1> HIDE DEF level
<1> QED
  BY <1>1, <1>2, <1>3, NullAssumption DEF LevelStores

(* What the links say of one order in use.                                 *)
LEMMA LiveOrder ==
  ASSUME NEW b \in Books, PointersInv(b), LinksInv(b.order, LiveOrders(b), Firsts(b)),
         NEW o \in LiveOrders(b)
  PROVE  LET order == b.order[o]
             i == IndexOf(order)
             l == b.price_orders_at_price_[i]
         IN  /\ o \in OrderPool!Blocks /\ Null \notin LiveOrders(b)
             /\ order \in Orders /\ order # Null /\ i \in Slots
             /\ order.prev_order_ \in LiveOrders(b) /\ order.next_order_ \in LiveOrders(b)
             /\ b.order[order.prev_order_] # Null /\ b.order[order.next_order_] # Null
             /\ l \notin NoObject /\ l \in LevelPool!Blocks
             /\ FirstAt(b, i) = b.level[l].first_me_order_
<1>1. LiveOrders(b) \subseteq OrderPool!Blocks /\ Null \notin LiveOrders(b)
  BY Blocks DEF LiveOrders
<1>2. \A p \in LiveOrders(b) :
        /\ b.order[p] \in Orders /\ b.order[p].prev_order_ \in LiveOrders(b)
        /\ b.order[p].next_order_ \in LiveOrders(b) /\ Firsts(b)[IndexOf(b.order[p])] # Null
  BY DEF LinksInv
<1>3. IndexOf(b.order[o]) \in Slots
  BY <1>2, OrderTypes
<1>4. FirstAt(b, IndexOf(b.order[o])) # Null
  BY <1>2, <1>3 DEF Firsts
<1>5. b.price_orders_at_price_[IndexOf(b.order[o])] \in LevelPool!Blocks \cup NoObject
  BY <1>3 DEF Books
<1>6. \A p \in LiveOrders(b) : b.order[p] # Null
  BY <1>2, NullAssumption
<1>7. /\ b.order[b.order[o].prev_order_] # Null /\ b.order[b.order[o].next_order_] # Null
      /\ b.order[o] # Null
  BY <1>2, <1>6
<1> QED
  BY <1>1, <1>2, <1>3, <1>4, <1>5, <1>7 DEF FirstAt

LEMMA OrderUnlinkedEffect ==
  ASSUME NEW b \in Books, Running(b), PointersInv(b), MapInv(b),
         LinksInv(b.order, LiveOrders(b), Firsts(b)),
         NEW o \in LiveOrders(b), b.order[o].prev_order_ # o
  PROVE  Unlinked(b, OrderUnlinked(b, o), o)
<1> DEFINE live == LiveOrders(b)
           before == b.order[o].prev_order_
           after == b.order[o].next_order_
           i == IndexOf(b.order[o])
           l == b.price_orders_at_price_[i]
           first == b.level[l].first_me_order_
           to == IF first = o THEN after ELSE first
           g == Spliced(b.order, o, before, after)
           h == [b.level EXCEPT ![l].first_me_order_ = to]
           u == [[b EXCEPT !.order = g] EXCEPT !.level = h]
<1>1. /\ o \in OrderPool!Blocks /\ Null \notin live /\ live \subseteq OrderPool!Blocks
      /\ b.order[o] # Null /\ i \in Slots /\ before \in live /\ after \in live
      /\ b.order[before] # Null /\ b.order[after] # Null
      /\ l \notin NoObject /\ l \in LevelPool!Blocks /\ FirstAt(b, i) = first
  BY LiveOrder DEF LiveOrders
<1>2. after # o /\ b.order[after].prev_order_ = o
  BY DEF LinksInv
<1>3. l \in Made(b) /\ b.level[l] # Null
  BY <1>1 DEF MapInv, MappedLevels, Made
<1>4. b.order \in OrderStores /\ b.level \in LevelStores
  BY DEF Books, OrderStores, LevelStores
<1>5. first \in OrderPool!Blocks /\ b.order[first] # Null
  BY <1>1, <1>3, <1>4 DEF PointersInv, LevelStores, Levels
<1>6. OrderUnlinked(b, o) = u
  <2>1. OrdersAtPrice(b, b.order[o].price_) = l
    BY DEF OrdersAtPrice, IndexOf
  <2> HIDE DEF i, l
  <2>2. OrderUnlinked(b, o) =
          [b EXCEPT !.order[before].next_order_ = after, !.order[after].prev_order_ = before,
                    !.order[o].prev_order_ = Null, !.order[o].next_order_ = Null,
                    !.level[l].first_me_order_ = to]
    BY <1>1, <2>1 DEF OrderUnlinked
  <2> HIDE DEF to, before, after
  <2> QED
    BY <2>2 DEF Spliced
<1>7. /\ g \in OrderStores
      /\ g[o].prev_order_ = Null
      /\ \A p \in OrderPool!Blocks :
           /\ g[p] = Null <=> b.order[p] = Null
           /\ b.order[p] # Null => SameButLinks(b.order[p], g[p])
           /\ p \notin {o, before, after} => g[p] = b.order[p]
           /\ p # o /\ b.order[p] # Null =>
                /\ g[p].next_order_ = IF p = before THEN after ELSE b.order[p].next_order_
                /\ g[p].prev_order_ = IF p = after THEN before ELSE b.order[p].prev_order_
  <2>1. before \in OrderPool!Blocks /\ after \in OrderPool!Blocks /\ before # o
    BY <1>1
  <2> HIDE DEF before, after
  <2> QED
    BY <1>1, <1>2, <1>4, <2>1, NeighboursLinked
<1>8. to \in OrderPool!Blocks /\ b.order[to] # Null
  BY <1>1, <1>5
<1>9. /\ h \in LevelStores
      /\ \A k \in LevelPool!Blocks : h[k] = Null <=> b.level[k] = Null
      /\ \A k \in LevelPool!Blocks : k # l => h[k] = b.level[k]
      /\ h[l].first_me_order_ = to
      /\ h[l].prev_entry_ = b.level[l].prev_entry_ /\ h[l].next_entry_ = b.level[l].next_entry_
  <2> HIDE DEF to, l, first, i
  <2> QED
    BY <1>1, <1>3, <1>4, <1>8, FirstWritten
<1> HIDE DEF g, h, to, l, first, i
<1>10. /\ u \in Books /\ u.order = g /\ u.level = h /\ u.order_pool_ = b.order_pool_
       /\ u.orders_at_price_pool_ = b.orders_at_price_pool_
       /\ u.price_orders_at_price_ = b.price_orders_at_price_
       /\ u.bids_by_price_ = b.bids_by_price_ /\ u.asks_by_price_ = b.asks_by_price_
       /\ SameTable(b, u)
  BY <1>7, <1>9 DEF Books, OrderStores, LevelStores, SameTable
<1> HIDE DEF u
<1>11. Made(u) = Made(b)
  BY <1>9, <1>10 DEF Made
<1>12. PointersInv(u)
  <2>1. ASSUME NEW k \in Made(b)
        PROVE  /\ u.order[u.level[k].first_me_order_] # Null
               /\ u.level[k].prev_entry_ = b.level[k].prev_entry_
               /\ u.level[k].next_entry_ = b.level[k].next_entry_
    <3>1. CASE k = l
      BY <1>7, <1>8, <1>9, <1>10, <3>1
    <3>2. CASE k # l
      <4>1. h[k] = b.level[k] /\ b.level[k].first_me_order_ \in OrderPool!Blocks
        BY <1>4, <1>9, <3>2 DEF Made, LevelStores, Levels
      <4>2. b.order[b.level[k].first_me_order_] # Null
        BY DEF PointersInv
      <4> QED
        BY <1>7, <1>10, <4>1, <4>2
    <3> QED
      BY <3>1, <3>2
  <2> QED
    BY <1>10, <1>11, <2>1 DEF PointersInv
<1>13. MapInv(u)
  BY <1>10, <1>11 DEF MapInv, LiveLevels, MappedLevels
<1>14. \A j \in Slots : Firsts(u)[j] = IF Firsts(b)[j] = o THEN after ELSE Firsts(b)[j]
  <2> SUFFICES ASSUME NEW j \in Slots
               PROVE  FirstAt(u, j) = IF FirstAt(b, j) = o THEN after ELSE FirstAt(b, j)
    BY DEF Firsts
  <2>1. CASE b.price_orders_at_price_[j] \in NoObject
    BY <1>1, <1>10, <2>1 DEF FirstAt
  <2>2. CASE b.price_orders_at_price_[j] = l
    BY <1>1, <1>9, <1>10, <2>2 DEF FirstAt, first, to
  <2>3. CASE b.price_orders_at_price_[j] \notin {l} \cup NoObject
    <3>1. b.price_orders_at_price_[j] \in LevelPool!Blocks
      BY <2>3 DEF Books
    <3>2. FirstAt(u, j) = FirstAt(b, j)
      BY <1>9, <1>10, <2>3, <3>1 DEF FirstAt
    <3>3. FirstAt(b, j) # o
      <4>1. FirstAt(b, j) # Null => IndexOf(b.order[FirstAt(b, j)]) = j
        BY DEF LinksInv, Firsts
      <4> QED
        BY <1>1, <2>3, <4>1 DEF i, l
    <3> QED
      BY <3>2, <3>3
  <2> QED
    BY <2>1, <2>2, <2>3
<1>15. LinksInv(u.order, live \ {o}, Firsts(u))
  <2>1. ASSUME NEW p \in live \ {o}
        PROVE  /\ g[p] \in Orders
               /\ g[p].price_ = b.order[p].price_
               /\ g[p].market_order_id_ = b.order[p].market_order_id_
               /\ g[p].next_order_ = IF p = before THEN after ELSE b.order[p].next_order_
               /\ g[p].prev_order_ = IF p = after THEN before ELSE b.order[p].prev_order_
    <3>1. p \in OrderPool!Blocks /\ b.order[p] # Null /\ p # o
      BY <1>1, NullAssumption DEF LinksInv
    <3>2. g[p] \in Orders
      BY <1>7, <3>1 DEF OrderStores
    <3> QED
      BY <1>7, <3>1, <3>2 DEF SameButLinks
  <2> HIDE DEF live
  <2>2. /\ LinksInv(b.order, live, Firsts(b)) /\ o \in live /\ before # o
    BY DEF live
  <2> QED
    BY <1>1, <1>10, <1>14, <2>1, <2>2, LinksUnlinked
<1>16. ASSUME NEW p \in OrderPool!Blocks \ live
       PROVE  u.order[p] = b.order[p]
  BY <1>1, <1>7, <1>10
<1> QED
  BY <1>6, <1>7, <1>10, <1>12, <1>13, <1>15, <1>16 DEF Unlinked

LEMMA AloneUnlinked ==
  ASSUME NEW b \in Books, Running(b), PointersInv(b), MapInv(b),
         LinksInv(b.order, LiveOrders(b), Firsts(b)),
         NEW o \in LiveOrders(b), b.order[o].prev_order_ = o
  PROVE  LET u == LevelRemoved(b, b.order[o].side_, b.order[o].price_)
         IN  u \in Books /\ (Running(u) => Unlinked(b, u, o))
<1> DEFINE order == b.order[o]
           u == LevelRemoved(b, order.side_, order.price_)
           i == PriceToIndex(order.price_)
<1>1. order \in Orders
  BY LiveOrder
<1>2. order.side_ \in Sides /\ order.price_ \in Nat /\ i = IndexOf(order)
  BY <1>1, MEOrderBookAssumption DEF Orders, IndexOf
<1>3. /\ u \in Books
      /\ Running(u) =>
           /\ PointersInv(u) /\ MapInv(u)
           /\ \A j \in Slots : FirstAt(u, j) = IF j = i THEN Null ELSE FirstAt(b, j)
           /\ SameOrders(b, u) /\ SameTable(b, u)
  <2> HIDE DEF order
  <2> QED
    BY <1>2, LevelRemovedEffect
<1> HIDE DEF u
<1>4. ASSUME Running(u) PROVE Unlinked(b, u, o)
  <2>1. \A j \in Slots : Firsts(u)[j] = IF j = IndexOf(b.order[o]) THEN Null ELSE Firsts(b)[j]
    BY <1>2, <1>3, <1>4 DEF Firsts
  <2>2. LinksInv(b.order, LiveOrders(b) \ {o}, Firsts(u))
    BY <2>1, LinksRemoved
  <2> QED
    BY <1>3, <1>4, <2>2, SameNever DEF Unlinked, SameOrders
<1> QED
  BY <1>3, <1>4 DEF u

(* Levels, orders and what leads to them, looked at in another book.       *)
LEMMA SeenFromBoth ==
  ASSUME NEW b, NEW c, c.order = b.order, SameLevels(b, c)
  PROVE  /\ PointersInv(c) <=> PointersInv(b)
         /\ MapInv(c) <=> MapInv(b)
         /\ Firsts(c) = Firsts(b)
BY DEF SameLevels, PointersInv, MapInv, Made, LiveLevels, MappedLevels, Firsts, FirstAt

(* removeOrder: it ends the process unless the order is in use, and takes  *)
(* that order out of all that leads to it.                                 *)
Removed(b, c, o) ==
  /\ o \in LiveOrders(b) /\ LiveOrders(c) = LiveOrders(b) \ {o}
  /\ BookInv(c)
  /\ \A p \in LiveOrders(b) : SameButLinks(b.order[p], c.order[p])

LEMMA UnlinkedIsRemoved ==
  ASSUME NEW b \in Books, BookInv(b), NEW o \in LiveOrders(b),
         NEW u, Unlinked(b, u, o),
         NEW c, c \in Books, LiveOrders(c) = LiveOrders(b) \ {o},
         c.order = u.order, SameLevels(u, c),
         c.next_market_order_id_ = b.next_market_order_id_,
         c.cid_oid_to_order_ =
           [b.cid_oid_to_order_ EXCEPT
              ![b.order[o].client_id_][b.order[o].client_order_id_] = Null]
  PROVE  Removed(b, c, o)
<1> DEFINE live == LiveOrders(b)
           table == b.cid_oid_to_order_
           client == b.order[o].client_id_
           oid == b.order[o].client_order_id_
<1>1. PointersInv(c) /\ MapInv(c) /\ LinksInv(c.order, LiveOrders(c), Firsts(c))
  BY SeenFromBoth DEF Unlinked
<1>2. /\ live \subseteq OrderPool!Blocks /\ Null \notin live
      /\ \A p \in live : b.order[p] \in Orders /\ b.order[p] # Null
  BY NullAssumption, Blocks DEF LiveOrders, BookInv, LinksInv
<1>3. \A p \in OrderPool!Blocks :
        /\ c.order[p] = Null <=> b.order[p] = Null
        /\ b.order[p] # Null => SameButLinks(b.order[p], c.order[p])
        /\ p \notin live => c.order[p] = b.order[p]
  BY DEF Unlinked
<1>4. BlocksInv(c.order, LiveOrders(c), c.next_market_order_id_)
  <2>1. ASSUME NEW p \in OrderPool!Blocks, c.order[p] # Null
        PROVE  /\ c.order[p].market_order_id_ = b.order[p].market_order_id_ /\ b.order[p] # Null
               /\ c.order[p].market_order_id_ < c.next_market_order_id_
    BY <1>3, <2>1 DEF SameButLinks, BookInv, BlocksInv
  <2>2. ASSUME NEW p \in OrderPool!Blocks, c.order[p] # Null, p \notin LiveOrders(c)
        PROVE  c.order[p].prev_order_ \in {p, Null}
    <3>1. CASE p = o
      BY <3>1 DEF Unlinked
    <3>2. CASE p # o
      BY <1>3, <2>2, <3>2 DEF BookInv, BlocksInv
    <3> QED
      BY <3>1, <3>2
  <2> QED
    BY <2>1, <2>2 DEF BookInv, BlocksInv
<1>5. /\ table \in [Clients -> [OrderIds -> OrderPool!Blocks \cup NoObject]]
      /\ client \in Clients /\ oid \in OrderIds
  BY <1>2 DEF Books, Orders
<1>6. \A k \in Clients, id \in OrderIds :
        c.cid_oid_to_order_[k][id] = IF k = client /\ id = oid THEN Null ELSE table[k][id]
  <2> HIDE DEF client, oid
  <2> QED
    BY <1>5 DEF client, oid
<1>7. HandlesInv(c.cid_oid_to_order_, c.order, LiveOrders(c))
  <2>1. \A p \in live : /\ c.order[p].client_id_ = b.order[p].client_id_
                        /\ c.order[p].client_order_id_ = b.order[p].client_order_id_
    BY <1>2, <1>3 DEF SameButLinks
  <2>2. \A k \in Clients, id \in OrderIds :
          c.cid_oid_to_order_[k][id] \notin NoObject =>
            /\ c.cid_oid_to_order_[k][id] \in LiveOrders(c)
            /\ c.order[c.cid_oid_to_order_[k][id]].client_id_ = k
            /\ c.order[c.cid_oid_to_order_[k][id]].client_order_id_ = id
    <3> TAKE k \in Clients, id \in OrderIds
    <3> HAVE c.cid_oid_to_order_[k][id] \notin NoObject
    <3> DEFINE p == table[k][id]
    <3>1. c.cid_oid_to_order_[k][id] = p /\ p \notin NoObject /\ ~ (k = client /\ id = oid)
      BY <1>6, Blocks
    <3>2. p \in live /\ b.order[p].client_id_ = k /\ b.order[p].client_order_id_ = id
      <4>1. HandlesInv(table, b.order, live)
        BY DEF BookInv
      <4> HIDE DEF table, live
      <4> QED
        BY <3>1, <4>1 DEF HandlesInv
    <3>3. p # o
      BY <3>1, <3>2
    <3> HIDE DEF p
    <3> QED
      BY <2>1, <3>1, <3>2, <3>3
  <2>3. ASSUME ~ ClientsReuseIds, NEW p \in live \ {o}
        PROVE  c.cid_oid_to_order_[c.order[p].client_id_][c.order[p].client_order_id_] = p
    <3>1. /\ table[b.order[p].client_id_][b.order[p].client_order_id_] = p
          /\ table[client][oid] = o
          /\ b.order[p].client_id_ \in Clients /\ b.order[p].client_order_id_ \in OrderIds
      BY <1>2, <2>3 DEF BookInv, HandlesInv, Orders
    <3>2. b.order[p].client_id_ # client \/ b.order[p].client_order_id_ # oid
      <4> HIDE DEF client, oid, table
      <4> QED
        BY <2>3, <3>1
    <3>3. /\ c.order[p].client_id_ = b.order[p].client_id_
          /\ c.order[p].client_order_id_ = b.order[p].client_order_id_
      BY <2>1, <2>3
    <3> HIDE DEF client, oid, table
    <3> QED
      BY <1>6, <3>1, <3>2, <3>3
  <2>4. ~ ClientsReuseIds =>
          \A p \in LiveOrders(c) :
            c.cid_oid_to_order_[c.order[p].client_id_][c.order[p].client_order_id_] = p
    BY <2>3
  <2> QED
    BY <2>2, <2>4 DEF HandlesInv
<1> QED
  BY <1>1, <1>2, <1>3, <1>4, <1>7 DEF Removed, BookInv

LEMMA OrderRemovedEffect ==
  ASSUME NEW b \in Books, Running(b), BookInv(b),
         NEW o \in OrderPool!Blocks, b.order[o] # Null
  PROVE  /\ OrderRemoved(b, o) \in Books
         /\ Running(OrderRemoved(b, o)) => Removed(b, OrderRemoved(b, o), o)
<1> DEFINE order == b.order[o]
           u == IF order.prev_order_ = o THEN LevelRemoved(b, order.side_, order.price_)
                ELSE OrderUnlinked(b, o)
           client == order.client_id_
           oid == order.client_order_id_
           v == [u EXCEPT !.cid_oid_to_order_[client][oid] = Null]
           c == OrderRemoved(b, o)
<1>1. /\ order \in Orders /\ PointersInv(b) /\ MapInv(b)
      /\ LinksInv(b.order, LiveOrders(b), Firsts(b))
  BY DEF Books, BookInv
<1>2. /\ order.side_ \in Sides /\ order.price_ \in Nat
      /\ client \in Clients /\ oid \in OrderIds
  BY <1>1, MEOrderBookAssumption DEF Orders
<1>3. c = IF ~ Running(u) THEN u ELSE DeallocatedOrder(v, o)
  BY DEF OrderRemoved
<1>4. CASE o \in LiveOrders(b)
  <2>1. u \in Books /\ (Running(u) => Unlinked(b, u, o))
    <3>1. CASE order.prev_order_ = o
      BY <1>1, <1>4, <3>1, AloneUnlinked
    <3>2. CASE order.prev_order_ # o
      BY <1>1, <1>4, <3>2, OrderUnlinkedEffect DEF Unlinked
    <3> QED
      BY <3>1, <3>2
  <2> HIDE DEF u, c, order, client, oid
  <2>2. CASE ~ Running(u)
    BY <1>3, <2>1, <2>2 DEF c
  <2>3. CASE Running(u)
    <3>1. /\ v \in Books /\ v.order = u.order /\ SameLevels(u, v) /\ v.order_pool_ = u.order_pool_
          /\ v.next_market_order_id_ = u.next_market_order_id_
          /\ v.cid_oid_to_order_ = [u.cid_oid_to_order_ EXCEPT ![client][oid] = Null]
      BY <1>2, <2>1 DEF Books, NoObject, SameLevels
    <3> HIDE DEF v
    <3>2. /\ u.order_pool_ = b.order_pool_ /\ u.cid_oid_to_order_ = b.cid_oid_to_order_
          /\ u.next_market_order_id_ = b.next_market_order_id_
      BY <2>1, <2>3 DEF Unlinked, SameTable
    <3>3. /\ c \in Books
          /\ Running(c) => /\ LiveOrders(c) = LiveOrders(v) \ {o}
                           /\ c.order = v.order /\ SameLevels(v, c) /\ SameTable(v, c)
      BY <1>3, <2>3, <3>1, DeallocatedOrderEffect
    <3>4. LiveOrders(v) = LiveOrders(b)
      BY <3>1, <3>2 DEF LiveOrders
    <3>5. ASSUME Running(c) PROVE Removed(b, c, o)
      <4>1. SameLevels(u, c) /\ c.order = u.order
        BY <3>1, <3>3, <3>5 DEF SameLevels
      <4>2. /\ c.next_market_order_id_ = b.next_market_order_id_
            /\ c.cid_oid_to_order_ = [b.cid_oid_to_order_ EXCEPT ![client][oid] = Null]
        BY <3>1, <3>2, <3>3, <3>5 DEF SameTable
      <4>3. LiveOrders(c) = LiveOrders(b) \ {o}
        BY <3>3, <3>4, <3>5
      <4>4. Unlinked(b, u, o)
        BY <2>1, <2>3
      <4> HIDE DEF v
      <4> QED
        BY <1>4, <3>3, <4>1, <4>2, <4>3, <4>4, UnlinkedIsRemoved DEF client, oid, order
    <3> QED
      BY <3>3, <3>5 DEF c
  <2> QED
    BY <2>2, <2>3
<1>5. CASE o \notin LiveOrders(b)
  <2>1. order.prev_order_ \in {o, Null}
    BY <1>5 DEF BookInv, BlocksInv
  <2>2. u \in Books
    <3>1. CASE order.prev_order_ = o
      <4> HIDE DEF order
      <4>1. LevelRemoved(b, order.side_, order.price_) \in Books
        BY <1>1, <1>2, LevelRemovedEffect
      <4> QED
        BY <3>1, <4>1
    <3>2. CASE order.prev_order_ = Null
      <4>1. u = Ended(b, "segv")
        BY <3>2, Blocks DEF OrderUnlinked
      <4> HIDE DEF u
      <4> QED
        BY <4>1, StatusReplaced DEF Statuses
    <3> QED
      BY <2>1, <3>1, <3>2
  <2> HIDE DEF u, order, client, oid
  <2>3. v \in Books /\ v.order_pool_ = u.order_pool_
    BY <1>2, <2>2 DEF Books, NoObject
  <2>4. CASE ~ Running(u)
    BY <1>3, <2>2, <2>4
  <2>5. CASE Running(u)
    <3>1. u.order_pool_ = b.order_pool_
      <4>1. order.prev_order_ = o
        <5> SUFFICES ASSUME order.prev_order_ = Null PROVE FALSE
          BY <2>1
        <5>1. u = Ended(b, "segv")
          BY Blocks DEF OrderUnlinked, u, order
        <5> QED
          BY <2>5, <5>1, StatusReplaced DEF Statuses
      <4>2. u = LevelRemoved(b, order.side_, order.price_)
        BY <4>1 DEF u
      <4> QED
        BY <1>1, <1>2, <2>5, <4>2, LevelRemovedEffect DEF SameOrders
    <3>2. o \notin LiveOrders(v)
      BY <1>5, <2>3, <3>1 DEF LiveOrders
    <3> HIDE DEF v, c
    <3>3. c \in Books /\ ~ Running(c)
      BY <1>3, <2>3, <2>5, <3>2, DeallocatedOrderEffect
    <3> QED
      BY <3>3 DEF c
  <2> QED
    BY <2>4, <2>5
<1> QED
  BY <1>4, <1>5

-----------------------------------------------------------------------------
(* Adding: the links an order is given when its price has a level, and     *)
(* when it has none.                                                       *)
Appended(f, first, last, o) ==
  [f EXCEPT ![last].next_order_ = o, ![o].prev_order_ = last,
            ![o].next_order_ = first, ![first].prev_order_ = o]

Alone(f, o) == [f EXCEPT ![o].prev_order_ = o, ![o].next_order_ = o]

LEMMA LinkedLast ==
  ASSUME NEW f \in OrderStores, NEW o \in OrderPool!Blocks,
         NEW first \in OrderPool!Blocks, NEW last \in OrderPool!Blocks,
         f[o] # Null, f[first] # Null, f[last] # Null, first # o, last # o
  PROVE  LET g == Appended(f, first, last, o)
         IN  /\ g \in OrderStores
             /\ g[o].prev_order_ = last /\ g[o].next_order_ = first
             /\ \A p \in OrderPool!Blocks :
                  /\ g[p] = Null <=> f[p] = Null
                  /\ f[p] # Null => SameButLinks(f[p], g[p])
                  /\ p \notin {o, first, last} => g[p] = f[p]
                  /\ p # o /\ f[p] # Null =>
                       /\ g[p].next_order_ = IF p = last THEN o ELSE f[p].next_order_
                       /\ g[p].prev_order_ = IF p = first THEN o ELSE f[p].prev_order_
<1> DEFINE f1 == [f EXCEPT ![last].next_order_ = o]
           f2 == [f1 EXCEPT ![o].prev_order_ = last]
           f3 == [f2 EXCEPT ![o].next_order_ = first]
           f4 == [f3 EXCEPT ![first].prev_order_ = o]
           g == Appended(f, first, last, o)
<1>1. g = f4
  BY DEF Appended
<1>2. /\ f1 \in OrderStores
      /\ \A p \in OrderPool!Blocks : (f1[p] = Null <=> f[p] = Null) /\ (p # last => f1[p] = f[p])
      /\ SameButLinks(f[last], f1[last]) /\ f1[last].prev_order_ = f[last].prev_order_
      /\ f1[last].next_order_ = o
  BY NextWritten
<1> HIDE DEF f1
<1>3. /\ f2 \in OrderStores
      /\ \A p \in OrderPool!Blocks : (f2[p] = Null <=> f1[p] = Null) /\ (p # o => f2[p] = f1[p])
      /\ SameButLinks(f1[o], f2[o]) /\ f2[o].prev_order_ = last
  <2>1. f1[o] # Null
    BY <1>2
  <2> QED
    BY <1>2, <2>1, PrevWritten
<1> HIDE DEF f2
<1>4. /\ f3 \in OrderStores
      /\ \A p \in OrderPool!Blocks : (f3[p] = Null <=> f2[p] = Null) /\ (p # o => f3[p] = f2[p])
      /\ SameButLinks(f2[o], f3[o]) /\ f3[o].prev_order_ = f2[o].prev_order_
      /\ f3[o].next_order_ = first
  <2>1. f2[o] # Null
    BY <1>2, <1>3
  <2> QED
    BY <1>3, <2>1, NextWritten
<1> HIDE DEF f3
<1>5. /\ f4 \in OrderStores
      /\ \A p \in OrderPool!Blocks : (f4[p] = Null <=> f3[p] = Null) /\ (p # first => f4[p] = f3[p])
      /\ SameButLinks(f3[first], f4[first]) /\ f4[first].next_order_ = f3[first].next_order_
      /\ f4[first].prev_order_ = o
  <2>1. f3[first] # Null
    BY <1>2, <1>3, <1>4
  <2> QED
    BY <1>4, <2>1, PrevWritten
<1> HIDE DEF f4, g
<1>6. ASSUME NEW p \in OrderPool!Blocks
      PROVE  /\ g[p] = Null <=> f[p] = Null
             /\ f[p] # Null => SameButLinks(f[p], g[p])
             /\ p \notin {o, first, last} => g[p] = f[p]
  <2>1. SameButLinks(f[p], f1[p])
    BY <1>2, SameNever
  <2>2. SameButLinks(f1[p], f2[p])
    BY <1>3, SameNever
  <2>3. SameButLinks(f2[p], f3[p])
    BY <1>4, SameNever
  <2>4. SameButLinks(f3[p], f4[p])
    BY <1>5, SameNever
  <2>5. SameButLinks(f[p], g[p])
    BY <1>1, <2>1, <2>2, <2>3, <2>4, SameTwice
  <2> QED
    BY <1>1, <1>2, <1>3, <1>4, <1>5, <2>5
<1>7. ASSUME NEW p \in OrderPool!Blocks, p # o
      PROVE  /\ g[p].next_order_ = IF p = last THEN o ELSE f[p].next_order_
             /\ g[p].prev_order_ = IF p = first THEN o ELSE f[p].prev_order_
  BY <1>1, <1>2, <1>3, <1>4, <1>5, <1>7
<1>8. g[o].prev_order_ = last /\ g[o].next_order_ = first
  BY <1>1, <1>3, <1>4, <1>5
<1> QED
  BY <1>1, <1>5, <1>6, <1>7, <1>8 DEF g

LEMMA LinkedAlone ==
  ASSUME NEW f \in OrderStores, NEW o \in OrderPool!Blocks, f[o] # Null
  PROVE  LET g == Alone(f, o)
         IN  /\ g \in OrderStores
             /\ g[o].prev_order_ = o /\ g[o].next_order_ = o
             /\ SameButLinks(f[o], g[o])
             /\ \A p \in OrderPool!Blocks : g[p] = Null <=> f[p] = Null
             /\ \A p \in OrderPool!Blocks : p # o => g[p] = f[p]
<1> DEFINE order == [[f[o] EXCEPT !.prev_order_ = o] EXCEPT !.next_order_ = o]
           g == Alone(f, o)
<1>1. f[o] \in Orders
  BY DEF OrderStores
<1>2. /\ order \in Orders /\ SameButLinks(f[o], order)
      /\ order.prev_order_ = o /\ order.next_order_ = o
  BY <1>1 DEF Orders, SameButLinks
<1>3. g = [f EXCEPT ![o] = order]
  BY DEF Alone
<1> HIDE DEF order, g
<1>4. /\ g \in OrderStores /\ g[o] = order
      /\ \A p \in OrderPool!Blocks : p # o => g[p] = f[p]
      /\ \A p \in OrderPool!Blocks : g[p] = Null <=> f[p] = Null
  BY <1>1, <1>2, <1>3, NullAssumption DEF OrderStores
<1> QED
  BY <1>2, <1>4 DEF g

(* An order that has been constructed and is in no list yet.               *)
Resting(b, o) ==
  /\ b \in Books /\ Running(b)
  /\ PointersInv(b) /\ MapInv(b)
  /\ o \in LiveOrders(b) /\ b.order[o] \in Orders
  /\ LinksInv(b.order, LiveOrders(b) \ {o}, Firsts(b))
  /\ BlocksInv(b.order, LiveOrders(b), b.next_market_order_id_)
  /\ \A p \in LiveOrders(b) \ {o} : b.order[p].market_order_id_ < b.order[o].market_order_id_

Placed(b, c) ==
  /\ c \in Books
  /\ PointersInv(c) /\ MapInv(c)
  /\ LinksInv(c.order, LiveOrders(b), Firsts(c))
  /\ c.order_pool_ = b.order_pool_ /\ SameTable(b, c)
  /\ \A p \in OrderPool!Blocks :
       /\ c.order[p] = Null <=> b.order[p] = Null
       /\ b.order[p] # Null => SameButLinks(b.order[p], c.order[p])
       /\ p \notin LiveOrders(b) => c.order[p] = b.order[p]

(* The same levels and tables, and orders that differ in their links.      *)
LEMMA OrderStoreReplaced ==
  ASSUME NEW b \in Books, PointersInv(b), MapInv(b), NEW g \in OrderStores,
         \A p \in OrderPool!Blocks : g[p] = Null <=> b.order[p] = Null
  PROVE  LET c == [b EXCEPT !.order = g]
         IN  /\ c \in Books /\ c.order = g /\ c.order_pool_ = b.order_pool_
             /\ SameLevels(b, c) /\ SameTable(b, c)
             /\ PointersInv(c) /\ MapInv(c) /\ Firsts(c) = Firsts(b)
<1> DEFINE c == [b EXCEPT !.order = g]
<1>1. /\ c \in Books /\ c.order = g /\ c.order_pool_ = b.order_pool_
      /\ SameLevels(b, c) /\ SameTable(b, c)
  BY DEF Books, OrderStores, SameLevels, SameTable
<1> HIDE DEF c
<1>2. MapInv(c) /\ Firsts(c) = Firsts(b) /\ Made(c) = Made(b)
  BY <1>1 DEF SameLevels, MapInv, Made, LiveLevels, MappedLevels, Firsts, FirstAt
<1>3. \A l \in Made(b) : b.level[l].first_me_order_ \in OrderPool!Blocks
  BY DEF Made, Books, Levels
<1>4. PointersInv(c)
  BY <1>1, <1>2, <1>3 DEF PointersInv, SameLevels
<1> QED
  BY <1>1, <1>2, <1>4 DEF c

LEMMA OrderAppendedEffect ==
  ASSUME NEW b, NEW o, Resting(b, o),
         OrdersAtPrice(b, b.order[o].price_) \notin NoObject
  PROVE  Placed(b, OrderAppended(b, b.level[OrdersAtPrice(b, b.order[o].price_)].first_me_order_, o))
<1> DEFINE live == LiveOrders(b) \ {o}
           i == IndexOf(b.order[o])
           l == b.price_orders_at_price_[i]
           first == b.level[l].first_me_order_
           last == b.order[first].prev_order_
           g == Appended(b.order, first, last, o)
           c == [b EXCEPT !.order = g]
<1>1. b \in Books /\ PointersInv(b) /\ MapInv(b) /\ LinksInv(b.order, live, Firsts(b))
  BY DEF Resting
<1>2. /\ i \in Slots /\ o \in OrderPool!Blocks /\ b.order[o] # Null
      /\ live \subseteq OrderPool!Blocks /\ o \notin live /\ Null \notin live
      /\ LiveOrders(b) = live \cup {o} /\ b.order[o] \in Orders
  BY OrderTypes, NullAssumption, Blocks DEF Resting, LiveOrders
<1>3. OrdersAtPrice(b, b.order[o].price_) = l /\ l \notin NoObject
  BY DEF OrdersAtPrice, IndexOf
<1>4. l \in Made(b) /\ l \in LevelPool!Blocks
  BY <1>1, <1>2, <1>3 DEF MapInv, MappedLevels, Made
<1>5. first \in OrderPool!Blocks
  BY <1>1, <1>4 DEF Made, Books, Levels
<1>6. Firsts(b)[i] = first /\ first # Null
  BY <1>2, <1>3, <1>5, Blocks DEF Firsts, FirstAt
<1>7. first \in live /\ last \in live
  BY <1>1, <1>2, <1>6 DEF LinksInv
<1>8. \A p \in live : b.order[p] \in Orders /\ b.order[p] # Null
  BY <1>1, NullAssumption DEF LinksInv
<1>9. b.order \in OrderStores
  BY <1>1 DEF Books, OrderStores
<1> HIDE DEF live, i, l, first, last, g
<1>10. /\ g \in OrderStores
       /\ g[o].prev_order_ = last /\ g[o].next_order_ = first
       /\ \A p \in OrderPool!Blocks :
            /\ g[p] = Null <=> b.order[p] = Null
            /\ b.order[p] # Null => SameButLinks(b.order[p], g[p])
            /\ p \notin {o, first, last} => g[p] = b.order[p]
            /\ p # o /\ b.order[p] # Null =>
                 /\ g[p].next_order_ = IF p = last THEN o ELSE b.order[p].next_order_
                 /\ g[p].prev_order_ = IF p = first THEN o ELSE b.order[p].prev_order_
  <2>1. /\ first \in OrderPool!Blocks /\ last \in OrderPool!Blocks
        /\ b.order[first] # Null /\ b.order[last] # Null /\ first # o /\ last # o
    BY <1>2, <1>7, <1>8
  <2> QED
    BY <1>2, <1>9, <2>1, LinkedLast DEF g
<1>11. OrderAppended(b, first, o) = c
  <2>1. OrderAppended(b, first, o) =
          [b EXCEPT !.order[last].next_order_ = o, !.order[o].prev_order_ = last,
                    !.order[o].next_order_ = first, !.order[first].prev_order_ = o]
    BY DEF OrderAppended, last
  <2> QED
    BY <2>1 DEF Appended, g
<1>12. /\ c \in Books /\ c.order = g /\ c.order_pool_ = b.order_pool_
       /\ SameLevels(b, c) /\ SameTable(b, c)
       /\ PointersInv(c) /\ MapInv(c) /\ Firsts(c) = Firsts(b)
  BY <1>1, <1>10, OrderStoreReplaced
<1> HIDE DEF c
<1>13. /\ g[o] \in Orders /\ IndexOf(g[o]) = i
       /\ g[o].market_order_id_ = b.order[o].market_order_id_
  BY <1>2, <1>10 DEF OrderStores, SameButLinks, IndexOf, i
<1>14. ASSUME NEW p \in live
       PROVE  /\ g[p] \in Orders
              /\ g[p].price_ = b.order[p].price_
              /\ g[p].market_order_id_ = b.order[p].market_order_id_
              /\ g[p].next_order_ = IF p = last THEN o ELSE b.order[p].next_order_
              /\ g[p].prev_order_ = IF p = first THEN o ELSE b.order[p].prev_order_
              /\ b.order[p].market_order_id_ < g[o].market_order_id_
  <2>1. p \in OrderPool!Blocks /\ b.order[p] # Null /\ p # o
    BY <1>2, <1>8
  <2>2. g[p] \in Orders
    BY <1>10, <2>1 DEF OrderStores
  <2>3. b.order[p].market_order_id_ < g[o].market_order_id_
    BY <1>13 DEF Resting, live
  <2> QED
    BY <1>10, <2>1, <2>2, <2>3 DEF SameButLinks
<1>15. LinksInv(g, live \cup {o}, Firsts(b))
  <2>1. Firsts(b)[IndexOf(g[o])] = first /\ last = b.order[first].prev_order_
    BY <1>6, <1>13 DEF last
  <2> QED
    BY <1>1, <1>2, <1>6, <1>10, <1>13, <1>14, <2>1, LinksAppended
<1>16. \A p \in OrderPool!Blocks \ LiveOrders(b) : g[p] = b.order[p]
  BY <1>2, <1>7, <1>10
<1>17. Placed(b, c)
  BY <1>2, <1>10, <1>12, <1>15, <1>16 DEF Placed
<1> QED
  BY <1>3, <1>11, <1>17 DEF first

(* The first order of a price: a level is constructed, mapped, linked.     *)
LEMMA LevelStartedEffect ==
  ASSUME NEW b, NEW o, Resting(b, o),
         OrdersAtPrice(b, b.order[o].price_) = Null
  PROVE  OrderPlaced(b, o) \in Books /\ (Running(OrderPlaced(b, o)) => Placed(b, OrderPlaced(b, o)))
<1> DEFINE live == LiveOrders(b) \ {o}
           order == b.order[o]
           i == IndexOf(order)
           g == Alone(b.order, o)
           alone == [b EXCEPT !.order = g]
           level == [side_ |-> order.side_, price_ |-> order.price_, first_me_order_ |-> o,
                     prev_entry_ |-> Null, next_entry_ |-> Null]
           levelled == ConstructedLevel(alone, level)
           l == LevelPool!AllocatedBlock(b.orders_at_price_pool_)
           mapped == [levelled EXCEPT !.price_orders_at_price_[i] = l]
           c == LevelAdded(levelled, l)
<1>1. b \in Books /\ PointersInv(b) /\ MapInv(b) /\ LinksInv(b.order, live, Firsts(b))
  BY DEF Resting
<1>2. /\ i \in Slots /\ o \in OrderPool!Blocks /\ order # Null /\ order \in Orders
      /\ live \subseteq OrderPool!Blocks /\ o \notin live /\ o # Null
      /\ LiveOrders(b) = live \cup {o}
  BY OrderTypes, NullAssumption, Blocks DEF Resting, LiveOrders
<1>3. b.price_orders_at_price_[i] = Null
  BY DEF OrdersAtPrice, IndexOf
<1>4. b.order \in OrderStores
  BY <1>1 DEF Books, OrderStores
<1>5. OrderPlaced(b, o) = IF ~ Running(levelled) THEN levelled ELSE c
  <2> DEFINE written == [b EXCEPT !.order[o].prev_order_ = o, !.order[o].next_order_ = o]
  <2>1. OrderPlaced(b, o) = IF ~ Running(ConstructedLevel(written, level))
                            THEN ConstructedLevel(written, level)
                            ELSE LevelAdded(ConstructedLevel(written, level), l)
    <3>1. OrdersAtPrice(b, b.order[o].price_) # Wild
      BY MEOrderBookAssumption
    <3> HIDE DEF written, level, l
    <3> QED
      BY <3>1 DEF OrderPlaced, written, level, l
  <2>2. written = alone
    BY DEF Alone
  <2> QED
    BY <2>1, <2>2
<1>6. level \in Levels
  BY <1>2 DEF Orders, Levels
<1> HIDE DEF live, g
<1>7. /\ g \in OrderStores
      /\ g[o].prev_order_ = o /\ g[o].next_order_ = o
      /\ SameButLinks(order, g[o])
      /\ \A p \in OrderPool!Blocks : g[p] = Null <=> b.order[p] = Null
      /\ \A p \in OrderPool!Blocks : p # o => g[p] = b.order[p]
  BY <1>2, <1>4, LinkedAlone DEF g
<1>8. /\ alone \in Books /\ alone.order = g /\ alone.order_pool_ = b.order_pool_
      /\ SameLevels(b, alone) /\ SameTable(b, alone)
      /\ PointersInv(alone) /\ MapInv(alone) /\ Firsts(alone) = Firsts(b)
  BY <1>1, <1>7, OrderStoreReplaced
<1>9. g[o] \in Orders /\ IndexOf(g[o]) = i
  BY <1>2, <1>7, NullAssumption DEF OrderStores, SameButLinks, IndexOf
<1> HIDE DEF i, order, alone, l
<1>10. /\ level.first_me_order_ = o /\ level.prev_entry_ = Null /\ level.next_entry_ = Null
       /\ PriceToIndex(level.price_) = i
  BY DEF i, IndexOf
<1> HIDE DEF level
<1>11. /\ levelled \in Books
       /\ Running(levelled) =>
            /\ l \in LevelPool!Blocks \ LiveLevels(alone)
            /\ LiveLevels(levelled) = LiveLevels(alone) \cup {l}
            /\ levelled.level = [alone.level EXCEPT ![l] = level]
            /\ levelled.price_orders_at_price_ = alone.price_orders_at_price_
            /\ levelled.bids_by_price_ = alone.bids_by_price_
            /\ levelled.asks_by_price_ = alone.asks_by_price_
            /\ SameOrders(alone, levelled) /\ SameTable(alone, levelled)
  <2>1. l = LevelPool!AllocatedBlock(alone.orders_at_price_pool_)
    BY <1>8 DEF l, SameLevels
  <2> QED
    BY <1>6, <1>8, <2>1, ConstructedLevelEffect
<1> HIDE DEF levelled
<1>12. CASE ~ Running(levelled)
  BY <1>5, <1>11, <1>12
<1>13. CASE Running(levelled)
  <2>1. /\ alone.level \in LevelStores /\ l \in LevelPool!Blocks
        /\ level # Null
    BY <1>6, <1>8, <1>11, <1>13, NullAssumption DEF Books, LevelStores
  <2>2. \A k \in LevelPool!Blocks : levelled.level[k] = IF k = l THEN level ELSE alone.level[k]
    BY <1>11, <1>13, <2>1 DEF LevelStores
  <2>3. Made(levelled) = Made(alone) \cup {l} /\ l \in Made(levelled)
    BY <2>1, <2>2 DEF Made
  <2>4. PointersInv(levelled)
    <3>1. levelled.order[o] # Null
      BY <1>8, <1>9, <1>11, <1>13, NullAssumption DEF SameOrders
    <3> QED
      BY <1>8, <1>10, <1>11, <1>13, <2>1, <2>2, <2>3, <3>1 DEF PointersInv, SameOrders, Made
  <2>5. levelled.level[l] = level
    BY <2>1, <2>2
  <2>6. /\ mapped \in Books /\ PointersInv(mapped) /\ Made(mapped) = Made(levelled)
        /\ mapped.price_orders_at_price_ = [levelled.price_orders_at_price_ EXCEPT ![i] = l]
        /\ mapped.level = levelled.level /\ SameOrders(levelled, mapped)
        /\ SameTable(levelled, mapped)
        /\ mapped.orders_at_price_pool_ = levelled.orders_at_price_pool_
    BY <1>2, <1>11, <2>3, <2>4, MapReplaced DEF SameOrders, SameTable
  <2>7. c \in Books /\ (Running(c) => Relinked(mapped, c))
    BY <1>10, <1>11, <2>3, <2>4, <2>5, LevelAddedEffect
  <2> HIDE DEF mapped, c
  <2>8. ASSUME Running(c) PROVE Placed(b, c)
    <3>1. /\ PointersInv(c) /\ Made(c) = Made(mapped) /\ SameOrders(mapped, c)
          /\ SameTable(mapped, c)
          /\ c.orders_at_price_pool_ = mapped.orders_at_price_pool_
          /\ c.price_orders_at_price_ = mapped.price_orders_at_price_
          /\ \A k \in Made(mapped) : c.level[k].first_me_order_ = mapped.level[k].first_me_order_
      BY <2>7, <2>8 DEF Relinked, SameOrders, SameTable
    <3>2. /\ c.order = g /\ c.order_pool_ = b.order_pool_ /\ SameTable(b, c)
      BY <1>8, <1>11, <1>13, <2>6, <3>1 DEF SameOrders, SameTable
    <3>3. /\ b.price_orders_at_price_ \in [Slots -> LevelPool!Blocks \cup NoObject]
          /\ c.price_orders_at_price_ = [b.price_orders_at_price_ EXCEPT ![i] = l]
      BY <1>1, <1>8, <1>11, <1>13, <2>6, <3>1 DEF SameLevels, Books
    <3>4. \A j \in Slots : c.price_orders_at_price_[j] =
                             IF j = i THEN l ELSE b.price_orders_at_price_[j]
      BY <3>3
    <3>5. /\ LiveLevels(alone) = LiveLevels(b) /\ LiveLevels(c) = LiveLevels(b) \cup {l}
          /\ l \notin LiveLevels(b)
      <4>1. LiveLevels(alone) = LiveLevels(b)
        BY <1>8 DEF LiveLevels, SameLevels
      <4>2. LiveLevels(c) = LiveLevels(levelled)
        BY <2>6, <3>1 DEF LiveLevels
      <4> QED
        BY <1>11, <1>13, <4>1, <4>2
    <3>6. Made(alone) = Made(b) /\ Made(c) = Made(b) \cup {l}
      <4>1. Made(alone) = Made(b)
        BY <1>8 DEF Made, SameLevels
      <4> QED
        BY <2>3, <2>6, <3>1, <4>1
    <3>7. l \notin NoObject /\ l \notin MappedLevels(b)
      BY <1>1, <2>1, <3>5, Blocks DEF MapInv
    <3>8. MappedLevels(c) = MappedLevels(b) \cup {l}
      BY <1>2, <1>3, <3>4, <3>7, Blocks DEF MappedLevels
    <3>9. MapInv(c)
      <4>1. LiveLevels(c) = MappedLevels(c) /\ LiveLevels(c) \subseteq Made(c)
        BY <1>1, <3>5, <3>6, <3>8 DEF MapInv
      <4>2. ASSUME NEW j \in Slots, NEW k \in Slots, c.price_orders_at_price_[j] \notin NoObject,
                   c.price_orders_at_price_[j] = c.price_orders_at_price_[k]
            PROVE  j = k
        BY <1>1, <3>4, <3>7, <4>2 DEF MapInv, MappedLevels
      <4> QED
        BY <4>1, <4>2 DEF MapInv
    <3>10. \A j \in Slots : Firsts(c)[j] = IF j = i THEN o ELSE Firsts(b)[j]
      <4> SUFFICES ASSUME NEW j \in Slots
                   PROVE  FirstAt(c, j) = IF j = i THEN o ELSE FirstAt(b, j)
        BY DEF Firsts
      <4>1. CASE j = i
        BY <1>10, <2>3, <2>5, <2>6, <3>1, <3>4, <3>7, <4>1 DEF FirstAt
      <4>2. CASE j # i /\ b.price_orders_at_price_[j] \in NoObject
        BY <3>4, <4>2 DEF FirstAt
      <4>3. CASE j # i /\ b.price_orders_at_price_[j] \notin NoObject
        <5> DEFINE k == b.price_orders_at_price_[j]
        <5>1. k \in MappedLevels(b) /\ k # l
          BY <3>7, <4>3 DEF MappedLevels
        <5>2. k \in Made(b) /\ k \in LevelPool!Blocks
          BY <1>1, <5>1 DEF MapInv, Made
        <5>3. c.level[k].first_me_order_ = b.level[k].first_me_order_
          BY <1>8, <2>2, <2>3, <2>6, <3>1, <3>6, <5>1, <5>2 DEF SameLevels
        <5> QED
          BY <3>4, <4>3, <5>3 DEF FirstAt
      <4> QED
        BY <4>1, <4>2, <4>3
    <3>11. LinksInv(g, live \cup {o}, Firsts(c))
      <4>1. \A p \in live : g[p] = b.order[p]
        BY <1>2, <1>7
      <4>2. Firsts(b)[IndexOf(g[o])] = Null
        BY <1>2, <1>3, <1>9, Blocks DEF Firsts, FirstAt
      <4>3. \A j \in Slots : Firsts(c)[j] = IF j = IndexOf(g[o]) THEN o ELSE Firsts(b)[j]
        BY <1>9, <3>10
      <4> QED
        BY <1>1, <1>2, <1>7, <1>9, <4>1, <4>2, <4>3, LinksStarted
    <3>12. \A p \in OrderPool!Blocks :
             /\ g[p] = Null <=> b.order[p] = Null
             /\ b.order[p] # Null => SameButLinks(b.order[p], g[p])
             /\ p \notin LiveOrders(b) => g[p] = b.order[p]
      BY <1>2, <1>7, SameNever DEF order
    <3> QED
      BY <1>2, <2>7, <3>1, <3>2, <3>9, <3>11, <3>12 DEF Placed
  <2> QED
    BY <1>5, <1>13, <2>7, <2>8
<1> QED
  BY <1>12, <1>13

LEMMA OrderPlacedEffect ==
  ASSUME NEW b, NEW o, Resting(b, o)
  PROVE  OrderPlaced(b, o) \in Books /\ (Running(OrderPlaced(b, o)) => Placed(b, OrderPlaced(b, o)))
<1> DEFINE l == OrdersAtPrice(b, b.order[o].price_)
<1>1. CASE l = Null
  BY <1>1, LevelStartedEffect
<1>2. CASE l \notin NoObject
  <2>1. OrderPlaced(b, o) = OrderAppended(b, b.level[l].first_me_order_, o)
    BY <1>2, Blocks DEF OrderPlaced
  <2>2. Placed(b, OrderAppended(b, b.level[l].first_me_order_, o))
    BY <1>2, OrderAppendedEffect
  <2>3. OrderAppended(b, b.level[l].first_me_order_, o) \in Books
    BY <2>2 DEF Placed
  <2> HIDE DEF l
  <2> QED
    BY <2>1, <2>2, <2>3
<1>3. CASE l = Wild
  <2>1. OrderPlaced(b, o) = Ended(b, "segv") /\ b \in Books
    BY <1>3 DEF OrderPlaced, Resting
  <2> HIDE DEF l
  <2> QED
    BY <2>1, StatusReplaced DEF Statuses
<1> QED
  BY <1>1, <1>2, <1>3, Blocks

(* addOrder, table and all, from the book that an order is built in.       *)
Added(b, c) ==
  /\ LiveOrders(c) = LiveOrders(b)
  /\ BookInv(c)
  /\ \A p \in LiveOrders(b) : SameButLinks(b.order[p], c.order[p])

LEMMA OrderAddedEffect ==
  ASSUME NEW b, NEW o, Resting(b, o),
         HandlesInv(b.cid_oid_to_order_, b.order, LiveOrders(b) \ {o}),
         ~ ClientsReuseIds =>
           \A p \in LiveOrders(b) \ {o} :
             ~ (/\ b.order[p].client_id_ = b.order[o].client_id_
                /\ b.order[p].client_order_id_ = b.order[o].client_order_id_)
  PROVE  OrderAdded(b, o) \in Books /\ (Running(OrderAdded(b, o)) => Added(b, OrderAdded(b, o)))
<1> DEFINE live == LiveOrders(b)
           table == b.cid_oid_to_order_
           client == b.order[o].client_id_
           oid == b.order[o].client_order_id_
           placed == OrderPlaced(b, o)
           c == [placed EXCEPT !.cid_oid_to_order_[client][oid] = o]
<1>1. OrderAdded(b, o) = IF Running(placed) THEN c ELSE placed
  BY DEF OrderAdded
<1>2. /\ client \in Clients /\ oid \in OrderIds /\ o \in live /\ b \in Books
      /\ o \in OrderPool!Blocks /\ live \subseteq OrderPool!Blocks /\ o # Null
  BY Blocks DEF Resting, Orders, LiveOrders
<1>3. placed \in Books /\ (Running(placed) => Placed(b, placed))
  BY OrderPlacedEffect
<1> HIDE DEF placed, client, oid
<1>4. CASE ~ Running(placed)
  BY <1>1, <1>3, <1>4
<1>5. CASE Running(placed)
  <2>1. /\ c \in Books /\ c.order = placed.order /\ c.order_pool_ = placed.order_pool_
        /\ SameLevels(placed, c)
        /\ c.next_market_order_id_ = placed.next_market_order_id_
        /\ c.cid_oid_to_order_ = [placed.cid_oid_to_order_ EXCEPT ![client][oid] = o]
    BY <1>2, <1>3 DEF Books, SameLevels
  <2> HIDE DEF c
  <2>2. /\ PointersInv(placed) /\ MapInv(placed) /\ LinksInv(placed.order, live, Firsts(placed))
        /\ placed.order_pool_ = b.order_pool_ /\ SameTable(b, placed)
        /\ \A p \in OrderPool!Blocks :
             /\ placed.order[p] = Null <=> b.order[p] = Null
             /\ b.order[p] # Null => SameButLinks(b.order[p], placed.order[p])
             /\ p \notin live => placed.order[p] = b.order[p]
    BY <1>3, <1>5 DEF Placed
  <2>3. PointersInv(c) /\ MapInv(c) /\ Firsts(c) = Firsts(placed)
    BY <2>1, <2>2, SeenFromBoth
  <2>4. LiveOrders(c) = live
    BY <2>1, <2>2 DEF LiveOrders
  <2>5. \A p \in live : b.order[p] \in Orders /\ b.order[p] # Null
    BY NullAssumption DEF Resting, LinksInv
  <2>6. \A p \in live : SameButLinks(b.order[p], c.order[p])
    BY <1>2, <2>1, <2>2, <2>5
  <2>7. LinksInv(c.order, LiveOrders(c), Firsts(c))
    BY <2>1, <2>2, <2>3, <2>4
  <2>8. BlocksInv(c.order, LiveOrders(c), c.next_market_order_id_)
    <3>1. \A p \in OrderPool!Blocks :
            /\ c.order[p] # Null <=> b.order[p] # Null
            /\ c.order[p] # Null => c.order[p].market_order_id_ = b.order[p].market_order_id_
            /\ p \notin live => c.order[p] = b.order[p]
      BY <2>1, <2>2 DEF SameButLinks
    <3>2. c.next_market_order_id_ = b.next_market_order_id_
      BY <2>1, <2>2 DEF SameTable
    <3> HIDE DEF live
    <3>3. BlocksInv(b.order, live, b.next_market_order_id_)
      BY DEF Resting, live
    <3> QED
      BY <2>4, <3>1, <3>2, <3>3 DEF BlocksInv
  <2>9. \A k \in Clients, id \in OrderIds :
          c.cid_oid_to_order_[k][id] = IF k = client /\ id = oid THEN o ELSE table[k][id]
    <3>1. /\ table \in [Clients -> [OrderIds -> OrderPool!Blocks \cup NoObject]]
          /\ c.cid_oid_to_order_ = [table EXCEPT ![client][oid] = o]
      BY <1>2, <2>1, <2>2 DEF Books, SameTable
    <3> QED
      BY <1>2, <3>1
  <2>10. HandlesInv(c.cid_oid_to_order_, c.order, LiveOrders(c))
    <3>1. \A p \in live : /\ c.order[p].client_id_ = b.order[p].client_id_
                          /\ c.order[p].client_order_id_ = b.order[p].client_order_id_
      BY <2>6 DEF SameButLinks
    <3>2. \A k \in Clients, id \in OrderIds :
            c.cid_oid_to_order_[k][id] \notin NoObject =>
              /\ c.cid_oid_to_order_[k][id] \in LiveOrders(c)
              /\ c.order[c.cid_oid_to_order_[k][id]].client_id_ = k
              /\ c.order[c.cid_oid_to_order_[k][id]].client_order_id_ = id
      <4> TAKE k \in Clients, id \in OrderIds
      <4> HAVE c.cid_oid_to_order_[k][id] \notin NoObject
      <4>1. CASE k = client /\ id = oid
        <5>1. c.cid_oid_to_order_[k][id] = o
          BY <2>9, <4>1
        <5> QED
          BY <1>2, <2>4, <3>1, <4>1, <5>1 DEF client, oid
      <4>2. CASE ~ (k = client /\ id = oid)
        <5> DEFINE p == table[k][id]
        <5>1. c.cid_oid_to_order_[k][id] = p /\ p \notin NoObject
          BY <2>9, <4>2
        <5>2. p \in live /\ b.order[p].client_id_ = k /\ b.order[p].client_order_id_ = id
          BY <5>1 DEF HandlesInv
        <5> HIDE DEF p
        <5> QED
          BY <2>4, <3>1, <5>1, <5>2
      <4> QED
        BY <4>1, <4>2
    <3>3. ASSUME ~ ClientsReuseIds, NEW p \in live
          PROVE  c.cid_oid_to_order_[c.order[p].client_id_][c.order[p].client_order_id_] = p
      <4>1. b.order[p].client_id_ \in Clients /\ b.order[p].client_order_id_ \in OrderIds
        BY <2>5 DEF Orders
      <4>2. CASE p = o
        BY <2>9, <3>1, <4>1, <4>2 DEF client, oid
      <4>3. CASE p # o
        <5> DEFINE k == b.order[p].client_id_
                   id == b.order[p].client_order_id_
        <5>1. table[k][id] = p
          BY <3>3, <4>3 DEF HandlesInv
        <5>2. ~ (k = client /\ id = oid)
          BY <3>3, <4>3 DEF client, oid
        <5>3. c.order[p].client_id_ = k /\ c.order[p].client_order_id_ = id
          BY <3>1
        <5>4. k \in Clients /\ id \in OrderIds
          BY <4>1
        <5> HIDE DEF k, id
        <5>5. c.cid_oid_to_order_[k][id] = p
          BY <2>9, <5>1, <5>2, <5>4
        <5> QED
          BY <5>3, <5>5
      <4> QED
        BY <4>2, <4>3
    <3>4. ~ ClientsReuseIds =>
            \A p \in LiveOrders(c) :
              c.cid_oid_to_order_[c.order[p].client_id_][c.order[p].client_order_id_] = p
      BY <2>4, <3>3
    <3> QED
      BY <3>2, <3>4 DEF HandlesInv
  <2>11. Added(b, c)
    BY <2>3, <2>4, <2>6, <2>7, <2>8, <2>10 DEF Added, BookInv
  <2> QED
    BY <1>1, <1>5, <2>1, <2>11
<1> QED
  BY <1>4, <1>5

LEMMA LinksSeen ==
  ASSUME NEW order, NEW live, NEW first, LinksInv(order, live, first),
         NEW order2, \A p \in live : order2[p] = order[p]
  PROVE  LinksInv(order2, live, first)
<1>1. \A i \in Slots : first[i] # Null => first[i] \in live /\ IndexOf(order2[first[i]]) = i
  BY DEF LinksInv
<1>2. ASSUME NEW o \in live
      PROVE  /\ order2[o] \in Orders
             /\ order2[o].prev_order_ \in live /\ order2[o].next_order_ \in live
             /\ order2[order2[o].next_order_].prev_order_ = o
             /\ order2[order2[o].prev_order_].next_order_ = o
             /\ IndexOf(order2[order2[o].next_order_]) = IndexOf(order2[o])
             /\ first[IndexOf(order2[o])] # Null
             /\ \/ order2[o].next_order_ = first[IndexOf(order2[o])]
                \/ order2[o].market_order_id_ < order2[order2[o].next_order_].market_order_id_
  BY DEF LinksInv
<1> QED
  BY <1>1, <1>2 DEF LinksInv

(* The order that add constructs has the youngest market order id.         *)
LEMMA BuiltIsResting ==
  ASSUME NEW b \in Books, BookInv(b), Running(b), NEW order \in Orders,
         b.next_market_order_id_ \in Int,
         \A p \in OrderPool!Blocks :
           b.order[p] # Null => b.order[p].market_order_id_ < order.market_order_id_,
         order.market_order_id_ < b.next_market_order_id_,
         Running(ConstructedOrder(b, order))
  PROVE  LET built == ConstructedOrder(b, order)
             o == OrderPool!AllocatedBlock(b.order_pool_)
         IN  /\ Resting(built, o)
             /\ o \notin LiveOrders(b) /\ LiveOrders(built) = LiveOrders(b) \cup {o}
             /\ built.order[o] = order
             /\ \A p \in LiveOrders(b) : built.order[p] = b.order[p]
             /\ built.cid_oid_to_order_ = b.cid_oid_to_order_
<1> DEFINE built == ConstructedOrder(b, order)
           o == OrderPool!AllocatedBlock(b.order_pool_)
           live == LiveOrders(b)
<1>1. /\ built \in Books
      /\ o \in OrderPool!Blocks \ live /\ LiveOrders(built) = live \cup {o}
      /\ built.order = [b.order EXCEPT ![o] = order]
      /\ SameLevels(b, built) /\ SameTable(b, built)
  BY ConstructedOrderEffect
<1> HIDE DEF built, o
<1>2. live \subseteq OrderPool!Blocks /\ order # Null
  BY NullAssumption DEF LiveOrders
<1>3. \A p \in OrderPool!Blocks : built.order[p] = IF p = o THEN order ELSE b.order[p]
  BY <1>1 DEF Books
<1>4. MapInv(built) /\ Firsts(built) = Firsts(b) /\ Made(built) = Made(b)
  BY <1>1 DEF SameLevels, BookInv, MapInv, Made, LiveLevels, MappedLevels, Firsts, FirstAt
<1>5. \A l \in Made(b) : b.level[l].first_me_order_ \in OrderPool!Blocks
  BY DEF Made, Books, Levels
<1>6. PointersInv(built)
  BY <1>1, <1>2, <1>3, <1>4, <1>5 DEF PointersInv, SameLevels, BookInv
<1>7. \A p \in live : built.order[p] = b.order[p]
  BY <1>1, <1>2, <1>3
<1>8. LinksInv(built.order, LiveOrders(built) \ {o}, Firsts(built))
  <2>1. LiveOrders(built) \ {o} = live
    BY <1>1
  <2>2. LinksInv(b.order, live, Firsts(b))
    BY DEF BookInv
  <2> HIDE DEF live
  <2> QED
    BY <1>4, <1>7, <2>1, <2>2, LinksSeen
<1>9. built.order[o] = order
  BY <1>1, <1>3
<1>10. ASSUME NEW p \in live
       PROVE  built.order[p].market_order_id_ < built.order[o].market_order_id_
  <2>1. b.order[p] # Null
    BY NullAssumption DEF BookInv, LinksInv
  <2> QED
    BY <1>2, <1>7, <1>9, <2>1
<1>11. BlocksInv(built.order, LiveOrders(built), built.next_market_order_id_)
  <2>1. built.next_market_order_id_ = b.next_market_order_id_
    BY <1>1 DEF SameTable
  <2>2. BlocksInv(b.order, live, b.next_market_order_id_)
    BY DEF BookInv
  <2>3. order.market_order_id_ \in Int
    BY DEF Orders
  <2>4. \A p \in OrderPool!Blocks :
          built.order[p] # Null =>
            /\ built.order[p].market_order_id_ < built.next_market_order_id_
            /\ p \notin LiveOrders(built) => built.order[p].prev_order_ \in {p, Null}
    BY <1>1, <1>3, <2>1, <2>2 DEF BlocksInv
  <2>5. ASSUME NEW p \in OrderPool!Blocks, NEW q \in OrderPool!Blocks,
               built.order[p] # Null, built.order[q] # Null,
               built.order[p].market_order_id_ = built.order[q].market_order_id_
        PROVE  p = q
    BY <1>1, <1>3, <2>2, <2>3, <2>5 DEF BlocksInv
  <2> QED
    BY <2>4, <2>5 DEF BlocksInv
<1>12. Resting(built, o)
  <2>1. Running(built) /\ LiveOrders(built) \ {o} = live
    BY <1>1 DEF SameTable, Running
  <2> QED
    BY <1>1, <1>4, <1>6, <1>8, <1>9, <1>10, <1>11, <2>1 DEF Resting
<1> QED
  BY <1>1, <1>7, <1>9, <1>12 DEF built, o, SameTable

-----------------------------------------------------------------------------
(* A fill changes a quantity and nothing else.                             *)
SameButQuantity(order, other) ==
  /\ other.client_id_ = order.client_id_ /\ other.client_order_id_ = order.client_order_id_
  /\ other.market_order_id_ = order.market_order_id_
  /\ other.side_ = order.side_ /\ other.price_ = order.price_
  /\ other.priority_ = order.priority_
  /\ other.prev_order_ = order.prev_order_ /\ other.next_order_ = order.next_order_

Filled(b, o, fill_qty) == [b EXCEPT !.order[o].quantity_ = @ - fill_qty]

LEMMA LinksFilled ==
  ASSUME NEW order, NEW live, NEW first, LinksInv(order, live, first),
         NEW order2,
         \A p \in live : order2[p] \in Orders /\ SameButQuantity(order[p], order2[p])
  PROVE  LinksInv(order2, live, first)
<1>1. \A p \in live :
        /\ order2[p] \in Orders
        /\ order2[p].prev_order_ = order[p].prev_order_
        /\ order2[p].next_order_ = order[p].next_order_
        /\ order2[p].market_order_id_ = order[p].market_order_id_
        /\ IndexOf(order2[p]) = IndexOf(order[p])
  BY DEF SameButQuantity, IndexOf
<1>2. \A i \in Slots : first[i] # Null => first[i] \in live /\ IndexOf(order2[first[i]]) = i
  BY <1>1 DEF LinksInv
<1>3. ASSUME NEW o \in live
      PROVE  /\ order2[o] \in Orders
             /\ order2[o].prev_order_ \in live /\ order2[o].next_order_ \in live
             /\ order2[order2[o].next_order_].prev_order_ = o
             /\ order2[order2[o].prev_order_].next_order_ = o
             /\ IndexOf(order2[order2[o].next_order_]) = IndexOf(order2[o])
             /\ first[IndexOf(order2[o])] # Null
             /\ \/ order2[o].next_order_ = first[IndexOf(order2[o])]
                \/ order2[o].market_order_id_ < order2[order2[o].next_order_].market_order_id_
  BY <1>1 DEF LinksInv
<1> QED
  BY <1>2, <1>3 DEF LinksInv

LEMMA FilledEffect ==
  ASSUME NEW b \in Books, BookInv(b), NEW o \in OrderPool!Blocks, b.order[o] # Null,
         NEW fill_qty \in Nat, fill_qty <= b.order[o].quantity_
  PROVE  LET c == Filled(b, o, fill_qty)
         IN  /\ c \in Books /\ BookInv(c) /\ c.status = b.status
             /\ LiveOrders(c) = LiveOrders(b)
             /\ c.order[o] # Null /\ SameButQuantity(b.order[o], c.order[o])
             /\ \A p \in OrderPool!Blocks : p # o => c.order[p] = b.order[p]
<1> DEFINE order == [b.order[o] EXCEPT !.quantity_ = @ - fill_qty]
           g == [b.order EXCEPT ![o] = order]
           c == Filled(b, o, fill_qty)
<1>1. b.order[o] \in Orders /\ b.order \in OrderStores
  BY DEF Books, OrderStores
<1>2. order \in Orders /\ SameButQuantity(b.order[o], order)
  <2>1. b.order[o].quantity_ \in Nat
    BY <1>1 DEF Orders
  <2>2. b.order[o].quantity_ - fill_qty \in Nat
    BY <2>1
  <2> QED
    BY <1>1, <2>2 DEF Orders, SameButQuantity
<1>3. c = [b EXCEPT !.order = g]
  BY DEF Filled
<1> HIDE DEF order
<1>4. /\ g \in OrderStores /\ g[o] = order
      /\ \A p \in OrderPool!Blocks : p # o => g[p] = b.order[p]
      /\ \A p \in OrderPool!Blocks : g[p] = Null <=> b.order[p] = Null
  BY <1>1, <1>2, NullAssumption DEF OrderStores
<1> HIDE DEF g, c
<1>5. /\ c \in Books /\ c.order = g /\ c.order_pool_ = b.order_pool_
      /\ SameLevels(b, c) /\ SameTable(b, c)
      /\ PointersInv(c) /\ MapInv(c) /\ Firsts(c) = Firsts(b)
  BY <1>3, <1>4, OrderStoreReplaced DEF BookInv
<1>6. \A p \in OrderPool!Blocks : b.order[p] # Null => SameButQuantity(b.order[p], g[p])
  BY <1>2, <1>4 DEF SameButQuantity
<1>7. LiveOrders(c) = LiveOrders(b) /\ LiveOrders(b) \subseteq OrderPool!Blocks
  BY <1>5 DEF LiveOrders
<1>8. \A p \in LiveOrders(b) : b.order[p] # Null /\ g[p] \in Orders
  <2>1. \A p \in LiveOrders(b) : b.order[p] # Null
    BY NullAssumption DEF BookInv, LinksInv
  <2> QED
    BY <1>4, <1>7, <2>1 DEF OrderStores
<1>9. LinksInv(g, LiveOrders(b), Firsts(b))
  BY <1>6, <1>7, <1>8, LinksFilled DEF BookInv
<1>10. BlocksInv(g, LiveOrders(b), b.next_market_order_id_)
  <2>1. \A p \in OrderPool!Blocks :
          /\ g[p] = Null <=> b.order[p] = Null
          /\ b.order[p] # Null =>
               /\ g[p].market_order_id_ = b.order[p].market_order_id_
               /\ g[p].prev_order_ = b.order[p].prev_order_
    BY <1>4, <1>6 DEF SameButQuantity
  <2> QED
    BY <2>1 DEF BookInv, BlocksInv
<1>11. HandlesInv(b.cid_oid_to_order_, g, LiveOrders(b))
  <2>1. \A p \in LiveOrders(b) : /\ g[p].client_id_ = b.order[p].client_id_
                                 /\ g[p].client_order_id_ = b.order[p].client_order_id_
    BY <1>6, <1>7, <1>8 DEF SameButQuantity
  <2> QED
    BY <2>1 DEF BookInv, HandlesInv
<1>12. BookInv(c)
  BY <1>5, <1>7, <1>9, <1>10, <1>11 DEF BookInv, SameTable
<1> QED
  BY <1>2, <1>4, <1>5, <1>7, <1>12, <1>6 DEF c, SameTable

-----------------------------------------------------------------------------
(* What the subscriber knows.                                              *)
Entries(b) == {Entry(b.order[o]) : o \in LiveOrders(b)}

LEMMA EntryKept ==
  ASSUME NEW order, NEW other, SameButLinks(order, other)
  PROVE  Entry(other) = Entry(order)
BY DEF SameButLinks, Entry

(* A number given out once tells an order from all others.                 *)
MarketIdsUnique(b) ==
  \A o, p \in OrderPool!Blocks :
    /\ b.order[o] # Null /\ b.order[p] # Null
    /\ b.order[o].market_order_id_ = b.order[p].market_order_id_
    => o = p

LEMMA EntriesRemoved ==
  ASSUME NEW b, NEW c, NEW o \in OrderPool!Blocks, b.order[o] # Null, MarketIdsUnique(b),
         \A p \in LiveOrders(b) : b.order[p] # Null,
         LiveOrders(c) = LiveOrders(b) \ {o},
         \A p \in LiveOrders(b) \ {o} : Entry(c.order[p]) = Entry(b.order[p])
  PROVE  Entries(c) = Without(Entries(b), b.order[o])
<1>1. \A p \in LiveOrders(b) : Entry(b.order[p]).market_order_id_ = b.order[p].market_order_id_
  BY DEF Entry
<1>2. \A p \in LiveOrders(b) : p # o => b.order[p].market_order_id_ # b.order[o].market_order_id_
  BY DEF MarketIdsUnique, LiveOrders
<1>3. Entries(c) = {Entry(b.order[p]) : p \in LiveOrders(b) \ {o}}
  BY DEF Entries
<1> QED
  BY <1>1, <1>2, <1>3 DEF Entries, Without

LEMMA EntriesModified ==
  ASSUME NEW b, NEW c, NEW o \in OrderPool!Blocks, b.order[o] # Null, MarketIdsUnique(b),
         \A p \in LiveOrders(b) : b.order[p] # Null,
         LiveOrders(c) = LiveOrders(b),
         c.order[o].market_order_id_ = b.order[o].market_order_id_,
         \A p \in OrderPool!Blocks : p # o => c.order[p] = b.order[p]
  PROVE  Entries(c) = Modified(Entries(b), c.order[o])
<1> DEFINE new(e) == IF e.market_order_id_ = c.order[o].market_order_id_
                     THEN Entry(c.order[o]) ELSE e
<1>1. \A p \in LiveOrders(b) : Entry(b.order[p]).market_order_id_ = b.order[p].market_order_id_
  BY DEF Entry
<1>2. \A p \in LiveOrders(b) : p # o => b.order[p].market_order_id_ # b.order[o].market_order_id_
  BY DEF MarketIdsUnique, LiveOrders
<1>3. \A p \in LiveOrders(b) : new(Entry(b.order[p])) = Entry(c.order[p])
  BY <1>1, <1>2 DEF LiveOrders
<1>4. Modified(Entries(b), c.order[o]) = {new(e) : e \in Entries(b)}
  BY DEF Modified
<1> HIDE DEF new
<1> QED
  BY <1>3, <1>4 DEF Entries

-----------------------------------------------------------------------------
(* add: a market order id is given out, and the order is built and added.  *)
Accepted(b) == [b EXCEPT !.next_market_order_id_ = @ + 1]

Rested(b, order) ==
  LET built == ConstructedOrder(Accepted(b), order)
  IN  IF ~ Running(built) THEN built
      ELSE OrderAdded(built, OrderPool!AllocatedBlock(Accepted(b).order_pool_))

LEMMA AcceptedEffect ==
  ASSUME NEW b \in Books, BookInv(b), b.next_market_order_id_ <= MaxMarketOrderId
  PROVE  LET c == Accepted(b)
         IN  /\ c \in Books /\ BookInv(c) /\ c.status = b.status
             /\ c.order = b.order /\ LiveOrders(c) = LiveOrders(b)
             /\ c.next_market_order_id_ = b.next_market_order_id_ + 1
             /\ c.next_market_order_id_ \in Int /\ b.next_market_order_id_ \in 1 .. MaxMarketOrderId
             /\ c.cid_oid_to_order_ = b.cid_oid_to_order_
             /\ \A p \in OrderPool!Blocks :
                  b.order[p] # Null => b.order[p].market_order_id_ < b.next_market_order_id_
<1> DEFINE c == Accepted(b)
<1>1. b.next_market_order_id_ \in 1 .. MaxMarketOrderId + 1
  BY DEF Books
<1>2. b.next_market_order_id_ \in 1 .. MaxMarketOrderId
  BY <1>1, MEOrderBookAssumption
<1>3. b.next_market_order_id_ + 1 \in 1 .. MaxMarketOrderId + 1
  BY <1>2, MEOrderBookAssumption
<1>4. /\ c \in Books /\ c.status = b.status /\ c.order = b.order
      /\ c.order_pool_ = b.order_pool_ /\ SameLevels(b, c)
      /\ c.next_market_order_id_ = b.next_market_order_id_ + 1
      /\ c.cid_oid_to_order_ = b.cid_oid_to_order_
  BY <1>3 DEF Accepted, Books, SameLevels
<1> HIDE DEF c
<1>5. PointersInv(c) /\ MapInv(c) /\ Firsts(c) = Firsts(b) /\ LiveOrders(c) = LiveOrders(b)
  BY <1>4, SeenFromBoth DEF BookInv, LiveOrders
<1>6. \A p \in OrderPool!Blocks :
        b.order[p] # Null => /\ b.order[p].market_order_id_ \in Int
                             /\ b.order[p].market_order_id_ < b.next_market_order_id_
  <2>1. \A p \in OrderPool!Blocks : b.order[p] # Null => b.order[p] \in Orders
    BY DEF Books
  <2> QED
    BY <2>1 DEF BookInv, BlocksInv, Orders
<1>7. BlocksInv(c.order, LiveOrders(c), c.next_market_order_id_)
  <2>1. \A p \in OrderPool!Blocks :
          b.order[p] # Null => b.order[p].market_order_id_ < c.next_market_order_id_
    BY <1>2, <1>4, <1>6
  <2> QED
    BY <1>4, <1>5, <2>1 DEF BookInv, BlocksInv
<1>8. BookInv(c)
  BY <1>4, <1>5, <1>7 DEF BookInv
<1>9. c.next_market_order_id_ \in Int
  BY <1>2, <1>4
<1> QED
  BY <1>2, <1>4, <1>5, <1>6, <1>8, <1>9 DEF c

LEMMA RestedEffect ==
  ASSUME NEW b \in Books, BookInv(b), Running(b), b.next_market_order_id_ <= MaxMarketOrderId,
         NEW order \in Orders, order.market_order_id_ = b.next_market_order_id_,
         ~ ClientsReuseIds => LiveOrdersOf(b, order.client_id_, order.client_order_id_) = {}
  PROVE  /\ Rested(b, order) \in Books
         /\ Running(Rested(b, order)) =>
              /\ BookInv(Rested(b, order))
              /\ Entries(Rested(b, order)) = Entries(b) \cup {Entry(order)}
<1> DEFINE a == Accepted(b)
           built == ConstructedOrder(a, order)
           o == OrderPool!AllocatedBlock(a.order_pool_)
           c == OrderAdded(built, o)
<1>1. /\ a \in Books /\ BookInv(a) /\ a.status = b.status
      /\ a.order = b.order /\ LiveOrders(a) = LiveOrders(b)
      /\ a.next_market_order_id_ = b.next_market_order_id_ + 1
      /\ a.next_market_order_id_ \in Int /\ b.next_market_order_id_ \in 1 .. MaxMarketOrderId
      /\ a.cid_oid_to_order_ = b.cid_oid_to_order_
      /\ \A p \in OrderPool!Blocks :
           b.order[p] # Null => b.order[p].market_order_id_ < b.next_market_order_id_
  BY AcceptedEffect
<1>2. Rested(b, order) = IF ~ Running(built) THEN built ELSE c
  BY DEF Rested
<1> HIDE DEF a
<1>3. Running(a) /\ order.market_order_id_ < a.next_market_order_id_
  BY <1>1 DEF Running
<1>4. built \in Books
  BY <1>1, ConstructedOrderEffect
<1>5. CASE ~ Running(built)
  BY <1>2, <1>4, <1>5
<1>6. CASE Running(built)
  <2>1. /\ Resting(built, o)
        /\ o \notin LiveOrders(a) /\ LiveOrders(built) = LiveOrders(a) \cup {o}
        /\ built.order[o] = order
        /\ \A p \in LiveOrders(a) : built.order[p] = a.order[p]
        /\ built.cid_oid_to_order_ = a.cid_oid_to_order_
    BY <1>1, <1>3, <1>6, BuiltIsResting
  <2> HIDE DEF built, o
  <2>2. HandlesInv(built.cid_oid_to_order_, built.order, LiveOrders(built) \ {o})
    <3>1. LiveOrders(built) \ {o} = LiveOrders(a)
      BY <2>1
    <3>2. HandlesInv(a.cid_oid_to_order_, a.order, LiveOrders(a))
      BY <1>1 DEF BookInv
    <3> DEFINE live == LiveOrders(a)
               table == a.cid_oid_to_order_
    <3>3. \A p \in live : built.order[p] = a.order[p]
      BY <2>1
    <3> HIDE DEF live, table
    <3>4. HandlesInv(table, built.order, live)
      BY <3>2, <3>3 DEF HandlesInv, live, table
    <3> QED
      BY <2>1, <3>1, <3>4 DEF live, table
  <2>3. ~ ClientsReuseIds =>
          \A p \in LiveOrders(built) \ {o} :
            ~ (/\ built.order[p].client_id_ = built.order[o].client_id_
               /\ built.order[p].client_order_id_ = built.order[o].client_order_id_)
    BY <1>1, <2>1 DEF LiveOrdersOf
  <2>4. c \in Books /\ (Running(c) => Added(built, c))
    BY <2>1, <2>2, <2>3, OrderAddedEffect
  <2> HIDE DEF c
  <2>5. ASSUME Running(c)
        PROVE  BookInv(c) /\ Entries(c) = Entries(b) \cup {Entry(order)}
    <3>1. /\ BookInv(c) /\ LiveOrders(c) = LiveOrders(b) \cup {o}
          /\ \A p \in LiveOrders(b) \cup {o} : SameButLinks(built.order[p], c.order[p])
      BY <1>1, <2>1, <2>4, <2>5 DEF Added
    <3>2. \A p \in LiveOrders(b) : Entry(c.order[p]) = Entry(b.order[p])
      BY <1>1, <2>1, <3>1, EntryKept
    <3>3. Entry(c.order[o]) = Entry(order)
      BY <2>1, <3>1, EntryKept
    <3>4. Entries(c) = Entries(b) \cup {Entry(c.order[o])}
      BY <3>1, <3>2 DEF Entries
    <3> QED
      BY <3>1, <3>3, <3>4
  <2> QED
    BY <1>2, <1>6, <2>4, <2>5
<1> QED
  BY <1>5, <1>6

(* getNextPriority reads an order in use where there is a level.           *)
LEMMA NextPriorityIsNat ==
  ASSUME NEW b \in Books, BookInv(b), NEW price \in Nat,
         OrdersAtPrice(b, price) \notin NoObject
  PROVE  NextPriority(b, price) \in Nat
<1> DEFINE i == PriceToIndex(price)
           l == b.price_orders_at_price_[i]
           first == b.level[l].first_me_order_
           live == LiveOrders(b)
<1>1. i \in Slots /\ l \notin NoObject /\ OrdersAtPrice(b, price) = l
  BY IndexOfPrice DEF OrdersAtPrice
<1>2. l \in Made(b) /\ l \in LevelPool!Blocks
  BY <1>1 DEF BookInv, MapInv, MappedLevels, Made
<1>3. first \in OrderPool!Blocks
  BY <1>2 DEF Made, Books, Levels
<1>4. Firsts(b)[i] = first /\ first # Null
  BY <1>1, <1>3, Blocks DEF Firsts, FirstAt
<1>5. LinksInv(b.order, live, Firsts(b))
  BY DEF BookInv
<1>6. first \in live
  BY <1>1, <1>4, <1>5 DEF LinksInv
<1>7. b.order[b.order[first].prev_order_] \in Orders
  BY <1>5, <1>6 DEF LinksInv
<1> QED
  BY <1>1, <1>7 DEF NextPriority, Orders

(* The order checkForMatch looks at has been constructed.                  *)
LEMMA PassiveIsMade ==
  ASSUME NEW b \in Books, BookInv(b), NEW head \in {"bids_by_price_", "asks_by_price_"},
         b[head] # Null
  PROVE  LET o == b.level[b[head]].first_me_order_
         IN  o \in OrderPool!Blocks /\ b.order[o] # Null
<1> DEFINE l == b[head]
<1>1. l \in Made(b)
  BY DEF BookInv, PointersInv
<1> HIDE DEF l
<1>2. b.level[l].first_me_order_ \in OrderPool!Blocks
  BY <1>1 DEF Made, Books, Levels
<1>3. b.order[b.level[l].first_me_order_] # Null
  BY <1>1 DEF BookInv, PointersInv
<1> QED
  BY <1>2, <1>3 DEF l

(* What a removal leaves of the book and of what the subscriber knows.     *)
LEMMA RemovedEntries ==
  ASSUME NEW b \in Books, BookInv(b), NEW c, NEW o, Removed(b, c, o)
  PROVE  BookInv(c) /\ Entries(c) = Without(Entries(b), b.order[o])
<1>1. MarketIdsUnique(b)
  BY DEF BookInv, BlocksInv, MarketIdsUnique
<1>2. /\ o \in LiveOrders(b) /\ o \in OrderPool!Blocks
      /\ LiveOrders(c) = LiveOrders(b) \ {o} /\ BookInv(c)
  BY DEF Removed, LiveOrders
<1>3. \A p \in LiveOrders(b) : b.order[p] # Null
  BY NullAssumption DEF BookInv, LinksInv
<1>4. \A p \in LiveOrders(b) \ {o} : Entry(c.order[p]) = Entry(b.order[p])
  BY EntryKept DEF Removed
<1> QED
  BY <1>1, <1>2, <1>3, <1>4, EntriesRemoved

-----------------------------------------------------------------------------
(* The steps.                                                              *)
LEMMA InitEstablishes == Init => IInv
<1> SUFFICES ASSUME Init PROVE IInv
  OBVIOUS
<1>0. PICK prices \in FreshPrices, ids \in FreshIds : book = NewBook(prices, ids)
  BY DEF Init
<1>1. /\ book.order = [o \in OrderPool!Blocks |-> Null]
      /\ book.level = [l \in LevelPool!Blocks |-> Null]
      /\ book.order_pool_ = OrderPool!NewPool /\ book.orders_at_price_pool_ = LevelPool!NewPool
      /\ book.price_orders_at_price_ = prices
      /\ book.cid_oid_to_order_ = ids
      /\ book.bids_by_price_ = Null /\ book.asks_by_price_ = Null
      /\ taker = Null /\ subscriber = {}
  BY <1>0 DEF Init, NewBook
<1>11. /\ prices \in [Slots -> NoObject] /\ ids \in [Clients -> [OrderIds -> NoObject]]
       /\ \A i \in Slots : prices[i] \in NoObject
       /\ \A c \in Clients, id \in OrderIds : ids[c][id] \in NoObject
  BY <1>0, MEOrderBookAssumption, Blocks
<1>2. book \in Books
  <2>1. 1 \in 1 .. MaxMarketOrderId + 1
    BY MEOrderBookAssumption
  <2>2. /\ prices \in [Slots -> LevelPool!Blocks \cup NoObject]
        /\ ids \in [Clients -> [OrderIds -> OrderPool!Blocks \cup NoObject]]
    BY <1>11
  <2> QED
    BY <1>0, <2>1, <2>2, NewPools DEF NewBook, Books, Statuses
<1>3. LiveOrders(book) = {} /\ LiveLevels(book) = {}
  BY <1>1, NewPools DEF LiveOrders, LiveLevels
<1>4. PointersInv(book)
  BY <1>1 DEF PointersInv, Made
<1>5. MapInv(book)
  BY <1>1, <1>3, <1>11 DEF MapInv, MappedLevels
<1>6. LinksInv(book.order, LiveOrders(book), Firsts(book))
  BY <1>1, <1>3, <1>11 DEF LinksInv, Firsts, FirstAt
<1>7. BlocksInv(book.order, LiveOrders(book), book.next_market_order_id_)
  BY <1>1 DEF BlocksInv
<1>8. HandlesInv(book.cid_oid_to_order_, book.order, LiveOrders(book))
  BY <1>1, <1>3, <1>11 DEF HandlesInv
<1>9. SubscriberHasTheBook
  BY <1>1, <1>3 DEF SubscriberHasTheBook
<1>10. TypeOK
  BY <1>1, <1>2 DEF TypeOK
<1> QED
  BY <1>4, <1>5, <1>6, <1>7, <1>8, <1>9, <1>10 DEF IInv, BookInv

(* A step that brings the subscriber what it brings the book.              *)
LEMMA Kept ==
  ASSUME book' \in Books,
         taker' = Null \/ taker' \in [side : Sides, price : Prices, leaves_qty : Nat, turns : Nat],
         \A e \in subscriber' : e.market_order_id_ \in 1 .. MaxMarketOrderId,
         Running(book') => BookInv(book') /\ subscriber' = Entries(book')
  PROVE  IInv'
BY DEF IInv, TypeOK, SubscriberHasTheBook, Entries

LEMMA Facts ==
  ASSUME IInv, Running(book)
  PROVE  /\ book \in Books /\ BookInv(book) /\ subscriber = Entries(book)
         /\ taker = Null \/ taker \in [side : Sides, price : Prices, leaves_qty : Nat, turns : Nat]
         /\ \A e \in subscriber : e.market_order_id_ \in 1 .. MaxMarketOrderId
BY DEF IInv, TypeOK, SubscriberHasTheBook, Entries

LEMMA AddStep ==
  ASSUME IInv, NEW c \in Clients, NEW id \in RequestIds, NEW side \in Sides,
         NEW price \in Prices, NEW left \in Quantities \cup {0},
         Add(c, id, side, price, left)
  PROVE  IInv'
<1> DEFINE mid == book.next_market_order_id_
           order(priority) ==
             [client_id_ |-> c, client_order_id_ |-> id, market_order_id_ |-> mid,
              side_ |-> side, price_ |-> price, quantity_ |-> left, priority_ |-> priority,
              prev_order_ |-> Null, next_order_ |-> Null]
           rested(priority) == Rested(book, order(priority))
<1>1. Ready /\ Running(book) /\ mid <= MaxMarketOrderId /\ taker' = Null
  BY DEF Add, Ready
<1>2. /\ book \in Books /\ BookInv(book) /\ subscriber = Entries(book)
      /\ \A e \in subscriber : e.market_order_id_ \in 1 .. MaxMarketOrderId
  BY <1>1, Facts
<1>3. /\ Accepted(book) \in Books /\ BookInv(Accepted(book))
      /\ Accepted(book).order = book.order /\ LiveOrders(Accepted(book)) = LiveOrders(book)
      /\ mid \in 1 .. MaxMarketOrderId
  BY <1>1, <1>2, AcceptedEffect
<1>4. price \in Nat /\ left \in Nat /\ id \in OrderIds
  BY MEOrderBookAssumption
<1>5. ~ ClientsReuseIds => LiveOrdersOf(book, c, id) = {}
  BY DEF Add
<1>6. \/ left = 0 /\ book' = Accepted(book) /\ subscriber' = subscriber
      \/ book' = Ended(Accepted(book), "segv") /\ subscriber' = subscriber
      \/ \E read \in ReadOutcomes(price) \ {"segv"} :
           LET priority == IF read = "reads_null" THEN 1 ELSE NextPriority(book, price)
           IN  /\ book' = rested(priority)
               /\ subscriber' = IF Running(book') THEN subscriber \cup {Entry(order(priority))}
                                ELSE subscriber
  BY DEF Add, Accepted, Rested
<1>7. CASE left = 0 /\ book' = Accepted(book) /\ subscriber' = subscriber
  <2>1. Entries(book') = Entries(book)
    BY <1>3, <1>7 DEF Entries
  <2> QED
    BY <1>1, <1>2, <1>3, <1>7, <2>1, Kept
<1>8. CASE book' = Ended(Accepted(book), "segv") /\ subscriber' = subscriber
  <2>1. book' \in Books /\ ~ Running(book')
    BY <1>3, <1>8, StatusReplaced DEF Statuses
  <2> QED
    BY <1>1, <1>2, <1>8, <2>1, Kept
<1>9. ASSUME NEW read \in ReadOutcomes(price) \ {"segv"}, NEW priority,
             priority = IF read = "reads_null" THEN 1 ELSE NextPriority(book, price),
             book' = rested(priority),
             subscriber' = IF Running(book') THEN subscriber \cup {Entry(order(priority))}
                           ELSE subscriber
      PROVE  IInv'
  <2>1. priority \in Nat
    <3>1. CASE OrdersAtPrice(book, price) = Null
      <4>1. read = "reads_null"
        BY <3>1, MEOrderBookAssumption DEF ReadOutcomes
      <4> QED
        BY <1>9, <4>1
    <3>2. CASE OrdersAtPrice(book, price) = Wild
      BY <3>2, MEOrderBookAssumption DEF ReadOutcomes
    <3>3. CASE OrdersAtPrice(book, price) \notin NoObject
      <4>1. read # "reads_null"
        BY <3>3, Blocks DEF ReadOutcomes
      <4>2. NextPriority(book, price) \in Nat
        BY <1>2, <1>4, <3>3, NextPriorityIsNat
      <4> QED
        BY <1>9, <4>1, <4>2
    <3> QED
      BY <3>1, <3>2, <3>3, Blocks
  <2>2. /\ order(priority) \in Orders /\ order(priority).market_order_id_ = mid
        /\ order(priority).client_id_ = c /\ order(priority).client_order_id_ = id
    BY <1>3, <1>4, <2>1 DEF Orders
  <2>3. Entry(order(priority)).market_order_id_ = mid
    BY DEF Entry
  <2> DEFINE new == order(priority)
  <2>4. book' = Rested(book, new)
    BY <1>9
  <2> HIDE DEF new
  <2>5. /\ new \in Orders /\ new.market_order_id_ = mid
        /\ ~ ClientsReuseIds => LiveOrdersOf(book, new.client_id_, new.client_order_id_) = {}
    BY <1>5, <2>2 DEF new
  <2>6. /\ Rested(book, new) \in Books
        /\ Running(Rested(book, new)) =>
             /\ BookInv(Rested(book, new))
             /\ Entries(Rested(book, new)) = Entries(book) \cup {Entry(new)}
    BY <1>1, <1>2, <2>5, RestedEffect
  <2>7. subscriber' = IF Running(book') THEN subscriber \cup {Entry(new)} ELSE subscriber
    BY <1>9 DEF new
  <2>8. Entry(new).market_order_id_ \in 1 .. MaxMarketOrderId
    BY <1>3, <2>3 DEF new
  <2>9. \A e \in subscriber' : e.market_order_id_ \in 1 .. MaxMarketOrderId
    BY <1>2, <2>7, <2>8
  <2>10. Running(book') => BookInv(book') /\ subscriber' = Entries(book')
    BY <1>2, <2>4, <2>6, <2>7
  <2> QED
    BY <1>1, <2>4, <2>6, <2>9, <2>10, Kept
<1> QED
  BY <1>6, <1>7, <1>8, <1>9

(* An order taken out, for a cancel or a fill.                             *)
LEMMA WithoutKept ==
  ASSUME NEW entries, NEW order, \A e \in entries : e.market_order_id_ \in 1 .. MaxMarketOrderId
  PROVE  \A e \in Without(entries, order) : e.market_order_id_ \in 1 .. MaxMarketOrderId
BY DEF Without

LEMMA CanceledStep ==
  ASSUME IInv, NEW c, NEW id, Canceled(c, id)
  PROVE  IInv'
<1> DEFINE o == book.cid_oid_to_order_[c][id]
<1>1. /\ Running(book) /\ taker' = Null /\ c \in Clients /\ id \in OrderIds /\ o # Null
      /\ book' = CanceledFrom(book, o)
      /\ subscriber' = IF Running(book') THEN Without(subscriber, book.order[o]) ELSE subscriber
  BY DEF Canceled, Ready, Rejected
<1>2. /\ book \in Books /\ BookInv(book) /\ subscriber = Entries(book)
      /\ \A e \in subscriber : e.market_order_id_ \in 1 .. MaxMarketOrderId
  BY <1>1, Facts
<1>3. CASE o = Wild
  <2>1. book' = Ended(book, "segv")
    BY <1>1, <1>3 DEF CanceledFrom
  <2>2. book' \in Books /\ ~ Running(book')
    BY <1>2, <2>1, StatusReplaced DEF Statuses
  <2> QED
    BY <1>1, <1>2, <2>2, Kept
<1>4. CASE o # Wild
  <2>1. o \notin NoObject /\ book' = OrderRemoved(book, o)
    BY <1>1, <1>4, Blocks DEF CanceledFrom
  <2>2. o \in LiveOrders(book)
    BY <1>1, <1>2, <2>1 DEF BookInv, HandlesInv
  <2> HIDE DEF o
  <2>3. o \in OrderPool!Blocks /\ book.order[o] # Null
    BY <1>2, <2>2, NullAssumption DEF BookInv, LinksInv, LiveOrders
  <2>4. book' \in Books /\ (Running(book') => Removed(book, book', o))
    BY <1>1, <1>2, <2>1, <2>3, OrderRemovedEffect
  <2>5. Running(book') => BookInv(book') /\ subscriber' = Entries(book')
    BY <1>1, <1>2, <2>4, RemovedEntries
  <2>6. \A e \in subscriber' : e.market_order_id_ \in 1 .. MaxMarketOrderId
    BY <1>1, <1>2, WithoutKept
  <2> QED
    BY <1>1, <2>4, <2>5, <2>6, Kept
<1> QED
  BY <1>3, <1>4

LEMMA CancelStep ==
  ASSUME IInv, NEW c, NEW id, Cancel(c, id)
  PROVE  IInv'
<1>1. CASE CancelRejected(c, id)
  BY <1>1 DEF CancelRejected, IInv, TypeOK, SubscriberHasTheBook
<1>2. CASE CancelThrows(c, id)
  <2>1. /\ Running(book) /\ book' = Ended(book, "terminate") /\ taker' = taker
        /\ subscriber' = subscriber
    BY <1>2 DEF CancelThrows, Ready
  <2>2. /\ book \in Books
        /\ taker = Null \/ taker \in [side : Sides, price : Prices, leaves_qty : Nat, turns : Nat]
        /\ \A e \in subscriber : e.market_order_id_ \in 1 .. MaxMarketOrderId
    BY <2>1, Facts
  <2>3. book' \in Books /\ ~ Running(book')
    BY <2>1, <2>2, StatusReplaced DEF Statuses
  <2> QED
    BY <2>1, <2>2, <2>3, Kept
<1>3. CASE Canceled(c, id)
  BY <1>3, CanceledStep
<1> QED
  BY <1>1, <1>2, <1>3 DEF Cancel

LEMMA MatchStep ==
  ASSUME IInv, Match
  PROVE  IInv'
<1> DEFINE o == Passive
           order == book.order[o]
           fill_qty == FillQuantity(taker.leaves_qty, order.quantity_)
           filled == Filled(book, o, fill_qty)
           done == order.quantity_ = fill_qty
<1>1. /\ Running(book) /\ taker # Null
      /\ book[AddHead(taker.side)] # Null
      /\ taker' = [taker EXCEPT !.leaves_qty = @ - fill_qty, !.turns = @ + 1]
      /\ book' = IF done THEN OrderRemoved(filled, o) ELSE filled
      /\ subscriber' = IF done THEN Without(subscriber, order)
                       ELSE Modified(subscriber, filled.order[o])
  BY DEF Match, Crosses, Filled
<1>2. /\ book \in Books /\ BookInv(book) /\ subscriber = Entries(book)
      /\ taker \in [side : Sides, price : Prices, leaves_qty : Nat, turns : Nat]
      /\ \A e \in subscriber : e.market_order_id_ \in 1 .. MaxMarketOrderId
  BY <1>1, Facts
<1>3. o \in OrderPool!Blocks /\ book.order[o] # Null
  <2>1. AddHead(taker.side) \in {"bids_by_price_", "asks_by_price_"}
    BY DEF AddHead
  <2> QED
    BY <1>1, <1>2, <2>1, PassiveIsMade DEF Passive
<1> HIDE DEF o
<1>4. order \in Orders
  BY <1>2, <1>3 DEF Books
<1>5. order.quantity_ \in Nat /\ order.market_order_id_ \in 1 .. MaxMarketOrderId
  BY <1>4 DEF Orders
<1>6. /\ fill_qty \in Nat /\ fill_qty <= order.quantity_ /\ fill_qty <= taker.leaves_qty
      /\ taker.leaves_qty \in Nat
  BY <1>2, <1>5 DEF FillQuantity
<1> HIDE DEF fill_qty
<1>7. /\ filled \in Books /\ BookInv(filled) /\ filled.status = book.status
      /\ LiveOrders(filled) = LiveOrders(book)
      /\ filled.order[o] # Null /\ SameButQuantity(order, filled.order[o])
      /\ \A p \in OrderPool!Blocks : p # o => filled.order[p] = book.order[p]
  BY <1>2, <1>3, <1>6, FilledEffect
<1> HIDE DEF filled
<1>8. taker' \in [side : Sides, price : Prices, leaves_qty : Nat, turns : Nat]
  <2>1. taker.leaves_qty - fill_qty \in Nat /\ taker.turns + 1 \in Nat
    BY <1>2, <1>6
  <2> HIDE DEF fill_qty
  <2> QED
    BY <1>1, <1>2, <2>1
<1>9. /\ MarketIdsUnique(book) /\ \A p \in LiveOrders(book) : book.order[p] # Null
      /\ LiveOrders(book) \subseteq OrderPool!Blocks
  BY <1>2, NullAssumption DEF BookInv, BlocksInv, MarketIdsUnique, LinksInv, LiveOrders
<1>10. CASE done
  <2>1. book' = OrderRemoved(filled, o) /\ subscriber' = Without(subscriber, order)
    BY <1>1, <1>10
  <2>2. Running(filled)
    BY <1>1, <1>7 DEF Running
  <2>3. book' \in Books /\ (Running(book') => Removed(filled, book', o))
    BY <1>3, <1>7, <2>1, <2>2, OrderRemovedEffect
  <2>4. ASSUME Running(book')
        PROVE  BookInv(book') /\ Entries(book') = Without(Entries(book), order)
    <3>1. /\ BookInv(book') /\ LiveOrders(book') = LiveOrders(book) \ {o}
          /\ \A p \in LiveOrders(book) : SameButLinks(filled.order[p], book'.order[p])
      BY <1>7, <2>3, <2>4 DEF Removed
    <3>2. \A p \in LiveOrders(book) \ {o} : Entry(book'.order[p]) = Entry(book.order[p])
      BY <1>7, <1>9, <3>1, EntryKept
    <3> QED
      BY <1>3, <1>9, <3>1, <3>2, EntriesRemoved
  <2>5. \A e \in subscriber' : e.market_order_id_ \in 1 .. MaxMarketOrderId
    BY <1>2, <2>1, WithoutKept
  <2> QED
    BY <1>2, <1>8, <2>1, <2>3, <2>4, <2>5, Kept
<1>11. CASE ~ done
  <2>1. book' = filled /\ subscriber' = Modified(subscriber, filled.order[o])
    BY <1>1, <1>11
  <2>2. filled.order[o].market_order_id_ = order.market_order_id_
    BY <1>7 DEF SameButQuantity
  <2>3. Entries(filled) = Modified(Entries(book), filled.order[o])
    BY <1>3, <1>7, <1>9, <2>2, EntriesModified
  <2>4. \A e \in subscriber' : e.market_order_id_ \in 1 .. MaxMarketOrderId
    <3>1. Entry(filled.order[o]).market_order_id_ \in 1 .. MaxMarketOrderId
      BY <1>5, <2>2 DEF Entry
    <3> QED
      BY <1>2, <2>1, <3>1 DEF Modified
  <2> QED
    BY <1>2, <1>7, <1>8, <2>1, <2>3, <2>4, Kept
<1> QED
  BY <1>10, <1>11

LEMMA NextPreserves == IInv /\ [Next]_vars => IInv'
<1> SUFFICES ASSUME IInv, [Next]_vars PROVE IInv'
  OBVIOUS
<1>1. ASSUME NEW c \in Clients, NEW id \in RequestIds, NEW side \in Sides,
             NEW price \in Prices, NEW left \in Quantities \cup {0},
             Add(c, id, side, price, left)
      PROVE  IInv'
  BY <1>1, AddStep
<1>2. ASSUME NEW side \in Sides, NEW price \in Prices, NEW qty \in Quantities,
             CheckForMatch(side, price, qty)
      PROVE  IInv'
  <2>1. taker' \in [side : Sides, price : Prices, leaves_qty : Nat, turns : Nat]
    BY <1>2, MEOrderBookAssumption DEF CheckForMatch
  <2> QED
    BY <1>2, <2>1, Facts, Kept DEF CheckForMatch, Ready
<1>3. ASSUME NEW c \in Clients \cup {ME_MAX_NUM_CLIENTS},
             NEW id \in RequestIds \cup {ME_MAX_ORDER_IDS}, Cancel(c, id)
      PROVE  IInv'
  BY <1>3, CancelStep
<1>4. CASE Match
  BY <1>4, MatchStep
<1>5. CASE CheckForMatchReturns
  BY <1>5, Facts, Kept DEF CheckForMatchReturns
<1>6. CASE Stopped \/ UNCHANGED vars
  <2>1. book' = book /\ taker' = taker /\ subscriber' = subscriber
    BY <1>6 DEF Stopped, vars
  <2> QED
    BY <2>1 DEF IInv, TypeOK, SubscriberHasTheBook
<1> QED
  BY <1>1, <1>2, <1>3, <1>4, <1>5, <1>6 DEF Next, MatchLoop

-----------------------------------------------------------------------------
(* The rings.  The recursive definition in Ring has a solution, and a walk *)
(* of as many hops as there are blocks has been everywhere it will go.     *)
Hops == 0 .. ME_MAX_ORDER_IDS - 1

Hop(order, first, hop, k) ==
  IF k = 0 THEN first
  ELSE IF hop[k - 1] = Null THEN Null
  ELSE order[hop[k - 1]].next_order_

Walks(order, live, first, n) ==
  {f \in [0 .. n -> live] : \A k \in 0 .. n : f[k] = Hop(order, first, f, k)}

LEMMA WalkExists ==
  ASSUME NEW order, NEW live, NEW first \in live, Null \notin live,
         \A p \in live : order[p].next_order_ \in live,
         NEW n \in Nat
  PROVE  Walks(order, live, first, n) # {}
<1> DEFINE Walk(m, f) == \A k \in 0 .. m : f[k] = Hop(order, first, f, k)
           Bad == {m \in Nat : ~ \E f \in [0 .. m -> live] : Walk(m, f)}
<1>1. SUFFICES Bad = {}
  BY DEF Walks
<1>2. SUFFICES ASSUME Bad # {} PROVE FALSE
  OBVIOUS
<1>3. PICK m \in Bad : \A d \in Bad : m <= d
  <2>1. Bad \in SUBSET Nat
    OBVIOUS
  <2> HIDE DEF Bad
  <2> QED
    BY <1>2, <2>1, OrderPoolFacts!LeastNatural, MEOrderBookAssumption
<1>4. m \in Nat /\ ~ \E f \in [0 .. m -> live] : Walk(m, f)
  BY <1>3
<1>5. CASE m = 0
  <2> DEFINE f == [k \in 0 .. m |-> first]
  <2>1. f \in [0 .. m -> live] /\ f[0] = first
    BY <1>5
  <2>2. Walk(m, f)
    BY <1>5, <2>1 DEF Hop
  <2> HIDE DEF f, Walk
  <2> QED
    BY <1>4, <2>1, <2>2
<1>6. CASE m # 0
  <2>1. m - 1 \in Nat /\ ~ (m <= m - 1)
    BY <1>4, <1>6
  <2>2. m - 1 \notin Bad
    <3> HIDE DEF Bad
    <3> QED
      BY <1>3, <2>1
  <2>3. PICK f \in [0 .. m - 1 -> live] : Walk(m - 1, f)
    <3> HIDE DEF Walk
    <3> QED
      BY <2>1, <2>2
  <2> DEFINE last == order[f[m - 1]].next_order_
             g == [k \in 0 .. m |-> IF k = m THEN last ELSE f[k]]
  <2>4. f[m - 1] \in live /\ last \in live
    BY <2>1, <2>3
  <2> HIDE DEF last
  <2>5. g \in [0 .. m -> live]
    <3> SUFFICES ASSUME NEW k \in 0 .. m, k # m PROVE f[k] \in live
      BY <2>4
    <3>1. k \in 0 .. m - 1
      BY <1>4
    <3> QED
      BY <2>3, <3>1
  <2>6. g[m] = last /\ \A k \in 0 .. m - 1 : g[k] = f[k]
    BY <1>4, <2>1
  <2> HIDE DEF g
  <2>7. ASSUME NEW k \in 0 .. m
        PROVE  g[k] = Hop(order, first, g, k)
    <3>1. CASE k = m
      <4>1. g[k - 1] = f[m - 1] /\ f[m - 1] # Null
        BY <2>1, <2>4, <2>6, <3>1
      <4> QED
        BY <1>6, <2>6, <3>1, <4>1 DEF Hop, last
    <3>2. CASE k # m
      <4>1. k \in 0 .. m - 1 /\ (k # 0 => k - 1 \in 0 .. m - 1)
        BY <1>4, <3>2
      <4>2. f[k] = Hop(order, first, f, k)
        BY <2>3, <4>1
      <4> QED
        BY <2>6, <4>1, <4>2 DEF Hop
    <3> QED
      BY <3>1, <3>2
  <2>8. Walk(m, g)
    BY <2>7
  <2> HIDE DEF Walk
  <2> QED
    BY <1>4, <2>5, <2>8
<1> QED
  BY <1>5, <1>6

LEMMA RingWalk ==
  ASSUME NEW b, NEW live, NEW l, b.level[l].first_me_order_ \in live, Null \notin live,
         \A p \in live : b.order[p].next_order_ \in live
  PROVE  \E hop \in [Hops -> live] :
           /\ Ring(b, l) = {hop[k] : k \in Hops}
           /\ hop[0] = b.level[l].first_me_order_
           /\ \A k \in Hops : k # 0 => hop[k] = b.order[hop[k - 1]].next_order_
<1> DEFINE first == b.level[l].first_me_order_
           val(h) == [k \in 0 .. ME_MAX_ORDER_IDS - 1 |->
                        IF k = 0 THEN b.level[l].first_me_order_
                        ELSE IF h[k - 1] = Null THEN Null
                        ELSE b.order[h[k - 1]].next_order_]
           hop == CHOOSE h : h = val(h)
<1>1. 0 \in Hops /\ Hops \subseteq Nat /\ ME_MAX_ORDER_IDS - 1 \in Nat
  BY MEOrderBookAssumption DEF Hops
<1>2. \E h : h = val(h)
  <2>1. PICK f \in [Hops -> live] : \A k \in Hops : f[k] = Hop(b.order, first, f, k)
    <3> DEFINE n == ME_MAX_ORDER_IDS - 1
    <3>1. n \in Nat /\ first \in live /\ Hops = 0 .. n
      BY <1>1 DEF Hops
    <3> HIDE DEF n, first
    <3>2. Walks(b.order, live, first, n) # {}
      BY <3>1, WalkExists
    <3> QED
      BY <3>1, <3>2 DEF Walks
  <2>2. f = [k \in Hops |-> f[k]]
    BY <2>1
  <2>3. f = [k \in Hops |-> Hop(b.order, first, f, k)]
    BY <2>1, <2>2
  <2>4. f = val(f)
    BY <2>3 DEF Hop, Hops
  <2> HIDE DEF val
  <2> QED
    BY <2>4
<1>3. hop = val(hop)
  <2> HIDE DEF val
  <2> QED
    BY <1>2
<1>4. Ring(b, l) = {hop[k] : k \in Hops}
  BY DEF Ring, Hops
<1>5. \A k \in Hops : hop[k] = Hop(b.order, first, hop, k)
  <2> HIDE DEF hop
  <2> QED
    BY <1>3 DEF Hop, Hops
<1>6. hop = [k \in Hops |-> hop[k]]
  <2> HIDE DEF hop
  <2> QED
    BY <1>3 DEF Hops
<1> HIDE DEF hop, val
<1> DEFINE Bad == {k \in Hops : hop[k] \notin live}
<1>7. Bad = {}
  <2> SUFFICES ASSUME Bad # {} PROVE FALSE
    OBVIOUS
  <2>1. Bad \in SUBSET Nat
    BY <1>1
  <2>2. PICK k \in Bad : \A d \in Bad : k <= d
    <3> HIDE DEF Bad
    <3> QED
      BY <2>1, OrderPoolFacts!LeastNatural, MEOrderBookAssumption
  <2>3. k \in Hops /\ hop[k] \notin live /\ hop[k] = Hop(b.order, first, hop, k)
    BY <1>5, <2>2
  <2>4. k # 0
    BY <2>3 DEF Hop
  <2>5. k - 1 \in Hops /\ ~ (k <= k - 1)
    BY <1>1, <2>3, <2>4 DEF Hops
  <2>6. hop[k - 1] \in live
    BY <2>2, <2>5
  <2> QED
    BY <2>3, <2>4, <2>6 DEF Hop
<1>8. hop \in [Hops -> live]
  BY <1>6, <1>7
<1>9. hop[0] = b.level[l].first_me_order_
  BY <1>1, <1>5 DEF Hop
<1>10. \A k \in Hops : k # 0 => hop[k] = b.order[hop[k - 1]].next_order_
  <2> TAKE k \in Hops
  <2> HAVE k # 0
  <2>1. k - 1 \in Hops
    BY <1>1 DEF Hops
  <2>2. hop[k - 1] # Null
    BY <1>8, <2>1
  <2> QED
    BY <1>5, <2>2 DEF Hop
<1> QED
  BY <1>4, <1>8, <1>9, <1>10

(* A walk that stays among the blocks and follows links that can be gone   *)
(* back has passed every order that one of its own leads to: otherwise all *)
(* its hops would be different, and more than there are blocks left.       *)
LEMMA WalkIsClosed ==
  ASSUME NEW order, NEW live \in SUBSET OrderPool!Blocks,
         \A p \in live : order[p].next_order_ \in live,
         NEW hop \in [Hops -> live],
         \A k \in Hops : k # 0 => hop[k] = order[hop[k - 1]].next_order_,
         NEW k \in Hops
  PROVE  \E m \in Hops : hop[m] = order[hop[k]].next_order_
<1> DEFINE N == ME_MAX_ORDER_IDS
           q == order[hop[k]].next_order_
<1>1. N \in Nat /\ N # 0 /\ Hops = 0 .. N - 1 /\ OrderPool!Blocks = 0 .. N - 1
  BY MEOrderBookAssumption DEF Hops, OrderPool!Blocks
<1>2. SUFFICES ASSUME \A m \in Hops : hop[m] # q PROVE FALSE
  OBVIOUS
<1> HIDE DEF N
<1>3. k = N - 1
  <2> SUFFICES ASSUME k # N - 1 PROVE FALSE
    OBVIOUS
  <2>1. k + 1 \in Hops /\ (k + 1) - 1 = k /\ k + 1 # 0
    BY <1>1
  <2>2. hop[k + 1] = order[hop[k]].next_order_
    BY <2>1
  <2> QED
    BY <1>2, <2>1, <2>2
<1>4. \E i, j \in Hops : i < j /\ hop[i] = hop[j]
  <2>1. q \in OrderPool!Blocks
    OBVIOUS
  <2>2. \E i, j \in Hops : i < j /\ hop[i] = hop[j]
    <3> DEFINE Rest == OrderPool!Blocks \ {q}
    <3>1. IsFiniteSet(Hops) /\ Cardinality(Hops) = N
      <4>1. IsFiniteSet(0 .. N - 1) /\ Cardinality(0 .. N - 1) = IF 0 > N - 1 THEN 0 ELSE (N - 1) - 0 + 1
        BY <1>1, FS_Interval
      <4> QED
        BY <1>1, <4>1
    <3>2. IsFiniteSet(Rest) /\ Cardinality(Rest) = N - 1
      <4>1. IsFiniteSet(OrderPool!Blocks) /\ Cardinality(OrderPool!Blocks) = N
        BY <1>1, <3>1
      <4>2. /\ IsFiniteSet(OrderPool!Blocks \ {q})
            /\ Cardinality(OrderPool!Blocks \ {q}) = Cardinality(OrderPool!Blocks) - 1
        <5> HIDE DEF q
        <5> QED
          BY <2>1, <4>1, FS_RemoveElement
      <4> QED
        BY <4>1, <4>2
    <3>3. hop \in [Hops -> Rest]
      BY <1>2
    <3>4. Cardinality(Rest) < Cardinality(Hops)
      BY <1>1, <3>1, <3>2
    <3> HIDE DEF Rest
    <3>5. \E i, j \in Hops : i # j /\ hop[i] = hop[j]
      BY <3>1, <3>2, <3>3, <3>4, FS_PigeonHole
    <3> QED
      BY <1>1, <3>5
  <2> QED
    BY <2>2
<1>5. PICK i \in Hops, j \in Hops : i < j /\ hop[i] = hop[j]
  BY <1>4
<1> DEFINE Bad == {m \in Nat : j + m <= N - 1 /\ hop[i + m] # hop[j + m]}
<1>6. Bad = {}
  <2> SUFFICES ASSUME Bad # {} PROVE FALSE
    OBVIOUS
  <2>1. Bad \in SUBSET Nat
    OBVIOUS
  <2>2. PICK m \in Bad : \A d \in Bad : m <= d
    <3> HIDE DEF Bad
    <3> QED
      BY <2>1, OrderPoolFacts!LeastNatural, MEOrderBookAssumption
  <2>3. m \in Nat /\ j + m <= N - 1 /\ hop[i + m] # hop[j + m]
    BY <2>2
  <2>4. i \in Nat /\ j \in Nat
    BY <1>1
  <2>5. m # 0
    BY <1>5, <2>3, <2>4
  <2>6. m - 1 \in Nat /\ j + (m - 1) <= N - 1 /\ ~ (m <= m - 1)
    BY <1>1, <2>3, <2>4, <2>5
  <2>7. hop[i + (m - 1)] = hop[j + (m - 1)]
    BY <2>2, <2>6
  <2>8. /\ i + m \in Hops /\ j + m \in Hops /\ i + m # 0 /\ j + m # 0
        /\ (i + m) - 1 = i + (m - 1) /\ (j + m) - 1 = j + (m - 1)
    BY <1>1, <1>5, <2>3, <2>4, <2>5
  <2>9. hop[i + m] = order[hop[i + (m - 1)]].next_order_
    BY <2>8
  <2>10. hop[j + m] = order[hop[j + (m - 1)]].next_order_
    BY <2>8
  <2> QED
    BY <2>3, <2>7, <2>9, <2>10
<1> DEFINE back == i + (N - 1 - j)
<1>7. /\ back \in Hops /\ back + 1 \in Hops /\ (back + 1) - 1 = back /\ back + 1 # 0
      /\ N - 1 - j \in Nat /\ j + (N - 1 - j) = N - 1
  BY <1>1, <1>5
<1>8. hop[back] = hop[N - 1]
  <2> DEFINE m == N - 1 - j
  <2>1. m \in Nat /\ j + m <= N - 1
    BY <1>1, <1>7
  <2> HIDE DEF m
  <2>2. hop[i + m] = hop[j + m]
    BY <1>6, <2>1
  <2> QED
    BY <1>7, <2>2 DEF m
<1> HIDE DEF back
<1>9. hop[back + 1] = order[hop[back]].next_order_
  BY <1>7
<1> QED
  BY <1>2, <1>3, <1>7, <1>8, <1>9

(* Every order in use is in the ring of the level of its price, and every  *)
(* ring has only orders in use.                                            *)
LEMMA RingsOfLive ==
  ASSUME NEW b \in Books, BookInv(b), NEW i \in Slots, NEW l,
         l = b.price_orders_at_price_[i], l \notin NoObject
  PROVE  /\ Ring(b, l) \subseteq LiveOrders(b)
         /\ \A o \in LiveOrders(b) : IndexOf(b.order[o]) = i => o \in Ring(b, l)
<1> DEFINE live == LiveOrders(b)
           first == b.level[l].first_me_order_
           mid(p) == b.order[p].market_order_id_
<1>1. LinksInv(b.order, live, Firsts(b)) /\ live \in SUBSET OrderPool!Blocks /\ Null \notin live
  BY Blocks DEF BookInv, LiveOrders
<1>2. first \in live /\ IndexOf(b.order[first]) = i /\ Firsts(b)[i] = first
  <2>1. l \in Made(b)
    BY DEF BookInv, MapInv, MappedLevels
  <2>2. first \in OrderPool!Blocks
    BY <2>1 DEF Made, Books, Levels
  <2>3. Firsts(b)[i] = first /\ first # Null
    BY <2>2, Blocks DEF Firsts, FirstAt
  <2> QED
    BY <1>1, <2>3 DEF LinksInv
<1>3. \A p \in live : b.order[p].next_order_ \in live
  BY <1>1 DEF LinksInv
<1> HIDE DEF live
<1>4. PICK hop \in [Hops -> live] :
        /\ Ring(b, l) = {hop[k] : k \in Hops}
        /\ hop[0] = first
        /\ \A k \in Hops : k # 0 => hop[k] = b.order[hop[k - 1]].next_order_
  BY <1>1, <1>2, <1>3, RingWalk
<1>5. 0 \in Hops
  BY MEOrderBookAssumption DEF Hops
<1>6. \A p \in Ring(b, l) : b.order[p].next_order_ \in Ring(b, l)
  <2> TAKE p \in Ring(b, l)
  <2>1. PICK k \in Hops : p = hop[k]
    BY <1>4
  <2>2. \E m \in Hops : hop[m] = b.order[hop[k]].next_order_
    <3> DEFINE order == b.order
    <3>1. /\ \A q \in live : order[q].next_order_ \in live
          /\ \A m \in Hops : m # 0 => hop[m] = order[hop[m - 1]].next_order_
      BY <1>3, <1>4
    <3>2. live \in SUBSET OrderPool!Blocks
      BY <1>1
    <3> HIDE DEF order
    <3>3. \E m \in Hops : hop[m] = order[hop[k]].next_order_
      BY <3>1, <3>2, WalkIsClosed
    <3> QED
      BY <3>3 DEF order
  <2> QED
    BY <1>4, <2>1, <2>2
<1> DEFINE Outside == {o \in live : IndexOf(b.order[o]) = i /\ o \notin Ring(b, l)}
           ages == {mid(o) : o \in Outside}
<1>7. Outside = {}
  <2> SUFFICES ASSUME Outside # {} PROVE FALSE
    OBVIOUS
  <2>1. \A o \in live : mid(o) \in Nat
    BY <1>1, OrderTypes DEF LinksInv
  <2>2. ages \in SUBSET Nat /\ ages # {}
    BY <2>1
  <2>3. PICK age \in ages : \A a \in ages : age <= a
    <3> HIDE DEF ages
    <3> QED
      BY <2>2, OrderPoolFacts!LeastNatural, MEOrderBookAssumption
  <2>4. PICK o \in Outside : age = mid(o)
    BY <2>3
  <2> DEFINE p == b.order[o].prev_order_
  <2>5. p \in live /\ b.order[p].next_order_ = o /\ IndexOf(b.order[p]) = i
    BY <1>1, <2>4 DEF LinksInv
  <2>6. o # first
    BY <1>4, <1>5, <2>4
  <2> HIDE DEF p
  <2>7. mid(p) < mid(o)
    BY <1>1, <1>2, <2>5, <2>6 DEF LinksInv
  <2>8. p \notin Outside
    <3> SUFFICES ASSUME p \in Outside PROVE FALSE
      OBVIOUS
    <3>1. mid(p) \in ages
      OBVIOUS
    <3>2. mid(o) \in Nat /\ mid(p) \in Nat
      BY <2>1, <2>4, <2>5
    <3> HIDE DEF ages, mid
    <3>3. mid(o) <= mid(p)
      BY <2>3, <2>4, <3>1
    <3> QED
      BY <2>7, <3>2, <3>3
  <2>9. p \in Ring(b, l)
    BY <2>5, <2>8
  <2>10. o \in Ring(b, l)
    BY <1>6, <2>5, <2>9
  <2> QED
    BY <2>4, <2>10
<1>8. Ring(b, l) \subseteq live
  BY <1>4
<1> QED
  BY <1>7, <1>8 DEF live

(* Nothing rests with nothing left to fill: an order of no quantity is not *)
(* added, and one that a fill leaves with nothing is taken out.            *)
OpenInv == \A e \in subscriber : e.quantity_ > 0

LEMMA OpenPreserves == IInv /\ OpenInv /\ [Next]_vars => OpenInv'
<1> SUFFICES ASSUME IInv, OpenInv, [Next]_vars PROVE OpenInv'
  OBVIOUS
<1>1. ASSUME NEW c \in Clients, NEW id \in RequestIds, NEW side \in Sides,
             NEW price \in Prices, NEW left \in Quantities \cup {0},
             Add(c, id, side, price, left)
      PROVE  OpenInv'
  <2> DEFINE order(priority) ==
               [client_id_ |-> c, client_order_id_ |-> id,
                market_order_id_ |-> book.next_market_order_id_,
                side_ |-> side, price_ |-> price, quantity_ |-> left, priority_ |-> priority,
                prev_order_ |-> Null, next_order_ |-> Null]
  <2>1. \/ subscriber' = subscriber
        \/ left # 0 /\ \E priority : subscriber' = subscriber \cup {Entry(order(priority))}
    <3> HIDE DEF order
    <3> QED
      BY <1>1 DEF Add, order
  <2>3. \A priority : Entry(order(priority)).quantity_ = left
    BY DEF Entry
  <2> HIDE DEF order
  <2>2. left # 0 => left > 0
    BY MEOrderBookAssumption
  <2> QED
    BY <2>1, <2>2, <2>3 DEF OpenInv
<1>2. ASSUME NEW side \in Sides, NEW price \in Prices, NEW qty \in Quantities,
             CheckForMatch(side, price, qty)
      PROVE  OpenInv'
  BY <1>2 DEF CheckForMatch, OpenInv
<1>3. ASSUME NEW c, NEW id, Cancel(c, id)
      PROVE  OpenInv'
  BY <1>3 DEF Cancel, CancelRejected, CancelThrows, Canceled, Without, OpenInv
<1>4. CASE Match
  <2> DEFINE o == Passive
             order == book.order[o]
             fill_qty == FillQuantity(taker.leaves_qty, order.quantity_)
             filled == Filled(book, o, fill_qty)
             done == order.quantity_ = fill_qty
  <2>1. /\ Running(book) /\ taker # Null
        /\ book[AddHead(taker.side)] # Null
        /\ subscriber' = IF done THEN Without(subscriber, order)
                         ELSE Modified(subscriber, filled.order[o])
    BY <1>4 DEF Match, Crosses, Filled
  <2>2. /\ book \in Books /\ BookInv(book)
        /\ taker \in [side : Sides, price : Prices, leaves_qty : Nat, turns : Nat]
    BY <2>1, Facts
  <2>3. o \in OrderPool!Blocks /\ book.order[o] # Null
    <3>1. AddHead(taker.side) \in {"bids_by_price_", "asks_by_price_"}
      BY DEF AddHead
    <3> QED
      BY <2>1, <2>2, <3>1, PassiveIsMade DEF Passive
  <2> HIDE DEF o
  <2>4. order \in Orders /\ order.quantity_ \in Nat /\ taker.leaves_qty \in Nat
    BY <2>2, <2>3 DEF Books, Orders
  <2>5. fill_qty \in Nat /\ fill_qty <= order.quantity_
    BY <2>4 DEF FillQuantity
  <2> HIDE DEF fill_qty
  <2>6. filled.order[o].quantity_ = order.quantity_ - fill_qty
    BY <2>2, <2>3, <2>4 DEF Filled, Books, Orders
  <2> HIDE DEF filled
  <2>7. CASE done
    BY <2>1, <2>7 DEF Without, OpenInv
  <2>8. CASE ~ done
    <3>1. Entry(filled.order[o]).quantity_ > 0
      BY <2>4, <2>5, <2>6, <2>8 DEF Entry
    <3> QED
      BY <2>1, <2>8, <3>1 DEF Modified, OpenInv
  <2> QED
    BY <2>7, <2>8
<1>5. CASE CheckForMatchReturns \/ Stopped \/ UNCHANGED vars
  BY <1>5 DEF CheckForMatchReturns, Stopped, vars, OpenInv
<1> QED
  BY <1>1, <1>2, <1>3, <1>4, <1>5 DEF Next, MatchLoop

LEMMA OrdersInRings ==
  ASSUME IInv, OpenInv
  PROVE  EveryOrderInItsRing
<1> SUFFICES ASSUME Running(book) PROVE EveryOrderInItsRing
  BY DEF EveryOrderInItsRing
<1>1. /\ book \in Books /\ BookInv(book) /\ subscriber = Entries(book)
      /\ PointersInv(book) /\ LinksInv(book.order, LiveOrders(book), Firsts(book))
  BY Facts DEF BookInv
<1>2. ASSUME NEW o \in LiveOrders(book)
      PROVE  LET order == book.order[o]
                 l == OrdersAtPrice(book, order.price_)
             IN  /\ l \notin NoObject
                 /\ o \in Ring(book, l)
                 /\ order.next_order_ # Null
                 /\ book.order[order.next_order_].prev_order_ = o
                 /\ order.quantity_ > 0
  <2> DEFINE order == book.order[o]
             i == IndexOf(order)
             l == book.price_orders_at_price_[i]
  <2>1. /\ i \in Slots /\ l \notin NoObject /\ order.next_order_ \in LiveOrders(book)
        /\ Null \notin LiveOrders(book)
    BY <1>1, LiveOrder
  <2>2. OrdersAtPrice(book, order.price_) = l
    BY DEF OrdersAtPrice, IndexOf
  <2>3. book.order[order.next_order_].prev_order_ = o
    BY <1>1 DEF LinksInv
  <2>4. order.quantity_ > 0
    <3>1. Entry(order) \in subscriber /\ Entry(order).quantity_ = order.quantity_
      BY <1>1 DEF Entries, Entry
    <3> QED
      BY <3>1 DEF OpenInv
  <2>5. o \in Ring(book, l)
    <3> HIDE DEF l, i
    <3> QED
      BY <1>1, <2>1, RingsOfLive DEF l, i
  <2> QED
    BY <2>1, <2>2, <2>3, <2>4, <2>5
<1>3. ASSUME NEW l \in MappedLevels(book)
      PROVE  Ring(book, l) \subseteq LiveOrders(book)
  <2>1. PICK i \in Slots : l = book.price_orders_at_price_[i] /\ l \notin NoObject
    BY DEF MappedLevels
  <2> QED
    BY <1>1, <2>1, RingsOfLive
<1> QED
  BY <1>2, <1>3 DEF EveryOrderInItsRing

(* A turn of checkForMatch's loop fills something, or ends the process: an  *)
(* order with nothing left is no order in use, and is freed again.         *)
TurnFills ==
  taker # Null /\ taker' # Null =>
    taker'.leaves_qty < taker.leaves_qty \/ ~ Running(book')

LEMMA MatchFills ==
  ASSUME IInv, OpenInv, Match, Running(book')
  PROVE  taker'.leaves_qty < taker.leaves_qty
<1> DEFINE o == Passive
           order == book.order[o]
           fill_qty == FillQuantity(taker.leaves_qty, order.quantity_)
           filled == Filled(book, o, fill_qty)
           done == order.quantity_ = fill_qty
<1>1. /\ Running(book) /\ taker # Null /\ taker.leaves_qty # 0
      /\ book[AddHead(taker.side)] # Null
      /\ taker' = [taker EXCEPT !.leaves_qty = @ - fill_qty, !.turns = @ + 1]
      /\ book' = IF done THEN OrderRemoved(filled, o) ELSE filled
  BY DEF Match, Crosses, Filled
<1>2. /\ book \in Books /\ BookInv(book) /\ subscriber = Entries(book)
      /\ taker \in [side : Sides, price : Prices, leaves_qty : Nat, turns : Nat]
  BY <1>1, Facts
<1>3. o \in OrderPool!Blocks /\ book.order[o] # Null
  <2>1. AddHead(taker.side) \in {"bids_by_price_", "asks_by_price_"}
    BY DEF AddHead
  <2> QED
    BY <1>1, <1>2, <2>1, PassiveIsMade DEF Passive
<1> HIDE DEF o
<1>4. order.quantity_ \in Nat /\ taker.leaves_qty \in Nat
  BY <1>2, <1>3 DEF Books, Orders
<1>5. /\ fill_qty \in Nat /\ fill_qty <= order.quantity_ /\ fill_qty <= taker.leaves_qty
      /\ fill_qty = order.quantity_ \/ fill_qty = taker.leaves_qty
  BY <1>4 DEF FillQuantity
<1> HIDE DEF fill_qty
<1>6. /\ filled \in Books /\ BookInv(filled) /\ filled.status = book.status
      /\ LiveOrders(filled) = LiveOrders(book) /\ filled.order[o] # Null
  BY <1>2, <1>3, <1>5, FilledEffect
<1> HIDE DEF filled
<1>7. order.quantity_ # 0
  <2> SUFFICES ASSUME order.quantity_ = 0 PROVE FALSE
    OBVIOUS
  <2>1. done
    BY <1>4, <1>5
  <2>2. book' = OrderRemoved(filled, o) /\ Running(filled)
    BY <1>1, <1>6, <2>1 DEF Running
  <2>3. Removed(filled, book', o)
    BY <1>3, <1>6, <2>2, OrderRemovedEffect
  <2>4. o \in LiveOrders(book)
    BY <1>6, <2>3 DEF Removed
  <2>5. Entry(order) \in subscriber /\ Entry(order).quantity_ = order.quantity_
    BY <1>2, <2>4 DEF Entries, Entry
  <2> QED
    BY <2>5 DEF OpenInv
<1>8. fill_qty > 0
  BY <1>1, <1>4, <1>5, <1>7
<1>9. taker'.leaves_qty = taker.leaves_qty - fill_qty
  BY <1>1, <1>2
<1> QED
  BY <1>4, <1>5, <1>8, <1>9

LEMMA StepFills ==
  ASSUME IInv, OpenInv, [Next]_vars
  PROVE  [TurnFills]_vars
<1>1. CASE Match
  BY <1>1, MatchFills DEF TurnFills
<1>2. CASE CheckForMatchReturns
  BY <1>2 DEF CheckForMatchReturns, TurnFills
<1>3. CASE Stopped \/ UNCHANGED vars
  BY <1>3 DEF Stopped
<1>4. ASSUME NEW c, NEW id, NEW side, NEW price, NEW left, Add(c, id, side, price, left)
      PROVE  taker' = taker /\ Ready
  BY <1>4 DEF Add
<1>5. ASSUME NEW c, NEW id, Cancel(c, id)
      PROVE  taker' = taker /\ Ready
  BY <1>5 DEF Cancel, CancelRejected, CancelThrows, Canceled
<1>6. ASSUME NEW side, NEW price, NEW qty, CheckForMatch(side, price, qty)
      PROVE  Ready
  BY <1>6 DEF CheckForMatch
<1>7. Ready => TurnFills
  BY DEF Ready, TurnFills
<1> QED
  BY <1>1, <1>2, <1>3, <1>4, <1>5, <1>6, <1>7 DEF Next, MatchLoop

-----------------------------------------------------------------------------
(* The theorems.                                                           *)

LEMMA Invariant == Spec => []IInv
BY InitEstablishes, NextPreserves, PTL DEF Spec

(* Whatever is added, matched and canceled, every field of the book stays  *)
(* in its type, and no fill takes a quantity below zero: me_order_book.cpp *)
(* has no check of either.                                                 *)
THEOREM TypeCorrect == Spec => []TypeOK
<1>1. IInv => TypeOK
  BY DEF IInv
<1> QED
  BY <1>1, Invariant, PTL

(* addOrderAtPrice and removeOrdersAtPrice keep the pool of levels and the *)
(* table of prices in step, from whatever pointers to no object the table  *)
(* held before the constructor ran (me_order_book.h:18): no level leaks,   *)
(* and none is freed that a price still leads to.                          *)
THEOREM LevelsStayMapped == Spec => []LevelsAreMapped
<1>1. IInv => LevelsAreMapped
  BY DEF IInv, BookInv, MapInv, LevelsAreMapped
<1> QED
  BY <1>1, Invariant, PTL

(* cid_oid_to_order_ never leads to an order that was filled or canceled,  *)
(* nor to another's: cancel cannot free a block twice, even when clients   *)
(* use their ids again.  Whatever the constructor found in the table       *)
(* (me_order_book.h:14) is replaced before it can lead to an order, or     *)
(* ends the process when it is followed.                                   *)
THEOREM HandlesStayLive == Spec => []HandlesAreLive
<1>1. IInv => HandlesAreLive
  BY DEF IInv, BookInv, HandlesInv, HandlesAreLive, LiveOrdersOf
<1> QED
  BY <1>1, Invariant, PTL

(* Within a level orders stand in the order they came, which is the order  *)
(* match takes them in (note.md:49).                                       *)
THEOREM FirstComeFirstFilled == Spec => []FirstInFirstOut
<1>1. ASSUME IInv PROVE FirstInFirstOut
  <2> SUFFICES ASSUME Running(book), NEW o \in LiveOrders(book)
               PROVE  LET next == book.order[o].next_order_
                          l == OrdersAtPrice(book, book.order[o].price_)
                      IN  \/ next = book.level[l].first_me_order_
                          \/ book.order[o].market_order_id_ < book.order[next].market_order_id_
    BY DEF FirstInFirstOut
  <2>1. /\ book \in Books /\ PointersInv(book)
        /\ LinksInv(book.order, LiveOrders(book), Firsts(book))
    BY <1>1 DEF IInv, TypeOK, BookInv
  <2> DEFINE i == IndexOf(book.order[o])
  <2>2. i \in Slots /\ FirstAt(book, i) = book.level[book.price_orders_at_price_[i]].first_me_order_
    BY <2>1, LiveOrder
  <2>3. \/ book.order[o].next_order_ = Firsts(book)[i]
        \/ book.order[o].market_order_id_ < book.order[book.order[o].next_order_].market_order_id_
    BY <2>1 DEF LinksInv
  <2> QED
    BY <2>2, <2>3 DEF Firsts, OrdersAtPrice, IndexOf
<1> QED
  BY <1>1, Invariant, PTL

(* Each path of add, cancel and match sends the update that says what it   *)
(* did: a subscriber that applies them all has the book.                   *)
THEOREM SubscriberKnows == Spec => []SubscriberHasTheBook
<1>1. IInv => SubscriberHasTheBook
  BY DEF IInv
<1> QED
  BY <1>1, Invariant, PTL

(* As long as no client uses the id of an order that rests, a cancel that  *)
(* is answered leaves no order with that id in the book.  A cancel of an   *)
(* id never added is answered only where the table held nullptr.           *)
THEOREM CancelsAreComplete == ~ ClientsReuseIds /\ Spec => []CancelLeavesNoOrder
<1>1. ASSUME IInv, ~ ClientsReuseIds PROVE CancelLeavesNoOrder
  <2> SUFFICES ASSUME Ready, NEW c \in Clients, NEW id \in RequestIds,
                      NEW answered,
                      answered = IF Rejected(c, id) THEN book
                                 ELSE CanceledFrom(book, book.cid_oid_to_order_[c][id]),
                      Running(answered), NEW p \in LiveOrdersOf(answered, c, id)
               PROVE  FALSE
    BY DEF CancelLeavesNoOrder
  <2>1. book \in Books /\ BookInv(book) /\ Running(book)
    BY <1>1, Facts DEF Ready
  <2>2. id \in OrderIds
    BY MEOrderBookAssumption
  <2>3. \A q \in LiveOrders(book) :
          book.order[q].client_id_ = c /\ book.order[q].client_order_id_ = id
            => book.cid_oid_to_order_[c][id] = q
    BY <1>1, <2>1 DEF BookInv, HandlesInv
  <2>4. CASE Rejected(c, id)
    <3>1. book.cid_oid_to_order_[c][id] = Null
      BY <2>2, <2>4 DEF Rejected
    <3>2. p \in LiveOrdersOf(book, c, id)
      BY <2>4
    <3> QED
      BY <2>3, <3>1, <3>2, Blocks DEF LiveOrdersOf, LiveOrders
  <2>5. CASE ~ Rejected(c, id)
    <3> DEFINE o == book.cid_oid_to_order_[c][id]
    <3>1. o \notin NoObject /\ answered = OrderRemoved(book, o)
      <4>1. o # Null /\ answered = CanceledFrom(book, o)
        BY <2>2, <2>5 DEF Rejected
      <4>2. o # Wild
        <5> SUFFICES ASSUME o = Wild PROVE FALSE
          OBVIOUS
        <5>1. answered = Ended(book, "segv")
          BY <4>1 DEF CanceledFrom
        <5> HIDE DEF o
        <5> QED
          BY <2>1, <5>1, StatusReplaced DEF Statuses
      <4> QED
        BY <4>1, <4>2, Blocks DEF CanceledFrom
    <3>2. o \in LiveOrders(book)
      BY <2>1, <2>2, <3>1 DEF BookInv, HandlesInv
    <3> HIDE DEF o
    <3>3. o \in OrderPool!Blocks /\ book.order[o] # Null
      BY <2>1, <3>2, NullAssumption DEF BookInv, LinksInv, LiveOrders
    <3>4. Removed(book, answered, o)
      BY <2>1, <3>1, <3>3, OrderRemovedEffect
    <3>5. /\ p \in LiveOrders(book) /\ p # o
          /\ book.order[p].client_id_ = c /\ book.order[p].client_order_id_ = id
      BY <3>4 DEF Removed, LiveOrdersOf, SameButLinks
    <3> QED
      BY <2>3, <3>5 DEF o
  <2> QED
    BY <2>4, <2>5
<1>2. CASE ClientsReuseIds
  BY <1>2
<1>3. CASE ~ ClientsReuseIds
  <2>1. IInv => CancelLeavesNoOrder
    BY <1>1, <1>3
  <2> QED
    BY <2>1, Invariant, PTL
<1> QED
  BY <1>2, <1>3

(* Every order in use is in the ring of the level of its price, linked in  *)
(* both directions and with something left to fill, and every order that a *)
(* ring leads to is in use: removeOrder and match never leave a pointer to *)
(* a freed order where orders are looked for.                              *)
THEOREM RingsHoldTheOrders == Spec => []EveryOrderInItsRing
<1>1. Init => OpenInv
  BY DEF Init, OpenInv
<1>2. Spec => []OpenInv
  BY <1>1, OpenPreserves, Invariant, PTL DEF Spec
<1> QED
  BY <1>2, OrdersInRings, Invariant, PTL

(* Each turn of checkForMatch's loop (me_order_book.cpp:214-245) leaves    *)
(* less to fill or ends the process, even from the head of a list whose    *)
(* order was freed when it was filled: the quantity left bounds the turns  *)
(* of a call.                                                              *)
THEOREM TurnsFill == Spec => EachTurnFills
<1>1. Init => OpenInv
  BY DEF Init, OpenInv
<1>2. Spec => []OpenInv
  BY <1>1, OpenPreserves, Invariant, PTL DEF Spec
<1>3. IInv /\ OpenInv /\ [Next]_vars => [TurnFills]_vars
  BY StepFills
<1>4. Spec => [][TurnFills]_vars
  BY <1>2, <1>3, Invariant, PTL DEF Spec
<1> QED
  BY <1>4 DEF EachTurnFills, TurnFills
=============================================================================
