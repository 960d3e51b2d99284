---------------------------- MODULE MEOrderBook ----------------------------
(***************************************************************************)
(* The limit order book of one ticker (src/me_order_book.cpp), run by one  *)
(* thread.  The book is a heap: orders and price levels live in two        *)
(* MemPools, pointers are block numbers, and a freed block keeps its old   *)
(* contents, so a stale pointer reads what the program would read.         *)
(*                                                                         *)
(* Each member function is an operator from a book to a book.  A function  *)
(* in which the process ends returns a book whose status says how.         *)
(*                                                                         *)
(* The constructor writes neither of the two tables of pointers            *)
(* (me_order_book.h:14, 18; me_order_book.cpp:2-4): what an element holds   *)
(* before its first write is what the allocator gave, nullptr where it     *)
(* gave zeroed pages, or a pointer to no object.                           *)
(***************************************************************************)
EXTENDS Integers, FiniteSets

CONSTANTS
  ME_MAX_NUM_CLIENTS,    \* rows of cid_oid_to_order_
  ME_MAX_ORDER_IDS,      \* its columns, and the size of the order pool
  ME_MAX_PRICE_LEVELS,   \* slots of price_orders_at_price_, and levels in the pool
  Null,                  \* nullptr, and the contents of a block never constructed
  Wild,                  \* a pointer that leads to no memory of the process
  FreshPrices, FreshIds, \* what the two tables may hold at first
  NullLevelRead,         \* what getNextPriority's read through nullptr may do
  RequestIds, Prices, Quantities, \* the order ids, prices, quantities of requests
  ClientsReuseIds,       \* whether a client reuses the id of an order that rests
  MaxMarketOrderId       \* bound: the last market order id given out

Clients == 0 .. ME_MAX_NUM_CLIENTS - 1
OrderIds == 0 .. ME_MAX_ORDER_IDS - 1
Slots == 0 .. ME_MAX_PRICE_LEVELS - 1
Sides == {"BUY", "SELL"}

ASSUME MEOrderBookAssumption ==
  /\ ME_MAX_NUM_CLIENTS \in Nat \ {0}
  /\ ME_MAX_ORDER_IDS \in Nat \ {0}
  /\ ME_MAX_PRICE_LEVELS \in Nat \ {0}
  /\ Null \notin Int /\ Wild \notin Int /\ Wild # Null
  /\ FreshPrices \subseteq [Slots -> {Null, Wild}]
  /\ FreshIds \subseteq [Clients -> [OrderIds -> {Null, Wild}]]
  /\ NullLevelRead \in (SUBSET {"segv", "reads_null"}) \ {{}}
  /\ RequestIds \subseteq OrderIds /\ Prices \subseteq Nat /\ Quantities \subseteq Nat \ {0}
  /\ ClientsReuseIds \in BOOLEAN
  /\ MaxMarketOrderId \in Nat

OrderPool == INSTANCE MemPool WITH NumElems <- ME_MAX_ORDER_IDS
LevelPool == INSTANCE MemPool WITH NumElems <- ME_MAX_PRICE_LEVELS

VARIABLES
  book,       \* the MEOrderBook object and how the process stands
  taker,      \* the call of checkForMatch in progress, and the turns its loop has made; or Null
  subscriber  \* the orders a subscriber to every market update knows of

vars == <<book, taker, subscriber>>

(* A pointer that leads to no object.                                      *)
NoObject == {Null, Wild}

(* What the constructor leaves, with these contents in the two tables.     *)
NewBook(prices, ids) ==
  [order                 |-> [o \in OrderPool!Blocks |-> Null],
   level                 |-> [l \in LevelPool!Blocks |-> Null],
   order_pool_           |-> OrderPool!NewPool,
   orders_at_price_pool_ |-> LevelPool!NewPool,
   price_orders_at_price_ |-> prices,
   cid_oid_to_order_     |-> ids,
   bids_by_price_        |-> Null,
   asks_by_price_        |-> Null,
   next_market_order_id_ |-> 1,
   status                |-> "running"]

Ended(b, how) == [b EXCEPT !.status = how]
Running(b) == b.status = "running"

PriceToIndex(price) == price % ME_MAX_PRICE_LEVELS
OrdersAtPrice(b, price) == b.price_orders_at_price_[PriceToIndex(price)]

-----------------------------------------------------------------------------
(* The two pools.                                                          *)

ConstructedOrder(b, order) ==
  LET block == OrderPool!AllocatedBlock(b.order_pool_)
      built == [b EXCEPT !.order[block] = order]
  IN  IF ~ OrderPool!CursorIsFree(b.order_pool_) THEN Ended(b, "assert")
      ELSE IF OrderPool!OutOfSpace(OrderPool!Taken(b.order_pool_)) THEN Ended(built, "fatal")
      ELSE [built EXCEPT !.order_pool_ = OrderPool!Allocated(@)]

ConstructedLevel(b, level) ==
  LET block == LevelPool!AllocatedBlock(b.orders_at_price_pool_)
      built == [b EXCEPT !.level[block] = level]
  IN  IF ~ LevelPool!CursorIsFree(b.orders_at_price_pool_) THEN Ended(b, "assert")
      ELSE IF LevelPool!OutOfSpace(LevelPool!Taken(b.orders_at_price_pool_))
           THEN Ended(built, "fatal")
      ELSE [built EXCEPT !.orders_at_price_pool_ = LevelPool!Allocated(@)]

DeallocatedOrder(b, o) ==
  IF OrderPool!InUse(b.order_pool_, o)
  THEN [b EXCEPT !.order_pool_ = OrderPool!Deallocated(@, o)]
  ELSE Ended(b, "assert")

DeallocatedLevel(b, l) ==
  IF LevelPool!InUse(b.orders_at_price_pool_, l)
  THEN [b EXCEPT !.orders_at_price_pool_ = LevelPool!Deallocated(@, l)]
  ELSE Ended(b, "assert")

-----------------------------------------------------------------------------
(* Adding an order.                                                        *)

(* The list in which addOrderAtPrice puts the levels of a side and in      *)
(* which checkForMatch looks for the orders a taker of that side can hit.  *)
AddHead(side) == IF side = "BUY" THEN "asks_by_price_" ELSE "bids_by_price_"

(* The list from whose head removeOrdersAtPrice takes a level.             *)
RemoveHead(side) == IF side = "BUY" THEN "bids_by_price_" ELSE "asks_by_price_"

Worse(side, price, other) ==
  \/ side = "BUY" /\ price < other
  \/ side = "SELL" /\ price > other

(* The levels that are met by following next_entry_ from a level.          *)
Following(b, l) ==
  LET hop[k \in 0 .. ME_MAX_PRICE_LEVELS] ==
        IF k = 0 THEN l
        ELSE IF hop[k - 1] = Null THEN Null
        ELSE b.level[hop[k - 1]].next_entry_
  IN  {hop[k] : k \in 1 .. ME_MAX_PRICE_LEVELS}

InsertedAfter(b, target, l) ==
  LET next == b.level[target].next_entry_
  IN  IF next = Null THEN Ended(b, "segv")
      ELSE [b EXCEPT !.level[next].prev_entry_ = l, !.level[l].next_entry_ = next,
                     !.level[target].next_entry_ = l, !.level[l].prev_entry_ = target]

InsertedBefore(b, target, l) ==
  LET prev == b.level[target].prev_entry_
  IN  IF prev = Null THEN Ended(b, "segv")
      ELSE [b EXCEPT !.level[prev].next_entry_ = l, !.level[l].prev_entry_ = prev,
                     !.level[l].next_entry_ = target, !.level[target].prev_entry_ = l]

(* The declarations of add_after inside the walk hide the one the walk     *)
(* tests (lines 88, 94): a level worse than the best always goes round     *)
(* until the best is met again, whatever the levels on the way.            *)
WalkedInto(b, best, l) ==
  IF best \in Following(b, best)
  THEN IF b.level[best].prev_entry_ = Null THEN Ended(b, "segv")
       ELSE InsertedAfter(b, b.level[best].prev_entry_, l)
  ELSE Ended(b, IF Null \in Following(b, best) THEN "segv" ELSE "hang")

LevelAdded(b, l) ==
  LET level == b.level[l]
      head == AddHead(level.side_)
      best == b[head]
      mapped == [b EXCEPT !.price_orders_at_price_[PriceToIndex(level.price_)] = l]
  IN  IF best = Null THEN
        [mapped EXCEPT ![head] = l, !.level[l].prev_entry_ = l, !.level[l].next_entry_ = l]
      ELSE IF Worse(level.side_, level.price_, b.level[best].price_) THEN
        WalkedInto(mapped, best, l)
      ELSE LET inserted == InsertedBefore(mapped, best, l)
               becomesBest == level.side_ = "BUY" /\ level.price_ > b.level[best].price_
           IN  IF Running(inserted) /\ becomesBest
               THEN [inserted EXCEPT ![head] = l] ELSE inserted

(* A seeded fault: the first order's link to the last is not updated.      *)
HalfAppended(b, first, o) ==
  LET last == b.order[first].prev_order_
  IN  [b EXCEPT !.order[last].next_order_ = o, !.order[o].prev_order_ = last,
                !.order[o].next_order_ = first]

(* A seeded fault: the order goes in after the first instead of the last.  *)
InsertedSecond(b, first, o) ==
  LET second == b.order[first].next_order_
  IN  [b EXCEPT !.order[second].prev_order_ = o, !.order[o].next_order_ = second,
                !.order[o].prev_order_ = first, !.order[first].next_order_ = o]

OrderAppended(b, first, o) ==
  LET last == b.order[first].prev_order_
  IN  [b EXCEPT !.order[last].next_order_ = o, !.order[o].prev_order_ = last,
                !.order[o].next_order_ = first, !.order[first].prev_order_ = o]

OrderPlaced(b, o) ==
  LET order == b.order[o]
      l == OrdersAtPrice(b, order.price_)
      alone == [b EXCEPT !.order[o].prev_order_ = o, !.order[o].next_order_ = o]
      levelled == ConstructedLevel(alone,
                    [side_ |-> order.side_, price_ |-> order.price_, first_me_order_ |-> o,
                     prev_entry_ |-> Null, next_entry_ |-> Null])
  IN  IF l = Wild THEN Ended(b, "segv")
      ELSE IF l # Null THEN OrderAppended(b, b.level[l].first_me_order_, o)
      ELSE IF ~ Running(levelled) THEN levelled
      ELSE LevelAdded(levelled, LevelPool!AllocatedBlock(b.orders_at_price_pool_))

(* A seeded fault: the client's table is not told of the order.            *)
AddedWithoutHandle(b, o) == OrderPlaced(b, o)

OrderAdded(b, o) ==
  LET placed == OrderPlaced(b, o)
      order == b.order[o]
  IN  IF Running(placed)
      THEN [placed EXCEPT !.cid_oid_to_order_[order.client_id_][order.client_order_id_] = o]
      ELSE placed

(* getNextPriority where there is a level; the last order's, not one more. *)
NextPriority(b, price) ==
  LET first == b.level[OrdersAtPrice(b, price)].first_me_order_
  IN  b.order[b.order[first].prev_order_].priority_

-----------------------------------------------------------------------------
(* Removing an order.                                                      *)

LevelUnlinked(b, side, l) ==
  LET head == RemoveHead(side)
      prev == b.level[l].prev_entry_
      next == b.level[l].next_entry_
  IN  IF next = l THEN [b EXCEPT ![head] = Null]
      ELSE IF prev = Null \/ next = Null THEN Ended(b, "segv")
      ELSE [b EXCEPT !.level[prev].next_entry_ = next, !.level[next].prev_entry_ = prev,
                     !.level[l].prev_entry_ = Null, !.level[l].next_entry_ = Null,
                     ![head] = IF b[head] = l THEN next ELSE b[head]]

(* A seeded fault: the level is freed and its price still leads to it.     *)
RemovedStillMapped(b, side, price) ==
  LET l == OrdersAtPrice(b, price)
      unlinked == LevelUnlinked(b, side, l)
  IN  IF l \in NoObject THEN Ended(b, "segv")
      ELSE IF Running(unlinked) THEN DeallocatedLevel(unlinked, l) ELSE unlinked

LevelRemoved(b, side, price) ==
  LET l == OrdersAtPrice(b, price)
      unlinked == LevelUnlinked(b, side, l)
  IN  IF l \in NoObject THEN Ended(b, "segv")
      ELSE IF ~ Running(unlinked) THEN unlinked
      ELSE DeallocatedLevel(
             [unlinked EXCEPT !.price_orders_at_price_[PriceToIndex(price)] = Null], l)

OrderUnlinked(b, o) ==
  LET before == b.order[o].prev_order_
      after == b.order[o].next_order_
      l == OrdersAtPrice(b, b.order[o].price_)
      first == b.level[l].first_me_order_
  IN  IF before = Null \/ l \in NoObject THEN Ended(b, "segv")
      ELSE [b EXCEPT !.order[before].next_order_ = after, !.order[after].prev_order_ = before,
                     !.order[o].prev_order_ = Null, !.order[o].next_order_ = Null,
                     !.level[l].first_me_order_ = IF first = o THEN after ELSE first]

(* A seeded fault: the client's table keeps the pointer.                   *)
RemovedKeepingHandle(b, o) ==
  LET order == b.order[o]
      unlinked == IF order.prev_order_ = o
                  THEN LevelRemoved(b, order.side_, order.price_)
                  ELSE OrderUnlinked(b, o)
  IN  IF Running(unlinked) THEN DeallocatedOrder(unlinked, o) ELSE unlinked

OrderRemoved(b, o) ==
  LET order == b.order[o]
      unlinked == IF order.prev_order_ = o
                  THEN LevelRemoved(b, order.side_, order.price_)
                  ELSE OrderUnlinked(b, o)
  IN  IF ~ Running(unlinked) THEN unlinked
      ELSE DeallocatedOrder(
             [unlinked EXCEPT
                !.cid_oid_to_order_[order.client_id_][order.client_order_id_] = Null], o)

-----------------------------------------------------------------------------
(* The messages.  Market updates are kept as what a subscriber that gets   *)
(* all of them has built; client responses leave the book and never come   *)
(* back, and their contents are abstracted away.                           *)

Entry(order) ==
  [market_order_id_ |-> order.market_order_id_, side_ |-> order.side_,
   price_ |-> order.price_, quantity_ |-> order.quantity_, priority_ |-> order.priority_]

Without(entries, order) == {e \in entries : e.market_order_id_ # order.market_order_id_}

(* A seeded fault: a partial fill is not published.                        *)
NotModified(entries, order) == entries

Modified(entries, order) ==
  {IF e.market_order_id_ = order.market_order_id_ THEN Entry(order) ELSE e : e \in entries}

LiveOrders(b) == OrderPool!Blocks \ OrderPool!FreeBlocks(b.order_pool_)
LiveLevels(b) == LevelPool!Blocks \ LevelPool!FreeBlocks(b.orders_at_price_pool_)

LiveOrdersOf(b, client_id, order_id) ==
  {o \in LiveOrders(b) : /\ b.order[o].client_id_ = client_id
                         /\ b.order[o].client_order_id_ = order_id}

-----------------------------------------------------------------------------
Init ==
  /\ \E prices \in FreshPrices, ids \in FreshIds : book = NewBook(prices, ids)
  /\ taker = Null
  /\ subscriber = {}

Ready == Running(book) /\ taker = Null

(* The outcomes of getNextPriority's read: it goes through nullptr, or     *)
(* through what the table held at first, when the price has no level.      *)
ReadOutcomes(price) ==
  CASE OrdersAtPrice(book, price) = Null -> NullLevelRead
    [] OrdersAtPrice(book, price) = Wild -> {"segv"}
    [] OTHER                             -> {"reads_level"}

(* add.  left is what the checkForMatch() of line 34 returns: that         *)
(* overload has no definition, so it may be anything up to the quantity    *)
(* asked for.                                                              *)
Add(client_id, order_id, side, price, left) ==
  LET id == book.next_market_order_id_
      accepted == [book EXCEPT !.next_market_order_id_ = @ + 1]
      order(priority) ==
        [client_id_ |-> client_id, client_order_id_ |-> order_id, market_order_id_ |-> id,
         side_ |-> side, price_ |-> price, quantity_ |-> left, priority_ |-> priority,
         prev_order_ |-> Null, next_order_ |-> Null]
      rested(priority) ==
        LET built == ConstructedOrder(accepted, order(priority))
        IN  IF ~ Running(built) THEN built
            ELSE OrderAdded(built, OrderPool!AllocatedBlock(accepted.order_pool_))
  IN  /\ Ready
      /\ id <= MaxMarketOrderId
      /\ ClientsReuseIds \/ LiveOrdersOf(book, client_id, order_id) = {}
      /\ \/ /\ left = 0
            /\ book' = accepted
            /\ UNCHANGED subscriber
         \/ /\ left # 0
            /\ "segv" \in ReadOutcomes(price)
            /\ book' = Ended(accepted, "segv")
            /\ UNCHANGED subscriber
         \/ /\ left # 0
            /\ \E read \in ReadOutcomes(price) \ {"segv"} :
                 LET priority == IF read = "reads_null" THEN 1 ELSE NextPriority(book, price)
                 IN  /\ book' = rested(priority)
                     /\ subscriber' = IF Running(book')
                                      THEN subscriber \cup {Entry(order(priority))}
                                      ELSE subscriber
      /\ UNCHANGED taker

(* cancel.  A client id past the table is rejected; an order id past it    *)
(* makes std::array::at throw, and nothing catches.                        *)
Rejected(client_id, order_id) ==
  \/ client_id \notin Clients
  \/ /\ client_id \in Clients /\ order_id \in OrderIds
     /\ book.cid_oid_to_order_[client_id][order_id] = Null

CancelRejected(client_id, order_id) ==
  /\ Ready
  /\ Rejected(client_id, order_id)
  /\ UNCHANGED <<book, taker, subscriber>>

CancelThrows(client_id, order_id) ==
  /\ Ready
  /\ client_id \in Clients /\ order_id \notin OrderIds
  /\ book' = Ended(book, "terminate")
  /\ UNCHANGED <<taker, subscriber>>

(* The rest of cancel, with the pointer it found: the response is made     *)
(* from the order it leads to.                                             *)
CanceledFrom(b, o) == IF o = Wild THEN Ended(b, "segv") ELSE OrderRemoved(b, o)

Canceled(client_id, order_id) ==
  /\ Ready
  /\ client_id \in Clients /\ order_id \in OrderIds
  /\ ~ Rejected(client_id, order_id)
  /\ LET o == book.cid_oid_to_order_[client_id][order_id]
     IN  /\ book' = CanceledFrom(book, o)
         /\ subscriber' = IF Running(book') THEN Without(subscriber, book.order[o])
                          ELSE subscriber
  /\ UNCHANGED taker

Cancel(client_id, order_id) ==
  \/ CancelRejected(client_id, order_id)
  \/ CancelThrows(client_id, order_id)
  \/ Canceled(client_id, order_id)

-----------------------------------------------------------------------------
(* checkForMatch with seven arguments, of which the three ids only go into *)
(* the taker's responses: one step per turn of its loop.                   *)
CheckForMatch(side, price, qty) ==
  /\ Ready
  /\ taker' = [side |-> side, price |-> price, leaves_qty |-> qty, turns |-> 0]
  /\ UNCHANGED <<book, subscriber>>

(* The order that the loop looks at: the first of the level at the head.   *)
Passive == book.level[book[AddHead(taker.side)]].first_me_order_

(* A seeded fault: the loop does not ask whether anything is left to fill. *)
CrossesEmptyHanded ==
  /\ book[AddHead(taker.side)] # Null
  /\ ~ Worse(taker.side, taker.price, book.order[Passive].price_)

Crosses ==
  /\ taker.leaves_qty # 0
  /\ book[AddHead(taker.side)] # Null
  /\ ~ Worse(taker.side, taker.price, book.order[Passive].price_)

(* A seeded fault: the passive order is filled with all that is left.      *)
FilledWhole(leaves_qty, order_qty) == leaves_qty

FillQuantity(leaves_qty, order_qty) ==
  IF leaves_qty < order_qty THEN leaves_qty ELSE order_qty

(* match.                                                                  *)
Match ==
  /\ Running(book) /\ taker # Null
  /\ Crosses
  /\ LET order == book.order[Passive]
         fill_qty == FillQuantity(taker.leaves_qty, order.quantity_)
         filled == [book EXCEPT !.order[Passive].quantity_ = @ - fill_qty]
         done == order.quantity_ = fill_qty
     IN  /\ taker' = [taker EXCEPT !.leaves_qty = @ - fill_qty, !.turns = @ + 1]
         /\ book' = IF done THEN OrderRemoved(filled, Passive) ELSE filled
         /\ subscriber' = IF done THEN Without(subscriber, order)
                          ELSE Modified(subscriber, filled.order[Passive])

CheckForMatchReturns ==
  /\ Running(book) /\ taker # Null
  /\ ~ Crosses
  /\ taker' = Null
  /\ UNCHANGED <<book, subscriber>>

MatchLoop == Match \/ CheckForMatchReturns

(* The process has ended, or is inside a loop it will not leave.           *)
Stopped == ~ Running(book) /\ UNCHANGED vars

Next ==
  \/ \E c \in Clients, id \in RequestIds, side \in Sides, price \in Prices :
       \E left \in Quantities \cup {0} : Add(c, id, side, price, left)
  \/ \E side \in Sides, price \in Prices, qty \in Quantities :
       CheckForMatch(side, price, qty)
  \/ \E c \in Clients \cup {ME_MAX_NUM_CLIENTS}, id \in RequestIds \cup {ME_MAX_ORDER_IDS} :
       Cancel(c, id)
  \/ MatchLoop
  \/ Stopped

Spec == Init /\ [][Next]_vars

-----------------------------------------------------------------------------
Orders ==
  [client_id_ : Clients, client_order_id_ : OrderIds, market_order_id_ : 1 .. MaxMarketOrderId,
   side_ : Sides, price_ : Prices, quantity_ : Nat, priority_ : Nat,
   prev_order_ : OrderPool!Blocks \cup {Null}, next_order_ : OrderPool!Blocks \cup {Null}]

Levels ==
  [side_ : Sides, price_ : Prices, first_me_order_ : OrderPool!Blocks,
   prev_entry_ : LevelPool!Blocks \cup {Null}, next_entry_ : LevelPool!Blocks \cup {Null}]

(* nullptr and a block never constructed are told from an object.          *)
ASSUME NullAssumption == Null \notin Orders /\ Null \notin Levels

Statuses == {"running",
             "segv",        \* a read or write through a pointer to no object
             "hang",        \* addOrderAtPrice's walk never meets the best again
             "assert",      \* an ASSERT of MemPool
             "fatal",       \* its FATAL
             "terminate"}   \* an exception nobody catches

(* The book's fields, with the memory of its two pools.                     *)
Books ==
  [order : [OrderPool!Blocks -> Orders \cup {Null}],
   level : [LevelPool!Blocks -> Levels \cup {Null}],
   order_pool_ : OrderPool!Pools, orders_at_price_pool_ : LevelPool!Pools,
   price_orders_at_price_ : [Slots -> LevelPool!Blocks \cup NoObject],
   cid_oid_to_order_ : [Clients -> [OrderIds -> OrderPool!Blocks \cup NoObject]],
   bids_by_price_ : LevelPool!Blocks \cup {Null}, asks_by_price_ : LevelPool!Blocks \cup {Null},
   next_market_order_id_ : 1 .. MaxMarketOrderId + 1, status : Statuses]

(* Every variable stays in its type; no quantity goes below zero.          *)
TypeOK ==
  /\ book \in Books
  /\ taker = Null \/ taker \in [side : Sides, price : Prices, leaves_qty : Nat, turns : Nat]
  /\ \A e \in subscriber : e.market_order_id_ \in 1 .. MaxMarketOrderId

(* The orders met by following next_order_ from the first of a level.      *)
Ring(b, l) ==
  LET hop[k \in 0 .. ME_MAX_ORDER_IDS - 1] ==
        IF k = 0 THEN b.level[l].first_me_order_
        ELSE IF hop[k - 1] = Null THEN Null
        ELSE b.order[hop[k - 1]].next_order_
  IN  {hop[k] : k \in 0 .. ME_MAX_ORDER_IDS - 1}

MappedLevels(b) == {b.price_orders_at_price_[i] : i \in Slots} \ NoObject

(* The levels in use are the levels a price leads to: none leaks from its  *)
(* pool and none is freed while orders can still be put into it.           *)
LevelsAreMapped == Running(book) => LiveLevels(book) = MappedLevels(book)

(* Whatever the order of adds, cancels and fills, the orders in use are    *)
(* exactly the members of the rings of the levels in the map, each ring    *)
(* well linked, each order with something left to fill.                    *)
EveryOrderInItsRing ==
  Running(book) =>
    /\ \A o \in LiveOrders(book) :
         LET order == book.order[o]
             l == OrdersAtPrice(book, order.price_)
         IN  /\ l \notin NoObject
             /\ o \in Ring(book, l)
             /\ order.next_order_ # Null
             /\ book.order[order.next_order_].prev_order_ = o
             /\ order.quantity_ > 0
    /\ \A l \in MappedLevels(book) : Ring(book, l) \subseteq LiveOrders(book)

(* Within a level orders stand in the order they came, so that match, which *)
(* takes the first, fills the oldest (note.md:49).                         *)
FirstInFirstOut ==
  Running(book) =>
    \A o \in LiveOrders(book) :
      LET next == book.order[o].next_order_
      IN  \/ next = book.level[OrdersAtPrice(book, book.order[o].price_)].first_me_order_
          \/ book.order[o].market_order_id_ < book.order[next].market_order_id_

(* The table of client order ids never leads to an order that was filled   *)
(* or canceled, nor to an order of another client or id, except where it   *)
(* still has what was there before the constructor ran                     *)
(* (me_order_book.h:14): cancel cannot free a block twice.                 *)
HandlesAreLive ==
  Running(book) =>
    \A c \in Clients, id \in OrderIds :
      LET o == book.cid_oid_to_order_[c][id]
      IN  o \notin NoObject => o \in LiveOrdersOf(book, c, id)

(* A subscriber that applies every update it is sent has the book: each    *)
(* path that changes an order sends the update that says so.               *)
SubscriberHasTheBook ==
  Running(book) => subscriber = {Entry(book.order[o]) : o \in LiveOrders(book)}

(* A cancel that is answered, CANCELED or CANCEL_REJECTED, leaves no order  *)
(* with that id in the book, whatever was added, filled or canceled before *)
(* it.  (Said of the book cancel would leave, as a rejection changes none.) *)
CancelLeavesNoOrder ==
  Ready =>
    \A c \in Clients, id \in RequestIds :
      LET o == book.cid_oid_to_order_[c][id]
          answered == IF Rejected(c, id) THEN book ELSE CanceledFrom(book, o)
      IN  Running(answered) => LiveOrdersOf(answered, c, id) = {}

(* Each turn of checkForMatch's loop leaves less to fill, or ends the      *)
(* process (me_order_book.cpp:214-245), so that a call takes no more turns *)
(* than it has quantity: the order at the head of a list that was freed    *)
(* when it was filled leaves as much, but is freed again.  A turn that     *)
(* changes nothing is a step too: taker counts it.                         *)
EachTurnFills ==
  [][taker # Null /\ taker' # Null =>
       taker'.leaves_qty < taker.leaves_qty \/ ~ Running(book')]_vars

-----------------------------------------------------------------------------
(* What note.md says of the book and the code does not do.                 *)

(* note.md:48: an order that cannot be matched becomes a passive order.    *)
(* getNextPriority reads through nullptr when its price has no level yet.  *)
AddingNeverCrashes == book.status # "segv"

(* note.md:49: buy orders and sell orders are each kept sorted by price.   *)
(* addOrderAtPrice puts buys in the list of the asks and sells in the list *)
(* of the bids.                                                            *)
BidsAreBuys ==
  Running(book) /\ book.bids_by_price_ # Null => book.level[book.bids_by_price_].side_ = "BUY"

(* note.md:49: the higher buy comes first.  The walk of addOrderAtPrice    *)
(* does not stop where the new level belongs.  (The lists are looked at    *)
(* only while their head is in use: see PoolAssertsHold.)                  *)
BuysAreSorted ==
  LET best == book[AddHead("BUY")]
  IN  Running(book) /\ best \in MappedLevels(book) =>
        \A l \in MappedLevels(book) :
          LET level == book.level[l]
          IN  level.side_ = "BUY" =>
                level.next_entry_ = best \/ book.level[level.next_entry_].price_ < level.price_

(* mem_pool.h:51-52: deallocate expects an in-use block.  A level freed    *)
(* while the other list still leads to it lets checkForMatch fill, and     *)
(* free, an order that was canceled.                                       *)
PoolAssertsHold == book.status # "assert"
=============================================================================
