------------------------------ MODULE OrderBook ------------------------------
(***************************************************************************)
(* The matching engine's OrderBook: one symbol's book and the call         *)
(* process_order, step by step.  A price level is the FIFO of the orders   *)
(* linked into it (its doubly linked list is the subject of another        *)
(* module), and the memory pool is the count of its free nodes.  The two   *)
(* branches of process_order, for BUY and for SELL orders, are one set of  *)
(* actions over the side of the order; they differ only in the quote they  *)
(* read and move.                                                          *)
(***************************************************************************)
EXTENDS Integers, Sequences, FiniteSets, Functions

CONSTANTS
  MaxPrice,    (* max_price: the arrays have the indices 0..MaxPrice        *)
  UINT64_MAX,  (* the value of best_ask that says there is no ask           *)
  PoolSize,    (* the nodes of the book's memory pool                       *)
  Prices,      (* the limit prices of incoming orders                       *)
  Quantities,  (* the quantities of incoming orders                         *)
  MaxOrders    (* bound: how many orders are processed in a behaviour       *)

(***************************************************************************)
(* The book is sized before any order arrives.  Prices are positive: the   *)
(* price bands and the bots' base prices keep 0 away from process_order.   *)
(* They may exceed MaxPrice; process_order tests for that itself.          *)
(***************************************************************************)
ASSUME BookAssumption ==
  /\ MaxPrice \in Nat
  /\ UINT64_MAX \in Nat /\ UINT64_MAX > MaxPrice + 1
  /\ PoolSize \in Nat
  /\ Prices \subseteq Nat \ {0}
  /\ Quantities \subseteq Nat
  /\ MaxOrders \in Nat

VARIABLES
  levels,      (* levels["BUY"] is bids, levels["SELL"] is asks             *)
  best_bid,
  best_ask,
  free_index,  (* the free nodes of order_pool                              *)
  pc,          (* where process_order is                                    *)
  order,       (* its local copy of the order                               *)
  incoming,    (* its parameter incoming_order                              *)
  trades,      (* the trades it has passed to trade_callback                *)
  arrivals     (* the calls of process_order so far: the book's clock       *)

vars == <<levels, best_bid, best_ask, free_index, pc, order, incoming,
          trades, arrivals>>

Sides == {"BUY", "SELL"}
Levels == 0..MaxPrice

(* An Order; its order_id is also its place in the order of arrival.       *)
Order == [order_id : Nat, side : Sides, price : Nat, quantity : Nat]

NoOrder == [order_id |-> 0, side |-> "BUY", price |-> 0, quantity |-> 0]

Trade == [maker : Nat, taker : Nat, quantity : Nat, price : Nat]

Opposite(side) == IF side = "BUY" THEN "SELL" ELSE "BUY"

(* The quote the order trades against, and the level it points to.         *)
Quote == IF order.side = "BUY" THEN best_ask ELSE best_bid
QuotedLevel == levels[Opposite(order.side)][Quote]

(* Mutant of Crosses: an order at the quote itself does not trade.         *)
CrossesStrictly ==
  /\ order.quantity > 0
  /\ IF order.side = "BUY"
     THEN best_ask # UINT64_MAX /\ best_ask < order.price
     ELSE best_bid > order.price

(* The condition of the outer loop: the order still has a quantity and     *)
(* the quote is one it may trade at.                                       *)
Crosses ==
  /\ order.quantity > 0
  /\ IF order.side = "BUY"
     THEN best_ask # UINT64_MAX /\ best_ask <= order.price
     ELSE best_bid > 0 /\ best_bid >= order.price

(* The condition of the inner scan: the quote is still inside the array    *)
(* and its level is empty.                                                 *)
QuoteIsStale ==
  IF order.side = "BUY"
  THEN best_ask <= MaxPrice /\ levels["SELL"][best_ask] = <<>>
  ELSE best_bid > 0 /\ levels["BUY"][best_bid] = <<>>

min(a, b) == IF a <= b THEN a ELSE b

(* The list of a level: nodes are linked at its tail and, in the matching  *)
(* loop, unlinked from its head.                                           *)
add_order_at_head(level, node) == <<node>> \o level  (* a mutant           *)
add_order_to_level(level, node) == Append(level, node)
leave_order_in_level(level) == level  (* a mutant                           *)
remove_order_from_level(level) == Tail(level)

(* The memory pool: allocate() returns nullptr when no node is free.       *)
CanAllocateUnchecked == TRUE  (* a mutant                                   *)
CanAllocate == free_index > 0
allocate == free_index' = free_index - 1
deallocate_nothing == UNCHANGED free_index  (* a mutant                     *)
deallocate == free_index' = free_index + 1
-----------------------------------------------------------------------------
(* The initial state: what the constructors leave.                         *)
Init ==
  /\ levels = [side \in Sides |-> [p \in Levels |-> <<>>]]
  /\ best_bid = 0
  /\ best_ask = UINT64_MAX
  /\ free_index = PoolSize
  /\ pc = "idle"
  /\ order = NoOrder
  /\ incoming = NoOrder
  /\ trades = <<>>
  /\ arrivals = 0

(* The call: the parameter is copied.                                      *)
ProcessOrder(side, price, quantity) ==
  /\ pc = "idle"
  /\ arrivals < MaxOrders
  /\ arrivals' = arrivals + 1
  /\ incoming' = [order_id |-> arrivals', side |-> side, price |-> price,
                  quantity |-> quantity]
  /\ order' = incoming'
  /\ trades' = <<>>
  /\ pc' = "outer"
  /\ UNCHANGED <<levels, best_bid, best_ask, free_index>>

(* The outer loop is entered; a quote outside the arrays is reset and the  *)
(* loop left, which is what its condition then says too.                   *)
EnterLevel ==
  /\ pc = "outer"
  /\ Crosses
  /\ pc' = IF Quote <= MaxPrice THEN "level" ELSE "outer"
  /\ best_ask' = IF order.side = "BUY" /\ Quote > MaxPrice
                 THEN UINT64_MAX ELSE best_ask
  /\ best_bid' = IF order.side = "SELL" /\ Quote > MaxPrice
                 THEN 0 ELSE best_bid
  /\ UNCHANGED <<levels, free_index, order, incoming, trades, arrivals>>

(* One iteration of the inner loop: a trade with the head of the level,    *)
(* whose node goes back to the pool when nothing of it is left.            *)
Fill ==
  /\ pc = "level"
  /\ QuotedLevel # <<>>
  /\ order.quantity > 0
  /\ LET side     == Opposite(order.side)
         current  == Head(QuotedLevel)
         fill_qty == min(order.quantity, current.quantity)
         consumed == current.quantity = fill_qty
         rest     == IF consumed THEN remove_order_from_level(QuotedLevel)
                     ELSE [QuotedLevel EXCEPT ![1].quantity = @ - fill_qty]
     IN  /\ trades' = Append(trades,
                        [maker |-> current.order_id, taker |-> order.order_id,
                         quantity |-> fill_qty, price |-> current.price])
         /\ order' = [order EXCEPT !.quantity = @ - fill_qty]
         /\ levels' = [levels EXCEPT ![side][Quote] = rest]
         /\ IF consumed THEN deallocate ELSE UNCHANGED free_index
  /\ UNCHANGED <<best_bid, best_ask, pc, incoming, arrivals>>

(* Mutant of MoveQuote: only the branch for BUY orders moves it.           *)
MoveQuoteOfBuyers ==
  IF order.side = "BUY"
  THEN best_ask' = best_ask + 1 /\ UNCHANGED best_bid
  ELSE UNCHANGED <<best_bid, best_ask>>

(* The quote moves one price away from the level it points to.             *)
MoveQuote ==
  IF order.side = "BUY"
  THEN best_ask' = best_ask + 1 /\ UNCHANGED best_bid
  ELSE best_bid' = best_bid - 1 /\ UNCHANGED best_ask

(* The inner loop has emptied the level, whatever is left of the order.    *)
LeaveEmptyLevel ==
  /\ pc = "level"
  /\ QuotedLevel = <<>>
  /\ pc' = "scan"
  /\ MoveQuote
  /\ UNCHANGED <<levels, free_index, order, incoming, trades, arrivals>>

(* The scan passes one more empty level.                                   *)
SkipLevel ==
  /\ pc = "scan"
  /\ QuoteIsStale
  /\ MoveQuote
  /\ UNCHANGED <<levels, free_index, pc, order, incoming, trades, arrivals>>

(* Mutant of EndScan: a quote past the last level is not reset.            *)
EndScanWithoutReset ==
  /\ pc = "scan"
  /\ ~QuoteIsStale
  /\ pc' = "outer"
  /\ UNCHANGED <<levels, best_bid, best_ask, free_index, order, incoming,
                 trades, arrivals>>

(* The scan stops: at an order, or past the last level.                    *)
EndScan ==
  /\ pc = "scan"
  /\ ~QuoteIsStale
  /\ pc' = "outer"
  /\ best_ask' = IF order.side = "BUY" /\ best_ask > MaxPrice
                 THEN UINT64_MAX ELSE best_ask
  /\ UNCHANGED <<levels, best_bid, free_index, order, incoming, trades, arrivals>>

(* process_order returns.                                                  *)
Return ==
  /\ pc' = "idle"
  /\ order' = NoOrder
  /\ incoming' = NoOrder
  /\ UNCHANGED <<trades, arrivals>>

Unmatched == pc = "outer" /\ ~Crosses /\ order.quantity > 0

HasNode == order.price <= MaxPrice /\ CanAllocate

(* The rest of the order takes a node and is linked at the end of its      *)
(* level; the quote of its side follows it if it is better.                *)
RestOrder ==
  /\ Unmatched
  /\ HasNode
  /\ allocate
  /\ levels' = [levels EXCEPT ![order.side][order.price] =
                  add_order_to_level(@, order)]
  /\ best_bid' = IF order.side = "BUY" /\ order.price > best_bid
                 THEN order.price ELSE best_bid
  /\ best_ask' = IF order.side = "SELL" /\ order.price < best_ask
                 THEN order.price ELSE best_ask
  /\ Return

(* The price is outside the array, or allocate() returned nullptr: the     *)
(* rest of the order is lost, silently.                                    *)
DropOrder ==
  /\ Unmatched
  /\ ~HasNode
  /\ Return
  /\ UNCHANGED <<levels, best_bid, best_ask, free_index>>

(* The order is filled: the outer loop's condition is false, or the inner  *)
(* loop ended with orders left in the level.                               *)
OrderFilled ==
  /\ order.quantity = 0
  /\ pc = "outer" \/ (pc = "level" /\ QuotedLevel # <<>>)
  /\ Return
  /\ UNCHANGED <<levels, best_bid, best_ask, free_index>>

(* The steps of a call in progress.                                        *)
Step ==
  \/ EnterLevel
  \/ Fill
  \/ LeaveEmptyLevel
  \/ SkipLevel
  \/ EndScan
  \/ RestOrder
  \/ DropOrder
  \/ OrderFilled

Next ==
  \/ \E side \in Sides, price \in Prices, quantity \in Quantities :
       ProcessOrder(side, price, quantity)
  \/ Step

Spec == Init /\ [][Next]_vars

(* The engine's thread runs a call it has begun to its end.                *)
FairSpec == Spec /\ WF_vars(Step)
-----------------------------------------------------------------------------
(***************************************************************************)
(* Properties.                                                             *)
(***************************************************************************)
Resting == UNION {Range(levels[side][p]) : side \in Sides, p \in Levels}

BidPrices == {p \in Levels : levels["BUY"][p] # <<>>}
AskPrices == {p \in Levels : levels["SELL"][p] # <<>>}

(* The values of the variables; inside the loops over a level the quote    *)
(* is an index of the arrays.                                              *)
TypeOK ==
  /\ levels \in [Sides -> [Levels -> Seq(Order)]]
  /\ best_bid \in Levels
  /\ best_ask \in 0..(MaxPrice + 1) \cup {UINT64_MAX}
  /\ free_index \in 0..PoolSize
  /\ pc \in {"idle", "outer", "level", "scan"}
  /\ pc = "level" => Quote \in Levels
  /\ order \in Order
  /\ incoming \in Order
  /\ trades \in Seq(Trade)
  /\ arrivals \in 0..MaxOrders

(* Between calls the cached quotes are the best prices of the book: a      *)
(* quote that lags behind the levels hides orders from every later one,    *)
(* since process_order looks at no other level.                            *)
BestQuotesExact ==
  pc = "idle" =>
    /\ IF BidPrices = {} THEN best_bid = 0
       ELSE best_bid \in BidPrices /\ \A p \in BidPrices : p <= best_bid
    /\ IF AskPrices = {} THEN best_ask = UINT64_MAX
       ELSE best_ask \in AskPrices /\ \A p \in AskPrices : best_ask <= p

(* At no time, not even in the middle of a sweep, does a buyer rest at a   *)
(* price at which a seller rests too: whoever could trade has traded.      *)
NeverCrossed ==
  \A b \in BidPrices, a \in AskPrices : b < a

(* Every node of the pool is free or holds one resting order: no node      *)
(* leaks when an order is filled, and none is freed twice, which would     *)
(* write past the free list.                                               *)
PoolAccounting ==
  Cardinality(Resting) + free_index = PoolSize

(* The units that the call has traded, each as the number of its trade and *)
(* its own number in it.                                                   *)
UnitsTraded == UNION {{i} \X (1..trades[i].quantity) : i \in DOMAIN trades}

(* While an order is processed, what it has traded and what is left of it  *)
(* add up to what came in, and every trade is for a positive quantity with *)
(* a different resting order.                                              *)
QuantityConserved ==
  pc # "idle" =>
    /\ incoming.quantity = order.quantity + Cardinality(UnitsTraded)
    /\ \A i \in DOMAIN trades : trades[i].quantity > 0
    /\ \A i, j \in DOMAIN trades : i # j => trades[i].maker # trades[j].maker

(* process_order returns: its loops end for every order and every book.    *)
CallReturns == pc # "idle" ~> pc = "idle"

(* The book serves orders by price, then by arrival, at the maker's price, *)
(* and refuses to keep one only when there is no node or no level for it:  *)
(* it implements the abstract exchange.                                    *)
Exchange == INSTANCE PriceTimePriority
              WITH resting <- Resting, taker <- order, tape <- trades,
                   Capacity <- PoolSize

PriceTimePriorityKept == Exchange!Spec
=============================================================================
