--------------------------- MODULE OrderBookProofs ---------------------------
(***************************************************************************)
(* Proofs about OrderBook, for every size of the book, of its pool and of  *)
(* its inputs.                                                             *)
(***************************************************************************)
EXTENDS OrderBook, TLAPS, SequenceTheorems, FiniteSetTheorems

(* One level: the orders of one side and price, each with a quantity left, *)
(* in the order of their arrival, the last not after n.                    *)
LevelOK(q, side, p, n) ==
  /\ q \in Seq(Order)
  /\ \A i \in 1..Len(q) :
       /\ q[i].side = side
       /\ q[i].price = p
       /\ q[i].quantity > 0
       /\ q[i].order_id <= n
  /\ \A i, j \in 1..Len(q) : i < j => q[i].order_id < q[j].order_id

(* The elements of a sequence of orders are orders, with numbers as ids.   *)
LEMMA ElementsOfLevel ==
  ASSUME NEW q \in Seq(Order)
  PROVE  \A i \in 1..Len(q) : q[i] \in Order /\ q[i].order_id \in Nat
<1>1. \A i \in 1..Len(q) : q[i] \in Order
  BY ElementOfSeq
<1>2. \A o \in Order : o.order_id \in Nat
  BY DEF Order
<1>3. QED BY <1>1, <1>2

(* A level without its head is a level.                                    *)
LEMMA TailLevel ==
  ASSUME NEW q, NEW side, NEW p, NEW n, LevelOK(q, side, p, n), q # <<>>
  PROVE  LevelOK(Tail(q), side, p, n)
<1>1. /\ q \in Seq(Order) /\ Tail(q) \in Seq(Order)
      /\ Len(Tail(q)) = Len(q) - 1
      /\ \A i \in 1..Len(Tail(q)) : Tail(q)[i] = q[i + 1] /\ i + 1 \in 1..Len(q)
  BY HeadTailProperties DEF LevelOK
<1>2. QED BY <1>1 DEF LevelOK

(* A level whose head is partly filled is a level.                         *)
LEMMA PartialLevel ==
  ASSUME NEW q, NEW side, NEW p, NEW n, NEW f \in Nat,
         LevelOK(q, side, p, n), q # <<>>, f < q[1].quantity
  PROVE  LET r == [q EXCEPT ![1].quantity = @ - f]
         IN  LevelOK(r, side, p, n) /\ r # <<>>
<1> DEFINE e == [q[1] EXCEPT !.quantity = @ - f]
           r == [q EXCEPT ![1] = e]
<1>1. q \in Seq(Order) /\ 1 \in 1..Len(q) /\ q[1] \in Order
  BY DEF LevelOK
<1>2. e \in Order /\ e.side = q[1].side /\ e.price = q[1].price
      /\ e.order_id = q[1].order_id /\ e.quantity > 0
  BY <1>1 DEF Order
<1>3. r \in Seq(Order) /\ Len(r) = Len(q)
      /\ \A i \in 1..Len(q) : r[i] = IF i = 1 THEN e ELSE q[i]
  BY <1>1, <1>2, ExceptSeq
<1>4. LevelOK(r, side, p, n) /\ r # <<>>
  BY <1>1, <1>2, <1>3 DEF LevelOK
<1>5. QED BY <1>4

(* A level stays one as time passes.                                       *)
LEMMA LaterLevel ==
  ASSUME NEW q, NEW side, NEW p, NEW n \in Int, LevelOK(q, side, p, n)
  PROVE  LevelOK(q, side, p, n + 1)
<1>1. q \in Seq(Order)
  BY DEF LevelOK
<1>2. QED BY <1>1, ElementsOfLevel DEF LevelOK

(* A newcomer at the end of a level leaves a level.                        *)
LEMMA AppendLevel ==
  ASSUME NEW q, NEW side, NEW p, NEW n \in Int, NEW o \in Order,
         LevelOK(q, side, p, n), o.side = side, o.price = p, o.quantity > 0,
         o.order_id = n + 1
  PROVE  LevelOK(Append(q, o), side, p, n + 1) /\ Append(q, o) # <<>>
<1>1. /\ q \in Seq(Order) /\ Append(q, o) \in Seq(Order)
      /\ Len(Append(q, o)) = Len(q) + 1
      /\ \A i \in 1..Len(q) : Append(q, o)[i] = q[i] /\ q[i] \in Order
      /\ Append(q, o)[Len(q) + 1] = o
      /\ Append(q, o) # <<>>
      /\ Len(q) \in Nat
  BY AppendProperties, LenProperties DEF LevelOK
<1>a. \A r \in Order : r.order_id \in Nat
  BY DEF Order
<1>2. \A i \in 1..(Len(q) + 1) :
        \/ i \in 1..Len(q) /\ Append(q, o)[i] = q[i] /\ q[i].order_id \in Nat
        \/ i = Len(q) + 1 /\ Append(q, o)[i] = o
  BY <1>1, <1>a
<1>3. \A i \in 1..Len(Append(q, o)) :
        /\ Append(q, o)[i].side = side
        /\ Append(q, o)[i].price = p
        /\ Append(q, o)[i].quantity > 0
        /\ Append(q, o)[i].order_id <= n + 1
  BY <1>1, <1>2 DEF LevelOK
<1>4. ASSUME NEW i \in 1..Len(Append(q, o)), NEW j \in 1..Len(Append(q, o)), i < j
      PROVE  Append(q, o)[i].order_id < Append(q, o)[j].order_id
  BY <1>1, <1>2, <1>4 DEF LevelOK
<1>5. QED BY <1>1, <1>3, <1>4 DEF LevelOK
-----------------------------------------------------------------------------
(* The last arrival among the resting orders: the order in progress has    *)
(* not come to rest.                                                       *)
Settled == IF pc = "idle" THEN arrivals ELSE arrivals - 1

Types ==
  /\ levels \in [Sides -> [Levels -> Seq(Order)]]
  /\ best_bid \in Levels
  /\ best_ask \in 0..(MaxPrice + 1) \cup {UINT64_MAX}
  /\ free_index \in Nat
  /\ pc \in {"idle", "outer", "level", "scan"}
  /\ order \in Order
  /\ incoming \in Order
  /\ trades \in Seq(Trade)
  /\ arrivals \in 0..MaxOrders

(* What the call in progress knows about its order and its quote.          *)
CallInv ==
  /\ pc = "idle" => order = NoOrder
  /\ pc # "idle" => order.price \in Prices /\ order.order_id = arrivals
  /\ pc = "level" =>
       /\ Quote \in Levels
       /\ order.side = "BUY" => best_ask <= order.price
       /\ order.side = "SELL" => best_bid > 0 /\ order.price <= best_bid

LevelsInv ==
  \A side \in Sides, p \in Levels : LevelOK(levels[side][p], side, p, Settled)

(* No order hides beyond a quote, whatever step the call is at.            *)
QuotesBound ==
  /\ \A p \in BidPrices : 0 < p /\ p <= best_bid
  /\ \A p \in AskPrices : best_ask <= p

(* A quote points to an order, except while the call moves it.             *)
QuotesTight ==
  /\ pc \in {"idle", "outer"} \/ order.side = "BUY" =>
       best_bid = 0 \/ best_bid \in BidPrices
  /\ pc \in {"idle", "outer"} \/ order.side = "SELL" =>
       best_ask = UINT64_MAX \/ best_ask \in AskPrices

BookInv ==
  Types /\ CallInv /\ LevelsInv /\ QuotesBound /\ QuotesTight /\ NeverCrossed

(* The empty book satisfies the invariant.                                 *)
LEMMA BookInvInit == Init => BookInv
<1> SUFFICES ASSUME Init PROVE BookInv
  OBVIOUS
<1> USE DEF Init
<1>1. \A side \in Sides, p \in Levels : levels[side][p] = <<>>
  OBVIOUS
<1>2. Types
  BY BookAssumption DEF Types, NoOrder, Order, Sides, Levels
<1>3. LevelsInv
  BY <1>1 DEF LevelsInv, LevelOK
<1>4. BidPrices = {} /\ AskPrices = {}
  BY <1>1 DEF BidPrices, AskPrices, Sides
<1>5. QED
  BY <1>2, <1>3, <1>4 DEF BookInv, CallInv, QuotesBound, QuotesTight, NeverCrossed

(* The call only copies its parameter.                                     *)
LEMMA ProcessOrderKeeps ==
  ASSUME BookInv, NEW side \in Sides, NEW price \in Prices,
         NEW quantity \in Quantities, ProcessOrder(side, price, quantity)
  PROVE  BookInv'
<1> USE DEF ProcessOrder
<1>1. Types'
  <2>1. incoming' \in Order /\ order' = incoming' /\ arrivals' \in 0..MaxOrders
    BY BookAssumption DEF BookInv, Types, Order
  <2>2. <<>> \in Seq(Trade)
    OBVIOUS
  <2>3. QED BY <2>1, <2>2 DEF BookInv, Types
<1>2. CallInv'
  BY DEF BookInv, Types, CallInv
<1>3. Settled' = Settled
  BY DEF BookInv, Types, Settled
<1>4. LevelsInv'
  BY <1>3 DEF BookInv, LevelsInv, LevelOK
<1>5. (QuotesBound /\ QuotesTight /\ NeverCrossed)'
  BY DEF BookInv, QuotesBound, QuotesTight, NeverCrossed, BidPrices, AskPrices
<1>6. QED BY <1>1, <1>2, <1>4, <1>5 DEF BookInv

(* The numbers and the side of the order, without the records around them. *)
LEMMA Facts ==
  ASSUME BookInv
  PROVE  /\ MaxPrice \in Nat /\ UINT64_MAX \in Nat /\ UINT64_MAX > MaxPrice + 1
         /\ best_bid \in Nat /\ best_bid <= MaxPrice
         /\ best_ask \in Nat /\ (best_ask <= MaxPrice + 1 \/ best_ask = UINT64_MAX)
         /\ order.side = "BUY" \/ order.side = "SELL"
         /\ order.price \in Nat /\ order.quantity \in Nat /\ order.order_id \in Nat
         /\ free_index \in Nat /\ arrivals \in Nat
         /\ QuotesBound /\ QuotesTight /\ Types /\ CallInv /\ NeverCrossed
         /\ BidPrices \subseteq Levels /\ AskPrices \subseteq Levels
         /\ \A p \in Levels : p \in Nat /\ p <= MaxPrice
         /\ \A p \in Nat : p <= MaxPrice => p \in Levels
<1>1. Types
  BY DEF BookInv
<1>2. MaxPrice \in Nat /\ UINT64_MAX \in Nat /\ UINT64_MAX > MaxPrice + 1
  BY BookAssumption
<1>3. /\ best_bid \in Nat /\ best_bid <= MaxPrice
      /\ best_ask \in Nat /\ (best_ask <= MaxPrice + 1 \/ best_ask = UINT64_MAX)
  BY <1>1, <1>2 DEF Types, Levels
<1>4. /\ order.side = "BUY" \/ order.side = "SELL"
      /\ order.price \in Nat /\ order.quantity \in Nat /\ order.order_id \in Nat
  BY <1>1 DEF Types, Order, Sides
<1>5. free_index \in Nat /\ arrivals \in Nat
  BY <1>1 DEF Types
<1>6. QuotesBound /\ QuotesTight /\ Types /\ CallInv /\ NeverCrossed
  BY DEF BookInv
<1>7. /\ BidPrices \subseteq Levels /\ AskPrices \subseteq Levels
      /\ \A p \in Levels : p \in Nat /\ p <= MaxPrice
      /\ \A p \in Nat : p <= MaxPrice => p \in Levels
  BY <1>2 DEF BidPrices, AskPrices, Levels
<1>8. QED BY <1>2, <1>3, <1>4, <1>5, <1>6, <1>7

(* A step inside a call that leaves the levels and the order alone keeps   *)
(* what does not depend on the quotes.                                     *)
LEMMA LookKeeps ==
  ASSUME BookInv, UNCHANGED <<levels, order, arrivals>>, pc # "idle", pc' # "idle"
  PROVE  /\ LevelsInv' /\ NeverCrossed'
         /\ BidPrices' = BidPrices /\ AskPrices' = AskPrices
<1>1. Settled' = Settled
  BY DEF Settled
<1>2. LevelsInv'
  BY <1>1 DEF BookInv, LevelsInv
<1>3. BidPrices' = BidPrices /\ AskPrices' = AskPrices
  BY DEF BidPrices, AskPrices
<1>4. NeverCrossed'
  BY <1>3 DEF BookInv, NeverCrossed
<1>5. QED BY <1>2, <1>3, <1>4

(* Entering the outer loop keeps the invariant: a quote an order crosses   *)
(* points to a level.                                                      *)
LEMMA EnterLevelKeeps ==
  ASSUME BookInv, EnterLevel
  PROVE  BookInv'
<1>1. /\ LevelsInv' /\ NeverCrossed'
      /\ BidPrices' = BidPrices /\ AskPrices' = AskPrices
  BY LookKeeps DEF EnterLevel
<1>2. CASE order.side = "BUY"
  <2>1. Quote = best_ask /\ best_ask <= order.price /\ best_ask # UINT64_MAX
    BY <1>2 DEF EnterLevel, Crosses, Quote
  <2>2. best_ask \in AskPrices /\ best_ask <= MaxPrice /\ best_ask \in Levels
    BY <2>1, Facts DEF EnterLevel, QuotesTight
  <2>3. /\ pc = "outer" /\ pc' = "level"
        /\ UNCHANGED <<best_bid, best_ask, levels, free_index, order, incoming,
                       trades, arrivals>>
    BY <1>2, <2>1, <2>2, Facts DEF EnterLevel
  <2>4. Types'
    BY <2>3, Facts DEF Types
  <2>5. CallInv'
    BY <1>2, <2>1, <2>2, <2>3, Facts DEF CallInv, Quote
  <2>6. (QuotesBound /\ QuotesTight)'
    BY <1>1, <2>3, Facts DEF QuotesBound, QuotesTight
  <2>7. QED BY <1>1, <2>4, <2>5, <2>6 DEF BookInv
<1>3. CASE order.side = "SELL"
  <2>1. Quote = best_bid /\ order.price <= best_bid /\ best_bid > 0
    BY <1>3, Facts DEF EnterLevel, Crosses, Quote
  <2>2. best_bid <= MaxPrice /\ best_bid \in Levels
    BY Facts
  <2>3. /\ pc = "outer" /\ pc' = "level"
        /\ UNCHANGED <<best_bid, best_ask, levels, free_index, order, incoming,
                       trades, arrivals>>
    BY <1>3, <2>1, <2>2, Facts DEF EnterLevel
  <2>4. Types'
    BY <2>3, Facts DEF Types
  <2>5. CallInv'
    BY <1>3, <2>1, <2>2, <2>3, Facts DEF CallInv, Quote
  <2>6. (QuotesBound /\ QuotesTight)'
    BY <1>1, <2>3, Facts DEF QuotesBound, QuotesTight
  <2>7. QED BY <1>1, <2>4, <2>5, <2>6 DEF BookInv
<1>4. QED BY <1>2, <1>3, Facts

(* The quote moves past a level that is empty.                             *)
LEMMA MoveQuoteKeeps ==
  ASSUME BookInv, MoveQuote, pc \in {"level", "scan"}, pc' = "scan",
         UNCHANGED <<levels, free_index, order, incoming, trades, arrivals>>,
         order.side = "BUY" => best_ask <= MaxPrice /\ levels["SELL"][best_ask] = <<>>,
         order.side = "SELL" => best_bid > 0 /\ levels["BUY"][best_bid] = <<>>
  PROVE  BookInv'
<1>1. /\ LevelsInv' /\ NeverCrossed'
      /\ BidPrices' = BidPrices /\ AskPrices' = AskPrices
  BY LookKeeps
<1>2. CallInv'
  BY Facts DEF CallInv
<1>3. CASE order.side = "BUY"
  <2>1. best_bid' = best_bid /\ best_ask' = best_ask + 1
    BY <1>3 DEF MoveQuote
  <2>2. best_ask' \in 0..(MaxPrice + 1)
    BY <1>3, <2>1, Facts
  <2>3. Types'
    BY <2>1, <2>2, Facts DEF Types
  <2>4. best_ask \notin AskPrices
    BY <1>3 DEF AskPrices
  <2>5. QuotesBound'
    BY <1>1, <2>1, <2>4, Facts DEF QuotesBound
  <2>6. QuotesTight'
    BY <1>1, <1>3, <2>1, Facts DEF QuotesTight
  <2>7. QED BY <1>1, <1>2, <2>3, <2>5, <2>6 DEF BookInv
<1>4. CASE order.side = "SELL"
  <2>1. best_ask' = best_ask /\ best_bid' = best_bid - 1
    BY <1>4 DEF MoveQuote
  <2>2. best_bid' \in Levels
    BY <1>4, <2>1, Facts
  <2>3. Types'
    BY <2>1, <2>2, Facts DEF Types
  <2>4. best_bid \notin BidPrices
    BY <1>4 DEF BidPrices
  <2>5. QuotesBound'
    BY <1>1, <2>1, <2>4, Facts DEF QuotesBound
  <2>6. QuotesTight'
    BY <1>1, <1>4, <2>1, Facts DEF QuotesTight
  <2>7. QED BY <1>1, <1>2, <2>3, <2>5, <2>6 DEF BookInv
<1>5. QED BY <1>3, <1>4, Facts

(* So does moving the quote off a level that was emptied,                  *)
LEMMA LeaveEmptyLevelKeeps ==
  ASSUME BookInv, LeaveEmptyLevel
  PROVE  BookInv'
<1>1. order.side = "BUY" => best_ask <= MaxPrice /\ levels["SELL"][best_ask] = <<>>
  BY Facts DEF LeaveEmptyLevel, CallInv, Quote, QuotedLevel, Opposite
<1>2. order.side = "SELL" => best_bid > 0 /\ levels["BUY"][best_bid] = <<>>
  BY Facts DEF LeaveEmptyLevel, CallInv, Quote, QuotedLevel, Opposite
<1>3. QED BY <1>1, <1>2, MoveQuoteKeeps DEF LeaveEmptyLevel

(* passing one more empty level,                                           *)
LEMMA SkipLevelKeeps ==
  ASSUME BookInv, SkipLevel
  PROVE  BookInv'
<1>1. order.side = "BUY" => best_ask <= MaxPrice /\ levels["SELL"][best_ask] = <<>>
  BY DEF SkipLevel, QuoteIsStale
<1>2. order.side = "SELL" => best_bid > 0 /\ levels["BUY"][best_bid] = <<>>
  BY DEF SkipLevel, QuoteIsStale
<1>3. QED BY <1>1, <1>2, MoveQuoteKeeps DEF SkipLevel

(* and ending the scan, which finds an order or resets the quote.          *)
LEMMA EndScanKeeps ==
  ASSUME BookInv, EndScan
  PROVE  BookInv'
<1>1. /\ LevelsInv' /\ NeverCrossed'
      /\ BidPrices' = BidPrices /\ AskPrices' = AskPrices
  BY LookKeeps DEF EndScan
<1>2. CallInv'
  BY Facts DEF CallInv, EndScan
<1>3. best_bid' = best_bid /\ pc' = "outer" /\ order' = order
      /\ (best_ask' = best_ask \/ (best_ask > MaxPrice /\ best_ask' = UINT64_MAX))
  BY DEF EndScan
<1>4. Types'
  BY <1>3, Facts DEF Types, EndScan
<1>5. QuotesBound'
  BY <1>1, <1>3, Facts DEF QuotesBound
<1>6. CASE order.side = "BUY"
  <2>1. best_ask' = UINT64_MAX \/ best_ask' \in AskPrices
    <3>1. CASE best_ask > MaxPrice
      BY <1>6, <3>1 DEF EndScan
    <3>2. CASE best_ask <= MaxPrice
      BY <1>6, <3>2, Facts DEF EndScan, QuoteIsStale, AskPrices
    <3>3. QED BY <3>1, <3>2, Facts
  <2>2. QuotesTight'
    BY <1>1, <1>3, <1>6, <2>1, Facts DEF QuotesTight
  <2>3. QED BY <1>1, <1>2, <1>4, <1>5, <2>2 DEF BookInv
<1>7. CASE order.side = "SELL"
  <2>1. best_bid = 0 \/ best_bid \in BidPrices
    BY <1>7, Facts DEF EndScan, QuoteIsStale, BidPrices
  <2>2. best_ask' = best_ask
    BY <1>7 DEF EndScan
  <2>3. QuotesTight'
    BY <1>1, <1>3, <1>7, <2>1, <2>2, Facts DEF QuotesTight
  <2>4. QED BY <1>1, <1>2, <1>4, <1>5, <2>3 DEF BookInv
<1>8. QED BY <1>6, <1>7, Facts

(* The call returns with nothing to rest.                                  *)
LEMMA ReturnKeeps ==
  ASSUME BookInv, DropOrder \/ OrderFilled
  PROVE  BookInv'
<1>1. /\ pc \in {"outer", "level"} /\ pc' = "idle"
      /\ order' = NoOrder /\ incoming' = NoOrder
      /\ UNCHANGED <<levels, best_bid, best_ask, free_index, trades, arrivals>>
  BY DEF DropOrder, OrderFilled, Return, Unmatched
<1>2. BidPrices' = BidPrices /\ AskPrices' = AskPrices
  BY <1>1 DEF BidPrices, AskPrices
<1>3. Types'
  <2>1. NoOrder \in Order
    BY DEF NoOrder, Order, Sides
  <2>2. QED BY <1>1, <2>1, Facts DEF Types
<1>4. CallInv'
  BY <1>1 DEF CallInv
<1>5. LevelsInv'
  <2>1. Settled' = arrivals /\ Settled = arrivals - 1 /\ arrivals \in Nat
    BY <1>1, Facts DEF Settled
  <2>2. ASSUME NEW s \in Sides, NEW p \in Levels
        PROVE  LevelOK(levels[s][p], s, p, Settled')
    BY <2>1, LaterLevel DEF BookInv, LevelsInv
  <2>3. QED BY <1>1, <2>2 DEF LevelsInv
<1>6. (QuotesBound /\ NeverCrossed)'
  BY <1>1, <1>2, Facts DEF QuotesBound, NeverCrossed
<1>7. QuotesTight'
  <2>1. CASE pc = "outer"
    BY <1>1, <1>2, <2>1, Facts DEF QuotesTight
  <2>2. CASE pc = "level" /\ order.side = "BUY"
    <3>1. best_ask \in AskPrices
      BY <2>2, Facts DEF CallInv, Quote, QuotedLevel, Opposite, AskPrices,
                         DropOrder, OrderFilled, Unmatched
    <3>2. QED BY <1>1, <1>2, <2>2, <3>1, Facts DEF QuotesTight
  <2>3. CASE pc = "level" /\ order.side = "SELL"
    <3>1. best_bid \in BidPrices
      BY <2>3, Facts DEF CallInv, Quote, QuotedLevel, Opposite, BidPrices,
                         DropOrder, OrderFilled, Unmatched
    <3>2. QED BY <1>1, <1>2, <2>3, <3>1, Facts DEF QuotesTight
  <2>4. QED BY <1>1, <2>1, <2>2, <2>3, Facts
<1>8. QED BY <1>3, <1>4, <1>5, <1>6, <1>7 DEF BookInv

(* A trade with the head of the level the quote points to.                 *)
LEMMA FillKeeps ==
  ASSUME BookInv, Fill
  PROVE  BookInv'
<1> DEFINE side == Opposite(order.side)
           q == levels[side][Quote]
           current == Head(q)
           f == min(order.quantity, current.quantity)
           rest == IF current.quantity = f THEN Tail(q)
                   ELSE [q EXCEPT ![1].quantity = @ - f]
<1>1. /\ side \in Sides /\ Quote \in Levels /\ pc = "level" /\ pc' = "level"
      /\ q # <<>> /\ LevelOK(q, side, Quote, Settled)
  BY Facts DEF Fill, CallInv, QuotedLevel, BookInv, LevelsInv, Opposite, Sides
<1>2. /\ current = q[1] /\ current \in Order
      /\ current.quantity \in Nat /\ current.quantity > 0
      /\ current.order_id \in Nat /\ current.price \in Nat
  <2>1. q \in Seq(Order) /\ 1 \in 1..Len(q) /\ current = q[1]
    BY <1>1 DEF LevelOK
  <2>2. current \in Order /\ current.quantity > 0
    BY <1>1, <2>1, ElementOfSeq DEF LevelOK
  <2>3. QED BY <2>1, <2>2 DEF Order
<1>3. f \in Nat /\ f <= order.quantity /\ f <= current.quantity
  BY <1>2, Facts DEF min
<1>4. /\ levels' = [levels EXCEPT ![side][Quote] = rest]
      /\ order' = [order EXCEPT !.quantity = @ - f]
      /\ free_index' = IF current.quantity = f THEN free_index + 1 ELSE free_index
      /\ trades' = Append(trades, [maker |-> current.order_id, taker |-> order.order_id,
                                   quantity |-> f, price |-> current.price])
      /\ UNCHANGED <<best_bid, best_ask, pc, incoming, arrivals>>
  BY DEF Fill, QuotedLevel, remove_order_from_level, deallocate
<1>5. LevelOK(rest, side, Quote, Settled)
  <2>1. CASE current.quantity = f
    BY <1>1, <2>1, TailLevel
  <2>2. CASE current.quantity # f
    <3>1. f < q[1].quantity
      BY <1>2, <1>3, <2>2
    <3>2. LevelOK([q EXCEPT ![1].quantity = @ - f], side, Quote, Settled)
      BY <1>1, <1>3, <3>1, PartialLevel
    <3>3. QED BY <2>2, <3>2
  <2>3. QED BY <2>1, <2>2
<1>6. /\ order' \in Order /\ order'.side = order.side
      /\ order'.price = order.price /\ order'.order_id = order.order_id
  <2>1. order \in Order /\ order.quantity - f \in Nat
    BY <1>3, Facts DEF Types
  <2>2. QED BY <1>4, <2>1 DEF Order
<1>7. \A s \in Sides, p \in Levels :
        levels'[s][p] = IF s = side /\ p = Quote THEN rest ELSE levels[s][p]
  BY <1>1, <1>4, Facts DEF Types
<1>8. BidPrices' \subseteq BidPrices /\ AskPrices' \subseteq AskPrices
  BY <1>1, <1>7 DEF BidPrices, AskPrices, Sides
<1>9. Types'
  <2>1. rest \in Seq(Order)
    BY <1>5 DEF LevelOK
  <2>2. levels' \in [Sides -> [Levels -> Seq(Order)]]
    BY <1>4, <2>1, Facts DEF Types
  <2>3. trades' \in Seq(Trade)
    <3>1. [maker |-> current.order_id, taker |-> order.order_id,
           quantity |-> f, price |-> current.price] \in Trade
      BY <1>2, <1>3, Facts DEF Trade
    <3>2. QED BY <1>4, <3>1, Facts DEF Types
  <2>4. free_index' \in Nat
    BY <1>4, Facts
  <2>5. QED BY <1>4, <1>6, <2>2, <2>3, <2>4, Facts DEF Types
<1>10. CallInv'
  BY <1>1, <1>4, <1>6, Facts DEF CallInv, Quote
<1>11. LevelsInv'
  <2>1. Settled' = Settled
    BY <1>4 DEF Settled
  <2>2. QED BY <1>5, <1>7, <2>1 DEF BookInv, LevelsInv
<1>12. QuotesBound'
  BY <1>4, <1>8, Facts DEF QuotesBound
<1>13. QuotesTight'
  <2>1. CASE order.side = "BUY"
    <3>1. BidPrices' = BidPrices
      BY <1>7, <2>1 DEF BidPrices, Opposite, Sides
    <3>2. QED BY <1>1, <1>4, <1>6, <2>1, <3>1, Facts DEF QuotesTight
  <2>2. CASE order.side = "SELL"
    <3>1. AskPrices' = AskPrices
      BY <1>7, <2>2 DEF AskPrices, Opposite, Sides
    <3>2. QED BY <1>1, <1>4, <1>6, <2>2, <3>1, Facts DEF QuotesTight
  <2>3. QED BY <2>1, <2>2, Facts
<1>14. NeverCrossed'
  BY <1>8, Facts DEF NeverCrossed
<1>15. QED BY <1>9, <1>10, <1>11, <1>12, <1>13, <1>14 DEF BookInv

(* The rest of the order is linked at the end of its level.                *)
LEMMA RestOrderKeeps ==
  ASSUME BookInv, RestOrder
  PROVE  BookInv'
<1> DEFINE q == levels[order.side][order.price]
<1>1. /\ pc = "outer" /\ pc' = "idle" /\ ~Crosses /\ order.quantity > 0
      /\ order.price <= MaxPrice /\ free_index > 0
      /\ order' = NoOrder /\ incoming' = NoOrder
      /\ UNCHANGED <<trades, arrivals>>
      /\ free_index' = free_index - 1
      /\ levels' = [levels EXCEPT ![order.side][order.price] = Append(@, order)]
  BY DEF RestOrder, Unmatched, HasNode, Return, CanAllocate, allocate,
         add_order_to_level
<1>2. /\ order.side \in Sides /\ order.price \in Levels /\ order.price > 0
      /\ order \in Order /\ order.order_id = arrivals
  BY <1>1, Facts, BookAssumption DEF Sides, CallInv, Types
<1>3. Settled = arrivals - 1 /\ Settled' = arrivals /\ Settled \in Int
  BY <1>1, Facts DEF Settled
<1>4. LevelOK(Append(q, order), order.side, order.price, arrivals) /\ Append(q, order) # <<>>
  <2>1. LevelOK(q, order.side, order.price, Settled)
    BY <1>2 DEF BookInv, LevelsInv
  <2>2. order.order_id = Settled + 1 /\ arrivals = Settled + 1
    BY <1>2, <1>3, Facts
  <2>3. QED BY <1>1, <1>2, <1>3, <2>1, <2>2, AppendLevel
<1>5. \A s \in Sides, p \in Levels :
        levels'[s][p] = IF s = order.side /\ p = order.price THEN Append(q, order)
                        ELSE levels[s][p]
  BY <1>1, <1>2, Facts DEF Types
<1>6. LevelsInv'
  <2>1. ASSUME NEW s \in Sides, NEW p \in Levels
        PROVE  LevelOK(levels[s][p], s, p, arrivals)
    <3>1. LevelOK(levels[s][p], s, p, Settled) /\ arrivals = Settled + 1
      BY <1>3, Facts DEF BookInv, LevelsInv
    <3>2. QED BY <1>3, <3>1, LaterLevel
  <2>2. ASSUME NEW s \in Sides, NEW p \in Levels
        PROVE  LevelOK(levels'[s][p], s, p, arrivals)
    BY <1>4, <1>5, <2>1
  <2>3. QED BY <1>3, <2>2 DEF LevelsInv
<1>7. Types'
  <2>1. NoOrder \in Order
    BY DEF NoOrder, Order, Sides
  <2>2. levels' \in [Sides -> [Levels -> Seq(Order)]]
    BY <1>1, <1>4, Facts DEF Types, LevelOK
  <2>3. best_bid' \in Levels /\ best_ask' \in 0..(MaxPrice + 1) \cup {UINT64_MAX}
    BY <1>1, <1>2, Facts DEF RestOrder, Types
  <2>4. free_index' \in Nat
    BY <1>1, Facts
  <2>5. QED BY <1>1, <2>1, <2>2, <2>3, <2>4, Facts DEF Types
<1>8. CallInv'
  BY <1>1 DEF CallInv
<1>9. CASE order.side = "BUY"
  <2>1. /\ BidPrices' = BidPrices \cup {order.price} /\ AskPrices' = AskPrices
        /\ best_ask' = best_ask
        /\ best_bid' = IF order.price > best_bid THEN order.price ELSE best_bid
    BY <1>2, <1>4, <1>5, <1>9 DEF BidPrices, AskPrices, Sides, RestOrder
  <2>2. best_ask = UINT64_MAX \/ best_ask > order.price
    BY <1>1, <1>9, Facts DEF Crosses
  <2>3. \A a \in AskPrices : order.price < a
    BY <1>1, <2>2, Facts DEF QuotesBound
  <2>4. NeverCrossed'
    BY <2>1, <2>3, Facts DEF NeverCrossed
  <2>5. QuotesBound'
    BY <1>2, <2>1, Facts DEF QuotesBound
  <2>6. QuotesTight'
    BY <1>1, <1>2, <2>1, Facts DEF QuotesTight
  <2>7. QED BY <1>6, <1>7, <1>8, <2>4, <2>5, <2>6 DEF BookInv
<1>10. CASE order.side = "SELL"
  <2>1. /\ AskPrices' = AskPrices \cup {order.price} /\ BidPrices' = BidPrices
        /\ best_bid' = best_bid
        /\ best_ask' = IF order.price < best_ask THEN order.price ELSE best_ask
    BY <1>2, <1>4, <1>5, <1>10 DEF BidPrices, AskPrices, Sides, RestOrder
  <2>2. best_bid = 0 \/ best_bid < order.price
    BY <1>1, <1>10, Facts DEF Crosses
  <2>3. \A b \in BidPrices : b < order.price
    BY <1>1, <2>2, Facts DEF QuotesBound
  <2>4. NeverCrossed'
    BY <2>1, <2>3, Facts DEF NeverCrossed
  <2>5. QuotesBound'
    BY <1>2, <2>1, Facts DEF QuotesBound
  <2>6. QuotesTight'
    BY <1>1, <1>2, <2>1, Facts DEF QuotesTight
  <2>7. QED BY <1>6, <1>7, <1>8, <2>4, <2>5, <2>6 DEF BookInv
<1>11. QED BY <1>9, <1>10, Facts

(* A step that changes no variable keeps the invariant.                    *)
LEMMA BookInvStutter ==
  ASSUME BookInv, UNCHANGED vars
  PROVE  BookInv'
<1> USE DEF vars
<1>1. Types' /\ CallInv'
  BY Facts DEF Types, CallInv, Quote
<1>2. LevelsInv' /\ NeverCrossed' /\ QuotesBound' /\ QuotesTight'
  BY DEF BookInv, LevelsInv, Settled, NeverCrossed, QuotesBound, QuotesTight,
         BidPrices, AskPrices
<1>3. QED BY <1>1, <1>2 DEF BookInv

(* BookInv is an invariant of the book.                                    *)
THEOREM BookInvariant == Spec => []BookInv
<1>1. Init => BookInv
  BY BookInvInit
<1>2. ASSUME BookInv, [Next]_vars PROVE BookInv'
  <2>1. CASE \E side \in Sides, price \in Prices, quantity \in Quantities :
               ProcessOrder(side, price, quantity)
    BY <1>2, <2>1, ProcessOrderKeeps
  <2>2. CASE EnterLevel
    BY <1>2, <2>2, EnterLevelKeeps
  <2>3. CASE Fill
    BY <1>2, <2>3, FillKeeps
  <2>4. CASE LeaveEmptyLevel
    BY <1>2, <2>4, LeaveEmptyLevelKeeps
  <2>5. CASE SkipLevel
    BY <1>2, <2>5, SkipLevelKeeps
  <2>6. CASE EndScan
    BY <1>2, <2>6, EndScanKeeps
  <2>7. CASE RestOrder
    BY <1>2, <2>7, RestOrderKeeps
  <2>8. CASE DropOrder \/ OrderFilled
    BY <1>2, <2>8, ReturnKeeps
  <2>9. CASE UNCHANGED vars
    BY <1>2, <2>9, BookInvStutter
  <2>10. QED
    BY <1>2, <2>1, <2>2, <2>3, <2>4, <2>5, <2>6, <2>7, <2>8, <2>9 DEF Next, Step
<1>3. QED BY <1>1, <1>2, PTL DEF Spec

(* No buyer ever rests at a price at which, or above which, a seller rests. *)
THEOREM NeverCrossedAlways == Spec => []NeverCrossed
<1>1. BookInv => NeverCrossed
  BY DEF BookInv
<1>2. QED BY <1>1, BookInvariant, PTL

(* Between two calls the cached quotes are the best prices of the book.    *)
THEOREM BestQuotesExactAlways == Spec => []BestQuotesExact
<1>1. ASSUME BookInv PROVE BestQuotesExact
  BY <1>1, Facts DEF BestQuotesExact, QuotesBound, QuotesTight
<1>2. QED BY <1>1, BookInvariant, PTL
-----------------------------------------------------------------------------
(* The nodes of the pool.                                                  *)
PoolInv ==
  /\ IsFiniteSet(Resting)
  /\ Cardinality(Resting) + free_index = PoolSize

(* A resting order is an element of the level its side and price name.     *)
LEMMA RestingLevel ==
  ASSUME BookInv, NEW o
  PROVE  /\ o \in Resting <=>
              \E s \in Sides, p \in Levels : \E i \in 1..Len(levels[s][p]) : o = levels[s][p][i]
         /\ o \in Resting =>
              /\ o \in Order /\ o.side \in Sides /\ o.price \in Levels
              /\ o \in Range(levels[o.side][o.price])
              /\ o.order_id <= Settled
<1>1. ASSUME NEW s \in Sides, NEW p \in Levels
      PROVE  /\ Range(levels[s][p]) = {levels[s][p][i] : i \in 1..Len(levels[s][p])}
             /\ LevelOK(levels[s][p], s, p, Settled)
  BY DEF BookInv, LevelsInv, LevelOK, Range
<1>2. o \in Resting <=> \E s \in Sides, p \in Levels : o \in Range(levels[s][p])
  BY DEF Resting
<1>3. ASSUME NEW s \in Sides, NEW p \in Levels, o \in Range(levels[s][p])
      PROVE  o \in Order /\ o.side = s /\ o.price = p /\ o.order_id <= Settled
  <2>1. PICK i \in 1..Len(levels[s][p]) : o = levels[s][p][i]
    BY <1>1, <1>3
  <2>2. QED BY <1>1, <2>1, ElementOfSeq DEF LevelOK
<1>4. ASSUME o \in Resting
      PROVE  /\ o \in Order /\ o.side \in Sides /\ o.price \in Levels
             /\ o \in Range(levels[o.side][o.price])
             /\ o.order_id <= Settled
  <2>1. PICK s \in Sides, p \in Levels : o \in Range(levels[s][p])
    BY <1>2, <1>4
  <2>2. QED BY <1>3, <2>1
<1>5. o \in Resting <=>
        \E s \in Sides, p \in Levels : \E i \in 1..Len(levels[s][p]) : o = levels[s][p][i]
  BY <1>1, <1>2
<1>6. QED BY <1>4, <1>5

(* When one level changes, its orders are replaced and no others.          *)
LEMMA LevelChange ==
  ASSUME BookInv, NEW side \in Sides, NEW price \in Levels, NEW r,
         \A s \in Sides, p \in Levels :
           levels'[s][p] = IF s = side /\ p = price THEN r ELSE levels[s][p]
  PROVE  Resting' = (Resting \ Range(levels[side][price])) \cup Range(r)
<1>1. ASSUME NEW o PROVE o \in Resting' <=> \E s \in Sides, p \in Levels : o \in Range(levels'[s][p])
  BY DEF Resting
<1>2. ASSUME NEW o PROVE o \in Resting <=> \E s \in Sides, p \in Levels : o \in Range(levels[s][p])
  BY DEF Resting
<1>3. ASSUME NEW o, NEW s \in Sides, NEW p \in Levels, o \in Range(levels[s][p])
      PROVE  o.side = s /\ o.price = p
  <2>1. PICK i \in 1..Len(levels[s][p]) : o = levels[s][p][i]
    BY <1>3 DEF BookInv, LevelsInv, LevelOK, Range
  <2>2. QED BY <2>1 DEF BookInv, LevelsInv, LevelOK
<1>4. ASSUME NEW o PROVE o \in Resting' => o \in (Resting \ Range(levels[side][price])) \cup Range(r)
  BY <1>1, <1>2, <1>3
<1>5. ASSUME NEW o PROVE o \in (Resting \ Range(levels[side][price])) \cup Range(r) => o \in Resting'
  BY <1>1, <1>2, <1>3
<1>6. QED BY <1>4, <1>5

(* Without its head, a level holds its other orders.                       *)
LEMMA TailRange ==
  ASSUME NEW q, NEW side, NEW p, NEW n, LevelOK(q, side, p, n), q # <<>>
  PROVE  Range(Tail(q)) = Range(q) \ {q[1]}
<1>1. /\ q \in Seq(Order) /\ Tail(q) \in Seq(Order)
      /\ Len(q) \in Nat /\ Len(q) > 0 /\ Len(Tail(q)) = Len(q) - 1
      /\ \A i \in 1..Len(Tail(q)) : Tail(q)[i] = q[i + 1] /\ i + 1 \in 1..Len(q)
  BY HeadTailProperties, LenProperties DEF LevelOK
<1>2. /\ Range(q) = {q[i] : i \in 1..Len(q)}
      /\ Range(Tail(q)) = {Tail(q)[i] : i \in 1..Len(Tail(q))}
  BY <1>1, RangeEquality
<1>3. \A i \in 2..Len(q) : q[i] # q[1]
  <2>1. \A i \in 1..Len(q) : q[i].order_id \in Nat
    BY <1>1, ElementsOfLevel
  <2>2. \A i \in 2..Len(q) : q[1].order_id < q[i].order_id
    BY <1>1 DEF LevelOK
  <2>3. QED BY <1>1, <2>1, <2>2
<1>4. ASSUME NEW o \in Range(Tail(q)) PROVE o \in Range(q) \ {q[1]}
  BY <1>1, <1>2, <1>3
<1>5. ASSUME NEW o \in Range(q) \ {q[1]} PROVE o \in Range(Tail(q))
  <2>1. PICK i \in 1..Len(q) : o = q[i] /\ i # 1
    BY <1>2
  <2>2. i - 1 \in 1..Len(Tail(q)) /\ (i - 1) + 1 = i
    BY <1>1, <2>1
  <2>3. Tail(q)[i - 1] = o
    BY <1>1, <2>1, <2>2
  <2>4. QED BY <1>2, <2>2, <2>3
<1>6. QED BY <1>4, <1>5

(* What a sequence holds after one more element is appended.               *)
LEMMA AppendRange ==
  ASSUME NEW q \in Seq(Order), NEW o \in Order
  PROVE  Range(Append(q, o)) = Range(q) \cup {o}
<1>1. /\ Append(q, o) \in Seq(Order) /\ Len(q) \in Nat
      /\ Len(Append(q, o)) = Len(q) + 1
      /\ \A i \in 1..Len(q) : Append(q, o)[i] = q[i]
      /\ Append(q, o)[Len(q) + 1] = o
  BY AppendProperties, LenProperties
<1>2. /\ Range(q) = {q[i] : i \in 1..Len(q)}
      /\ Range(Append(q, o)) = {Append(q, o)[i] : i \in 1..Len(Append(q, o))}
  BY <1>1, RangeEquality
<1>3. ASSUME NEW x \in Range(Append(q, o)) PROVE x \in Range(q) \cup {o}
  <2>1. PICK i \in 1..(Len(q) + 1) : x = Append(q, o)[i]
    BY <1>1, <1>2
  <2>2. CASE i \in 1..Len(q)
    BY <1>1, <1>2, <2>1, <2>2
  <2>3. CASE i = Len(q) + 1
    BY <1>1, <2>1, <2>3
  <2>4. QED BY <1>1, <2>1, <2>2, <2>3
<1>4. ASSUME NEW x \in Range(q) \cup {o} PROVE x \in Range(Append(q, o))
  <2>1. CASE x \in Range(q)
    <3>1. PICK i \in 1..Len(q) : x = q[i]
      BY <1>2, <2>1
    <3>2. i \in 1..Len(Append(q, o)) /\ Append(q, o)[i] = x
      BY <1>1, <3>1
    <3>3. QED BY <1>2, <3>2
  <2>2. CASE x = o
    <3>1. Len(q) + 1 \in 1..Len(Append(q, o))
      BY <1>1
    <3>2. QED BY <1>1, <1>2, <2>2, <3>1
  <2>3. QED BY <1>4, <2>1, <2>2
<1>5. QED BY <1>3, <1>4

(* A partly filled head replaces itself, and equals no other order.        *)
LEMMA PartialRange ==
  ASSUME NEW q, NEW side, NEW p, NEW n, LevelOK(q, side, p, n), q # <<>>,
         NEW e \in Order, e.order_id = q[1].order_id,
         NEW r \in Seq(Order), Len(r) = Len(q),
         \A i \in 1..Len(q) : r[i] = IF i = 1 THEN e ELSE q[i]
  PROVE  /\ Range(r) = (Range(q) \ {q[1]}) \cup {e}
         /\ e \notin Range(q) \ {q[1]}
<1>1. q \in Seq(Order) /\ Len(q) \in Nat /\ 1 \in 1..Len(q)
  BY LenProperties DEF LevelOK
<1>2. Range(q) = {q[i] : i \in 1..Len(q)} /\ Range(r) = {r[i] : i \in 1..Len(q)}
  BY <1>1, RangeEquality
<1>3. \A i \in 2..Len(q) : q[i] # q[1] /\ q[i] # e
  <2>1. \A i \in 1..Len(q) : q[i].order_id \in Nat
    BY <1>1, ElementsOfLevel
  <2>2. \A i \in 2..Len(q) : q[1].order_id < q[i].order_id
    BY <1>1 DEF LevelOK
  <2>3. QED BY <1>1, <2>1, <2>2
<1>4. e \notin Range(q) \ {q[1]}
  BY <1>1, <1>2, <1>3
<1>5. ASSUME NEW o \in Range(r) PROVE o \in (Range(q) \ {q[1]}) \cup {e}
  BY <1>1, <1>2, <1>3
<1>6. ASSUME NEW o \in (Range(q) \ {q[1]}) \cup {e} PROVE o \in Range(r)
  <2>1. CASE o = e
    BY <1>1, <1>2, <2>1
  <2>2. CASE o # e
    <3>1. PICK i \in 1..Len(q) : o = q[i] /\ i # 1
      BY <1>1, <1>2, <1>6, <2>2
    <3>2. QED BY <1>2, <3>1
  <2>3. QED BY <2>1, <2>2
<1>7. QED BY <1>4, <1>5, <1>6

(* The order Fill trades with, for how much, and what is left of it.       *)
Maker == Head(QuotedLevel)
FillQty == min(order.quantity, Maker.quantity)
MakerLeft == [Maker EXCEPT !.quantity = @ - FillQty]

(* Fill takes the maker off the book, or replaces it by what is left of it. *)
LEMMA FillResting ==
  ASSUME BookInv, Fill
  PROVE  /\ Maker \in Resting
         /\ FillQty \in Nat /\ Maker.quantity \in Nat /\ FillQty <= Maker.quantity
         /\ Maker.quantity = FillQty =>
              Resting' = Resting \ {Maker} /\ free_index' = free_index + 1
         /\ Maker.quantity # FillQty =>
              /\ MakerLeft \notin Resting \ {Maker}
              /\ Resting' = (Resting \ {Maker}) \cup {MakerLeft}
              /\ free_index' = free_index
<1> DEFINE side == Opposite(order.side)
           q == levels[side][Quote]
           current == Head(q)
           f == min(order.quantity, current.quantity)
           rest == IF current.quantity = f THEN Tail(q)
                   ELSE [q EXCEPT ![1].quantity = @ - f]
           e == [current EXCEPT !.quantity = @ - f]
<1>0. Maker = current /\ FillQty = f /\ MakerLeft = e
  BY DEF Maker, FillQty, MakerLeft, QuotedLevel
<1>1. /\ side \in Sides /\ Quote \in Levels
      /\ q # <<>> /\ LevelOK(q, side, Quote, Settled)
  BY Facts DEF Fill, CallInv, QuotedLevel, BookInv, LevelsInv, Opposite, Sides
<1>2. /\ current = q[1] /\ current.quantity \in Nat
      /\ current \in Range(q) /\ Range(q) \subseteq Resting
  <2>1. q \in Seq(Order) /\ 1 \in 1..Len(q) /\ current = q[1]
    BY <1>1 DEF LevelOK
  <2>2. q[1] \in Order
    BY <2>1, ElementsOfLevel
  <2>3. current.quantity \in Nat
    BY <2>1, <2>2 DEF Order
  <2>4. current \in Range(q) /\ Range(q) \subseteq Resting
    BY <1>1, <2>1, RangeEquality DEF Resting
  <2>5. QED BY <2>1, <2>3, <2>4
<1>3. /\ levels' = [levels EXCEPT ![side][Quote] = rest]
      /\ free_index' = IF current.quantity = f THEN free_index + 1 ELSE free_index
  BY DEF Fill, QuotedLevel, remove_order_from_level, deallocate
<1>4. \A s \in Sides, p \in Levels :
        levels'[s][p] = IF s = side /\ p = Quote THEN rest ELSE levels[s][p]
  BY <1>1, <1>3, Facts DEF Types
<1>5. f \in Nat /\ f <= current.quantity
  BY <1>2, Facts DEF min
<1> HIDE DEF f, current, side, q, rest, e
<1>6. Resting' = (Resting \ Range(q)) \cup Range(rest)
  BY <1>1, <1>4, LevelChange DEF q
<1>7. CASE current.quantity = f
  <2>1. rest = Tail(q) /\ Range(Tail(q)) = Range(q) \ {current}
    BY <1>1, <1>2, <1>7, TailRange DEF rest
  <2>2. Resting' = Resting \ {current}
    BY <1>2, <1>6, <2>1
  <2>3. QED BY <1>0, <1>2, <1>3, <1>5, <1>7, <2>2
<1>8. CASE current.quantity # f
  <2>1. f < q[1].quantity
    BY <1>2, <1>5, <1>8
  <2>2. /\ Range(rest) = (Range(q) \ {current}) \cup {e}
        /\ e \notin Range(q) \ {current}
        /\ e.side = side /\ e.price = Quote
    <3>1. q \in Seq(Order) /\ 1 \in 1..Len(q) /\ q[1] \in Order
          /\ q[1].side = side /\ q[1].price = Quote
      BY <1>1, ElementsOfLevel DEF LevelOK
    <3>2. q[1].quantity - f \in Nat
      BY <1>5, <2>1, <3>1 DEF Order
    <3>3. e \in Order /\ e.order_id = q[1].order_id /\ e.side = side /\ e.price = Quote
      BY <1>2, <3>1, <3>2 DEF e, Order
    <3>4. rest = [q EXCEPT ![1] = e]
      BY <1>2, <1>8 DEF rest, e
    <3>5. rest \in Seq(Order) /\ Len(rest) = Len(q)
          /\ \A i \in 1..Len(q) : rest[i] = IF i = 1 THEN e ELSE q[i]
      BY <3>1, <3>3, <3>4, ExceptSeq
    <3>6. QED BY <1>1, <1>2, <3>3, <3>5, PartialRange
  <2>3. e \notin Resting \ {current}
    BY <2>2, RestingLevel DEF q
  <2>4. Resting' = (Resting \ {current}) \cup {e}
    BY <1>2, <1>6, <2>2
  <2>5. QED BY <1>0, <1>2, <1>3, <1>5, <1>8, <2>3, <2>4
<1>9. QED BY <1>7, <1>8

(* Resting an order adds it, and nothing else, to the resting orders.      *)
LEMMA RestOrderResting ==
  ASSUME BookInv, RestOrder
  PROVE  /\ Resting' = Resting \cup {order} /\ order \notin Resting
         /\ free_index' = free_index - 1
<1> DEFINE q == levels[order.side][order.price]
<1>1. /\ order.side \in Sides /\ order.price \in Levels /\ order \in Order
      /\ order.order_id = arrivals /\ Settled = arrivals - 1
  BY Facts DEF Sides, RestOrder, Unmatched, HasNode, CallInv, Types, Settled
<1>2. q \in Seq(Order) /\ Range(q) \subseteq Resting
  BY <1>1 DEF BookInv, LevelsInv, LevelOK, Resting
<1>3. levels' = [levels EXCEPT ![order.side][order.price] = Append(q, order)]
  BY DEF RestOrder, add_order_to_level
<1>4. \A s \in Sides, p \in Levels :
        levels'[s][p] = IF s = order.side /\ p = order.price THEN Append(q, order)
                        ELSE levels[s][p]
  BY <1>1, <1>3, Facts DEF Types
<1>5. Resting' = (Resting \ Range(q)) \cup Range(Append(q, order))
  BY <1>1, <1>4, LevelChange
<1>6. Range(Append(q, order)) = Range(q) \cup {order}
  BY <1>1, <1>2, AppendRange
<1>7. order \notin Resting
  BY <1>1, Facts, RestingLevel
<1>8. QED BY <1>2, <1>5, <1>6, <1>7 DEF RestOrder, allocate

(* At first every node is free.                                            *)
LEMMA PoolInvInit == Init => PoolInv
<1> SUFFICES ASSUME Init PROVE PoolInv
  OBVIOUS
<1>1. \A s \in Sides, p \in Levels : Range(levels[s][p]) = {}
  BY DEF Init, Range
<1>2. Resting = {}
  BY <1>1 DEF Resting
<1>3. QED BY <1>2, FS_EmptySet, BookAssumption DEF PoolInv, Init

(* Every step that adds or removes a resting order takes or gives back one *)
(* node.                                                                   *)
LEMMA PoolInvStep ==
  ASSUME BookInv, PoolInv, [Next]_vars
  PROVE  PoolInv'
<1>1. free_index \in Nat /\ Cardinality(Resting) \in Nat /\ IsFiniteSet(Resting)
  BY Facts, FS_CardinalityType DEF PoolInv
<1>2. CASE Fill
  <2>1. /\ IsFiniteSet(Resting \ {Maker})
        /\ Cardinality(Resting \ {Maker}) = Cardinality(Resting) - 1
    BY <1>1, <1>2, FillResting, FS_RemoveElement
  <2>2. CASE Maker.quantity = FillQty
    BY <1>1, <1>2, <2>1, <2>2, FillResting DEF PoolInv
  <2>3. CASE Maker.quantity # FillQty
    BY <1>1, <1>2, <2>1, <2>3, FillResting, FS_AddElement DEF PoolInv
  <2>4. QED BY <2>2, <2>3
<1>3. CASE RestOrder
  BY <1>1, <1>3, RestOrderResting, FS_AddElement DEF PoolInv
<1>4. CASE UNCHANGED <<levels, free_index>>
  BY <1>4 DEF PoolInv, Resting
<1>5. QED
  BY <1>2, <1>3, <1>4 DEF Next, Step, vars, ProcessOrder, EnterLevel,
     LeaveEmptyLevel, SkipLevel, EndScan, DropOrder, OrderFilled

(* Every node of the pool is free or holds one resting order.              *)
THEOREM PoolAccountingAlways == Spec => []PoolAccounting
<1>1. Spec => []PoolInv
  BY PoolInvInit, PoolInvStep, BookInvariant, PTL DEF Spec
<1>2. PoolInv => PoolAccounting
  BY DEF PoolInv, PoolAccounting
<1>3. QED BY <1>1, <1>2, PTL

(* The variables keep their types; the free nodes never exceed the pool,   *)
(* and the quote is an index of the arrays whenever a level is open.       *)
THEOREM TypeCorrect == Spec => []TypeOK
<1>1. Spec => []PoolInv
  BY PoolInvInit, PoolInvStep, BookInvariant, PTL DEF Spec
<1>2. BookInv /\ PoolInv => TypeOK
  <2> SUFFICES ASSUME BookInv, PoolInv PROVE TypeOK
    OBVIOUS
  <2>1. free_index \in 0..PoolSize
    BY Facts, FS_CardinalityType, BookAssumption DEF PoolInv
  <2>2. QED BY <2>1 DEF TypeOK, BookInv, Types, CallInv
<1>3. QED BY <1>1, <1>2, BookInvariant, PTL
-----------------------------------------------------------------------------
(* An order has its own id, and a positive quantity; while the order in    *)
(* progress can still trade, those it has traded with are gone.            *)
TapeInv ==
  /\ \A a, b \in Resting : a.order_id = b.order_id => a = b
  /\ IsFiniteSet(UnitsTraded)
  /\ QuantityConserved
  /\ pc # "idle" /\ order.quantity > 0 =>
       \A o \in Resting, i \in 1..Len(trades) : o.order_id # trades[i].maker

(* A resting order has a quantity left.                                    *)
LEMMA RestingPositive ==
  ASSUME BookInv, NEW o \in Resting
  PROVE  o.quantity \in Nat /\ o.quantity > 0 /\ o.order_id \in Nat /\ o.order_id <= Settled
<1>1. o \in Order /\ o.order_id <= Settled
  BY RestingLevel
<1>2. PICK s \in Sides, p \in Levels : \E i \in 1..Len(levels[s][p]) : o = levels[s][p][i]
  BY RestingLevel
<1>3. o.quantity > 0
  BY <1>2 DEF BookInv, LevelsInv, LevelOK
<1> QED BY <1>1, <1>3 DEF Order

(* A trade of q units adds q to those traded.                              *)
LEMMA UnitsAdded ==
  ASSUME trades \in Seq(Trade), IsFiniteSet(UnitsTraded), NEW trade \in Trade,
         trades' = Append(trades, trade)
  PROVE  /\ IsFiniteSet(UnitsTraded')
         /\ Cardinality(UnitsTraded') = Cardinality(UnitsTraded) + trade.quantity
<1> DEFINE n == Len(trades)
           more == {n + 1} \X (1..trade.quantity)
<1>1. /\ n \in Nat /\ DOMAIN trades = 1..n /\ DOMAIN trades' = 1..(n + 1)
      /\ \A i \in 1..n : trades'[i] = trades[i]
      /\ trades'[n + 1] = trade
      /\ trade.quantity \in Nat
  BY DEF Trade
<1> HIDE DEF n
<1>2. UnitsTraded' = UnitsTraded \cup more
  <2>1. ASSUME NEW x \in UnitsTraded' PROVE x \in UnitsTraded \cup more
    <3>1. PICK i \in 1..(n + 1) : x \in {i} \X (1..trades'[i].quantity)
      BY <1>1 DEF UnitsTraded
    <3>2. CASE i = n + 1
      BY <1>1, <3>1, <3>2
    <3>3. CASE i \in 1..n
      BY <1>1, <3>1, <3>3 DEF UnitsTraded
    <3> QED BY <1>1, <3>2, <3>3
  <2>2. ASSUME NEW x \in UnitsTraded PROVE x \in UnitsTraded'
    <3>1. PICK i \in 1..n : x \in {i} \X (1..trades[i].quantity)
      BY <1>1 DEF UnitsTraded
    <3>2. i \in 1..(n + 1) /\ trades'[i] = trades[i]
      BY <1>1
    <3> QED BY <1>1, <3>1, <3>2 DEF UnitsTraded
  <2>3. more \subseteq UnitsTraded'
    <3>1. n + 1 \in 1..(n + 1)
      BY <1>1
    <3> QED BY <1>1, <3>1 DEF UnitsTraded
  <2> QED BY <2>1, <2>2, <2>3
<1>3. UnitsTraded \cap more = {}
  <2> SUFFICES ASSUME NEW x \in UnitsTraded, x \in more PROVE FALSE
    OBVIOUS
  <2>1. PICK i \in 1..n : x \in {i} \X (1..trades[i].quantity)
    BY <1>1 DEF UnitsTraded
  <2>2. x[1] = i /\ x[1] = n + 1
    BY <2>1
  <2> QED BY <1>1, <2>2
<1>4. IsFiniteSet(more) /\ Cardinality(more) = trade.quantity
  <2>1. IsFiniteSet({n + 1}) /\ Cardinality({n + 1}) = 1
    BY FS_Singleton
  <2>2. IsFiniteSet(1..trade.quantity) /\ Cardinality(1..trade.quantity) = trade.quantity
    <3> DEFINE q == trade.quantity
    <3>1. q \in Nat /\ q \in Int /\ 1 \in Int
      BY <1>1
    <3> HIDE DEF q
    <3>2. /\ IsFiniteSet(1..q)
          /\ Cardinality(1..q) = IF 1 > q THEN 0 ELSE q - 1 + 1
      BY <3>1, FS_Interval
    <3>3. IsFiniteSet(1..q) /\ Cardinality(1..q) = q
      BY <3>1, <3>2
    <3> QED BY <3>3 DEF q
  <2>3. /\ IsFiniteSet(more)
        /\ Cardinality(more) = Cardinality({n + 1}) * Cardinality(1..trade.quantity)
    BY <2>1, <2>2, FS_Product
  <2> QED BY <1>1, <2>1, <2>2, <2>3
<1> HIDE DEF more
<1>5. /\ IsFiniteSet(UnitsTraded \cup more)
      /\ Cardinality(UnitsTraded \cup more)
           = Cardinality(UnitsTraded) + Cardinality(more) - Cardinality({})
  BY <1>3, <1>4, FS_Union
<1>6. Cardinality({}) = 0 /\ Cardinality(UnitsTraded) \in Nat
  BY FS_EmptySet, FS_CardinalityType
<1> QED BY <1>1, <1>2, <1>4, <1>5, <1>6

(* At first nothing rests and nothing is traded.                           *)
LEMMA TapeInvInit == Init => TapeInv
<1> SUFFICES ASSUME Init PROVE TapeInv
  OBVIOUS
<1>1. Resting = {}
  BY DEF Init, Resting, Range
<1>2. DOMAIN trades = {} /\ pc = "idle"
  BY DEF Init
<1>3. UnitsTraded = {}
  BY <1>2 DEF UnitsTraded
<1>4. QED BY <1>1, <1>2, <1>3, FS_EmptySet DEF TapeInv, QuantityConserved

(* A call begins with an empty tape and everything left of its order.      *)
LEMMA ProcessOrderTape ==
  ASSUME BookInv, TapeInv, NEW side \in Sides, NEW price \in Prices,
         NEW quantity \in Quantities, ProcessOrder(side, price, quantity)
  PROVE  TapeInv'
<1>1. /\ levels' = levels /\ trades' = <<>>
      /\ incoming'.quantity = quantity /\ order'.quantity = quantity
      /\ quantity \in Nat
  BY BookAssumption DEF ProcessOrder
<1>2. Resting' = Resting
  BY <1>1 DEF Resting
<1>3. DOMAIN trades' = {} /\ Len(trades') = 0
  BY <1>1
<1>4. UnitsTraded' = {}
  BY <1>3 DEF UnitsTraded
<1>5. IsFiniteSet(UnitsTraded') /\ Cardinality(UnitsTraded') = 0
  BY <1>4, FS_EmptySet
<1>6. QuantityConserved'
  BY <1>1, <1>3, <1>5 DEF QuantityConserved
<1>7. QED BY <1>2, <1>3, <1>5, <1>6 DEF TapeInv

(* A trade: what leaves the order goes to the tape, and if the order can   *)
(* still trade its partner has left the book.                              *)
LEMMA FillTape ==
  ASSUME BookInv, TapeInv, Fill
  PROVE  TapeInv'
<1> DEFINE n == Len(trades)
           trade == [maker |-> Maker.order_id, taker |-> order.order_id,
                     quantity |-> FillQty, price |-> Maker.price]
<1>1. /\ pc = "level" /\ pc' = pc /\ order.quantity > 0
      /\ trades' = Append(trades, trade)
      /\ order' = [order EXCEPT !.quantity = @ - FillQty]
      /\ incoming' = incoming
  BY DEF Fill, Maker, FillQty, QuotedLevel
<1>2. /\ Maker \in Resting /\ Maker \in Order
      /\ Maker.quantity \in Nat /\ Maker.quantity > 0
      /\ FillQty \in Nat /\ FillQty <= Maker.quantity
  BY RestingLevel, RestingPositive, FillResting
<1>3. /\ order \in Order /\ order.quantity \in Nat /\ order.order_id \in Nat
      /\ trades \in Seq(Trade) /\ incoming \in Order
  BY Facts DEF Types
<1>4. /\ FillQty > 0 /\ FillQty <= order.quantity
      /\ FillQty = order.quantity \/ FillQty = Maker.quantity
  BY <1>1, <1>2, <1>3 DEF FillQty, min
<1>5. trade \in Trade
  BY <1>2, <1>3 DEF Trade, Order
<1>6. /\ order'.quantity = order.quantity - FillQty
      /\ order'.quantity \in Nat
  BY <1>1, <1>2, <1>3, <1>4 DEF Order
<1>7. /\ n \in Nat /\ DOMAIN trades = 1..n /\ DOMAIN trades' = 1..(n + 1)
      /\ Len(trades') = n + 1
      /\ \A i \in 1..n : trades'[i] = trades[i]
      /\ trades'[n + 1] = trade
  BY <1>1, <1>3, <1>5
<1>8. /\ IsFiniteSet(UnitsTraded')
      /\ Cardinality(UnitsTraded') = Cardinality(UnitsTraded) + FillQty
      /\ Cardinality(UnitsTraded) \in Nat
  BY <1>1, <1>3, <1>5, UnitsAdded, FS_CardinalityType DEF TapeInv
<1>9. \A i \in 1..n : trades[i].maker # Maker.order_id
  BY <1>1, <1>2 DEF TapeInv
<1>10. trade.maker = Maker.order_id /\ trade.quantity = FillQty
  OBVIOUS
<1> HIDE DEF n, trade
<1>11. QuantityConserved'
  <2>1. incoming'.quantity = order'.quantity + Cardinality(UnitsTraded')
    <3>1. incoming.quantity = order.quantity + Cardinality(UnitsTraded)
      BY <1>1 DEF TapeInv, QuantityConserved
    <3> QED BY <1>1, <1>2, <1>3, <1>6, <1>8, <3>1
  <2>2. \A i \in 1..n : trades[i].quantity > 0
    BY <1>1, <1>7 DEF TapeInv, QuantityConserved
  <2>3. \A i \in 1..n : \A j \in 1..n : i # j => trades[i].maker # trades[j].maker
    BY <1>1, <1>7 DEF TapeInv, QuantityConserved
  <2>4. ASSUME NEW i \in 1..(n + 1) PROVE trades'[i].quantity > 0
    BY <1>4, <1>7, <1>10, <2>2
  <2>5. ASSUME NEW i \in 1..(n + 1), NEW j \in 1..(n + 1), i # j
        PROVE  trades'[i].maker # trades'[j].maker
    BY <1>7, <1>9, <1>10, <2>3, <2>5
  <2> QED BY <1>7, <2>1, <2>4, <2>5 DEF QuantityConserved
<1>12. MakerLeft.order_id = Maker.order_id
  BY <1>2 DEF MakerLeft, Order
<1>13. \A a, b \in Resting' : a.order_id = b.order_id => a = b
  <2>1. \A a, b \in Resting : a.order_id = b.order_id => a = b
    BY DEF TapeInv
  <2>2. Resting' \subseteq (Resting \ {Maker}) \cup {MakerLeft}
    BY FillResting
  <2>3. \A a \in Resting \ {Maker} : a.order_id # MakerLeft.order_id
    BY <1>2, <1>12, <2>1
  <2> QED BY <2>1, <2>2, <2>3
<1>14. ASSUME order'.quantity > 0, NEW o \in Resting', NEW i \in 1..(n + 1)
       PROVE  o.order_id # trades'[i].maker
  <2>1. Maker.quantity = FillQty
    BY <1>2, <1>3, <1>4, <1>6, <1>14
  <2>2. o \in Resting /\ o # Maker
    BY <2>1, FillResting
  <2>3. o.order_id # Maker.order_id
    BY <1>2, <2>2 DEF TapeInv
  <2>4. CASE i = n + 1
    BY <1>7, <1>10, <2>3, <2>4
  <2>5. CASE i \in 1..n
    <3>1. o.order_id # trades[i].maker
      BY <1>1, <2>2, <2>5 DEF TapeInv, n
    <3> QED BY <1>7, <2>5, <3>1
  <2> QED BY <1>7, <2>4, <2>5
<1> QED BY <1>7, <1>8, <1>11, <1>13, <1>14 DEF TapeInv

(* The order that comes to rest is younger than every other.               *)
LEMMA RestOrderTape ==
  ASSUME BookInv, TapeInv, RestOrder
  PROVE  TapeInv'
<1>1. pc' = "idle" /\ trades' = trades
  BY DEF RestOrder, Return
<1>2. UnitsTraded' = UnitsTraded
  BY <1>1 DEF UnitsTraded
<1>3. order.order_id = arrivals /\ Settled = arrivals - 1 /\ arrivals \in Nat
  BY Facts DEF RestOrder, Unmatched, CallInv, Settled
<1>4. \A o \in Resting : o.order_id # order.order_id
  BY <1>3, RestingPositive
<1>5. Resting' = Resting \cup {order}
  BY RestOrderResting
<1>6. \A a, b \in Resting' : a.order_id = b.order_id => a = b
  BY <1>4, <1>5 DEF TapeInv
<1> QED BY <1>1, <1>2, <1>6 DEF TapeInv, QuantityConserved

(* The other steps touch neither the tape nor the orders.                  *)
LEMMA LookTape ==
  ASSUME TapeInv, UNCHANGED <<levels, trades>>,
         pc' = "idle" \/ (pc # "idle" /\ UNCHANGED <<order, incoming>>)
                      \/ UNCHANGED <<pc, order, incoming>>
  PROVE  TapeInv'
<1>1. Resting' = Resting /\ UnitsTraded' = UnitsTraded
  BY DEF Resting, UnitsTraded
<1> QED BY <1>1 DEF TapeInv, QuantityConserved

(* What an order has traded and what is left of it add up to what came in, *)
(* trade by trade, and no trade is empty or repeats a partner.             *)
THEOREM QuantityConservedAlways == Spec => []QuantityConserved
<1>1. ASSUME BookInv, TapeInv, [Next]_vars PROVE TapeInv'
  <2>1. CASE Fill
    BY <2>1, <1>1, FillTape
  <2>2. CASE RestOrder
    BY <2>2, <1>1, RestOrderTape
  <2>3. CASE DropOrder \/ OrderFilled
    <3>1. UNCHANGED <<levels, trades>> /\ pc' = "idle"
      BY <2>3 DEF DropOrder, OrderFilled, Return
    <3> QED BY <1>1, <3>1, LookTape
  <2>4. CASE EnterLevel \/ LeaveEmptyLevel \/ SkipLevel \/ EndScan
    <3>1. UNCHANGED <<levels, trades, order, incoming>> /\ pc # "idle"
      BY <2>4 DEF EnterLevel, LeaveEmptyLevel, SkipLevel, EndScan
    <3> QED BY <1>1, <3>1, LookTape
  <2>5. CASE UNCHANGED vars
    <3>1. UNCHANGED <<levels, trades>> /\ UNCHANGED <<pc, order, incoming>>
      BY <2>5 DEF vars
    <3> QED BY <1>1, <3>1, LookTape
  <2> QED BY <1>1, <2>1, <2>2, <2>3, <2>4, <2>5, ProcessOrderTape DEF Next, Step
<1>2. TapeInv => QuantityConserved
  BY DEF TapeInv
<1>3. QED BY <1>1, <1>2, TapeInvInit, BookInvariant, PTL DEF Spec
-----------------------------------------------------------------------------
(***************************************************************************)
(* OrderBook implements PriceTimePriority: each step of process_order is a *)
(* step of the abstract exchange or leaves its state as it is.             *)
(***************************************************************************)
(* Both modules count with the same Cardinality.                           *)
LEMMA SameCardinality == Exchange!Cardinality(Resting) = Cardinality(Resting)
BY DEF Exchange!Cardinality, Cardinality

(* The empty book is the empty exchange.                                   *)
LEMMA InitRefined == Init => Exchange!Init
<1> SUFFICES ASSUME Init PROVE Exchange!Init
  OBVIOUS
<1>1. \A s \in Sides, p \in Levels : Range(levels[s][p]) = {}
  BY DEF Init, Range
<1>2. Resting = {}
  BY <1>1 DEF Resting
<1>3. QED BY <1>2 DEF Init, Exchange!Init, NoOrder, Exchange!NoOrder

(* A call of process_order is an arrival.                                  *)
LEMMA ArrivalRefined ==
  ASSUME BookInv, NEW side \in Sides, NEW price \in Prices,
         NEW quantity \in Quantities, ProcessOrder(side, price, quantity)
  PROVE  Exchange!Next
<1>1. Exchange!Arrive(side, price, quantity)
  <2>1. order = NoOrder
    BY Facts DEF ProcessOrder, CallInv
  <2>2. Resting' = Resting
    BY DEF ProcessOrder, Resting
  <2>3. QED BY <2>1, <2>2 DEF ProcessOrder, Exchange!Arrive, NoOrder, Exchange!NoOrder
<1>2. QED BY <1>1 DEF Exchange!Next, Sides, Exchange!Sides

(* The head of the quoted level is the order the exchange must serve: no   *)
(* acceptable order has a better price, since none lies beyond the quote,  *)
(* and those at the same price stand behind it.                            *)
LEMMA HeadHasPriority ==
  ASSUME BookInv, Fill
  PROVE  /\ Exchange!HasPriority(order, Head(QuotedLevel))
         /\ Head(QuotedLevel) \in Resting
<1> DEFINE side == Opposite(order.side)
           q == levels[side][Quote]
           m == Head(q)
<1>1. /\ side \in Sides /\ Quote \in Levels /\ q # <<>>
      /\ LevelOK(q, side, Quote, Settled)
  BY Facts DEF Fill, CallInv, QuotedLevel, BookInv, LevelsInv, Opposite, Sides
<1>2. q \in Seq(Order) /\ 1 \in 1..Len(q) /\ m = q[1]
  BY <1>1 DEF LevelOK
<1>3. m \in Order /\ m.side = side /\ m.price = Quote /\ m.order_id \in Nat
  BY <1>1, <1>2, ElementsOfLevel DEF LevelOK
<1>4. m \in Resting
  BY <1>1, <1>2, RestingLevel
<1>5. side # order.side
  BY Facts DEF Opposite
<1>6. Exchange!Acceptable(order, m)
  BY <1>3, <1>5, Facts DEF Exchange!Acceptable, CallInv, Fill, Quote
<1>7. ASSUME NEW n \in Resting \ {m}, Exchange!Acceptable(order, n)
      PROVE  \/ Exchange!BetterPrice(order, m, n)
             \/ m.price = n.price /\ m.order_id < n.order_id
  <2>1. /\ n \in Order /\ n.side \in Sides /\ n.price \in Levels /\ n.price \in Nat
        /\ n \in Range(levels[n.side][n.price])
    BY RestingLevel, Facts
  <2>2. n.side = side
    BY <1>7, <2>1, Facts DEF Exchange!Acceptable, Opposite, Sides
  <2>3. CASE n.price = Quote
    <3>1. PICK i \in 1..Len(q) : n = q[i]
      BY <1>2, <2>1, <2>2, <2>3, RangeEquality
    <3>2. i # 1 /\ 1 < i
      BY <1>2, <3>1
    <3>3. m.order_id < n.order_id
      BY <1>1, <1>2, <3>1, <3>2 DEF LevelOK
    <3>4. QED BY <1>3, <2>3, <3>3
  <2>4. CASE n.price # Quote
    <3>1. levels[n.side][n.price] # <<>>
      BY <2>1 DEF Range
    <3>2. CASE order.side = "BUY"
      <4>1. n.price \in AskPrices /\ Quote = best_ask
        BY <2>1, <2>2, <3>1, <3>2 DEF AskPrices, Opposite, Quote
      <4>2. m.price < n.price
        BY <1>3, <2>1, <2>4, <4>1, Facts DEF QuotesBound
      <4>3. QED BY <3>2, <4>2 DEF Exchange!BetterPrice
    <3>3. CASE order.side = "SELL"
      <4>1. n.price \in BidPrices /\ Quote = best_bid
        BY <2>1, <2>2, <3>1, <3>3 DEF BidPrices, Opposite, Quote
      <4>2. m.price > n.price
        BY <1>3, <2>1, <2>4, <4>1, Facts DEF QuotesBound
      <4>3. QED BY <3>3, <4>2 DEF Exchange!BetterPrice
    <3>4. QED BY <3>2, <3>3, Facts
  <2>5. QED BY <2>3, <2>4
<1>8. QED BY <1>4, <1>6, <1>7 DEF Exchange!HasPriority, QuotedLevel

(* A trade with the head of the quoted level is a trade with the order     *)
(* that has priority.                                                      *)
LEMMA FillRefined ==
  ASSUME BookInv, Fill
  PROVE  Exchange!Next
<1>1. /\ Maker \in Resting /\ Maker \in Order
      /\ Exchange!HasPriority(order, Maker)
      /\ FillQty = Exchange!Lesser(order.quantity, Maker.quantity)
  BY HeadHasPriority, RestingLevel DEF Maker, FillQty, min, Exchange!Lesser
<1>2. /\ order.quantity > 0
      /\ trades' = Append(trades, [maker |-> Maker.order_id, taker |-> order.order_id,
                                   quantity |-> FillQty, price |-> Maker.price])
      /\ order' = [order EXCEPT !.quantity = @ - FillQty]
      /\ arrivals' = arrivals
  BY DEF Fill, Maker, FillQty
<1>3. MakerLeft.quantity = Maker.quantity - FillQty
  BY <1>1 DEF MakerLeft, Order
<1>4. Resting' = (Resting \ {Maker}) \cup {r \in {MakerLeft} : r.quantity > 0}
  <2>1. CASE Maker.quantity = FillQty
    <3>1. {r \in {MakerLeft} : r.quantity > 0} = {}
      BY <1>3, <2>1, FillResting
    <3>2. QED BY <2>1, <3>1, FillResting
  <2>2. CASE Maker.quantity # FillQty
    <3>1. {r \in {MakerLeft} : r.quantity > 0} = {MakerLeft}
      BY <1>3, <2>2, FillResting
    <3>2. QED BY <2>2, <3>1, FillResting
  <2>3. QED BY <2>1, <2>2
<1>5. Exchange!TradeWith(Maker)
  BY <1>1, <1>2, <1>4 DEF Exchange!TradeWith, MakerLeft
<1>6. QED BY <1>1, <1>5 DEF Exchange!Next

(* A price below or above which nothing acceptable rests.                  *)
LEMMA NothingAcceptable ==
  ASSUME BookInv, Unmatched
  PROVE  Exchange!Unmatchable
<1>1. SUFFICES ASSUME NEW m \in Resting PROVE ~Exchange!Acceptable(order, m)
  BY DEF Exchange!Unmatchable, Unmatched
<1>2. /\ m.side \in Sides /\ m.price \in Levels /\ m.price \in Nat /\ m.price <= MaxPrice
      /\ levels[m.side][m.price] # <<>>
  BY RestingLevel, Facts DEF Range
<1>3. CASE order.side = "BUY"
  <2>1. CASE m.side = "SELL"
    <3>1. m.price \in AskPrices
      BY <1>2, <2>1 DEF AskPrices
    <3>2. best_ask <= m.price
      BY <3>1, Facts DEF QuotesBound
    <3>3. QED BY <1>2, <1>3, <3>2, Facts DEF Unmatched, Crosses, Exchange!Acceptable
  <2>2. CASE m.side = "BUY"
    BY <1>3, <2>2 DEF Exchange!Acceptable
  <2>3. QED BY <1>2, <2>1, <2>2 DEF Sides
<1>4. CASE order.side = "SELL"
  <2>1. CASE m.side = "BUY"
    <3>1. m.price \in BidPrices
      BY <1>2, <2>1 DEF BidPrices
    <3>2. 0 < m.price /\ m.price <= best_bid
      BY <3>1, Facts DEF QuotesBound
    <3>3. QED BY <1>2, <1>4, <3>2, Facts DEF Unmatched, Crosses, Exchange!Acceptable
  <2>2. CASE m.side = "SELL"
    BY <1>4, <2>2 DEF Exchange!Acceptable
  <2>3. QED BY <1>2, <2>1, <2>2 DEF Sides
<1>5. QED BY <1>3, <1>4, Facts

(* An order that rests found nobody to trade with, and room.               *)
LEMMA RestRefined ==
  ASSUME BookInv, PoolInv, RestOrder
  PROVE  Exchange!Next
<1>1. Exchange!Unmatchable
  BY NothingAcceptable DEF RestOrder
<1>2. Exchange!HasRoom
  <2>1. order.price <= MaxPrice /\ free_index > 0
    BY DEF RestOrder, HasNode, CanAllocate
  <2>2. Cardinality(Resting) < PoolSize
    BY <2>1, Facts, FS_CardinalityType, BookAssumption DEF PoolInv
  <2>3. QED BY <2>1, <2>2, SameCardinality DEF Exchange!HasRoom
<1>3. Exchange!Rest
  BY <1>1, <1>2, RestOrderResting
     DEF Exchange!Rest, RestOrder, Return, NoOrder, Exchange!NoOrder
<1>4. QED BY <1>3 DEF Exchange!Next

(* An order that is dropped found nobody to trade with, and no room.       *)
LEMMA DropRefined ==
  ASSUME BookInv, PoolInv, DropOrder
  PROVE  Exchange!Next
<1>1. Exchange!Unmatchable
  BY NothingAcceptable DEF DropOrder
<1>2. ~Exchange!HasRoom
  <2>1. ~(order.price <= MaxPrice /\ free_index > 0)
    BY DEF DropOrder, HasNode, CanAllocate
  <2>2. free_index = 0 => Cardinality(Resting) = PoolSize
    BY FS_CardinalityType, BookAssumption DEF PoolInv
  <2>3. QED BY <2>1, <2>2, Facts, BookAssumption, SameCardinality DEF Exchange!HasRoom
<1>3. Resting' = Resting
  BY DEF DropOrder, Resting
<1>4. Exchange!GiveUp
  BY <1>1, <1>2, <1>3 DEF Exchange!GiveUp, DropOrder, Return, NoOrder, Exchange!NoOrder
<1>5. QED BY <1>4 DEF Exchange!Next

(* A call that returns with nothing left is a finished order.              *)
LEMMA FilledRefined ==
  ASSUME BookInv, OrderFilled
  PROVE  Exchange!Next
<1>1. order # NoOrder
  <2>1. order.price \in Prices /\ order.price # 0
    BY BookAssumption, Facts DEF OrderFilled, CallInv
  <2>2. QED BY <2>1 DEF NoOrder
<1>2. Resting' = Resting
  BY DEF OrderFilled, Resting
<1>3. Exchange!Finish
  BY <1>1, <1>2 DEF Exchange!Finish, OrderFilled, Return, NoOrder, Exchange!NoOrder
<1>4. QED BY <1>3 DEF Exchange!Next

(* The steps that only open a level or move a quote are invisible.         *)
LEMMA LookIsInvisible ==
  ASSUME EnterLevel \/ LeaveEmptyLevel \/ SkipLevel \/ EndScan \/ UNCHANGED vars
  PROVE  UNCHANGED Exchange!vars
BY DEF EnterLevel, LeaveEmptyLevel, SkipLevel, EndScan, vars, Exchange!vars, Resting

(* The book serves orders by price, then by arrival, at the maker's price, *)
(* never leaves an acceptable order untouched, and gives up an order only  *)
(* when no level or no node can take it.                                   *)
THEOREM ServesByPriceThenTime == Spec => PriceTimePriorityKept
<1>1. Init => Exchange!Init
  BY InitRefined
<1>2. ASSUME BookInv, PoolInv, [Next]_vars
      PROVE  [Exchange!Next]_(Exchange!vars)
  <2>1. CASE \E side \in Sides, price \in Prices, quantity \in Quantities :
               ProcessOrder(side, price, quantity)
    BY <1>2, <2>1, ArrivalRefined
  <2>2. CASE Fill
    BY <1>2, <2>2, FillRefined
  <2>3. CASE RestOrder
    BY <1>2, <2>3, RestRefined
  <2>4. CASE DropOrder
    BY <1>2, <2>4, DropRefined
  <2>5. CASE OrderFilled
    BY <1>2, <2>5, FilledRefined
  <2>6. CASE EnterLevel \/ LeaveEmptyLevel \/ SkipLevel \/ EndScan \/ UNCHANGED vars
    BY <2>6, LookIsInvisible
  <2>7. QED
    BY <1>2, <2>1, <2>2, <2>3, <2>4, <2>5, <2>6 DEF Next, Step
<1>3. Spec => []PoolInv
  BY PoolInvInit, PoolInvStep, BookInvariant, PTL DEF Spec
<1>4. QED
  BY <1>1, <1>2, <1>3, BookInvariant, PTL DEF Spec, PriceTimePriorityKept, Exchange!Spec
=============================================================================
