-------------------------- MODULE PriceTimePriority --------------------------
(***************************************************************************)
(* What the exchange promises its traders about matching, with no price    *)
(* arrays, no cached quotes and no node pool: the resting orders are a     *)
(* set, and an incoming order trades, one resting order at a time, with    *)
(* the acceptable order that has priority: the best price first, and among *)
(* equal prices the one that arrived first.  Each trade is made at the     *)
(* resting order's price.  What is left of the incoming order rests, or is *)
(* given up when there is no room for it.                                  *)
(***************************************************************************)
EXTENDS Integers, Sequences, FiniteSets

CONSTANTS
  Prices,      (* the limit prices orders carry                             *)
  Quantities,  (* the quantities orders carry                               *)
  MaxPrice,    (* the highest price at which an order may rest              *)
  Capacity,    (* the number of orders that may rest at one time            *)
  MaxOrders    (* bound: how many orders arrive in a behaviour              *)

VARIABLES
  resting,     (* the resting orders                                        *)
  taker,       (* the order being matched, NoOrder between orders           *)
  tape,        (* the trades of the order being matched, oldest first       *)
  arrivals     (* how many orders have arrived                              *)

vars == <<resting, taker, tape, arrivals>>

Sides == {"BUY", "SELL"}

NoOrder == [order_id |-> 0, side |-> "BUY", price |-> 0, quantity |-> 0]

(* The order m is on the other side of t, at a price t accepts.            *)
Acceptable(t, m) ==
  /\ m.side # t.side
  /\ IF t.side = "BUY" THEN m.price <= t.price ELSE m.price >= t.price

(* For the taker t, the order m has a strictly better price than n.        *)
BetterPrice(t, m, n) ==
  IF t.side = "BUY" THEN m.price < n.price ELSE m.price > n.price

(* The resting order m is served before every other acceptable order.      *)
HasPriority(t, m) ==
  /\ m \in resting
  /\ Acceptable(t, m)
  /\ \A n \in resting \ {m} :
       Acceptable(t, n) =>
         \/ BetterPrice(t, m, n)
         \/ m.price = n.price /\ m.order_id < n.order_id

Lesser(a, b) == IF a <= b THEN a ELSE b
-----------------------------------------------------------------------------
Init ==
  /\ resting = {}
  /\ taker = NoOrder
  /\ tape = <<>>
  /\ arrivals = 0

Arrive(side, price, quantity) ==
  /\ taker = NoOrder
  /\ arrivals < MaxOrders
  /\ arrivals' = arrivals + 1
  /\ taker' = [order_id |-> arrivals', side |-> side, price |-> price,
               quantity |-> quantity]
  /\ tape' = <<>>
  /\ UNCHANGED resting

TradeWith(m) ==
  LET q == Lesser(taker.quantity, m.quantity)
  IN  /\ taker.quantity > 0
      /\ HasPriority(taker, m)
      /\ tape' = Append(tape, [maker |-> m.order_id, taker |-> taker.order_id,
                               quantity |-> q, price |-> m.price])
      /\ taker' = [taker EXCEPT !.quantity = @ - q]
      /\ resting' = (resting \ {m}) \cup
                    {r \in {[m EXCEPT !.quantity = @ - q]} : r.quantity > 0}
      /\ UNCHANGED arrivals

Unmatchable ==
  /\ taker.quantity > 0
  /\ \A m \in resting : ~Acceptable(taker, m)

HasRoom == taker.price <= MaxPrice /\ Cardinality(resting) < Capacity

Rest ==
  /\ Unmatchable
  /\ HasRoom
  /\ resting' = resting \cup {taker}
  /\ taker' = NoOrder
  /\ UNCHANGED <<tape, arrivals>>

GiveUp ==
  /\ Unmatchable
  /\ ~HasRoom
  /\ taker' = NoOrder
  /\ UNCHANGED <<resting, tape, arrivals>>

Finish ==
  /\ taker # NoOrder
  /\ taker.quantity = 0
  /\ taker' = NoOrder
  /\ UNCHANGED <<resting, tape, arrivals>>

Next ==
  \/ \E side \in Sides, price \in Prices, quantity \in Quantities :
       Arrive(side, price, quantity)
  \/ \E m \in resting : TradeWith(m)
  \/ Rest
  \/ GiveUp
  \/ Finish

Spec == Init /\ [][Next]_vars
=============================================================================
