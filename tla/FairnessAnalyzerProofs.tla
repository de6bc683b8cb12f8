----------------------- MODULE FairnessAnalyzerProofs ------------------------
(***************************************************************************)
(* The analyzer's bookkeeping, for any traders, orders and clock.          *)
(***************************************************************************)
EXTENDS FairnessAnalyzer, FiniteSetTheorems, TLAPS

(* The mark of an order that is not tracked belongs to no trader.          *)
LEMMA NotTrackedFacts ==
  /\ NotTracked.trader_id = NoTrader
  /\ NotTracked.timestamp = 0
  /\ \A x \in Traders : x # NoTrader
BY AnalyzerAssumption DEF NotTracked

(* Init makes the types right.                                             *)
LEMMA TypeInit == Init => TypeOK
<1> SUFFICES ASSUME Init PROVE TypeOK
  OBVIOUS
<1>1. NoStats \in FairnessTraderStats
  BY DEF NoStats, FairnessTraderStats
<1>2. NoOrder \in [trader_id : Traders \cup {NoTrader},
                   quantity : 0..MaxQuantity, left : 0..MaxQuantity, timestamp : Times]
  BY AnalyzerAssumption DEF NoOrder, Times
<1>3. set_back \in BOOLEAN
  BY DEF Init
<1>4. /\ book \in [Ids -> [trader_id : Traders \cup {NoTrader}, quantity : 0..MaxQuantity,
                          left : 0..MaxQuantity, timestamp : Times]]
      /\ stats \in [Traders -> FairnessTraderStats]
      /\ submission_times \in [Ids -> SubmissionInfo \cup {NotTracked}]
  BY <1>1, <1>2 DEF Init
<1>5. QED BY <1>3, <1>4, AnalyzerAssumption DEF Init, TypeOK, Times

(* A latency is a number of ticks, also when the clock was set back.       *)
LEMMA LatencyIs ==
  ASSUME NEW a \in Times, NEW b \in Times
  PROVE  Latency(a, b) \in 0..MaxClock
<1>1. CASE a > b
  <2>1. /\ a - b \in Nat /\ a - b <= MaxClock /\ a - b < TwoTo64
        /\ TwoTo64 \in Nat /\ TwoTo64 > 0
    BY <1>1, AnalyzerAssumption DEF Times
  <2>2. (a - b) % TwoTo64 = a - b
    BY <2>1
  <2>3. QED BY <1>1, <2>1, <2>2, AnalyzerAssumption DEF Latency, Sub64
<1>2. CASE ~(a > b)
  BY <1>2, AnalyzerAssumption DEF Latency
<1>3. QED BY <1>1, <1>2

(* Every step keeps them.                                                  *)
LEMMA TypeStep == TypeOK /\ [Next]_vars => TypeOK'
<1> SUFFICES ASSUME TypeOK, [Next]_vars PROVE TypeOK'
  OBVIOUS
<1>0. /\ submission_times \in [Ids -> SubmissionInfo \cup {NotTracked}]
      /\ stats \in [Traders -> FairnessTraderStats]
      /\ book \in [Ids -> [trader_id : Traders \cup {NoTrader},
                           quantity : 0..MaxQuantity, left : 0..MaxQuantity, timestamp : Times]]
      /\ arrivals \in 0..MaxOrders /\ taker \in 0..arrivals
      /\ clock \in Times /\ now_ns \in Times /\ MaxOrders \in Nat /\ MaxQuantity \in Nat
  BY AnalyzerAssumption DEF TypeOK
<1>1. CASE Tick
  BY <1>1 DEF Tick, TypeOK
<1>2. ASSUME NEW x \in Traders, NEW quantity \in 1..MaxQuantity, Arrive(x, quantity)
      PROVE  TypeOK'
  <2>1. arrivals' \in 0..MaxOrders /\ taker' = arrivals' /\ taker' \in Ids
    BY <1>0, <1>2 DEF Arrive, Ids
  <2>2. submission_times' \in [Ids -> SubmissionInfo \cup {NotTracked}]
    BY <1>0, <1>2, <2>1 DEF Arrive, on_order_arrival, SubmissionInfo
  <2>3. [stats[x] EXCEPT !.total_orders = stats[x].total_orders + 1] \in FairnessTraderStats
    BY <1>0 DEF FairnessTraderStats
  <2>4. stats' \in [Traders -> FairnessTraderStats]
    BY <1>0, <1>2, <2>3 DEF Arrive, on_order_arrival
  <2>5. [trader_id |-> x, quantity |-> quantity, left |-> quantity, timestamp |-> clock]
          \in [trader_id : Traders \cup {NoTrader},
               quantity : 0..MaxQuantity, left : 0..MaxQuantity, timestamp : Times]
    BY <1>0
  <2>6. book' \in [Ids -> [trader_id : Traders \cup {NoTrader},
                           quantity : 0..MaxQuantity, left : 0..MaxQuantity, timestamp : Times]]
    BY <1>0, <1>2, <2>5 DEF Arrive
  <2>7. QED BY <1>0, <1>2, <2>1, <2>2, <2>4, <2>6 DEF Arrive, TypeOK
<1>3. ASSUME NEW maker \in Ids, Match(maker) PROVE TypeOK'
  <2>1. taker \in Ids
    BY <1>0, <1>3 DEF Match, Ids
  <2>2. submission_times' \in [Ids -> SubmissionInfo \cup {NotTracked}]
    BY <1>0, <1>3 DEF Match, on_match, Forget
  <2>3. stats' \in [Traders -> FairnessTraderStats]
    <3>1. submission_times[taker].timestamp \in Times
      BY <1>0, <2>1, AnalyzerAssumption DEF SubmissionInfo, NotTracked, Times
    <3>2. Latency(clock, submission_times[taker].timestamp) \in Nat
      BY <1>0, <3>1, LatencyIs, AnalyzerAssumption
    <3>3. ASSUME NEW x \in Traders
          PROVE  Counted(stats[x], x, submission_times[maker], submission_times[taker],
                         Latency(clock, submission_times[taker].timestamp))
                   \in FairnessTraderStats
      BY <1>0, <3>2 DEF Counted, FairnessTraderStats, Ind
    <3>4. QED BY <1>3, <3>3 DEF Match, on_match
  <2>4. book' \in [Ids -> [trader_id : Traders \cup {NoTrader},
                           quantity : 0..MaxQuantity, left : 0..MaxQuantity, timestamp : Times]]
    <3> DEFINE fill_qty == min(book[maker].left, book[taker].left)
    <3>1. /\ book[maker].left - fill_qty \in 0..MaxQuantity
          /\ book[taker].left - fill_qty \in 0..MaxQuantity
      BY <1>0, <2>1 DEF min
    <3>2. /\ [book[maker] EXCEPT !.left = book[maker].left - fill_qty]
                \in [trader_id : Traders \cup {NoTrader},
                     quantity : 0..MaxQuantity, left : 0..MaxQuantity, timestamp : Times]
          /\ [book[taker] EXCEPT !.left = book[taker].left - fill_qty]
                \in [trader_id : Traders \cup {NoTrader},
                     quantity : 0..MaxQuantity, left : 0..MaxQuantity, timestamp : Times]
      BY <1>0, <2>1, <3>1
    <3> HIDE DEF fill_qty
    <3>3. book' = [book EXCEPT
                     ![maker] = [book[maker] EXCEPT !.left = book[maker].left - fill_qty],
                     ![taker] = [book[taker] EXCEPT !.left = book[taker].left - fill_qty]]
      BY <1>0, <1>3, <2>1 DEF Match, fill_qty
    <3>4. QED BY <1>0, <3>2, <3>3
  <2>5. QED BY <1>0, <1>3, <2>2, <2>3, <2>4 DEF Match, TypeOK
<1>4. CASE Processed
  <2>1. NoOrder \in [trader_id : Traders \cup {NoTrader},
                     quantity : 0..MaxQuantity, left : 0..MaxQuantity, timestamp : Times]
    BY <1>0, AnalyzerAssumption DEF NoOrder, Times
  <2>2. QED BY <1>0, <1>4, <2>1 DEF Processed, TypeOK
<1>5. CASE Report \/ ReadClock
  BY <1>5 DEF Report, ReadClock, TypeOK
<1>6. CASE Cleanup
  BY <1>0, <1>6 DEF Cleanup, cleanup_old_orders, TypeOK
<1>7. CASE UNCHANGED vars
  BY <1>7 DEF vars, TypeOK
<1>8. QED BY <1>1, <1>2, <1>3, <1>4, <1>5, <1>6, <1>7 DEF Next

(* The analyzer's maps and the book hold what their types say.             *)
THEOREM TypeCorrect == Spec => []TypeOK
BY TypeInit, TypeStep, PTL DEF Spec
-----------------------------------------------------------------------------
(* The orders of a trader that are still tracked are finitely many.        *)
LEMMA TrackedFinite ==
  ASSUME NEW x
  PROVE  IsFiniteSet(Tracked(x)) /\ Cardinality(Tracked(x)) \in Nat
<1>1. IsFiniteSet(Ids)
  BY FS_Interval, AnalyzerAssumption DEF Ids
<1>2. Tracked(x) \subseteq Ids
  BY DEF Tracked
<1>3. QED BY <1>1, <1>2, FS_Subset, FS_CardinalityType

(* Removing one id from a set of ids takes away one, if it is there.       *)
LEMMA OneLess ==
  ASSUME NEW S, IsFiniteSet(S), NEW id
  PROVE  /\ IsFiniteSet(S \ {id})
         /\ Cardinality(S \ {id}) = Cardinality(S) - Ind(id \in S)
<1>1. Cardinality(S) \in Nat
  BY FS_CardinalityType
<1>2. QED BY <1>1, FS_RemoveElement DEF Ind

(* Adding one adds one at most.                                            *)
LEMMA OneMore ==
  ASSUME NEW S, IsFiniteSet(S), NEW id
  PROVE  /\ IsFiniteSet(S \cup {id})
         /\ Cardinality(S \cup {id}) <= Cardinality(S) + 1
<1>1. Cardinality(S) \in Nat
  BY FS_CardinalityType
<1>2. /\ IsFiniteSet(S \cup {id})
      /\ id \in S => Cardinality(S \cup {id}) = Cardinality(S)
      /\ id \notin S => Cardinality(S \cup {id}) = Cardinality(S) + 1
  BY FS_AddElement
<1>3. QED BY <1>1, <1>2

(* At first there are no fills and no tracked orders.                      *)
LEMMA FillsInit == Init => FillsWithinOrders
<1> SUFFICES ASSUME Init, NEW x \in Traders
             PROVE  stats[x].total_fills + Cardinality(Tracked(x)) <= stats[x].total_orders
  BY DEF FillsWithinOrders
<1>1. Tracked(x) = {}
  BY NotTrackedFacts DEF Init, Tracked
<1>2. stats[x].total_fills = 0 /\ stats[x].total_orders = 0
  BY DEF Init, NoStats
<1>3. QED BY <1>1, <1>2, FS_EmptySet

(* A step that gives no fill and tracks no other order keeps the bound.    *)
LEMMA FillsKept ==
  ASSUME FillsWithinOrders, TypeOK, NEW x \in Traders, stats'[x] = stats[x],
         Tracked(x)' \subseteq Tracked(x)
  PROVE  stats'[x].total_fills + Cardinality(Tracked(x)') <= stats'[x].total_orders
<1>1. Cardinality(Tracked(x)') <= Cardinality(Tracked(x))
      /\ Cardinality(Tracked(x)') \in Nat /\ Cardinality(Tracked(x)) \in Nat
  BY TrackedFinite, FS_Subset, FS_CardinalityType
<1>2. stats[x].total_fills \in Nat /\ stats[x].total_orders \in Nat
      /\ stats[x].total_fills + Cardinality(Tracked(x)) <= stats[x].total_orders
  BY DEF FillsWithinOrders, TypeOK, FairnessTraderStats
<1>3. QED BY <1>1, <1>2

(* A fill is counted for an order that leaves the map, an order for one    *)
(* that enters it; every other step keeps the bound.                       *)
LEMMA FillsStep == TypeOK /\ FillsWithinOrders /\ [Next]_vars => FillsWithinOrders'
<1> SUFFICES ASSUME TypeOK, FillsWithinOrders, [Next]_vars, NEW x \in Traders
             PROVE  stats'[x].total_fills + Cardinality(Tracked(x)') <= stats'[x].total_orders
  BY DEF FillsWithinOrders
<1>0. /\ submission_times \in [Ids -> SubmissionInfo \cup {NotTracked}]
      /\ stats \in [Traders -> FairnessTraderStats]
      /\ arrivals \in 0..MaxOrders /\ taker \in 0..arrivals /\ MaxOrders \in Nat
      /\ stats[x].total_fills \in Nat /\ stats[x].total_orders \in Nat
      /\ Cardinality(Tracked(x)) \in Nat /\ IsFiniteSet(Tracked(x))
      /\ stats[x].total_fills + Cardinality(Tracked(x)) <= stats[x].total_orders
  BY AnalyzerAssumption, TrackedFinite DEF TypeOK, FillsWithinOrders, FairnessTraderStats
<1>1. CASE Tick \/ Processed \/ Report \/ ReadClock \/ UNCHANGED vars
  <2>1. UNCHANGED <<submission_times, stats>>
    BY <1>1 DEF Tick, Processed, Report, ReadClock, vars
  <2>2. QED BY <2>1, FillsKept DEF Tracked
<1>2. ASSUME NEW t \in Traders, NEW quantity \in 1..MaxQuantity, Arrive(t, quantity)
      PROVE  stats'[x].total_fills + Cardinality(Tracked(x)') <= stats'[x].total_orders
  <2>1. taker' \in Ids
    BY <1>0, <1>2 DEF Arrive, Ids
  <2>2. CASE t = x
    <3>1. /\ stats'[x].total_fills = stats[x].total_fills
          /\ stats'[x].total_orders = stats[x].total_orders + 1
      BY <1>0, <1>2, <2>2 DEF Arrive, on_order_arrival, FairnessTraderStats
    <3>2. Tracked(x)' \subseteq Tracked(x) \cup {taker'}
      BY <1>0, <1>2, <2>1 DEF Arrive, on_order_arrival, Tracked
    <3>3. /\ Cardinality(Tracked(x) \cup {taker'}) <= Cardinality(Tracked(x)) + 1
          /\ IsFiniteSet(Tracked(x) \cup {taker'})
      BY <1>0, OneMore
    <3>4. Cardinality(Tracked(x)') <= Cardinality(Tracked(x)) + 1
          /\ Cardinality(Tracked(x)') \in Nat
      BY <1>0, <3>2, <3>3, FS_Subset, FS_CardinalityType
    <3>5. QED BY <1>0, <3>1, <3>4
  <2>3. CASE t # x
    <3>1. stats'[x] = stats[x]
      BY <1>0, <1>2, <2>3 DEF Arrive, on_order_arrival
    <3>2. Tracked(x)' \subseteq Tracked(x)
      BY <1>0, <1>2, <2>1, <2>3 DEF Arrive, on_order_arrival, Tracked
    <3>3. QED BY <3>1, <3>2, FillsKept
  <2>4. QED BY <2>2, <2>3
<1>3. ASSUME NEW maker \in Ids, Match(maker)
      PROVE  stats'[x].total_fills + Cardinality(Tracked(x)') <= stats'[x].total_orders
  <2>1. taker \in Ids /\ maker # taker
    BY <1>0, <1>3 DEF Match, Ids
  <2>2. /\ submission_times[maker].trader_id = x <=> maker \in Tracked(x)
        /\ submission_times[taker].trader_id = x <=> taker \in Tracked(x)
    BY <2>1 DEF Tracked
  <2>3. /\ stats'[x].total_fills = stats[x].total_fills + Ind(maker \in Tracked(x))
                                                      + Ind(taker \in Tracked(x))
        /\ stats'[x].total_orders = stats[x].total_orders
    BY <1>0, <1>3, <2>2 DEF Match, on_match, Counted, Ind
  <2>4. Tracked(x)' = (Tracked(x) \ {maker}) \ {taker}
    BY <1>0, <1>3, <2>1, NotTrackedFacts DEF Match, on_match, Forget, Tracked
  <2>5. taker \in Tracked(x) <=> taker \in Tracked(x) \ {maker}
    BY <2>1
  <2>6. Cardinality(Tracked(x)') = Cardinality(Tracked(x)) - Ind(maker \in Tracked(x))
                                                           - Ind(taker \in Tracked(x))
    <3>1. /\ IsFiniteSet(Tracked(x) \ {maker})
          /\ Cardinality(Tracked(x) \ {maker}) = Cardinality(Tracked(x))
                                                   - Ind(maker \in Tracked(x))
      BY <1>0, OneLess
    <3>2. Cardinality((Tracked(x) \ {maker}) \ {taker})
            = Cardinality(Tracked(x) \ {maker}) - Ind(taker \in Tracked(x) \ {maker})
      BY <3>1, OneLess
    <3>3. QED BY <2>4, <2>5, <3>1, <3>2 DEF Ind
  <2>7. QED BY <1>0, <2>3, <2>6 DEF Ind
<1>4. CASE Cleanup
  <2>1. stats' = stats
    BY <1>4 DEF Cleanup
  <2>2. Tracked(x)' \subseteq Tracked(x)
    BY <1>4, NotTrackedFacts DEF Cleanup, cleanup_old_orders, Tracked
  <2>3. QED BY <2>1, <2>2, FillsKept
<1>5. QED BY <1>1, <1>2, <1>3, <1>4 DEF Next

(* No trader's fills outgrow his orders: each order is counted once.       *)
THEOREM FillsNeverExceedOrders == Spec => []FillsWithinOrders
BY TypeCorrect, FillsInit, FillsStep, PTL DEF Spec
-----------------------------------------------------------------------------
(* What is needed for FreshOrdersTracked: the reporter's reading and the   *)
(* orders' times lie in the past, and the map has the time an order has in *)
(* the book.  All of it is lost when the clock is set back.                *)
TimesInv ==
  /\ \A id \in Ids : book[id].left <= book[id].quantity
  /\ ~set_back =>
       /\ now_ns <= clock
       /\ \A id \in Ids : book[id].timestamp <= clock
       /\ \A id \in Ids :
            Untraded(id) /\ submission_times[id] # NotTracked
              => submission_times[id].timestamp = book[id].timestamp

FreshInv == TimesInv /\ FreshOrdersTracked

LEMMA FreshInit == Init => FreshInv
<1> SUFFICES ASSUME Init PROVE FreshInv
  OBVIOUS
<1>1. \A id \in Ids : book[id].left = 0 /\ book[id].quantity = 0 /\ book[id].timestamp = 0
  BY DEF Init, NoOrder
<1>2. \A id \in Ids : ~Untraded(id)
  BY <1>1 DEF Untraded
<1>3. now_ns = 0 /\ clock = 0
  BY DEF Init
<1>4. TimesInv
  BY <1>1, <1>2, <1>3 DEF TimesInv
<1> QED BY <1>2, <1>4 DEF FreshInv, FreshOrdersTracked

(* The order that arrives is tracked with its time; those that trade are   *)
(* no longer untraded; the reporter's reading is too early to forget an    *)
(* order that is fresh by the clock.                                       *)
LEMMA FreshStep == TypeOK /\ FreshInv /\ [Next]_vars => FreshInv'
<1> SUFFICES ASSUME TypeOK, FreshInv, [Next]_vars PROVE FreshInv'
  OBVIOUS
<1> DEFINE Entry == [trader_id : Traders \cup {NoTrader}, quantity : 0..MaxQuantity,
                     left : 0..MaxQuantity, timestamp : Times]
<1>0. /\ submission_times \in [Ids -> SubmissionInfo \cup {NotTracked}]
      /\ book \in [Ids -> Entry]
      /\ arrivals \in 0..MaxOrders /\ taker \in 0..arrivals /\ MaxOrders \in Nat
      /\ clock \in Nat /\ now_ns \in Nat /\ ttl_ns \in Nat /\ MaxQuantity \in Nat
      /\ Times \subseteq Nat
      /\ \A id \in Ids : book[id].timestamp \in Nat
  BY AnalyzerAssumption DEF TypeOK, Times
<1>i. TimesInv /\ FreshOrdersTracked
  BY DEF FreshInv
<1>1. CASE Tick
  <2>1. /\ UNCHANGED <<submission_times, book, now_ns>>
        /\ clock' \in Nat
    BY <1>0, <1>1 DEF Tick
  <2>5. ~set_back' => ~set_back /\ ~(clock' < clock)
    BY <1>1, Zenon DEF Tick
  <2>6. ~set_back' => ~set_back /\ clock <= clock'
    BY <1>0, <2>1, <2>5
  <2>2. \A id \in Ids : Untraded(id)' = Untraded(id)
    BY <2>1 DEF Untraded
  <2>3. TimesInv'
    BY <1>0, <1>i, <2>1, <2>2, <2>6 DEF TimesInv
  <2>4. FreshOrdersTracked'
    BY <1>0, <1>i, <2>1, <2>2, <2>6 DEF FreshOrdersTracked
  <2> QED BY <2>3, <2>4 DEF FreshInv
<1>2. ASSUME NEW x \in Traders, NEW quantity \in 1..MaxQuantity, Arrive(x, quantity)
      PROVE  FreshInv'
  <2>1. /\ taker' \in Ids
        /\ UNCHANGED <<clock, now_ns, set_back>>
        /\ x # NoTrader
    BY <1>0, <1>2, NotTrackedFacts DEF Arrive, Ids
  <2>2. /\ book'[taker'].left = quantity /\ book'[taker'].quantity = quantity
        /\ book'[taker'].timestamp = clock
        /\ submission_times'[taker'].timestamp = clock
        /\ submission_times'[taker'].trader_id = x
    BY <1>0, <1>2, <2>1 DEF Arrive, on_order_arrival
  <2>3. submission_times'[taker'] # NotTracked
    BY <2>1, <2>2, NotTrackedFacts
  <2>4. \A id \in Ids \ {taker'} : /\ book'[id] = book[id]
                                   /\ submission_times'[id] = submission_times[id]
                                   /\ Untraded(id)' = Untraded(id)
    BY <1>0, <1>2, <2>1 DEF Arrive, on_order_arrival, Untraded
  <2>5. TimesInv'
    BY <1>0, <1>i, <2>1, <2>2, <2>4 DEF TimesInv
  <2>6. FreshOrdersTracked'
    BY <1>i, <2>1, <2>3, <2>4 DEF FreshOrdersTracked
  <2> QED BY <2>5, <2>6 DEF FreshInv
<1>3. ASSUME NEW maker \in Ids, Match(maker) PROVE FreshInv'
  <2> DEFINE fill_qty == min(book[maker].left, book[taker].left)
  <2>1. /\ taker \in Ids /\ maker # taker
        /\ UNCHANGED <<clock, now_ns, set_back>>
        /\ book[maker].left \in 1..MaxQuantity /\ book[taker].left \in 1..MaxQuantity
    BY <1>0, <1>3 DEF Match, Ids
  <2>2. /\ fill_qty \in Nat /\ fill_qty >= 1
        /\ fill_qty <= book[maker].left /\ fill_qty <= book[taker].left
    BY <1>0, <2>1 DEF min
  <2>3. \A id \in {maker, taker} :
          /\ book'[id].left = book[id].left - fill_qty
          /\ book'[id].quantity = book[id].quantity
          /\ book'[id].timestamp = book[id].timestamp
    BY <1>0, <1>3, <2>1 DEF Match
  <2>4. \A id \in Ids \ {maker, taker} :
          /\ book'[id] = book[id] /\ submission_times'[id] = submission_times[id]
          /\ Untraded(id)' = Untraded(id)
    BY <1>0, <1>3, <2>1 DEF Match, on_match, Forget, Untraded
  <2> HIDE DEF fill_qty
  <2>5. \A id \in {maker, taker} :
          /\ book[id].left \in Nat /\ book[id].quantity \in Nat
          /\ book[id].left <= book[id].quantity
    BY <1>0, <1>i, <2>1 DEF TimesInv
  <2>6. \A id \in {maker, taker} : ~Untraded(id)' /\ book'[id].left <= book'[id].quantity
    BY <2>2, <2>3, <2>5 DEF Untraded
  <2>7. TimesInv'
    BY <1>0, <1>i, <2>1, <2>3, <2>4, <2>6 DEF TimesInv
  <2>8. FreshOrdersTracked'
    BY <1>i, <2>1, <2>4, <2>6 DEF FreshOrdersTracked
  <2> QED BY <2>7, <2>8 DEF FreshInv
<1>4. CASE Processed
  <2>1. /\ UNCHANGED <<submission_times, clock, now_ns, set_back>>
        /\ \A id \in Ids : book'[id] \in {book[id], NoOrder}
    BY <1>0, <1>4 DEF Processed
  <2>2. NoOrder.left = 0 /\ NoOrder.quantity = 0 /\ NoOrder.timestamp = 0
    BY DEF NoOrder
  <2>3. \A id \in Ids : Untraded(id)' => book'[id] = book[id] /\ Untraded(id)
    BY <2>1, <2>2 DEF Untraded
  <2>4. TimesInv'
    BY <1>0, <1>i, <2>1, <2>2, <2>3 DEF TimesInv
  <2>5. FreshOrdersTracked'
    BY <1>i, <2>1, <2>3 DEF FreshOrdersTracked
  <2> QED BY <2>4, <2>5 DEF FreshInv
<1>5. CASE Report \/ ReadClock \/ UNCHANGED vars
  <2>1. /\ UNCHANGED <<submission_times, book, clock, set_back>>
        /\ now_ns' \in {now_ns, clock}
    BY <1>5 DEF Report, ReadClock, vars
  <2>2. \A id \in Ids : Untraded(id)' = Untraded(id)
    BY <2>1 DEF Untraded
  <2>3. TimesInv'
    BY <1>0, <1>i, <2>1, <2>2 DEF TimesInv
  <2>4. FreshOrdersTracked'
    BY <1>i, <2>1, <2>2 DEF FreshOrdersTracked
  <2> QED BY <2>3, <2>4 DEF FreshInv
<1>6. CASE Cleanup
  <2>1. /\ UNCHANGED <<book, clock, now_ns, set_back>>
        /\ \A id \in Ids :
             submission_times'[id] = IF Expired(now_ns, submission_times[id].timestamp)
                                     THEN NotTracked ELSE submission_times[id]
    BY <1>6 DEF Cleanup, cleanup_old_orders
  <2>2. \A id \in Ids : Untraded(id)' = Untraded(id)
    BY <2>1 DEF Untraded
  <2>3. TimesInv'
    BY <1>0, <1>i, <2>1, <2>2 DEF TimesInv
  <2>4. ASSUME NEW id \in Ids, ~set_back, Untraded(id), clock - book[id].timestamp <= ttl_ns
        PROVE  submission_times'[id] # NotTracked
    <3>1. submission_times[id] # NotTracked
      BY <1>i, <2>4 DEF FreshOrdersTracked
    <3>2. submission_times[id].timestamp = book[id].timestamp /\ now_ns <= clock
      BY <1>i, <2>4, <3>1 DEF TimesInv
    <3>3. ~Expired(now_ns, submission_times[id].timestamp)
      BY <1>0, <2>4, <3>2 DEF Expired
    <3> QED BY <2>1, <3>1, <3>3
  <2>5. FreshOrdersTracked'
    BY <2>1, <2>2, <2>4 DEF FreshOrdersTracked
  <2> QED BY <2>3, <2>5 DEF FreshInv
<1> QED BY <1>1, <1>2, <1>3, <1>4, <1>5, <1>6 DEF Next

(* While the clock runs forward, no order's first trade within the time to *)
(* live goes uncounted, for any orders, clock and delay of the clean-up.   *)
THEOREM FreshOrdersAlwaysTracked == Spec => []FreshOrdersTracked
<1>1. FreshInv => FreshOrdersTracked
  BY DEF FreshInv
<1> QED BY <1>1, FreshInit, FreshStep, TypeCorrect, PTL DEF Spec
-----------------------------------------------------------------------------
(* The latencies of a trader add up to at most a whole span of the clock   *)
(* for each of his matches as the taker.                                   *)
LatencyInv ==
  \A x \in Traders : stats[x].total_latency_ns <= MaxClock * stats[x].taker_matches

(* What a quotient is at most; that a product grows by its factor.         *)
LEMMA QuotientIs ==
  ASSUME NEW a \in Nat, NEW b \in Nat \ {0}, NEW c \in Nat, a <= b * c
  PROVE  a \div b \in 0..c
OBVIOUS

LEMMA OneTimeMore ==
  ASSUME NEW c \in Nat, NEW n \in Nat
  PROVE  c * (n + 1) = c * n + c /\ c * n \in Nat
OBVIOUS

LEMMA LatencyStep == TypeOK /\ LatencyInv /\ [Next]_vars => LatencyInv'
<1> SUFFICES ASSUME TypeOK, LatencyInv, [Next]_vars, NEW x \in Traders
             PROVE  stats'[x].total_latency_ns <= MaxClock * stats'[x].taker_matches
  BY DEF LatencyInv
<1>0. /\ submission_times \in [Ids -> SubmissionInfo \cup {NotTracked}]
      /\ stats \in [Traders -> FairnessTraderStats]
      /\ arrivals \in 0..MaxOrders /\ taker \in 0..arrivals /\ MaxOrders \in Nat
      /\ clock \in Times /\ MaxClock \in Nat
      /\ stats[x].total_latency_ns \in Nat /\ stats[x].taker_matches \in Nat
      /\ stats[x].total_latency_ns <= MaxClock * stats[x].taker_matches
  BY AnalyzerAssumption DEF TypeOK, LatencyInv, FairnessTraderStats
<1>1. CASE Tick \/ Processed \/ Report \/ ReadClock \/ Cleanup \/ UNCHANGED vars
  BY <1>0, <1>1 DEF Tick, Processed, Report, ReadClock, Cleanup, vars
<1>2. ASSUME NEW t \in Traders, NEW quantity \in 1..MaxQuantity, Arrive(t, quantity)
      PROVE  stats'[x].total_latency_ns <= MaxClock * stats'[x].taker_matches
  <2>1. /\ stats'[x].total_latency_ns = stats[x].total_latency_ns
        /\ stats'[x].taker_matches = stats[x].taker_matches
    BY <1>0, <1>2 DEF Arrive, on_order_arrival, FairnessTraderStats
  <2> QED BY <2>1, <1>0
<1>3. ASSUME NEW maker \in Ids, Match(maker)
      PROVE  stats'[x].total_latency_ns <= MaxClock * stats'[x].taker_matches
  <2> DEFINE latency == Latency(clock, submission_times[taker].timestamp)
             his == submission_times[taker].trader_id = x
  <2>1. taker \in Ids
    BY <1>0, <1>3 DEF Match, Ids
  <2>2. latency \in 0..MaxClock
    <3>1. submission_times[taker].timestamp \in Times
      BY <1>0, <2>1, AnalyzerAssumption DEF SubmissionInfo, NotTracked, Times
    <3> QED BY <1>0, <3>1, LatencyIs
  <2>3. /\ stats'[x].total_latency_ns = stats[x].total_latency_ns + (IF his THEN latency ELSE 0)
        /\ stats'[x].taker_matches = stats[x].taker_matches + Ind(his)
    BY <1>3 DEF Match, on_match, Counted
  <2> HIDE DEF latency, his
  <2>4. CASE his
    BY <2>2, <2>3, <2>4, <1>0, OneTimeMore DEF Ind
  <2>5. CASE ~his
    BY <2>3, <2>5, <1>0 DEF Ind
  <2> QED BY <2>4, <2>5
<1> QED BY <1>1, <1>2, <1>3 DEF Next

(* So what is printed makes sense when it is printed.                      *)
LEMMA ReportIs ==
  ASSUME TypeOK, FillsWithinOrders, LatencyInv, report' = generate_report
  PROVE  ReportSound'
<1> SUFFICES ASSUME NEW x \in Traders, stats[x].total_orders > 0
             PROVE  /\ get_fill_rate(stats[x]) \in 0..100
                    /\ get_avg_latency(stats[x]) \in Times
  BY DEF ReportSound, generate_report
<1>1. /\ stats[x].total_orders \in Nat \ {0} /\ stats[x].total_fills \in Nat
      /\ stats[x].taker_matches \in Nat /\ stats[x].total_latency_ns \in Nat
      /\ stats[x].total_latency_ns <= MaxClock * stats[x].taker_matches /\ MaxClock \in Nat
      /\ stats[x].total_fills + Cardinality(Tracked(x)) <= stats[x].total_orders
      /\ Cardinality(Tracked(x)) \in Nat
  BY AnalyzerAssumption, TrackedFinite
     DEF TypeOK, FillsWithinOrders, LatencyInv, FairnessTraderStats
<1>2. get_fill_rate(stats[x]) \in 0..100
  <2>1. /\ stats[x].total_fills * 100 \in Nat
        /\ stats[x].total_fills * 100 <= stats[x].total_orders * 100
    BY <1>1
  <2>2. (stats[x].total_fills * 100) \div stats[x].total_orders \in 0..100
    BY <1>1, <2>1, QuotientIs
  <2> QED BY <1>1, <2>2 DEF get_fill_rate
<1>3. get_avg_latency(stats[x]) \in Times
  <2>1. CASE stats[x].taker_matches = 0
    BY <1>1, <2>1 DEF get_avg_latency, Times
  <2>2. CASE stats[x].taker_matches # 0
    <3>1. stats[x].total_latency_ns <= stats[x].taker_matches * MaxClock
      BY <1>1
    <3>2. stats[x].total_latency_ns \div stats[x].taker_matches \in 0..MaxClock
      BY <1>1, <2>2, <3>1, QuotientIs
    <3> QED BY <2>2, <3>2 DEF get_avg_latency, Times
  <2> QED BY <2>1, <2>2
<1> QED BY <1>2, <1>3

(* A fill rate is at most 100 per cent and an average latency a span of    *)
(* the clock, for any orders, trades, clean-ups and settings of the clock. *)
THEOREM ReportsAreSound == Spec => []ReportSound
<1>1. Init => LatencyInv /\ ReportSound
  <2> SUFFICES ASSUME Init PROVE LatencyInv /\ ReportSound
    OBVIOUS
  <2>1. \A x \in Traders : stats[x] = NoStats
    BY DEF Init
  <2>2. LatencyInv
    BY <2>1, AnalyzerAssumption DEF LatencyInv, NoStats
  <2>3. DOMAIN report = {}
    BY <2>1 DEF Init, generate_report, NoStats
  <2> QED BY <2>2, <2>3 DEF ReportSound
<1>2. TypeOK /\ FillsWithinOrders /\ LatencyInv /\ ReportSound /\ [Next]_vars => ReportSound'
  <2>1. ReportSound /\ UNCHANGED report => ReportSound'
    BY DEF ReportSound
  <2>2. CASE Report
    BY <2>2, ReportIs DEF Report
  <2>3. [Next]_vars => Report \/ UNCHANGED report
    BY DEF Next, Tick, Arrive, Match, Processed, ReadClock, Cleanup, vars
  <2> QED BY <2>1, <2>2, <2>3
<1> QED
  BY <1>1, <1>2, LatencyStep, TypeCorrect, FillsNeverExceedOrders, PTL DEF Spec
=============================================================================
