--------------------------- MODULE FairnessAnalyzer --------------------------
(***************************************************************************)
(* The FairnessAnalyzer and the two threads that call it: the engine, which*)
(* reports every order it takes from the queue and every trade its books   *)
(* make, and the reporter, which prints the statistics and forgets old     *)
(* orders.  Every method holds the analyzer's mutex from its first         *)
(* statement to its last, so each is one step; what the threads do between *)
(* their calls is not protected.  The book is reduced to the orders that   *)
(* rest in it: any of them may be the maker of the next trade.             *)
(***************************************************************************)
EXTENDS Integers, FiniteSets

CONSTANTS
  Traders,
  NoTrader,    (* not a trader                                              *)
  MaxOrders,   (* bound: the orders that arrive in a behaviour              *)
  MaxQuantity, (* bound: the quantity of an order                           *)
  MaxClock,    (* bound: the last tick of the clock                         *)
  ttl_ns,      (* how long an order is remembered                           *)
  TwoTo64      (* the number of values of a uint64_t                        *)

ASSUME AnalyzerAssumption ==
  /\ NoTrader \notin Traders
  /\ MaxOrders \in Nat
  /\ MaxQuantity \in Nat
  /\ MaxClock \in Nat
  /\ ttl_ns \in Nat
  /\ TwoTo64 \in Nat /\ TwoTo64 > MaxClock + ttl_ns

VARIABLES
  submission_times,
  stats,
  book,        (* book[id]: the order as the engine holds it                *)
  taker,       (* the order being processed, or 0                           *)
  arrivals,    (* how many orders have arrived; also the newest order_id    *)
  clock,       (* high_resolution_clock, which may be set back              *)
  pc,          (* where the reporter is                                     *)
  now_ns,      (* the reporter's reading of the clock                       *)
  report,      (* the last fairness_stats line printed                      *)
  set_back     (* history: has the clock ever been set back?                *)

vars == <<submission_times, stats, book, taker, arrivals, clock, pc, now_ns, report, set_back>>

Ids == 1..MaxOrders
Times == 0..MaxClock

SubmissionInfo == [timestamp : Times, trader_id : Traders]
NotTracked == [timestamp |-> 0, trader_id |-> NoTrader]

FairnessTraderStats == [total_orders : Nat, total_fills : Nat,
                        taker_matches : Nat, total_latency_ns : Nat]

NoStats == [total_orders |-> 0, total_fills |-> 0,
            taker_matches |-> 0, total_latency_ns |-> 0]

(* quantity is what the order came with, left what has not traded yet.     *)
NoOrder == [trader_id |-> NoTrader, quantity |-> 0, left |-> 0, timestamp |-> 0]

Ind(condition) == IF condition THEN 1 ELSE 0
min(a, b) == IF a <= b THEN a ELSE b

(* Subtraction of uint64_t values.                                         *)
Sub64(a, b) == (a - b) % TwoTo64
-----------------------------------------------------------------------------
(* The methods.                                                            *)

(* stats[trader_id] makes an entry of zeros when there is none, so a trader*)
(* without an entry is one with NoStats.                                   *)
on_order_arrival(order_id, trader_id, ts) ==
  /\ submission_times' = [submission_times EXCEPT
                            ![order_id] = [timestamp |-> ts, trader_id |-> trader_id]]
  /\ stats' = [stats EXCEPT ![trader_id] =
                 [stats[trader_id] EXCEPT !.total_orders = stats[trader_id].total_orders + 1]]

(* Mutants of Latency: without its test, in unsigned and signed arithmetic.*)
LatencyUnguarded(match_ts, timestamp) == Sub64(match_ts, timestamp)
LatencySigned(match_ts, timestamp) == match_ts - timestamp

(* calculated_latency.                                                     *)
Latency(match_ts, timestamp) ==
  IF match_ts > timestamp THEN Sub64(match_ts, timestamp) ELSE 0

(* What a match adds to the statistics s of trader x: a fill for each side *)
(* that is his and still tracked, and the latency when he is the taker.    *)
Counted(s, x, makerInfo, takerInfo, latency) ==
  [total_orders     |-> s.total_orders,
   total_fills      |-> s.total_fills + Ind(makerInfo.trader_id = x)
                                      + Ind(takerInfo.trader_id = x),
   taker_matches    |-> s.taker_matches + Ind(takerInfo.trader_id = x),
   total_latency_ns |-> s.total_latency_ns
                          + (IF takerInfo.trader_id = x THEN latency ELSE 0)]

(* Mutant of Forget: only the maker's entry is erased.                     *)
ForgetMaker(maker_order_id, taker_order_id) ==
  submission_times' = [submission_times EXCEPT ![maker_order_id] = NotTracked]

Forget(maker_order_id, taker_order_id) ==
  submission_times' = [submission_times EXCEPT ![maker_order_id] = NotTracked,
                                               ![taker_order_id] = NotTracked]

(* An order that has been forgotten, or has traded before, counts nothing. *)
on_match(maker_order_id, taker_order_id, match_ts) ==
  LET makerInfo == submission_times[maker_order_id]
      takerInfo == submission_times[taker_order_id]
  IN  /\ stats' = [x \in Traders |->
                     Counted(stats[x], x, makerInfo, takerInfo,
                             Latency(match_ts, takerInfo.timestamp))]
      /\ Forget(maker_order_id, taker_order_id)

(* Mutant of Expired: the age is computed, in unsigned arithmetic.         *)
ExpiredByAge(current_ts, timestamp) == Sub64(current_ts, timestamp) > ttl_ns
Expired(current_ts, timestamp) == current_ts > timestamp + ttl_ns

cleanup_old_orders(current_ts) ==
  submission_times' = [id \in Ids |->
    IF Expired(current_ts, submission_times[id].timestamp)
    THEN NotTracked ELSE submission_times[id]]

get_avg_latency(s) ==
  IF s.taker_matches = 0 THEN 0 ELSE s.total_latency_ns \div s.taker_matches

get_fill_rate(s) ==
  IF s.total_orders = 0 THEN 0 ELSE (s.total_fills * 100) \div s.total_orders

(* Only traders with an entry are reported, and on_order_arrival makes it. *)
generate_report ==
  [x \in {y \in Traders : stats[y].total_orders > 0} |->
     [avg_lat |-> get_avg_latency(stats[x]), fill_rate |-> get_fill_rate(stats[x])]]
-----------------------------------------------------------------------------
Init ==
  /\ submission_times = [id \in Ids |-> NotTracked]
  /\ stats = [x \in Traders |-> NoStats]
  /\ book = [id \in Ids |-> NoOrder]
  /\ taker = 0
  /\ arrivals = 0
  /\ clock = 0
  /\ pc = "report"
  /\ now_ns = 0
  /\ report = generate_report
  /\ set_back = FALSE

(* The clock runs, or the system sets it.                                  *)
Tick ==
  /\ clock' \in Times
  /\ set_back' = (set_back \/ clock' < clock)
  /\ UNCHANGED <<submission_times, stats, book, taker, arrivals, pc, now_ns, report>>

(* The main loop has taken an order from the queue: it reads the clock and *)
(* tells the analyzer, then calls process_order.                           *)
Arrive(trader_id, quantity) ==
  /\ taker = 0
  /\ arrivals < MaxOrders
  /\ arrivals' = arrivals + 1
  /\ taker' = arrivals'
  /\ book' = [book EXCEPT ![taker'] =
                [trader_id |-> trader_id, quantity |-> quantity, left |-> quantity,
                 timestamp |-> clock]]
  /\ on_order_arrival(taker', trader_id, clock)
  /\ UNCHANGED <<clock, pc, now_ns, report, set_back>>

(* process_order trades the order with a resting one: on_trade tells the   *)
(* analyzer, at the time of the trade, before the quantities change.       *)
Match(maker) ==
  /\ taker # 0 /\ maker # taker
  /\ book[maker].left > 0 /\ book[taker].left > 0
  /\ on_match(maker, taker, clock)
  /\ LET fill_qty == min(book[maker].left, book[taker].left)
     IN  book' = [book EXCEPT ![maker].left = book[maker].left - fill_qty,
                              ![taker].left = book[taker].left - fill_qty]
  /\ UNCHANGED <<taker, arrivals, clock, pc, now_ns, report, set_back>>

(* process_order returns; the rest of the order is in the book, or lost.   *)
Processed ==
  /\ taker # 0
  /\ taker' = 0
  /\ \/ UNCHANGED book
     \/ book' = [book EXCEPT ![taker] = NoOrder]
  /\ UNCHANGED <<submission_times, stats, arrivals, clock, pc, now_ns, report, set_back>>

(* One round of reporter_loop: print the statistics, read the clock, and   *)
(* clean up with that reading.                                             *)
Report ==
  /\ pc = "report"
  /\ report' = generate_report
  /\ pc' = "read_clock"
  /\ UNCHANGED <<submission_times, stats, book, taker, arrivals, clock, now_ns, set_back>>

ReadClock ==
  /\ pc = "read_clock"
  /\ now_ns' = clock
  /\ pc' = "cleanup"
  /\ UNCHANGED <<submission_times, stats, book, taker, arrivals, clock, report, set_back>>

Cleanup ==
  /\ pc = "cleanup"
  /\ cleanup_old_orders(now_ns)
  /\ pc' = "report"
  /\ UNCHANGED <<stats, book, taker, arrivals, clock, now_ns, report, set_back>>

Next ==
  \/ Tick
  \/ \E x \in Traders, quantity \in 1..MaxQuantity : Arrive(x, quantity)
  \/ \E maker \in Ids : Match(maker)
  \/ Processed
  \/ Report
  \/ ReadClock
  \/ Cleanup

Spec == Init /\ [][Next]_vars
-----------------------------------------------------------------------------
(***************************************************************************)
(* Properties.                                                             *)
(***************************************************************************)
Tracked(x) == {id \in Ids : submission_times[id].trader_id = x}

(* The values of the variables.                                            *)
TypeOK ==
  /\ submission_times \in [Ids -> SubmissionInfo \cup {NotTracked}]
  /\ stats \in [Traders -> FairnessTraderStats]
  /\ book \in [Ids -> [trader_id : Traders \cup {NoTrader},
                       quantity : 0..MaxQuantity, left : 0..MaxQuantity,
                       timestamp : Times]]
  /\ taker \in 0..arrivals
  /\ arrivals \in 0..MaxOrders
  /\ clock \in Times /\ now_ns \in Times
  /\ pc \in {"report", "read_clock", "cleanup"}
  /\ set_back \in BOOLEAN

(* No trader's fills outgrow his orders, and every fill still to be counted*)
(* has its order: an order counts as filled once, however many trades it   *)
(* takes, whichever side it is on and whatever the reporter forgets.       *)
FillsWithinOrders ==
  \A x \in Traders :
    stats[x].total_fills + Cardinality(Tracked(x)) <= stats[x].total_orders

(* What is printed makes sense whenever it is printed, between two trades  *)
(* of one order or after the clock was set back: a fill rate is at most    *)
(* 100 per cent, and an average latency is a span of the clock.            *)
ReportSound ==
  \A x \in DOMAIN report :
    /\ report[x].fill_rate \in 0..100
    /\ report[x].avg_lat \in Times

Untraded(id) == book[id].left > 0 /\ book[id].left = book[id].quantity

(* An order's first trade within the time to live is counted: while the    *)
(* clock has only run forward, an order that has not traded and is no older*)
(* is in the map, although the reporter cleans up with a reading that other*)
(* orders may have arrived after.  Once the clock is set back, it is not:  *)
(* a reading may be later than the time of an order that has just arrived. *)
FreshOrdersTracked ==
  ~set_back =>
    \A id \in Ids :
      Untraded(id) /\ clock - book[id].timestamp <= ttl_ns
        => submission_times[id] # NotTracked

(* The claim of guide.html that every order is tracked from placement to   *)
(* match: an order that rests and has not traded is in the map.            *)
TrackedToMatch ==
  \A id \in Ids :
    id # taker /\ Untraded(id) => submission_times[id] # NotTracked
=============================================================================
