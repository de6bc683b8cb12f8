# Verification of the TRALO exchange

TLA+ specifications of TRALO, an exchange simulator: a C++ process that matches
orders, a Python bridge, and a trading terminal in the browser. The modules
follow the source statement by statement where interleaving or arithmetic
matters, and abstract it elsewhere; `PROJECT.json` maps each definition to the
lines it stands for. TLC checks the modules on small instances, TLAPS proves
the main results for every value of the constants.

## The system

| Part | Source | State | Operations | Talks to |
|---|---|---|---|---|
| Order book (one per symbol) | `OrderBook.cpp`, `OrderBook.h`, `Types.h` | levels `bids`/`asks`, quotes `best_bid`/`best_ask`, node pool | `process_order` | calls `on_trade` for each trade |
| Node pool, level lists | `MemoryPool.h`, `OrderBook.cpp:15-38` | free list, linked nodes | `allocate`, `deallocate`, link, unlink | order book only |
| Order queue | `OrderQueue.h` | ring buffer, `head`, `tail`, mutex | `try_enqueue`, `try_dequeue` | 40 bots and `stdin_reader` put, the main loop takes |
| Fairness analyzer | `FairnessAnalyzer.h` | `submission_times`, `stats`, mutex | `on_order_arrival`, `on_match`, `cleanup_old_orders`, `generate_report_json` | engine thread and reporter thread |
| Exchange process | `exchange_main.cpp` | order ids, trade count, `cout` and its mutex | main loop, `on_trade`, `stdin_reader`, `reporter_loop` | all of the above; lines on stdin and stdout |
| Bots, load generator | `Trader.h`, `TraderProfiles.h`, `LoadGenerator.*` | `running`, counters | `run` loops, `start`/`stop`, `monitor_loop` | order queue, `cout` |
| Bridge | `server.py` | `order_sync_queue`, `pending_manual_orders`, `connected_clients`, event loop | `websocket_handler`, `stdout_reader_thread`, `broadcast`, `send_to` | pipes to the exchange, websockets to the terminals |
| Page: session | `app.js:40-174`, `539-575` | accounts in `localStorage`, screen, `ws` and its predecessors, indicators | login, registration, logout, `connectWS` and the events of a websocket | other tabs through `localStorage`; one live websocket |
| Page: trader's screen | `app.js:176-380`, `578-598` | `market`, chosen stock and side, watch list, pane, form, order rows, `lastProvisionalKey` | choose, close, edit, place; `handleMarketData`, `handleAck`, `handleOrderReject`, `handleManualFill` | bridge |
| Page: administrator's screen | `app.js:382-534`, `600-618`, `690-746` | stream, panels, charts, cached report, summary | choose a panel; `handleFairness`, `handleOrderArrival`, `handleTrade`, `handleEngineStats` | bridge |

What is hard here: the book's cached quotes move inside three nested loops; the
queue and the analyzer are shared by threads; the clock may be set back; the
answers to manual orders carry no reference to the client and are paired by
counting, across two pipes, three threads and an event loop; clients come and go
while broadcasts to them wait; and the page finds the row of an answer by what
it placed last, keeps what it showed to one user when the next logs in, and has
handlers of old websockets run late.

What makes each part correct:

* **Book**: best quotes exact between calls, never crossed, quantities and nodes
  conserved, service by price and then time, every call returns.
* **Queue**: a bounded FIFO, stamped in the order of service.
* **Analyzer**: every order counted at most once, rates and latencies in range;
  an untraded order that is not too old is never missing from the map.
* **Manual orders**: while every command gets an answer that can be read, every
  answer and fill reaches the client that placed the order, and is shown in the row of that order; only closed websockets are taken
  off the list of clients.
* **Load generator**: the counters agree with the queue, no thread outlives
  `stop_all`, which returns, and lines on standard output stay whole.
* **Page**: one account per name; messages are handled for the screen on display
  only; what is shown as current is of the last quote or report.

## Modules

| Module | Models | Correspondence |
|---|---|---|
| `PriceTimePriority` | what matching promises (abstract) | a set of resting orders, one trade per step with the order that has priority |
| `OrderBook` | `process_order` and its book | one action per loop entry, iteration and exit; BUY and SELL share actions over the side; a level's list is a sequence, the pool the number of its free nodes |
| `OrderBookProofs` | theorems about `OrderBook`, the refinement included | |
| `BoundedFifo` | what a queue promises (abstract) | ask, accept or refuse; poll, hand or starve |
| `OrderQueue` | `OrderQueue.h` | one action per statement under the lock, the lock and unlock included |
| `OrderQueueProofs` | theorems about `OrderQueue` | |
| `FairnessAnalyzer` | `FairnessAnalyzer.h`, its callers in the main loop, `on_trade` and `reporter_loop` | a method is one step, since it holds the mutex throughout; a caller's steps between methods are separate |
| `FairnessAnalyzerProofs` | theorems about `FairnessAnalyzer` | |
| `Terminal` | the order list of `app.js` | operators on a terminal's rows, one per handler |
| `ManualOrders` | the path of a manual order: terminals, bridge, `stdin_reader`, main loop, `on_trade` | composes `Terminal` with the bridge and the exchange; pipes and websockets are FIFOs, one per connection; a coroutine is one send per step, and a broadcast keeps what it has visited and found dead |
| `ManualOrdersProofs` | theorems about `ManualOrders` | |
| `Session` | login, registration, logout and the websockets of one page in one browser | one action per button and per event of a websocket; another tab registers at any time, and a tab may read a list of accounts that lacks the latest |
| `RupeesToPaise` | `int(float(price) * 100)` | operators; doubles as integers and powers of two, with the rounding done exactly |
| `TraderScreen` | the trader's screen; extends `Session` and `RupeesToPaise` | one action per button, field and message |
| `AdminScreen` | the administrator's screen; extends `Session` | one action per button and message; a chart is the sequence of its bars, and a trader's bar is known by its place among those of a report, which is what the sorting gives |
| `SessionProofs`, `TraderScreenProofs`, `AdminScreenProofs` | theorems about the page | |
| `Output` | `cout` with `safe_print` under its mutex and `monitor_loop` without it | one step per `<<` |
| `LoadGenerator` | traders, their profiles, `start_all`, `stop_all`, `monitor_loop`; extends `Output` | one action per statement that touches shared state; `try_enqueue` is a step, which `OrderQueue` justifies |
| `LoadGeneratorProofs` | theorems about `LoadGenerator` | |
| `MC*` | values for the constants of the module they extend | |

A node's place in `data` and the pointers between nodes are not in `OrderBook`;
time enters it as the number of the call, since only the order of arrival
matters to matching. `OrderBook` takes prices from 1 on: the price bands
(`exchange_main.cpp:79`) and the base prices of the bots keep 0 out. Prices
beyond the array are included. In `FairnessAnalyzer` the book is reduced to
who rests with what quantity, and any resting order may be the next maker, which
is more than price and time allow. An order with several trades, on either
side, is covered. In `ManualOrders` trades with bots, between manual orders,
and orders that never trade all happen by choice; the lines of other types
(`market_data`, `order_arrival`, `engine_stats`, ...) and the broadcast of `trade`
and `reject` are left out, because a trader's terminal does not act on them.
`origin`, `owner`, `disturbed`, `unanswered`, `spoiled`, `set_back`, `reported`, `taken`,
and the number in a command
and a row, are history: the program does not know them, the properties need
them. In the page, what the browser does is taken from how the code uses it:
`close()` makes a websocket CLOSING at once, messages come only while it is OPEN,
and the close event comes later, of its own accord or because the connection
broke. In `LoadGenerator` the main thread may call `stop_all`, as the class
offers; the loop of `exchange_main.cpp` never ends, so there the process is
killed with its threads.

## Runs

| Run | Instance | What it shows |
|---|---|---|
| `book` | levels 0..3, prices 1..4, quantities 1..2, 3 nodes, 5 orders | `BestQuotesExact`, `NeverCrossed`, `PoolAccounting`, `QuantityConserved`, that the book implements `PriceTimePriority`, and `CallReturns`: every call ends |
| `queue` | 2 producers, a buffer of 3 slots, 2 payloads | `StampsInOrder`, and that the queue implements `BoundedFifo` |
| `fairness` | 2 traders, 3 orders of up to 2, clock 0..2, time to live 1 | `FillsWithinOrders`, `ReportSound`, `FreshOrdersTracked` |
| `manual` | 2 clients, 2 websockets, 1 logout, 2 orders of 3 kinds, 1 trade, 1 spoiled line, a queue of 1, a list of 1 row | `AnswersPaired`, `WorkingSocketsListed`, `FillsRoutable`; `RowsTruthful` and `FillsFindTheirRow` for a user who is alone and waits for each answer |
| `trader_screen` | 2 stocks, 2 pairs of quotes, 1 account, 3 websockets | `PaneIsCurrent`, `WatchListIsCurrent` |
| `admin_screen` | 5 reports of up to 3 bots and YOU, room for 2 bots and 2 rows, 2 accounts, 3 websockets | `OneAccountPerName`, `LiveSocketIsTheScreens`, `LiveIsHonest`, `PanelIsOfOneReport`, `StreamIsOfTheLatest`, `BarsKeepTheirPlaces`, `GoesDark` |
| `load_generator` | a retail trader, a market maker and a sniper, a queue of 1, 2 starts, 2 printers | `EveryOrderAccounted`, `NoThreadLeftBehind`, `PrintersKeptApart`, `StopReturns` |
| `fairness_tracking` | as `fairness` | violation: an order at rest is forgotten |
| `unreadable_command` | 2 clients, 2 orders | violation of `AnswersRouted`: an unanswered command shifts the pairing |
| `two_terminals` | 2 clients, 2 orders | violation: an ack binds to another client's row |
| `both_sides_manual` | 2 clients, 2 orders, 1 trade | violation: only one side is told of its fill |
| `tip_price` | as `trader_screen` | violation: the price of the tip does not reach the quote |

**Bounds.** Five orders on four levels with three nodes are enough for a sweep over
several levels, a partial fill at its end, a quote that runs off the array, a
pool that is empty when an order must rest and one that is refilled by a sweep.
A buffer of three slots wraps around and is full with two orders, so both producers
meet it full and the engine meets it empty. The clock of `OrderQueue` only runs
forward: were it set back, stamps would be out of order whatever the lock does, and
the main loop overwrites them anyway (`exchange_main.cpp:206`); in `FairnessAnalyzer`,
where latencies depend on it, it may be set back. Three orders of up to two lots
let an order trade twice, as maker and as taker; a clock of three ticks with
a time to live of one has an order that expires, one that does not, and a reading
that is older than an order. Two orders from two clients are the smallest
number that can be paired wrongly, two websockets with one logout the smallest
that let a client leave, or come back, while broadcasts wait. A list of one row
(`MaxRows` 1, `WhiteSpace` 0) is cut by the second order or by a fill whose row is
gone, as the list of 30 rows and two nodes of white space is by the 33rd; one spoiled
line is enough to lose the ack of an order that trades later. Three websockets
of a page are a login before, one between and one after; each may be of either
role. The reports have bots in different orders, more bots than room, and
latencies on both sides of every bound of the verdict; a chart of two bots, a
stream of two rows and one row more than them reach the cuts that 15 and 80 have in
the code. The asks of 2500.18 and bids of 2499.90 rupees are prices of a bot
(`TraderProfiles.h:39`), one of which loses a paisa and one of which does not. The
three traders are one of each way to count: one order at a time before the
queue is asked, two at once, and a burst that a stop cuts short; retail and HFT
traders differ in their pauses only. `MaxGenerated` ends the traders' rounds while
they run, not the threads, and a stopped trader never waits for it.
`CHECK_DEADLOCK FALSE` is set where the bound on the number of orders, websockets
or rows ends the behaviour.

**Fairness.** `CallReturns` needs weak fairness of the steps of a call in
progress, which is that the engine's thread, once in `process_order`, goes on
executing. It waits for no lock there (`on_trade` prints and takes the analyzer's
mutex, which every holder releases). `StopReturns` needs it of each trader's
thread, of the monitor's, and of main within `start_all` and `stop_all`: pauses end and
`try_enqueue` returns. Nothing makes main call `stop_all`, or the printers print.
`GoesDark` needs that a websocket the browser is closing is reported closed, for
which browsers have a timeout; nobody is obliged to log in or out. That
`try_enqueue` returns is the one place where a thread is assumed to get the
queue's mutex in the end; a `std::mutex` does not promise it, but its holders keep
it for a few statements only, and traders sleep between rounds.

**The kinds of order.** `manual` uses orders the server and the exchange can read,
orders outside the price bands and orders below one paisa, which the server
drops, and any line of the exchange may be spoiled by `monitor_loop`'s: the server
drops it (`server.py:50-58`), and if it was an ack or a rejection, its command is
`unanswered`. `AnswersPaired` says that answers go where they belong until that
happens; a command that `stdin_reader` cannot read is unanswered too, and what becomes
of the pairing then is the run `unreadable_command`, which drops the condition
(`AnswersRouted`). `FillsRoutable` keeps all other orders, whatever goes unanswered. What a row says is
checked while nobody else has connected and the user has waited for his
answers; `two_terminals` drops the first restriction.

## Disagreements between the code and its documentation

1. `fairness_tracking`. `guide.html:165` says that every order is tracked from
   placement to match. `cleanup_old_orders` forgets an order after 30 seconds also
   when it rests in the book; its fill is then not counted.
2. `unreadable_command`. `server.py:23-24` says that `order_sync_queue` ensures that
   acks are routed to the correct client. A line that `stdin_reader` skips
   (`exchange_main.cpp:66`) is never answered, its websocket stays at the head of
   the queue, and all later orders are recorded for the wrong client. An answer that
   `monitor_loop` has spoiled, which `server.py:55-58` drops, has the same effect.
3. `two_terminals`. The same comment; `server.py:96` sends an ack to all clients,
   and `app.js:621` takes it for the row placed last.
4. `both_sides_manual`. `server.py:27` speaks of match confirmation to the right
   client; `server.py:66-72` tells the taker's client only when the maker is not a
   manual order.
5. `tip_price`. `app.js:237` says that an order at the best ask matches instantly.
   `server.py:125` truncates 2500.18 * 100 to 250017: the order rests one paisa below
   the ask. 15425 of the prices between 760.00 and 4200.00 rupees lose a paisa.

Met while modelling, and not the subject of a run:

* `exchange_main.cpp:19` speaks of thread-safe output, and `monitor_loop` prints without
  the mutex: its line can cut into another. `PrintersKeptApart` says what does
  hold. `ManualOrders` has the lines it spoils: a trade spoiled is a fill never shown,
  an ack spoiled is an order nobody knows and a pairing that shifts.
* When a broadcast waits for a slow client, a fill sent to another overtakes the ack it
  has still to send there: the fill gets a row of its own and the order's row stays
  RESTING. `FillsFindTheirRow` excludes it for a client that is alone.
* Logging out leaves the pane of a stock and its form open (`app.js:167-174`): the next
  user finds them with old prices until he chooses a stock.
* The page never connects again; an order placed then gets a row CONNECTING that
  is never sent (`app.js:337`).
* Lists are cut by their last node, which at first is white space of the page: a row
  too many is there until it is gone (81 rows of the stream, 32 orders). A fill whose
  row has been cut gets a row of its own (`app.js:678`), which takes the place of the
  oldest.
* Choosing the panel draws the cached report at once (`app.js:402`), but the overlay
  that says WAITING stays until the next report.
* `app.js:480` says bots are sorted by fill rate, `app.js:483` sorts them by id;
  `app.js:721` says within 2x, `app.js:723` uses 2.5.
* The number above the stream counts trades as well as orders (`app.js:519`).
* A fill too fast to measure, of an order the page does not know, is shown with a
  latency of NaN (`app.js:657`, `app.js:680`).

## Proofs

All proofs are for any values of the constants within the named assumptions.

**The book** (`OrderBookProofs`).

* `BookInvariant`. `NeverCrossed` and `BestQuotesExact` are not
  inductive: while a call moves a quote, the quote is not the best price, and what
  the call may leave behind decides whether it is again when it returns. `BookInv`
  adds what holds in every step: each level holds orders of its own side and price
  in order of arrival (`LevelsInv`), no order lies beyond a quote (`QuotesBound`), a
  quote points to an order except while the call moves it (`QuotesTight`), and what
  the phase of the call says of its order and quote (`CallInv`).
  `NeverCrossedAlways` and `BestQuotesExactAlways` follow.
* `PoolAccountingAlways`. From `LevelsInv`, a resting order occurs once, in the one
  level its side and price name. Then the number of resting orders changes by
  one exactly when a node is taken or given back.
* `QuantityConservedAlways`. The sum of the trades' quantities is stated as the size
  of a set, the units traded, since a sum over a sequence would need induction over
  data. A trade adds as many units as it trades, none of them there before.
* `ServesByPriceThenTime`. The book's steps are steps of
  `PriceTimePriority` or change nothing of it. The head of the quoted level
  has priority because the quotes are exact and a level is in order of arrival.
* `TypeCorrect` also says that no array is read out of bounds.

**The queue** (`OrderQueueProofs`). In `QueueInvariant`, who is past the lock holds it,
alone; `next_head` is the slot after `head`; between store and advance the slot at
`head` holds the order. `StampsAlwaysInOrder` adds that no stamp exceeds the clock,
`QueueIsFifo` that `Contents` grows and shrinks at its ends only. `TypeCorrect`.

**The analyzer** (`FairnessAnalyzerProofs`).

* `FillsNeverExceedOrders`. The invariant is stated with the orders still tracked:
  fills plus tracked orders never exceed orders, because a fill is counted for an
  order only when it leaves the map.
* `ReportsAreSound`. `LatencyInv` bounds a trader's sum of latencies by the number of
  his matches as taker times the span of the clock; with fills within orders, the
  quotients of a report are in range.
* `FreshOrdersAlwaysTracked`. Nothing in the map need be older than the reading the reporter
  cleans up with: orders arrive after it. `TimesInv` says that, while the clock has run
  forward, that reading and all times of orders are in the past, and that the map has the
  time of the order itself; so what the clean-up erases is too old now, and a trade
  erases orders that have traded. `set_back` is needed: after a reading later than the
  clock a new order may be erased at once.
* `TypeCorrect`.

**Manual orders** (`ManualOrdersProofs`).

* `WorkingSocketsAlwaysListed`. The invariant adds that what a
  broadcast has found dead is known to be closed, for every coroutine under way,
  in whatever order they were started and removed; closed websockets do not
  open again, so it may take them off the list later.
* `AnswersAlwaysPaired`. `FlowOK` says where every message, line, command and
  coroutine comes from. `Awaited(g)` says that `order_sync_queue` is long enough for the
  answers in `stdout`, the one that `stdin_reader` has still to print, and the
  commands in `stdin`, in this order; `g` counts the answers in each prefix of `stdout`, so
  that trades and spoiled lines between them do not matter. While `unanswered` is
  empty, the queue is exactly that long and its entries are the senders (`InStep`).
  Nothing is assumed of the kinds of order: the hypothesis is in the property, about what
  has happened, and the run `unreadable_command` shows that it is needed.
* `FillsAlwaysRoutable` needs no such hypothesis: a skipped command or a spoiled answer
  makes the queue longer, so no ack that is read finds it empty. It excepts only the
  orders whose own ack was spoiled. Before an order trades, its ack is printed
  (`AcksAhead`), because `stdin_reader` prints first and enqueues next.
* `ManualTypeCorrect`. That ids stay within the number of orders placed is
  a pigeonhole argument: the number of a command is that of no other command on its
  way and of no order (`NumbersApart`). A list has `FullList` rows at most, since every row is added by
  `addOrderEntry`, which cuts it.
* `RowsAlwaysTruthful`, `FillsAlwaysFindTheirRow`, for the one login of a user who
  places an order when the last one is answered. `Undisturbed` follows the
  outstanding answer: while a row waits, at most one command, line, coroutine or
  message is about it, in one place of the way (`OneAnswer`), and its number or id is that of
  the last command. The order of `order_sync_queue` is not needed, as a broadcast
  reaches the one websocket whoever the ack is paired with; an answer that is spoiled
  leaves the row waiting, and the user with it. For fills, an order
  `pending_manual_orders` knows has a row with its id (`HasRow`: or the list is full and no
  row of the order is left), or its ack is in what was sent or
  in a broadcast that has not begun, ahead of every fill of it (`FillsSent`,
  `FillsComing`, `IdsKnown`). A broadcast that has begun has been to the
  one websocket (`LoopRight`), so a `send_to` that overtakes it finds the ack sent. After
  the user has logged out only what his rows say is kept (`RowsRight`). An order is cut for
  good: no row gets the command of an earlier one again.

**Load generator** (`LoadGeneratorProofs`).

* `NoThreadIsLeftBehind`. `ThreadsInv`: a thread that is not joined belongs to a trader
  that is running or to the one main waits for, and main has stopped the
  traders before its turn.
* `PrintersAreKeptApart`. `OutputInv`: a line has at most one message of a printer, the
  rest of it is the monitor's, and a message without its end is of the holder of the
  mutex.
* `OrdersAreAccounted`. The orders under way are a set of pairs of a trader and a
  number (`UnderwayOrders`); every step of a trader adds, drops or
  accepts as many of them as it counts. `RoundsInv` bounds what is left of a round.
* `LoadTypeCorrect`.

**The page** (`SessionProofs`, `TraderScreenProofs`, `AdminScreenProofs`).

* `SessionKeeps`, used by both screens: `SessionInv` is the types,
  `OneAccountPerName`, `LiveSocketIsTheScreens` and `LiveIsHonest` together, of which
  none is inductive alone. Whoever logs in closes only the last websocket; that no
  earlier one can receive is what the invariant carries over. A tab that stores a
  list which lacks accounts stores a prefix of the present one and a new name.
* `PaneIsAlwaysCurrent`, `WatchListIsAlwaysCurrent`. Both are
  proved with the session's invariant: a stock is chosen only on the trader's
  screen, so market data received in the administrator's role, which updates
  `market` alone, cannot come while the pane must be current.
* `PanelIsOfOneReportAlways`. The invariant
  adds that the panel is only active with charts that are made and that what has
  been reported is kept: a report that comes while the panel is hidden is drawn
  when it is chosen, one that comes later at once.
* `StreamIsAlwaysOfTheLatest`. `Shows` says that the rows are the latest, in order, and
  that white space, if any is left, is the last node: so the cut of the last node
  takes the white space first, and only then the oldest row.
* `BarsAlwaysKeepTheirPlaces`. The bars of a report are in order of id after YOU,
  who comes first if he is reported (`Sorted`). The places of the traders fill the room without a gap (a pigeonhole
  argument), and two sorted charts of the same traders agree: otherwise there would
  be a least place where they differ, and the trader there would have none in
  the other chart.
* `TypeCorrect` of the trader's screen, `AdminTypeCorrect`.

Assumptions: `BookAssumption`, `QueueAssumption`, `AnalyzerAssumption`,
`ManualAssumption`, `SessionAssumption`, `TraderAssumption`, `AdminAssumption`,
`LoadAssumption`, `OutputAssumption`, `TerminalAssumption`; they
say that bounds are numbers, that names are distinct, that prices are positive, that a page can connect,
that a report is a list of records with numbers as ids which lists a trader once,
that the administrator's password is long enough to be one, that a line has at least
two pieces, and that 64-bit time does not run out.

Only model-checked: `CallReturns`, `GoesDark`, `StopReturns` (liveness is out of the
prover's reach). Every other property of the passing runs is a theorem.

## Not modelled, and the plan

Left out for good: the markup, the styles and the look of the charts, the build
files; the texts of errors; the throughput that `handleEngineStats` shows and the
rates of `monitor_loop`, which are read by nobody; the counters of one trader,
which `get_stats` returns to nobody; what is in the bots' orders.

Still to come:

1. `PriceLevels`: the pool's free list and the nodes' `next`/`prev` pointers, shown
   to implement the sequences and the count that `OrderBook` uses.
2. The reporter's unsynchronised reads of the quotes, and how long `stdin_reader`
   retries.
