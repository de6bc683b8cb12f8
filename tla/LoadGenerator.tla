--------------------------- MODULE LoadGenerator -----------------------------
(***************************************************************************)
(* The load generator: the traders' threads, which put orders into the     *)
(* order queue and count what they generate and drop, the monitor's        *)
(* thread, which prints rates of the two counts, and the main thread,      *)
(* which starts them, takes orders from the queue and may stop them.       *)
(* The loop of exchange_main.cpp never ends, so the process is killed with *)
(* its threads; here it may, which is what stop_all is for, and start_all  *)
(* may follow again.                                                       *)
(*                                                                         *)
(* try_enqueue and try_dequeue are single steps, as OrderQueue shows them  *)
(* to be; a queue is the number of its orders.                             *)
(***************************************************************************)
EXTENDS Output, FiniteSets

CONSTANTS
  Profiles,        (* the profile of each trader, in the order of traders   *)
  QueueSize,       (* the orders the queue holds at most                    *)
  MaxBurst,        (* the most orders of a sniper's burst, 15               *)
  MaxGenerated,    (* bound: traders go on only below so many orders        *)
  MaxStarts        (* bound: calls of start_all                             *)

ProfileNames == {"RetailTrader", "HFTTrader", "MarketMaker", "SniperTrader"}

ASSUME LoadAssumption ==
  /\ Profiles \in Seq(ProfileNames)
  /\ QueueSize \in Nat
  /\ MaxBurst \in Nat \ {0}
  /\ MaxGenerated \in Nat
  /\ MaxStarts \in Nat

VARIABLES
  main,               (* what the main thread does                          *)
  turn,               (* the trader its loop has come to                    *)
  running,            (* running[t]                                         *)
  worker,             (* worker[t]: where t's thread is, or NoThread        *)
  left,               (* left[t]: the orders left of t's round              *)
  global_generated,
  global_dropped,
  queued,             (* the orders in the queue                            *)
  monitoring,
  monitor,            (* where the monitor's thread is, or NoThread         *)
  taken,              (* history: the orders the main thread has taken      *)
  starts              (* the calls of start_all so far                      *)

caller == <<main, turn, starts>>
traders == <<running, worker, left>>
counts == <<global_generated, global_dropped>>
orders == <<queued, taken>>
monitors == <<monitoring, monitor>>
vars == <<caller, traders, counts, orders, monitors, output>>

Traders == DOMAIN Profiles
NoThread == "no thread"
Ended == "ended"    (* a thread that has returned and is not joined yet     *)

Init ==
  /\ OutputInit
  /\ main = "idle"
  /\ turn = 1
  /\ starts = 0
  /\ running = [t \in Traders |-> FALSE]
  /\ worker = [t \in Traders |-> NoThread]
  /\ left = [t \in Traders |-> 0]
  /\ global_generated = 0
  /\ global_dropped = 0
  /\ queued = 0
  /\ taken = 0
  /\ monitoring = FALSE
  /\ monitor = NoThread
-----------------------------------------------------------------------------
(* start_all: Trader::start for one after the other, then the monitor.     *)
start_all ==
  /\ main = "idle"
  /\ starts < MaxStarts
  /\ starts' = starts + 1
  /\ main' = "starting"
  /\ turn' = 1
  /\ UNCHANGED <<traders, counts, orders, monitors, output>>

StartTrader ==
  /\ main = "starting"
  /\ turn \in Traders
  /\ IF running[turn] THEN UNCHANGED <<running, worker>>
     ELSE /\ running' = [running EXCEPT ![turn] = TRUE]
          /\ worker' = [worker EXCEPT ![turn] = "check"]
  /\ turn' = turn + 1
  /\ UNCHANGED <<main, starts, left, counts, orders, monitors, output>>

StartMonitor ==
  /\ main = "starting"
  /\ turn \notin Traders
  /\ main' = "trading"
  /\ monitoring' = TRUE
  /\ monitor' = "check"
  /\ turn' = 1
  /\ UNCHANGED <<starts, traders, counts, orders, output>>

(* The main loop.                                                          *)
TakeOrder ==
  /\ main = "trading"
  /\ queued > 0
  /\ queued' = queued - 1
  /\ taken' = taken + 1
  /\ UNCHANGED <<caller, traders, counts, monitors, output>>

(* stop_all, called by main or by the destructor: the monitor first.       *)
stop_all ==
  /\ main \in {"idle", "trading"}
  /\ main' = "joining_monitor"
  /\ monitoring' = FALSE
  /\ UNCHANGED <<turn, starts, traders, counts, orders, monitor, output>>

JoinMonitor ==
  /\ main = "joining_monitor"
  /\ monitor \in {NoThread, Ended}
  /\ monitor' = NoThread
  /\ main' = "stopping"
  /\ turn' = 1
  /\ UNCHANGED <<starts, traders, counts, orders, monitoring, output>>

(* Trader::stop for one after the other.                                   *)
FlagKept == running  (* a mutant                                            *)
FlagLowered == [running EXCEPT ![turn] = FALSE]

StopTrader ==
  /\ main = "stopping"
  /\ turn \in Traders
  /\ running' = FlagLowered
  /\ IF running[turn] THEN main' = "joining" /\ UNCHANGED turn
     ELSE turn' = turn + 1 /\ UNCHANGED main
  /\ UNCHANGED <<starts, worker, left, counts, orders, monitors, output>>

MayJoinAlways == TRUE  (* a mutant                                          *)
MayJoin == worker[turn] = Ended

JoinTrader ==
  /\ main = "joining"
  /\ MayJoin
  /\ worker' = [worker EXCEPT ![turn] = IF @ = Ended THEN NoThread ELSE @]
  /\ main' = "stopping"
  /\ turn' = turn + 1
  /\ UNCHANGED <<starts, running, left, counts, orders, monitors, output>>

Stopped ==
  /\ main = "stopping"
  /\ turn \notin Traders
  /\ main' = "idle"
  /\ turn' = 1
  /\ UNCHANGED <<starts, traders, counts, orders, monitors, output>>

MainStep ==
  \/ start_all
  \/ StartTrader
  \/ StartMonitor
  \/ TakeOrder
  \/ stop_all
  \/ JoinMonitor
  \/ StopTrader
  \/ JoinTrader
  \/ Stopped
-----------------------------------------------------------------------------
(* run() of trader t.                                                      *)
Goto(t, place) == worker' = [worker EXCEPT ![t] = place]

(* The condition of the outer loop.                                        *)
CheckRunning(t) ==
  /\ worker[t] = "check"
  /\ running[t] => global_generated < MaxGenerated
  /\ Goto(t, IF running[t] THEN "round" ELSE Ended)
  /\ UNCHANGED <<caller, running, left, counts, orders, monitors, output>>

(* The orders of a round.                                                  *)
RoundSizes(profile) ==
  CASE profile \in {"RetailTrader", "HFTTrader"} -> {1}
    [] profile = "MarketMaker"                   -> {2}
    [] profile = "SniperTrader"                  -> 1..MaxBurst

(* A trader makes up its orders.  All but a sniper count them now.         *)
CountedOnce(t, n) ==  (* a mutant                                           *)
  IF Profiles[t] = "SniperTrader" THEN 0 ELSE 1
Counted(t, n) == IF Profiles[t] = "SniperTrader" THEN 0 ELSE n

Generate(t) ==
  /\ worker[t] = "round"
  /\ \E n \in RoundSizes(Profiles[t]) :
       /\ left' = [left EXCEPT ![t] = n]
       /\ global_generated' = global_generated + Counted(t, n)
  /\ Goto(t, IF Profiles[t] = "SniperTrader" THEN "burst" ELSE "enqueue")
  /\ UNCHANGED <<caller, running, global_dropped, orders, monitors, output>>

(* The condition of a sniper's loop over his burst; he counts one order at *)
(* a time, and leaves the rest of the burst when he is stopped.            *)
Burst(t) ==
  /\ worker[t] = "burst"
  /\ IF left[t] > 0 /\ running[t]
     THEN /\ global_generated' = global_generated + 1
          /\ Goto(t, "enqueue")
          /\ UNCHANGED left
     ELSE /\ left' = [left EXCEPT ![t] = 0]
          /\ Goto(t, "check")
          /\ UNCHANGED global_generated
  /\ UNCHANGED <<caller, running, global_dropped, orders, monitors, output>>

(* Where a trader goes on after an order.                                  *)
NextOrder(t) ==
  /\ left' = [left EXCEPT ![t] = @ - 1]
  /\ Goto(t, IF Profiles[t] = "SniperTrader" THEN "burst"
             ELSE IF left[t] > 1 THEN "enqueue" ELSE "check")

(* The result of try_enqueue.                                              *)
HasRoomAlways == TRUE  (* a mutant                                          *)
HasRoom == queued < QueueSize

TryEnqueue(t) ==
  /\ worker[t] = "enqueue"
  /\ IF HasRoom
     THEN queued' = queued + 1 /\ NextOrder(t)
     ELSE Goto(t, "drop") /\ UNCHANGED <<queued, left>>
  /\ UNCHANGED <<caller, running, counts, taken, monitors, output>>

CountDrop(t) ==
  /\ worker[t] = "drop"
  /\ global_dropped' = global_dropped + 1
  /\ NextOrder(t)
  /\ UNCHANGED <<caller, running, global_generated, orders, monitors, output>>

TraderStep(t) ==
  \/ CheckRunning(t)
  \/ Generate(t)
  \/ Burst(t)
  \/ TryEnqueue(t)
  \/ CountDrop(t)
-----------------------------------------------------------------------------
(* monitor_loop: every five seconds a line with rates of the two counts,   *)
(* each read once.  Nobody acts on the rates, and they are left out.       *)
CheckMonitoring ==
  /\ monitor = "check"
  /\ monitor' = IF monitoring THEN "print" ELSE Ended
  /\ UNCHANGED <<caller, traders, counts, orders, monitoring, output>>

PrintStats ==
  /\ monitor = "print"
  /\ PutStats
  /\ monitor' = IF written' = 0 THEN "check" ELSE "print"
  /\ UNCHANGED <<caller, traders, counts, orders, monitoring>>

MonitorStep ==
  \/ CheckMonitoring
  \/ PrintStats

PrinterStep == safe_print /\ UNCHANGED <<caller, traders, counts, orders, monitors>>

Next ==
  \/ MainStep
  \/ \E t \in Traders : TraderStep(t)
  \/ MonitorStep
  \/ PrinterStep

Spec == Init /\ [][Next]_vars

(* Every thread goes on: the traders' and the monitor's sleeps end, and    *)
(* try_enqueue returns.  Nothing makes main call stop_all.                 *)
FairSpec ==
  /\ Spec
  /\ WF_vars(MainStep /\ main \notin {"idle", "trading"})
  /\ \A t \in Traders : WF_vars(TraderStep(t))
  /\ WF_vars(MonitorStep)
-----------------------------------------------------------------------------
(***************************************************************************)
(* Properties.                                                             *)
(***************************************************************************)
Places == {NoThread, "check", "round", "burst", "enqueue", "drop", Ended}

(* The values of the variables.                                            *)
TypeOK ==
  /\ main \in {"idle", "starting", "trading", "joining_monitor", "stopping", "joining"}
  /\ turn \in 1..(Len(Profiles) + 1)
  /\ running \in [Traders -> BOOLEAN]
  /\ worker \in [Traders -> Places]
  /\ left \in [Traders -> 0..(MaxBurst + 2)]
  /\ queued \in 0..QueueSize
  /\ monitoring \in BOOLEAN
  /\ monitor \in {NoThread, "check", "print", Ended}
  /\ cout_mutex \in Printers \cup {Free}

(* How many orders of t are counted as generated, and neither in the queue *)
(* nor counted as dropped.                                                 *)
Underway(t) ==
  IF worker[t] \notin {"enqueue", "drop"} THEN 0
  ELSE IF Profiles[t] = "SniperTrader" THEN 1 ELSE left[t]

(* All of them, each as its trader and the number it has with him.         *)
UnderwayOrders == UNION {{t} \X (1..Underway(t)) : t \in Traders}

(* The counters tell the truth about the queue: what was generated was     *)
(* taken, waits in the queue, was dropped, or is under way, with all       *)
(* traders at it at once, rounds that are half refused and bursts that are *)
(* cut short.                                                              *)
EveryOrderAccounted ==
  global_generated = taken + queued + global_dropped + Cardinality(UnderwayOrders)

(* When stop_all has returned no thread is left that could use the queue   *)
(* or the traders, which are destroyed next, or that start_all would find  *)
(* in the way: assigning to a std::thread that is not joined ends the      *)
(* process.  Nor is one in a trader that start is about to start.          *)
NoThreadLeftBehind ==
  /\ main = "idle" => /\ \A t \in Traders : worker[t] = NoThread /\ ~running[t]
                      /\ monitor = NoThread
  /\ main = "starting" => \A t \in Traders : t >= turn => worker[t] = NoThread

(* exchange_main.cpp: "Thread-safe output to prevent JSON corruption".     *)
(* safe_print keeps the lines of its callers apart: no line has two of     *)
(* their messages in it.  (It may have one of them and pieces of           *)
(* monitor_loop's line, which is printed without cout_mutex.)              *)
PrintersKeptApart ==
  \A i, j \in DOMAIN line : line[i] # Monitor /\ line[j] # Monitor => i = j

(* stop_all returns: nobody waits for a thread that does not end.          *)
StopReturns == main = "joining_monitor" ~> main = "idle"
=============================================================================
