------------------------ MODULE LoadGeneratorProofs --------------------------
(***************************************************************************)
(* Proofs about LoadGenerator, for any traders, any queue and any bursts:  *)
(* its threads are gone when stop_all returns, its counters agree with the *)
(* queue, and safe_print keeps the printers apart.                         *)
(***************************************************************************)
EXTENDS LoadGenerator, FiniteSetTheorems, TLAPS

Mains == {"idle", "starting", "trading", "joining_monitor", "stopping", "joining"}

(* A thread that is not joined belongs to a trader that is running, or to  *)
(* the one that main is waiting for; main has stopped the traders before   *)
(* its turn, and has still to start those from its turn on.                *)
ThreadsInv ==
  /\ main \in Mains
  /\ turn \in 1..(Len(Profiles) + 1)
  /\ running \in [Traders -> BOOLEAN]
  /\ worker \in [Traders -> Places]
  /\ monitoring \in BOOLEAN
  /\ monitor \in {NoThread, "check", "print", Ended}
  /\ main = "joining" => turn \in Traders /\ ~running[turn]
  /\ \A t \in Traders : running[t] => worker[t] \notin {NoThread, Ended}
  /\ \A t \in Traders : worker[t] # NoThread => running[t] \/ (main = "joining" /\ turn = t)
  /\ main = "idle" => \A t \in Traders : ~running[t]
  /\ main = "starting" => \A t \in Traders : t >= turn => ~running[t]
  /\ main \in {"stopping", "joining"} => \A t \in Traders : t < turn => ~running[t]
  /\ main \in {"idle", "starting", "stopping", "joining"} => monitor = NoThread

LEMMA Turns ==
  /\ Traders = 1..Len(Profiles)
  /\ 1 \in 1..(Len(Profiles) + 1)
  /\ \A i \in Traders : i \in Nat /\ i >= 1 /\ i + 1 \in 1..(Len(Profiles) + 1)
  /\ \A i \in 1..(Len(Profiles) + 1) :
       i \in Nat /\ (i \notin Traders => \A t \in Traders : t < i)
<1> DEFINE n == Len(Profiles)
<1>1. n \in Nat /\ Traders = 1..n
  BY LoadAssumption DEF Traders
<1> HIDE DEF n
<1>2. /\ 1 \in 1..(n + 1)
      /\ \A i \in Traders : i \in Nat /\ i >= 1 /\ i + 1 \in 1..(n + 1)
      /\ \A i \in 1..(n + 1) : i \in Nat /\ (i \notin Traders => \A t \in Traders : t < i)
  BY <1>1
<1> QED BY <1>1, <1>2 DEF n

LEMMA ThreadsStart == Init => ThreadsInv
<1> SUFFICES ASSUME Init PROVE ThreadsInv
  OBVIOUS
<1>1. turn \in 1..(Len(Profiles) + 1)
  BY Turns DEF Init
<1> QED BY <1>1 DEF Init, ThreadsInv, Mains, Places

(* What the main thread does with the threads.                             *)
LEMMA MainKeepsThreads ==
  ASSUME ThreadsInv, MainStep
  PROVE  ThreadsInv'
<1> DEFINE turns == 1..(Len(Profiles) + 1)
<1>1. /\ 1 \in turns
      /\ \A i \in Traders : i \in Nat /\ i >= 1 /\ i + 1 \in turns
      /\ \A i \in turns : i \in Nat /\ (i \notin Traders => \A t \in Traders : t < i)
      /\ turn \in turns
  BY Turns DEF ThreadsInv
<1> HIDE DEF turns
<1>2. turn' \in turns => turn' \in 1..(Len(Profiles) + 1)
  BY DEF turns
<1>3. /\ \A i, t \in Traders : t >= i + 1 => t >= i /\ t # i
      /\ \A i, t \in Traders : t < i + 1 => t < i \/ t = i
      /\ \A t \in Traders : ~ (t < 1)
  BY <1>1
<1> USE <1>1, <1>2, <1>3 DEF ThreadsInv, Mains, Places, NoThread, Ended
<1>4. CASE start_all
  BY <1>4 DEF start_all, traders, monitors
<1>5. CASE StartTrader
  <2>1. /\ turn \in Traders /\ turn' = turn + 1 /\ main = "starting"
        /\ UNCHANGED <<main, monitors>>
        /\ \/ UNCHANGED <<running, worker>>
           \/ /\ running' = [running EXCEPT ![turn] = TRUE]
              /\ worker' = [worker EXCEPT ![turn] = "check"]
    BY <1>5 DEF StartTrader
  <2>2. turn' \in turns /\ \A t \in Traders : t >= turn' => t >= turn /\ t # turn
    BY <2>1
  <2>3. CASE UNCHANGED <<running, worker>>
    BY <2>1, <2>2, <2>3 DEF monitors
  <2>4. CASE /\ running' = [running EXCEPT ![turn] = TRUE]
             /\ worker' = [worker EXCEPT ![turn] = "check"]
    BY <2>1, <2>2, <2>4 DEF monitors
  <2> QED BY <2>1, <2>3, <2>4
<1>6. CASE StartMonitor
  BY <1>6 DEF StartMonitor, traders
<1>7. CASE TakeOrder
  BY <1>7 DEF TakeOrder, caller, traders, monitors
<1>8. CASE stop_all
  BY <1>8 DEF stop_all, traders
<1>9. CASE JoinMonitor
  <2>1. /\ main' = "stopping" /\ turn' = 1 /\ monitor' = NoThread
        /\ main = "joining_monitor"
        /\ UNCHANGED <<running, worker, monitoring>>
    BY <1>9 DEF JoinMonitor, traders
  <2> QED BY <2>1
<1>10. CASE StopTrader
  <2>1. /\ main = "stopping" /\ turn \in Traders
        /\ running' = [running EXCEPT ![turn] = FALSE]
        /\ UNCHANGED <<worker, monitors>>
    BY <1>10 DEF StopTrader, FlagLowered
  <2>2. CASE running[turn] /\ main' = "joining" /\ UNCHANGED turn
    BY <2>1, <2>2 DEF monitors
  <2>3. CASE ~running[turn] /\ turn' = turn + 1 /\ UNCHANGED main
    BY <2>1, <2>3 DEF monitors
  <2> QED BY <2>2, <2>3, <1>10 DEF StopTrader
<1>11. CASE JoinTrader
  <2>1. /\ main = "joining" /\ main' = "stopping" /\ turn' = turn + 1
        /\ worker' = [worker EXCEPT ![turn] = NoThread]
        /\ UNCHANGED <<running, monitors>>
    BY <1>11 DEF JoinTrader, MayJoin
  <2> QED BY <2>1 DEF monitors
<1>12. CASE Stopped
  BY <1>12 DEF Stopped, traders, monitors
<1> QED
  BY <1>4, <1>5, <1>6, <1>7, <1>8, <1>9, <1>10, <1>11, <1>12, MainStep DEF MainStep

(* A trader's thread ends by itself, when its flag is down.                *)
LEMMA TraderKeepsThreads ==
  ASSUME ThreadsInv, NEW t \in Traders, TraderStep(t)
  PROVE  ThreadsInv'
<1>1. /\ UNCHANGED <<main, turn, running, monitoring, monitor>>
      /\ \E place \in Places \ {NoThread} : worker' = [worker EXCEPT ![t] = place]
      /\ worker'[t] = Ended => ~running[t]
      /\ worker[t] # NoThread
  <2> USE DEF TraderStep, CheckRunning, Generate, Burst, TryEnqueue, CountDrop, NextOrder, Goto,
              Places, NoThread, Ended, caller, monitors, ThreadsInv
  <2>1. CASE CheckRunning(t)
    BY <2>1
  <2>2. CASE Generate(t)
    BY <2>2
  <2>3. CASE Burst(t)
    BY <2>3
  <2>4. CASE TryEnqueue(t)
    BY <2>4
  <2>5. CASE CountDrop(t)
    BY <2>5
  <2> QED BY <2>1, <2>2, <2>3, <2>4, <2>5
<1>2. QED BY <1>1 DEF ThreadsInv

LEMMA ThreadsKeep == ThreadsInv /\ [Next]_vars => ThreadsInv'
<1> SUFFICES ASSUME ThreadsInv, [Next]_vars PROVE ThreadsInv'
  OBVIOUS
<1>1. CASE MonitorStep
  BY <1>1 DEF MonitorStep, CheckMonitoring, PrintStats, ThreadsInv, caller, traders,
              NoThread, Ended
<1>2. CASE PrinterStep \/ UNCHANGED vars
  BY <1>2 DEF PrinterStep, vars, ThreadsInv, caller, traders, monitors
<1> QED BY <1>1, <1>2, MainKeepsThreads, TraderKeepsThreads DEF Next

LEMMA ThreadsAlways == Spec => []ThreadsInv
BY ThreadsStart, ThreadsKeep, PTL DEF Spec

(* When stop_all has returned no thread is left, and start finds none in a *)
(* trader that it is about to start.                                       *)
THEOREM NoThreadIsLeftBehind == Spec => []NoThreadLeftBehind
<1>1. ThreadsInv => NoThreadLeftBehind
  BY Turns DEF ThreadsInv, NoThreadLeftBehind, Mains
<1> QED BY <1>1, ThreadsAlways, PTL
-----------------------------------------------------------------------------
(* Output: the holder of cout_mutex has put one message, or none, into the *)
(* line; nobody else has any there.                                        *)
OutputInv ==
  /\ cout_mutex \in Printers \cup {Free}
  /\ printing \in {0, 1}
  /\ cout_mutex = Free => printing = 0
  /\ line \in Seq(Printers \cup {Monitor})
  /\ printing = 0 => \A i \in 1..Len(line) : line[i] = Monitor
  /\ \A i, j \in 1..Len(line) : line[i] # Monitor /\ line[j] # Monitor => i = j

LEMMA OutputStarts == Init => OutputInv
BY DEF Init, OutputInit, OutputInv

(* A message of p at the end of a line that has only pieces of the monitor,*)
(* or a piece of the monitor at the end of any line.                       *)
LEMMA PutKeeps ==
  ASSUME OutputInv, NEW p \in Printers \cup {Monitor}, Put(p),
         p = Monitor \/ \A i \in 1..Len(line) : line[i] = Monitor
  PROVE  /\ line' \in Seq(Printers \cup {Monitor})
         /\ p = Monitor => \A i \in 1..Len(line') :
                             line'[i] = Monitor \/ (i \in 1..Len(line) /\ line'[i] = line[i])
         /\ \A i, j \in 1..Len(line') : line'[i] # Monitor /\ line'[j] # Monitor => i = j
<1>1. line \in Seq(Printers \cup {Monitor}) /\ line' = Append(line, p)
  BY DEF OutputInv, Put
<1>2. /\ line' \in Seq(Printers \cup {Monitor})
      /\ \A i \in 1..Len(line') :
           \/ i \in 1..Len(line) /\ line'[i] = line[i]
           \/ i = Len(line) + 1 /\ line'[i] = p
  BY <1>1
<1> QED BY <1>2 DEF OutputInv

LEMMA OutputKeeps == OutputInv /\ [Next]_vars => OutputInv'
<1> SUFFICES ASSUME OutputInv, [Next]_vars PROVE OutputInv'
  OBVIOUS
<1>1. CASE UNCHANGED output
  BY <1>1 DEF output, OutputInv
<1>2. ASSUME NEW p \in Printers, Lock(p) PROVE OutputInv'
  BY <1>2 DEF Lock, MayLock, OutputInv
<1>3. CASE PutJson
  <2>1. /\ cout_mutex \in Printers /\ Put(cout_mutex) /\ printing' = 1 /\ UNCHANGED cout_mutex
        /\ \A i \in 1..Len(line) : line[i] = Monitor
    BY <1>3 DEF PutJson, OutputInv
  <2>2. /\ line' \in Seq(Printers \cup {Monitor})
        /\ \A i, j \in 1..Len(line') : line'[i] # Monitor /\ line'[j] # Monitor => i = j
    BY <2>1, PutKeeps
  <2> QED BY <2>1, <2>2, OutputAssumption DEF OutputInv
<1>4. CASE PutEndl
  BY <1>4 DEF PutEndl, EndLine, OutputInv
<1>5. CASE PutStats
  <2>1. UNCHANGED <<cout_mutex, printing>>
    BY <1>5 DEF PutStats
  <2>2. CASE EndLine
    BY <2>1, <2>2 DEF EndLine, OutputInv
  <2>3. CASE Put(Monitor)
    <3>1. /\ line' \in Seq(Printers \cup {Monitor})
          /\ \A i \in 1..Len(line') :
               line'[i] = Monitor \/ (i \in 1..Len(line) /\ line'[i] = line[i])
          /\ \A i, j \in 1..Len(line') : line'[i] # Monitor /\ line'[j] # Monitor => i = j
      BY <2>3, PutKeeps
    <3> QED BY <2>1, <3>1 DEF OutputInv
  <2> QED BY <1>5, <2>2, <2>3 DEF PutStats
<1>6. CASE MainStep \/ (\E t \in Traders : TraderStep(t)) \/ CheckMonitoring \/ UNCHANGED vars
  <2>1. UNCHANGED output
    BY <1>6 DEF MainStep, start_all, StartTrader, StartMonitor, TakeOrder, stop_all, JoinMonitor,
                StopTrader, JoinTrader, Stopped, TraderStep, CheckRunning, Generate, Burst,
                TryEnqueue, CountDrop, CheckMonitoring, vars
  <2> QED BY <1>1, <2>1
<1> QED
  BY <1>2, <1>3, <1>4, <1>5, <1>6 DEF Next, MonitorStep, PrintStats, PrinterStep, safe_print

LEMMA OutputAlways == Spec => []OutputInv
BY OutputStarts, OutputKeeps, PTL DEF Spec

(* safe_print keeps the lines of its callers apart.                        *)
THEOREM PrintersAreKeptApart == Spec => []PrintersKeptApart
<1>1. OutputInv => PrintersKeptApart
  BY DEF OutputInv, PrintersKeptApart
<1> QED BY <1>1, OutputAlways, PTL
-----------------------------------------------------------------------------
(* A trader at the queue has an order left, and only snipers burst.        *)
RoundsInv ==
  /\ global_generated \in Nat /\ global_dropped \in Nat /\ taken \in Nat
  /\ left \in [Traders -> 0..(MaxBurst + 2)]
  /\ queued \in 0..QueueSize
  /\ worker \in [Traders -> Places]
  /\ \A t \in Traders : worker[t] \in {"enqueue", "drop"} => left[t] >= 1
  /\ \A t \in Traders : worker[t] = "burst" => Profiles[t] = "SniperTrader"

LEMMA RoundsStart == Init => RoundsInv
<1> SUFFICES ASSUME Init PROVE RoundsInv
  OBVIOUS
<1>1. 0 \in 0..(MaxBurst + 2) /\ 0 \in 0..QueueSize
  BY LoadAssumption
<1> QED BY <1>1 DEF Init, RoundsInv, Places, NoThread

(* How many orders a round has.                                            *)
LEMMA RoundSize ==
  ASSUME NEW t \in Traders, NEW n \in RoundSizes(Profiles[t])
  PROVE  n \in 1..(MaxBurst + 2) /\ (Profiles[t] # "SniperTrader" => n \in {1, 2})
<1>1. MaxBurst \in Nat \ {0} /\ Profiles[t] \in ProfileNames
  BY LoadAssumption DEF Traders
<1>2. CASE Profiles[t] \in {"RetailTrader", "HFTTrader"}
  BY <1>1, <1>2 DEF RoundSizes
<1>3. CASE Profiles[t] = "MarketMaker"
  BY <1>1, <1>3 DEF RoundSizes
<1>4. CASE Profiles[t] = "SniperTrader"
  BY <1>1, <1>4 DEF RoundSizes
<1> QED BY <1>1, <1>2, <1>3, <1>4 DEF ProfileNames

(* The main thread touches no trader at work.                              *)
LEMMA MainLeavesRounds ==
  ASSUME ThreadsInv, RoundsInv, MainStep
  PROVE  /\ UNCHANGED <<left, global_generated, global_dropped>>
         /\ queued' \in 0..QueueSize /\ taken' \in Nat /\ taken' + queued' = taken + queued
         /\ worker' \in [Traders -> Places]
         /\ \A t \in Traders :
              \/ worker'[t] = worker[t]
              \/ worker[t] \in {NoThread, Ended} /\ worker'[t] \in {NoThread, "check"}
<1>1. CASE StartTrader
  <2>1. main = "starting" /\ turn \in Traders /\ (~running[turn] => worker[turn] = NoThread)
    BY <1>1 DEF StartTrader, ThreadsInv
  <2> QED BY <1>1, <2>1 DEF StartTrader, RoundsInv, Places, counts, orders
<1>2. CASE JoinTrader
  BY <1>2 DEF JoinTrader, MayJoin, ThreadsInv, RoundsInv, Places, counts, orders
<1>3. CASE TakeOrder
  <2>1. queued \in 0..QueueSize /\ QueueSize \in Nat /\ taken \in Nat
    BY LoadAssumption DEF RoundsInv
  <2> QED BY <1>3, <2>1 DEF TakeOrder, RoundsInv, traders, counts
<1>4. CASE start_all \/ StartMonitor \/ stop_all \/ JoinMonitor \/ StopTrader \/ Stopped
  BY <1>4 DEF start_all, StartMonitor, stop_all, JoinMonitor, StopTrader, Stopped, RoundsInv,
              traders, counts, orders
<1> QED BY <1>1, <1>2, <1>3, <1>4 DEF MainStep

(* A trader's step: where his thread goes and how many orders are left of  *)
(* his round.                                                              *)
LEMMA TraderMoves ==
  ASSUME RoundsInv, NEW t \in Traders, TraderStep(t)
  PROVE  \E place \in Places \ {NoThread}, n \in 0..(MaxBurst + 2) :
           /\ worker' = [worker EXCEPT ![t] = place]
           /\ left' = [left EXCEPT ![t] = n]
           /\ place \in {"enqueue", "drop"} => n >= 1
           /\ place = "burst" => Profiles[t] = "SniperTrader"
           /\ queued' \in 0..QueueSize /\ taken' = taken
           /\ global_generated' \in Nat /\ global_dropped' \in Nat
<1>0. /\ left[t] \in 0..(MaxBurst + 2) /\ MaxBurst \in Nat /\ QueueSize \in Nat
      /\ left = [left EXCEPT ![t] = left[t]]
      /\ global_generated \in Nat /\ global_dropped \in Nat /\ queued \in 0..QueueSize
  BY LoadAssumption DEF RoundsInv
<1>1. CASE CheckRunning(t)
  <2> DEFINE place == IF running[t] THEN "round" ELSE Ended
  <2>1. /\ worker' = [worker EXCEPT ![t] = place] /\ left' = [left EXCEPT ![t] = left[t]]
        /\ UNCHANGED <<queued, taken, global_generated, global_dropped>>
    BY <1>0, <1>1 DEF CheckRunning, Goto, counts, orders
  <2>2. place \in Places \ {NoThread} /\ place \notin {"enqueue", "drop", "burst"}
    BY DEF Places, NoThread, Ended
  <2> HIDE DEF place
  <2> QED BY <2>1, <2>2, <1>0
<1>2. CASE Generate(t)
  <2>1. PICK n \in RoundSizes(Profiles[t]) :
          /\ left' = [left EXCEPT ![t] = n]
          /\ global_generated' = global_generated + Counted(t, n)
    BY <1>2 DEF Generate
  <2>2. /\ worker' = [worker EXCEPT ![t] =
                        IF Profiles[t] = "SniperTrader" THEN "burst" ELSE "enqueue"]
        /\ UNCHANGED <<queued, taken, global_dropped>>
    BY <1>2 DEF Generate, Goto, orders
  <2>3. n \in 0..(MaxBurst + 2) /\ n >= 1 /\ n \in Nat
    BY RoundSize, <1>0
  <2>4. global_generated' \in Nat
    BY <2>1, <2>3, <1>0 DEF Counted
  <2> QED BY <2>1, <2>2, <2>3, <2>4, <1>0 DEF Places, NoThread, Ended
<1>3. CASE Burst(t)
  <2>1. worker[t] = "burst" /\ Profiles[t] = "SniperTrader"
    BY <1>3 DEF Burst, RoundsInv
  <2>2. CASE left[t] > 0 /\ running[t]
    <3>1. /\ worker' = [worker EXCEPT ![t] = "enqueue"]
          /\ left' = [left EXCEPT ![t] = left[t]] /\ left[t] >= 1
          /\ global_generated' = global_generated + 1
          /\ UNCHANGED <<queued, taken, global_dropped>>
      BY <1>0, <1>3, <2>2 DEF Burst, Goto, orders
    <3>2. "enqueue" \in Places \ {NoThread} /\ global_generated' \in Nat
      BY <3>1, <1>0 DEF Places, NoThread
    <3> QED BY <3>1, <3>2, <1>0
  <2>3. CASE ~(left[t] > 0 /\ running[t])
    <3>1. /\ worker' = [worker EXCEPT ![t] = "check"] /\ left' = [left EXCEPT ![t] = 0]
          /\ UNCHANGED <<queued, taken, global_dropped, global_generated>>
      BY <1>3, <2>3 DEF Burst, Goto, orders
    <3>2. "check" \in Places \ {NoThread} /\ 0 \in 0..(MaxBurst + 2)
      BY <1>0 DEF Places, NoThread
    <3> QED BY <3>1, <3>2, <1>0
  <2> QED BY <2>2, <2>3
<1>4. ASSUME NextOrder(t), left[t] >= 1, queued' \in 0..QueueSize, taken' = taken,
             global_generated' \in Nat, global_dropped' \in Nat
      PROVE  \E place \in Places \ {NoThread}, n \in 0..(MaxBurst + 2) :
               /\ worker' = [worker EXCEPT ![t] = place]
               /\ left' = [left EXCEPT ![t] = n]
               /\ place \in {"enqueue", "drop"} => n >= 1
               /\ place = "burst" => Profiles[t] = "SniperTrader"
  <2> DEFINE place == IF Profiles[t] = "SniperTrader" THEN "burst"
                      ELSE IF left[t] > 1 THEN "enqueue" ELSE "check"
             n == left[t] - 1
  <2>1. worker' = [worker EXCEPT ![t] = place] /\ left' = [left EXCEPT ![t] = n]
    BY <1>4 DEF NextOrder, Goto
  <2>2. /\ place \in Places \ {NoThread} /\ n \in 0..(MaxBurst + 2)
        /\ place \in {"enqueue", "drop"} => n >= 1
        /\ place = "burst" => Profiles[t] = "SniperTrader"
    BY <1>0, <1>4 DEF Places, NoThread, Ended
  <2> QED BY <2>1, <2>2
<1>5. CASE TryEnqueue(t)
  <2>1. left[t] >= 1 /\ UNCHANGED <<taken, global_generated, global_dropped>>
    BY <1>5 DEF TryEnqueue, RoundsInv, counts
  <2>2. CASE HasRoom
    <3>1. NextOrder(t) /\ queued' \in 0..QueueSize
      BY <1>0, <1>5, <2>2 DEF TryEnqueue, HasRoom
    <3> QED BY <3>1, <2>1, <1>0, <1>4
  <2>3. CASE ~HasRoom
    <3>1. worker' = [worker EXCEPT ![t] = "drop"] /\ UNCHANGED <<left, queued>>
      BY <1>5, <2>3 DEF TryEnqueue, Goto
    <3> QED BY <3>1, <2>1, <1>0 DEF Places, NoThread, Ended
  <2> QED BY <2>2, <2>3
<1>6. CASE CountDrop(t)
  <2>1. /\ left[t] >= 1 /\ NextOrder(t) /\ global_dropped' \in Nat
        /\ UNCHANGED <<taken, queued, global_generated>>
    BY <1>0, <1>6 DEF CountDrop, RoundsInv, orders
  <2> QED BY <2>1, <1>0, <1>4
<1> QED BY <1>1, <1>2, <1>3, <1>5, <1>6 DEF TraderStep

LEMMA RoundsKeep == ThreadsInv /\ RoundsInv /\ [Next]_vars => RoundsInv'
<1> SUFFICES ASSUME ThreadsInv, RoundsInv, [Next]_vars PROVE RoundsInv'
  OBVIOUS
<1>1. CASE MainStep
  BY <1>1, MainLeavesRounds DEF RoundsInv, NoThread, Ended
<1>2. ASSUME NEW t \in Traders, TraderStep(t) PROVE RoundsInv'
  BY <1>2, TraderMoves DEF RoundsInv
<1>3. CASE MonitorStep \/ PrinterStep \/ UNCHANGED vars
  BY <1>3 DEF MonitorStep, CheckMonitoring, PrintStats, PrinterStep, vars, traders, counts, orders,
              RoundsInv
<1> QED BY <1>1, <1>2, <1>3 DEF Next

LEMMA RoundsAlways == Spec => []RoundsInv
BY RoundsStart, RoundsKeep, ThreadsAlways, PTL DEF Spec

(* The values of the variables.                                            *)
THEOREM LoadTypeCorrect == Spec => []TypeOK
<1>1. ThreadsInv /\ RoundsInv /\ OutputInv => TypeOK
  BY DEF ThreadsInv, RoundsInv, OutputInv, TypeOK, Mains
<1> QED BY <1>1, ThreadsAlways, RoundsAlways, OutputAlways, PTL
-----------------------------------------------------------------------------
(* The orders under way as a set of pairs: one more or less of a trader's  *)
(* is one more or less of all.                                             *)
Numbered(u) == UNION {{t} \X (1..u[t]) : t \in Traders}

UnderwayOf == [t \in Traders |-> Underway(t)]

LEMMA NumberedMember ==
  ASSUME NEW u \in [Traders -> Nat]
  PROVE  \A x : x \in Numbered(u) <=> \E t \in Traders : \E k \in 1..u[t] : x = <<t, k>>
BY DEF Numbered

LEMMA OneMore ==
  ASSUME NEW u \in [Traders -> Nat], NEW t \in Traders, IsFiniteSet(Numbered(u))
  PROVE  LET v == [u EXCEPT ![t] = u[t] + 1]
         IN  /\ v \in [Traders -> Nat]
             /\ IsFiniteSet(Numbered(v))
             /\ Cardinality(Numbered(v)) = Cardinality(Numbered(u)) + 1
<1> DEFINE v == [u EXCEPT ![t] = u[t] + 1]
           new == <<t, u[t] + 1>>
<1>1. v \in [Traders -> Nat] /\ v[t] = u[t] + 1 /\ \A o \in Traders : o # t => v[o] = u[o]
  OBVIOUS
<1> HIDE DEF v
<1>2. new \notin Numbered(u)
  <2> SUFFICES ASSUME NEW o \in Traders, NEW k \in 1..u[o], new = <<o, k>> PROVE FALSE
    BY NumberedMember
  <2> QED OBVIOUS
<1>3. Numbered(v) = Numbered(u) \cup {new}
  <2>1. ASSUME NEW x \in Numbered(v) PROVE x \in Numbered(u) \cup {new}
    <3>1. PICK o \in Traders : \E k \in 1..v[o] : x = <<o, k>>
      BY <1>1, NumberedMember
    <3>2. PICK k \in 1..v[o] : x = <<o, k>>
      BY <3>1
    <3>3. k \in 1..u[o] \/ (o = t /\ k = u[t] + 1)
      BY <1>1
    <3> QED BY <3>2, <3>3, NumberedMember
  <2>2. ASSUME NEW x \in Numbered(u) PROVE x \in Numbered(v)
    <3>1. PICK o \in Traders : \E k \in 1..u[o] : x = <<o, k>>
      BY NumberedMember
    <3>2. PICK k \in 1..u[o] : x = <<o, k>>
      BY <3>1
    <3>3. k \in 1..v[o]
      BY <1>1
    <3> QED BY <1>1, <3>2, <3>3, NumberedMember
  <2>3. new \in Numbered(v)
    <3>1. u[t] + 1 \in 1..v[t]
      BY <1>1
    <3> QED BY <1>1, <3>1, NumberedMember
  <2> QED BY <2>1, <2>2, <2>3
<1>4. /\ IsFiniteSet(Numbered(v))
      /\ Cardinality(Numbered(v)) = Cardinality(Numbered(u)) + 1
  <2> HIDE DEF new
  <2> QED BY <1>2, <1>3, FS_AddElement
<1> QED BY <1>1, <1>4 DEF v

LEMMA OneLess ==
  ASSUME NEW u \in [Traders -> Nat], NEW t \in Traders, u[t] >= 1, IsFiniteSet(Numbered(u))
  PROVE  LET v == [u EXCEPT ![t] = u[t] - 1]
         IN  /\ IsFiniteSet(Numbered(v))
             /\ Cardinality(Numbered(u)) = Cardinality(Numbered(v)) + 1
<1> DEFINE v == [u EXCEPT ![t] = u[t] - 1]
           last == <<t, u[t]>>
<1>1. v \in [Traders -> Nat] /\ v[t] = u[t] - 1 /\ \A o \in Traders : o # t => v[o] = u[o]
  OBVIOUS
<1>2. Numbered(v) \subseteq Numbered(u)
  <2> HIDE DEF v
  <2>1. ASSUME NEW o \in Traders, NEW k \in 1..v[o] PROVE k \in 1..u[o]
    BY <1>1
  <2>2. ASSUME NEW x \in Numbered(v) PROVE x \in Numbered(u)
    <3>1. \E o \in Traders : \E k \in 1..v[o] : x = <<o, k>>
      BY <1>1, NumberedMember
    <3>2. \E o \in Traders : \E k \in 1..u[o] : x = <<o, k>>
      BY <2>1, <3>1
    <3> QED BY <3>2, NumberedMember
  <2> QED BY <2>2
<1>3. IsFiniteSet(Numbered(v))
  BY <1>2, FS_Subset
<1>4. u = [v EXCEPT ![t] = v[t] + 1]
  <2>1. u[t] - 1 + 1 = u[t]
    OBVIOUS
  <2> QED BY <2>1
<1> HIDE DEF v
<1>5. Cardinality(Numbered([v EXCEPT ![t] = v[t] + 1])) = Cardinality(Numbered(v)) + 1
  BY <1>1, <1>3, OneMore
<1> QED BY <1>3, <1>4, <1>5 DEF v

LEMMA UnderwayCounted ==
  ASSUME RoundsInv
  PROVE  UnderwayOf \in [Traders -> Nat] /\ UnderwayOrders = Numbered(UnderwayOf)
<1>1. ASSUME NEW t \in Traders PROVE Underway(t) \in Nat
  BY DEF Underway, RoundsInv
<1> QED BY <1>1 DEF UnderwayOf, UnderwayOrders, Numbered

(* A step of one trader changes what he has under way.                     *)
LEMMA OthersStay ==
  ASSUME RoundsInv, RoundsInv', NEW t \in Traders,
         \A o \in Traders \ {t} : worker'[o] = worker[o] /\ left'[o] = left[o]
  PROVE  UnderwayOf' = [UnderwayOf EXCEPT ![t] = Underway(t)']
<1>1. \A o \in Traders \ {t} : Underway(o)' = Underway(o)
  BY DEF Underway
<1> QED BY <1>1 DEF UnderwayOf

AccountInv == IsFiniteSet(UnderwayOrders) /\ EveryOrderAccounted

LEMMA AccountStarts == Init => AccountInv
<1> SUFFICES ASSUME Init PROVE AccountInv
  OBVIOUS
<1>1. \A t \in Traders : Underway(t) = 0
  BY DEF Init, Underway, NoThread
<1>2. UnderwayOrders = {}
  BY <1>1 DEF UnderwayOrders
<1> QED BY <1>2, FS_EmptySet DEF Init, AccountInv, EveryOrderAccounted

(* How many orders a step of one trader adds to those under way.           *)
LEMMA UnderwayChanges ==
  ASSUME RoundsInv, RoundsInv', NEW t \in Traders, IsFiniteSet(UnderwayOrders),
         \A o \in Traders \ {t} : worker'[o] = worker[o] /\ left'[o] = left[o]
  PROVE  LET before == Cardinality(UnderwayOrders)
             after == Cardinality(UnderwayOrders')
         IN  /\ Underway(t)' = Underway(t) =>
                  IsFiniteSet(UnderwayOrders') /\ after = before
             /\ Underway(t)' = Underway(t) + 1 =>
                  IsFiniteSet(UnderwayOrders') /\ after = before + 1
             /\ Underway(t)' = Underway(t) + 2 =>
                  IsFiniteSet(UnderwayOrders') /\ after = before + 2
             /\ Underway(t) >= 1 /\ Underway(t)' = Underway(t) - 1 =>
                  IsFiniteSet(UnderwayOrders') /\ before = after + 1
<1> DEFINE u == UnderwayOf
           v == UnderwayOf'
           w == [u EXCEPT ![t] = u[t] + 1]
<1>1. /\ u \in [Traders -> Nat] /\ UnderwayOrders = Numbered(u)
      /\ UnderwayOrders' = Numbered(v)
  <2>1. UnderwayOrders' = Numbered(v)
    BY DEF UnderwayOrders, UnderwayOf, Numbered
  <2> QED BY <2>1, UnderwayCounted
<1>2. v = [u EXCEPT ![t] = Underway(t)'] /\ u[t] = Underway(t)
  BY OthersStay DEF UnderwayOf
<1>3. IsFiniteSet(Numbered(u)) /\ Cardinality(Numbered(u)) \in Nat
  BY <1>1, FS_CardinalityType
<1> HIDE DEF u, v
<1>4. CASE Underway(t)' = Underway(t)
  <2>1. v = u
    BY <1>1, <1>2, <1>4
  <2> QED BY <2>1, <1>1, <1>3, <1>4, <1>2
<1>5. CASE Underway(t)' = Underway(t) + 1
  <2>1. v = [u EXCEPT ![t] = u[t] + 1]
    BY <1>2, <1>5
  <2>2. /\ IsFiniteSet(Numbered(v))
        /\ Cardinality(Numbered(v)) = Cardinality(Numbered(u)) + 1
    BY <2>1, <1>1, <1>3, OneMore
  <2>3. u[t] \in Nat
    BY <1>1
  <2> QED BY <2>2, <2>3, <1>1, <1>2, <1>5
<1>6. CASE Underway(t)' = Underway(t) + 2
  <2>1. /\ w \in [Traders -> Nat] /\ IsFiniteSet(Numbered(w))
        /\ Cardinality(Numbered(w)) = Cardinality(Numbered(u)) + 1
    BY <1>1, <1>3, OneMore
  <2>2. v = [w EXCEPT ![t] = w[t] + 1]
    <3>1. u[t] \in Nat /\ w[t] = u[t] + 1 /\ v = [u EXCEPT ![t] = u[t] + 2]
      BY <1>1, <1>2, <1>6
    <3>2. w[t] + 1 = u[t] + 2
      BY <3>1
    <3> QED BY <3>1, <3>2, <1>1
  <2> HIDE DEF w
  <2>3. /\ IsFiniteSet(Numbered(v))
        /\ Cardinality(Numbered(v)) = Cardinality(Numbered(w)) + 1
    BY <2>1, <2>2, OneMore
  <2>4. u[t] \in Nat
    BY <1>1
  <2> QED BY <2>1, <2>3, <2>4, <1>1, <1>2, <1>3, <1>6
<1>7. CASE Underway(t) >= 1 /\ Underway(t)' = Underway(t) - 1
  <2>1. v = [u EXCEPT ![t] = u[t] - 1] /\ u[t] >= 1 /\ u[t] \in Nat
    BY <1>1, <1>2, <1>7
  <2>2. /\ IsFiniteSet(Numbered(v))
        /\ Cardinality(Numbered(u)) = Cardinality(Numbered(v)) + 1
    BY <2>1, <1>1, <1>3, OneLess
  <2> QED BY <2>1, <2>2, <1>1, <1>2, <1>7
<1> QED BY <1>4, <1>5, <1>6, <1>7

(* Every step moves an order from one count to another.                    *)
LEMMA TraderAccounts ==
  ASSUME RoundsInv, RoundsInv', AccountInv, NEW t \in Traders, TraderStep(t)
  PROVE  AccountInv'
<1> DEFINE before == Cardinality(UnderwayOrders)
           after == Cardinality(UnderwayOrders')
<1>1. \A o \in Traders \ {t} : worker'[o] = worker[o] /\ left'[o] = left[o]
  BY TraderMoves DEF RoundsInv
<1>2. /\ left[t] \in Nat /\ left \in [Traders -> 0..(MaxBurst + 2)]
      /\ worker \in [Traders -> Places] /\ queued \in Nat
      /\ global_generated \in Nat /\ global_dropped \in Nat /\ taken \in Nat
  BY LoadAssumption DEF RoundsInv
<1>3. /\ IsFiniteSet(UnderwayOrders) /\ before \in Nat
      /\ global_generated = taken + queued + global_dropped + before
  BY FS_CardinalityType DEF AccountInv, EveryOrderAccounted
<1>4. /\ Underway(t)' = Underway(t) => IsFiniteSet(UnderwayOrders') /\ after = before
      /\ Underway(t)' = Underway(t) + 1 => IsFiniteSet(UnderwayOrders') /\ after = before + 1
      /\ Underway(t)' = Underway(t) + 2 => IsFiniteSet(UnderwayOrders') /\ after = before + 2
      /\ Underway(t) >= 1 /\ Underway(t)' = Underway(t) - 1 =>
           IsFiniteSet(UnderwayOrders') /\ before = after + 1
  BY <1>1, <1>3, UnderwayChanges
<1>5. IsFiniteSet(UnderwayOrders') => after \in Nat
  BY FS_CardinalityType
<1>6. SUFFICES /\ IsFiniteSet(UnderwayOrders')
               /\ global_generated' = taken' + queued' + global_dropped' + after
  BY DEF AccountInv, EveryOrderAccounted
<1> HIDE DEF before, after
<1>7. CASE CheckRunning(t)
  <2>1. /\ worker[t] = "check" /\ worker'[t] \in {"round", Ended}
        /\ UNCHANGED <<global_generated, global_dropped, queued, taken>>
    BY <1>2, <1>7 DEF CheckRunning, Goto, counts, orders
  <2>2. Underway(t)' = Underway(t)
    BY <2>1 DEF Underway, Ended
  <2> QED BY <2>1, <2>2, <1>3, <1>4
<1>8. CASE Generate(t)
  <2>1. PICK n \in RoundSizes(Profiles[t]) :
          /\ left' = [left EXCEPT ![t] = n]
          /\ global_generated' = global_generated + Counted(t, n)
    BY <1>8 DEF Generate
  <2>2. /\ worker[t] = "round" /\ left'[t] = n
        /\ worker'[t] = IF Profiles[t] = "SniperTrader" THEN "burst" ELSE "enqueue"
        /\ UNCHANGED <<global_dropped, queued, taken>>
    BY <2>1, <1>2, <1>8 DEF Generate, Goto, orders
  <2>3. Underway(t) = 0
    BY <2>2 DEF Underway
  <2>4. CASE Profiles[t] = "SniperTrader"
    <3>1. Underway(t)' = 0 /\ global_generated' = global_generated
      BY <2>1, <2>2, <2>4, <1>2 DEF Underway, Counted
    <3> QED BY <3>1, <2>2, <2>3, <1>3, <1>4
  <2>5. CASE Profiles[t] # "SniperTrader"
    <3>1. Underway(t)' = n /\ global_generated' = global_generated + n
      BY <2>1, <2>2, <2>5 DEF Underway, Counted
    <3>2. n = 1 \/ n = 2
      BY <2>5, RoundSize
    <3> QED BY <3>1, <3>2, <2>2, <2>3, <1>2, <1>3, <1>4
  <2> QED BY <2>4, <2>5
<1>9. CASE Burst(t)
  <2>1. worker[t] = "burst" /\ Profiles[t] = "SniperTrader" /\ Underway(t) = 0
    BY <1>9 DEF Burst, RoundsInv, Underway
  <2>2. UNCHANGED <<global_dropped, queued, taken>>
    BY <1>9 DEF Burst, orders
  <2>3. CASE worker'[t] = "enqueue" /\ global_generated' = global_generated + 1
    <3>1. Underway(t)' = 1
      BY <2>1, <2>3 DEF Underway
    <3> QED BY <3>1, <2>1, <2>2, <2>3, <1>2, <1>3, <1>4
  <2>4. CASE worker'[t] = "check" /\ global_generated' = global_generated
    <3>1. Underway(t)' = 0
      BY <2>4 DEF Underway
    <3> QED BY <3>1, <2>1, <2>2, <2>4, <1>3, <1>4
  <2> QED BY <2>3, <2>4, <1>2, <1>9 DEF Burst, Goto
<1>10. ASSUME worker[t] \in {"enqueue", "drop"}, NextOrder(t)
       PROVE  Underway(t) >= 1 /\ Underway(t)' = Underway(t) - 1
  <2>1. /\ left'[t] = left[t] - 1 /\ left[t] >= 1
        /\ worker'[t] = IF Profiles[t] = "SniperTrader" THEN "burst"
                        ELSE IF left[t] > 1 THEN "enqueue" ELSE "check"
    BY <1>2, <1>10 DEF NextOrder, Goto, RoundsInv
  <2>2. CASE Profiles[t] = "SniperTrader"
    BY <2>1, <2>2, <1>10 DEF Underway
  <2>3. CASE Profiles[t] # "SniperTrader" /\ left[t] > 1
    BY <2>1, <2>3, <1>10 DEF Underway
  <2>4. CASE Profiles[t] # "SniperTrader" /\ left[t] = 1
    BY <2>1, <2>4, <1>10 DEF Underway
  <2> QED BY <2>1, <2>2, <2>3, <2>4, <1>2
<1>11. CASE TryEnqueue(t)
  <2>1. worker[t] = "enqueue" /\ UNCHANGED <<global_generated, global_dropped, taken>>
    BY <1>11 DEF TryEnqueue, counts
  <2>2. CASE HasRoom
    <3>1. NextOrder(t) /\ queued' = queued + 1
      BY <1>11, <2>2 DEF TryEnqueue
    <3>2. IsFiniteSet(UnderwayOrders') /\ before = after + 1
      BY <3>1, <2>1, <1>4, <1>10
    <3> QED BY <3>1, <3>2, <2>1, <1>2, <1>3, <1>5
  <2>3. CASE ~HasRoom
    <3>1. worker'[t] = "drop" /\ UNCHANGED <<left, queued>>
      BY <1>2, <1>11, <2>3 DEF TryEnqueue, Goto
    <3>2. Underway(t)' = Underway(t)
      BY <3>1, <2>1 DEF Underway
    <3> QED BY <3>1, <3>2, <2>1, <1>3, <1>4
  <2> QED BY <2>2, <2>3
<1>12. CASE CountDrop(t)
  <2>1. /\ worker[t] = "drop" /\ NextOrder(t) /\ global_dropped' = global_dropped + 1
        /\ UNCHANGED <<global_generated, queued, taken>>
    BY <1>12 DEF CountDrop, orders
  <2>2. IsFiniteSet(UnderwayOrders') /\ before = after + 1
    BY <2>1, <1>4, <1>10
  <2> QED BY <2>1, <2>2, <1>2, <1>3, <1>5
<1> QED BY <1>7, <1>8, <1>9, <1>11, <1>12 DEF TraderStep

LEMMA AccountKeeps == ThreadsInv /\ RoundsInv /\ AccountInv /\ [Next]_vars => AccountInv'
<1> SUFFICES ASSUME ThreadsInv, RoundsInv, AccountInv, [Next]_vars PROVE AccountInv'
  OBVIOUS
<1>1. RoundsInv'
  BY RoundsKeep
<1>2. CASE MainStep
  <2>1. /\ UNCHANGED <<left, global_generated, global_dropped>>
        /\ taken' + queued' = taken + queued
        /\ \A t \in Traders :
             \/ worker'[t] = worker[t]
             \/ worker[t] \in {NoThread, Ended} /\ worker'[t] \in {NoThread, "check"}
    BY <1>2, MainLeavesRounds
  <2>2. \A t \in Traders : Underway(t)' = Underway(t)
    BY <2>1 DEF Underway, NoThread, Ended
  <2>3. UnderwayOrders' = UnderwayOrders
    BY <2>2 DEF UnderwayOrders
  <2> QED BY <2>1, <2>3 DEF AccountInv, EveryOrderAccounted
<1>3. ASSUME NEW t \in Traders, TraderStep(t) PROVE AccountInv'
  BY <1>1, <1>3, TraderAccounts
<1>4. CASE MonitorStep \/ PrinterStep \/ UNCHANGED vars
  <2>1. UNCHANGED <<worker, left, global_generated, global_dropped, queued, taken>>
    BY <1>4 DEF MonitorStep, CheckMonitoring, PrintStats, PrinterStep, vars, traders, counts, orders
  <2>2. UnderwayOrders' = UnderwayOrders
    BY <2>1 DEF UnderwayOrders, Underway
  <2> QED BY <2>1, <2>2 DEF AccountInv, EveryOrderAccounted
<1> QED BY <1>2, <1>3, <1>4 DEF Next

(* The counters tell the truth about the queue, for any number of traders  *)
(* and bursts of any length.                                               *)
THEOREM OrdersAreAccounted == Spec => []EveryOrderAccounted
<1>1. Init => AccountInv
  BY AccountStarts
<1>2. AccountInv => EveryOrderAccounted
  BY DEF AccountInv
<1> QED BY <1>1, <1>2, AccountKeeps, ThreadsAlways, RoundsAlways, PTL DEF Spec
=============================================================================
