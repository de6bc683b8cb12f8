----------------------------- MODULE OrderQueue ------------------------------
(***************************************************************************)
(* The OrderQueue between the threads that make orders (the bots and       *)
(* stdin_reader) and the engine's main loop: a ring buffer guarded by one  *)
(* mutex.  The statements under the lock are steps of their own, so that   *)
(* what the mutex is needed for is visible.                                *)
(***************************************************************************)
EXTENDS Integers, Sequences

CONSTANTS
  Producers,   (* the threads that call try_enqueue                         *)
  Engine,      (* the thread that calls try_dequeue: the main loop          *)
  Payloads,    (* what tells one order from another                         *)
  capacity,    (* the slots of the buffer                                   *)
  MaxClock     (* bound: the ticks of the clock in a behaviour              *)

ASSUME QueueAssumption ==
  /\ Engine \notin Producers
  /\ "free" \notin Producers \cup {Engine}
  /\ capacity \in Nat \ {0}
  /\ MaxClock \in Nat

VARIABLES
  buffer,
  head,
  tail,
  mtx,         (* the thread that holds the mutex, or "free"                *)
  clock,       (* high_resolution_clock                                     *)
  pc,          (* where each thread is in its call                          *)
  order,       (* order[p]: the order p passes by reference                 *)
  next_head,   (* next_head[p]: the local of try_enqueue                    *)
  answer,      (* answer[t]: what t's last call returned                    *)
  out_order    (* the main loop's order                                     *)

vars == <<buffer, head, tail, mtx, clock, pc, order, next_head, answer, out_order>>

Threads == Producers \cup {Engine}
Slots == 0..(capacity - 1)
Order == [payload : Payloads \cup {"blank"}, timestamp : 0..MaxClock]
Labels == {"idle", "lock", "is_full", "stamp", "store", "advance",
           "is_empty", "load", "retire"}
Blank == [payload |-> "blank", timestamp |-> 0]

Goto(t, l) == pc' = [pc EXCEPT ![t] = l]
Answer(t, a) == answer' = [answer EXCEPT ![t] = a]
-----------------------------------------------------------------------------
(* The vector is sized with value-initialised orders.                      *)
Init ==
  /\ buffer = [i \in Slots |-> Blank]
  /\ head = 0
  /\ tail = 0
  /\ mtx = "free"
  /\ clock = 0
  /\ pc = [t \in Threads |-> "idle"]
  /\ order \in [Producers -> {[Blank EXCEPT !.payload = x] : x \in Payloads}]
  /\ next_head = [p \in Producers |-> 0]
  /\ answer = [t \in Threads |-> "none"]
  /\ out_order = Blank

(* The clock runs; were it set back too, stamps would be out of order      *)
(* whatever the lock does.                                                 *)
Tick ==
  /\ clock < MaxClock
  /\ clock' = clock + 1
  /\ UNCHANGED <<buffer, head, tail, mtx, pc, order, next_head, answer, out_order>>

(* A producer calls try_enqueue with a new order, or with the one that was *)
(* refused, as stdin_reader does until it is taken.                        *)
CallEnqueue(p, x) ==
  /\ pc[p] = "idle"
  /\ order' = [order EXCEPT ![p].payload = x]
  /\ Answer(p, "none")
  /\ Goto(p, "lock")
  /\ UNCHANGED <<buffer, head, tail, mtx, clock, next_head, out_order>>

(* The main loop calls try_dequeue.                                        *)
CallDequeue ==
  /\ pc[Engine] = "idle"
  /\ Answer(Engine, "none")
  /\ Goto(Engine, "lock")
  /\ UNCHANGED <<buffer, head, tail, mtx, clock, order, next_head, out_order>>

(* The mutex is free to take.                                              *)
CanLockAlways == TRUE  (* a mutant                                          *)
CanLock == mtx = "free"

(* The slot after slot i of the ring.                                      *)
NextSlotUnwrapped(i) == i + 1  (* a mutant                                  *)
NextSlot(i) == (i + 1) % capacity

(* One slot stays empty, or a full buffer would look like an empty one.    *)
IsFullNever(next) == FALSE  (* a mutant                                     *)
IsFull(next) == next = tail

(* The lock_guard's constructor.                                           *)
Lock(t) ==
  /\ pc[t] = "lock"
  /\ CanLock
  /\ mtx' = t
  /\ Goto(t, IF t = Engine THEN "is_empty" ELSE "is_full")
  /\ UNCHANGED <<buffer, head, tail, clock, order, next_head, answer, out_order>>

(* A call returns: the lock_guard's destructor frees the mutex.            *)
Return(t, a) ==
  /\ mtx' = "free"
  /\ Answer(t, a)
  /\ Goto(t, "idle")

CheckFull(p) ==
  /\ pc[p] = "is_full"
  /\ next_head' = [next_head EXCEPT ![p] = NextSlot(head)]
  /\ IF IsFull(next_head'[p])
     THEN Return(p, "false")
     ELSE Goto(p, "stamp") /\ UNCHANGED <<mtx, answer>>
  /\ UNCHANGED <<buffer, head, tail, clock, order, out_order>>

Stamp(p) ==
  /\ pc[p] = "stamp"
  /\ order' = [order EXCEPT ![p].timestamp = clock]
  /\ Goto(p, "store")
  /\ UNCHANGED <<buffer, head, tail, mtx, clock, next_head, answer, out_order>>

Store(p) ==
  /\ pc[p] = "store"
  /\ buffer' = [buffer EXCEPT ![head] = order[p]]
  /\ Goto(p, "advance")
  /\ UNCHANGED <<head, tail, mtx, clock, order, next_head, answer, out_order>>

AdvanceHead(p) ==
  /\ pc[p] = "advance"
  /\ head' = next_head[p]
  /\ Return(p, "true")
  /\ UNCHANGED <<buffer, tail, clock, order, next_head, out_order>>

CheckEmpty ==
  /\ pc[Engine] = "is_empty"
  /\ IF head = tail
     THEN Return(Engine, "false")
     ELSE Goto(Engine, "load") /\ UNCHANGED <<mtx, answer>>
  /\ UNCHANGED <<buffer, head, tail, clock, order, next_head, out_order>>

Load ==
  /\ pc[Engine] = "load"
  /\ out_order' = buffer[tail]
  /\ Goto(Engine, "retire")
  /\ UNCHANGED <<buffer, head, tail, mtx, clock, order, next_head, answer>>

AdvanceTail ==
  /\ pc[Engine] = "retire"
  /\ tail' = NextSlot(tail)
  /\ Return(Engine, "true")
  /\ UNCHANGED <<buffer, head, clock, order, next_head, out_order>>

try_enqueue(p) ==
  \/ \E x \in Payloads : CallEnqueue(p, x)
  \/ Lock(p)
  \/ CheckFull(p)
  \/ Stamp(p)
  \/ Store(p)
  \/ AdvanceHead(p)

try_dequeue ==
  \/ CallDequeue
  \/ Lock(Engine)
  \/ CheckEmpty
  \/ Load
  \/ AdvanceTail

Next ==
  \/ Tick
  \/ \E p \in Producers : try_enqueue(p)
  \/ try_dequeue

Spec == Init /\ [][Next]_vars
-----------------------------------------------------------------------------
(***************************************************************************)
(* Properties.                                                             *)
(***************************************************************************)
(* The orders in the buffer, oldest first.                                 *)
Count == IF head >= tail THEN head - tail ELSE capacity - tail + head
Slot(i) == IF tail + i < capacity THEN tail + i ELSE tail + i - capacity
Contents == [i \in 1..Count |-> buffer[Slot(i - 1)]]

(* The values of the variables: no index leaves the buffer.                *)
TypeOK ==
  /\ buffer \in [Slots -> Order]
  /\ head \in Slots /\ tail \in Slots
  /\ mtx \in Threads \cup {"free"}
  /\ clock \in 0..MaxClock
  /\ pc \in [Threads -> Labels]
  /\ order \in [Producers -> Order]
  /\ next_head \in [Producers -> Slots]
  /\ answer \in [Threads -> {"none", "true", "false"}]
  /\ out_order \in Order

(* The order in which orders are stamped is the order in which the engine  *)
(* gets them: the time is read under the lock that also puts the order in  *)
(* its place, so no order overtakes one with an earlier time.              *)
StampsInOrder ==
  /\ \A i, j \in 1..Count : i < j => Contents[i].timestamp <= Contents[j].timestamp
  /\ \A i \in 1..Count : out_order.timestamp <= Contents[i].timestamp

(* However the threads interleave, the queue is a bounded FIFO that holds  *)
(* up to capacity - 1 orders, refuses only when it has as many, and hands  *)
(* each order over once.  An order is handed over when it is copied out,   *)
(* before tail moves past it.                                              *)
Fifo == INSTANCE BoundedFifo
          WITH Consumer <- Engine,
               Stamps <- 0..MaxClock,
               Size <- capacity - 1,
               queue <- IF pc[Engine] = "retire" THEN Tail(Contents) ELSE Contents,
               request <- [p \in Producers |-> order[p].payload],
               answer <- IF pc[Engine] = "retire"
                         THEN [answer EXCEPT ![Engine] = "true"] ELSE answer,
               out <- out_order

FifoKept == Fifo!Spec
=============================================================================
