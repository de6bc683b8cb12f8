--------------------------- MODULE OrderQueueProofs --------------------------
(***************************************************************************)
(* Proofs about OrderQueue, for any number of producers and any capacity.  *)
(***************************************************************************)
EXTENDS OrderQueue, TLAPS, SequenceTheorems

(* The remainder only matters at the end of the buffer.                    *)
LEMMA NextSlotIs ==
  ASSUME NEW i \in Slots
  PROVE  /\ NextSlot(i) = IF i + 1 = capacity THEN 0 ELSE i + 1
         /\ NextSlot(i) \in Slots
<1>1. capacity \in Nat /\ capacity > 0 /\ i \in Nat /\ i + 1 <= capacity
  BY QueueAssumption DEF Slots
<1>2. CASE i + 1 = capacity
  <2>1. capacity % capacity = 0
    BY <1>1
  <2>2. QED BY <1>1, <1>2, <2>1 DEF NextSlot, Slots
<1>3. CASE i + 1 < capacity
  <2>1. (i + 1) % capacity = i + 1
    BY <1>1, <1>3
  <2>2. QED BY <1>1, <1>3, <2>1 DEF NextSlot, Slots
<1>4. QED BY <1>1, <1>2, <1>3
-----------------------------------------------------------------------------
(* Only the thread that holds the mutex is past the lock.                  *)
MutexInv ==
  \A t \in Threads : pc[t] \notin {"idle", "lock"} <=> mtx = t

(* Each thread runs its own function.                                      *)
PathInv ==
  /\ pc[Engine] \in {"idle", "lock", "is_empty", "load", "retire"}
  /\ \A p \in Producers :
       pc[p] \in {"idle", "lock", "is_full", "stamp", "store", "advance"}

(* What a thread has found out under the lock is still so.                 *)
CallInv ==
  /\ \A t \in Threads : pc[t] # "idle" => answer[t] = "none"
  /\ \A p \in Producers :
       /\ pc[p] \in {"stamp", "store", "advance"} =>
            next_head[p] = NextSlot(head) /\ next_head[p] # tail
       /\ pc[p] = "advance" => buffer[head] = order[p]
  /\ pc[Engine] \in {"load", "retire"} => head # tail
  /\ pc[Engine] = "retire" => out_order = buffer[tail]

QueueInv == TypeOK /\ MutexInv /\ PathInv /\ CallInv

(* The queue starts with the mutex free and every thread outside.          *)
LEMMA QueueInvInit == Init => QueueInv
<1> SUFFICES ASSUME Init PROVE QueueInv
  OBVIOUS
<1> USE DEF Init
<1>1. TypeOK
  <2>1. 0 \in Slots /\ 0 \in 0..MaxClock
    BY QueueAssumption DEF Slots
  <2>2. Blank \in Order /\ \A x \in Payloads : [Blank EXCEPT !.payload = x] \in Order
    BY <2>1 DEF Blank, Order
  <2>3. QED BY <2>1, <2>2 DEF TypeOK, Labels
<1>2. MutexInv
  BY QueueAssumption DEF MutexInv, Threads
<1>3. PathInv /\ CallInv
  BY DEF PathInv, CallInv, Threads
<1>4. QED BY <1>1, <1>2, <1>3 DEF QueueInv

(* Another thread than the holder of the mutex is idle or waits for it.    *)
LEMMA Alone ==
  ASSUME QueueInv, NEW t \in Threads, pc[t] \notin {"idle", "lock"}
  PROVE  /\ mtx = t
         /\ \A u \in Threads : u # t => pc[u] \in {"idle", "lock"}
BY DEF QueueInv, MutexInv

(* While the mutex is free no thread is under the lock.                    *)
LEMMA NobodyInside ==
  ASSUME QueueInv, mtx = "free"
  PROVE  \A u \in Threads : pc[u] \in {"idle", "lock"}
BY QueueAssumption DEF QueueInv, MutexInv, Threads

(* Every step keeps the types.                                             *)
LEMMA TypeStep ==
  ASSUME QueueInv, [Next]_vars
  PROVE  TypeOK'
<1> USE DEF TypeOK, Goto, Answer, Return, Threads, Labels
<1>0. TypeOK
  BY DEF QueueInv
<1>1. CASE Tick
  BY <1>0, <1>1, QueueAssumption DEF Tick, Order
<1>2. ASSUME NEW p \in Producers, NEW x \in Payloads, CallEnqueue(p, x) PROVE TypeOK'
  <2>1. [order[p] EXCEPT !.payload = x] \in Order
    BY <1>0 DEF Order
  <2>2. order' \in [Producers -> Order]
    BY <1>0, <1>2, <2>1 DEF CallEnqueue
  <2>3. QED BY <1>0, <1>2, <2>2 DEF CallEnqueue
<1>3. ASSUME NEW t \in Threads, Lock(t) PROVE TypeOK'
  BY <1>0, <1>3 DEF Lock
<1>4. ASSUME NEW p \in Producers, CheckFull(p) PROVE TypeOK'
  BY <1>0, <1>4, NextSlotIs DEF CheckFull
<1>5. ASSUME NEW p \in Producers, Stamp(p) PROVE TypeOK'
  <2>1. [order[p] EXCEPT !.timestamp = clock] \in Order
    BY <1>0 DEF Order
  <2>2. order' \in [Producers -> Order]
    BY <1>0, <1>5, <2>1 DEF Stamp
  <2>3. QED BY <1>0, <1>5, <2>2 DEF Stamp
<1>6. ASSUME NEW p \in Producers, Store(p) PROVE TypeOK'
  BY <1>0, <1>6 DEF Store
<1>7. ASSUME NEW p \in Producers, AdvanceHead(p) PROVE TypeOK'
  BY <1>0, <1>7 DEF AdvanceHead
<1>8. CASE CallDequeue
  BY <1>0, <1>8 DEF CallDequeue
<1>9. CASE CheckEmpty
  BY <1>0, <1>9 DEF CheckEmpty
<1>10. CASE Load
  BY <1>0, <1>10 DEF Load
<1>11. CASE AdvanceTail
  BY <1>0, <1>11, NextSlotIs DEF AdvanceTail
<1>12. CASE UNCHANGED vars
  BY <1>0, <1>12 DEF vars
<1>13. QED
  BY <1>1, <1>2, <1>3, <1>4, <1>5, <1>6, <1>7, <1>8, <1>9, <1>10, <1>11, <1>12
     DEF Next, try_enqueue, try_dequeue

(* Every step keeps the mutex with the one thread that is under the lock.  *)
LEMMA MutexStep ==
  ASSUME QueueInv, [Next]_vars
  PROVE  MutexInv' /\ PathInv'
<1> USE QueueAssumption DEF MutexInv, PathInv, Goto, Return, Threads
<1>0. MutexInv /\ PathInv /\ pc \in [Threads -> Labels] /\ mtx \in Threads \cup {"free"}
  BY DEF QueueInv, TypeOK
<1>1. CASE UNCHANGED <<pc, mtx>>
  BY <1>0, <1>1
<1>2. ASSUME NEW t \in Threads, pc[t] = "idle", Goto(t, "lock"), UNCHANGED mtx
      PROVE  MutexInv' /\ PathInv'
  BY <1>0, <1>2
<1>3. ASSUME NEW t \in Threads, Lock(t)
      PROVE  MutexInv' /\ PathInv'
  <2>1. \A u \in Threads : pc[u] \in {"idle", "lock"}
    BY <1>3, NobodyInside DEF Lock, CanLock
  <2>2. QED BY <1>0, <1>3, <2>1 DEF Lock, CanLock
<1>4. ASSUME NEW t \in Threads, pc[t] \notin {"idle", "lock"}, mtx' = "free", Goto(t, "idle")
      PROVE  MutexInv' /\ PathInv'
  <2>1. \A u \in Threads : u # t => pc[u] \in {"idle", "lock"}
    BY <1>4, Alone
  <2>2. QED BY <1>0, <1>4, <2>1
<1>5. ASSUME NEW p \in Producers, NEW l \in {"stamp", "store", "advance"},
             pc[p] \notin {"idle", "lock"}, Goto(p, l), UNCHANGED mtx
      PROVE  MutexInv' /\ PathInv'
  BY <1>0, <1>5
<1>6. ASSUME NEW l \in {"load", "retire"},
             pc[Engine] \notin {"idle", "lock"}, Goto(Engine, l), UNCHANGED mtx
      PROVE  MutexInv' /\ PathInv'
  BY <1>0, <1>6
<1>7. ASSUME NEW p \in Producers, try_enqueue(p)
      PROVE  MutexInv' /\ PathInv'
  <2>1. ASSUME NEW x \in Payloads, CallEnqueue(p, x) PROVE MutexInv' /\ PathInv'
    BY <1>2, <2>1 DEF CallEnqueue
  <2>2. CASE CheckFull(p)
    BY <1>4, <1>5, <2>2 DEF CheckFull
  <2>3. CASE Stamp(p)
    BY <1>5, <2>3 DEF Stamp
  <2>4. CASE Store(p)
    BY <1>5, <2>4 DEF Store
  <2>5. CASE AdvanceHead(p)
    BY <1>4, <2>5 DEF AdvanceHead
  <2>6. QED BY <1>3, <1>7, <2>1, <2>2, <2>3, <2>4, <2>5 DEF try_enqueue
<1>8. CASE try_dequeue
  <2>1. CASE CallDequeue
    BY <1>2, <2>1 DEF CallDequeue
  <2>2. CASE CheckEmpty
    BY <1>4, <1>6, <2>2 DEF CheckEmpty
  <2>3. CASE Load
    BY <1>6, <2>3 DEF Load
  <2>4. CASE AdvanceTail
    BY <1>4, <2>4 DEF AdvanceTail
  <2>5. QED BY <1>3, <1>8, <2>1, <2>2, <2>3, <2>4 DEF try_dequeue
<1>9. CASE Tick \/ UNCHANGED vars
  BY <1>1, <1>9 DEF Tick, vars
<1>10. QED BY <1>7, <1>8, <1>9 DEF Next

(* What a thread has found out under the lock is not changed by another's  *)
(* step.                                                                   *)
LEMMA CallStep ==
  ASSUME QueueInv, [Next]_vars
  PROVE  CallInv'
<1> USE DEF CallInv, Goto, Answer, Return, Threads
<1>0. /\ CallInv /\ TypeOK /\ PathInv
      /\ pc \in [Threads -> Labels]
      /\ answer \in [Threads -> {"none", "true", "false"}]
      /\ Engine \notin Producers
  BY QueueAssumption DEF QueueInv, TypeOK
<1>1. CASE Tick \/ UNCHANGED vars
  BY <1>0, <1>1 DEF Tick, vars
<1>2. ASSUME NEW p \in Producers, NEW x \in Payloads, CallEnqueue(p, x) PROVE CallInv'
  BY <1>0, <1>2 DEF CallEnqueue, TypeOK
<1>3. ASSUME NEW t \in Threads, Lock(t) PROVE CallInv'
  BY <1>0, <1>3 DEF Lock, PathInv
<1>4. ASSUME NEW p \in Producers, CheckFull(p) PROVE CallInv'
  <2>1. \A u \in Threads : u # p => pc[u] \in {"idle", "lock"}
    BY <1>4, Alone DEF CheckFull
  <2>2. QED BY <1>0, <1>4, <2>1 DEF CheckFull, IsFull, TypeOK
<1>5. ASSUME NEW p \in Producers, Stamp(p) PROVE CallInv'
  <2>1. \A u \in Threads : u # p => pc[u] \in {"idle", "lock"}
    BY <1>5, Alone DEF Stamp
  <2>2. QED BY <1>0, <1>5, <2>1 DEF Stamp, TypeOK
<1>6. ASSUME NEW p \in Producers, Store(p) PROVE CallInv'
  <2>1. \A u \in Threads : u # p => pc[u] \in {"idle", "lock"}
    BY <1>6, Alone DEF Store
  <2>2. QED BY <1>0, <1>6, <2>1 DEF Store, TypeOK
<1>7. ASSUME NEW p \in Producers, AdvanceHead(p) PROVE CallInv'
  <2>1. \A u \in Threads : u # p => pc[u] \in {"idle", "lock"}
    BY <1>7, Alone DEF AdvanceHead
  <2>2. QED BY <1>0, <1>7, <2>1 DEF AdvanceHead
<1>8. CASE CallDequeue
  BY <1>0, <1>8 DEF CallDequeue
<1>9. CASE CheckEmpty
  BY <1>0, <1>9 DEF CheckEmpty
<1>10. CASE Load
  BY <1>0, <1>10 DEF Load
<1>11. CASE AdvanceTail
  <2>1. \A u \in Threads : u # Engine => pc[u] \in {"idle", "lock"}
    BY <1>11, Alone DEF AdvanceTail
  <2>2. QED BY <1>0, <1>11, <2>1 DEF AdvanceTail
<1>12. QED
  BY <1>1, <1>2, <1>3, <1>4, <1>5, <1>6, <1>7, <1>8, <1>9, <1>10, <1>11
     DEF Next, try_enqueue, try_dequeue

(* QueueInv is an invariant of the queue; the types are part of it.        *)
THEOREM QueueInvariant == Spec => []QueueInv
<1>1. ASSUME QueueInv, [Next]_vars PROVE QueueInv'
  BY <1>1, TypeStep, MutexStep, CallStep DEF QueueInv
<1>2. QED BY QueueInvInit, <1>1, PTL DEF Spec

(* The variables keep their types: head, tail and every producer's         *)
(* next_head stay indices of the buffer.                                   *)
THEOREM TypeCorrect == Spec => []TypeOK
<1>1. QueueInv => TypeOK
  BY DEF QueueInv
<1>2. QED BY <1>1, QueueInvariant, PTL
-----------------------------------------------------------------------------
(* The buffer holds at most capacity - 1 orders; they are a sequence, read *)
(* from the slots that start at tail, none of which is head.               *)
LEMMA ContentsFacts ==
  ASSUME QueueInv
  PROVE  /\ Count \in 0..(capacity - 1)
         /\ Contents \in Seq(Order) /\ Len(Contents) = Count
         /\ \A i \in 1..Count : /\ Slot(i - 1) \in Slots /\ Slot(i - 1) # head
                               /\ Contents[i] = buffer[Slot(i - 1)]
<1>1. /\ head \in Nat /\ tail \in Nat /\ capacity \in Nat
      /\ head < capacity /\ tail < capacity
      /\ buffer \in [Slots -> Order]
  BY QueueAssumption DEF QueueInv, TypeOK, Slots
<1>2. Count \in 0..(capacity - 1)
  BY <1>1 DEF Count
<1>3. \A i \in 1..Count : Slot(i - 1) \in Slots /\ Slot(i - 1) # head
  BY <1>1 DEF Count, Slot, Slots
<1>4. Contents \in [1..Count -> Order]
  BY <1>1, <1>3 DEF Contents
<1>5. Contents \in Seq(Order) /\ Len(Contents) = Count
  BY <1>2, <1>4
<1>6. QED BY <1>2, <1>3, <1>5 DEF Contents

(* Storing an order in the slot at head changes no order of the queue.     *)
LEMMA StoreOutside ==
  ASSUME QueueInv, NEW o, buffer' = [buffer EXCEPT ![head] = o], UNCHANGED <<head, tail>>
  PROVE  Contents' = Contents
<1>1. Count' = Count /\ \A i \in 1..Count : Slot(i - 1)' = Slot(i - 1)
  BY DEF Count, Slot
<1>2. \A i \in 1..Count : buffer'[Slot(i - 1)] = buffer[Slot(i - 1)]
  BY ContentsFacts DEF QueueInv, TypeOK
<1>3. QED BY <1>1, <1>2 DEF Contents

(* Advancing head adds the order stored there.                             *)
LEMMA HeadAppends ==
  ASSUME QueueInv, head' = NextSlot(head), head' # tail, UNCHANGED <<buffer, tail>>
  PROVE  /\ Contents' = Append(Contents, buffer[head])
         /\ Count < capacity - 1 /\ Count' = Count + 1
<1>1. /\ head \in Nat /\ tail \in Nat /\ capacity \in Nat
      /\ head < capacity /\ tail < capacity
      /\ head' = IF head + 1 = capacity THEN 0 ELSE head + 1
      /\ head \in Slots
  BY QueueAssumption, NextSlotIs DEF QueueInv, TypeOK, Slots
<1>2. Count \in Nat /\ Count < capacity - 1 /\ Count' = Count + 1
  BY <1>1 DEF Count
<1>3. \A i \in 1..Count' : Slot(i - 1)' = Slot(i - 1)
  BY DEF Slot
<1>4. Slot(Count) = head
  BY <1>1 DEF Slot, Count
<1>5. Contents' = [i \in 1..(Count + 1) |-> buffer[Slot(i - 1)]]
  BY <1>2, <1>3 DEF Contents
<1>6. Append(Contents, buffer[head]) = [i \in 1..(Count + 1) |-> IF i = Count + 1 THEN buffer[head] ELSE Contents[i]]
  BY ContentsFacts, <1>2
<1>7. \A i \in 1..(Count + 1) :
        buffer[Slot(i - 1)] = IF i = Count + 1 THEN buffer[head] ELSE Contents[i]
  BY <1>2, <1>4, ContentsFacts
<1>8. QED BY <1>2, <1>5, <1>6, <1>7

(* Advancing tail takes the oldest order out.                              *)
LEMMA TailTakes ==
  ASSUME QueueInv, tail' = NextSlot(tail), head # tail, UNCHANGED <<buffer, head>>
  PROVE  Contents' = Tail(Contents) /\ Count' = Count - 1
<1>1. /\ head \in Nat /\ tail \in Nat /\ capacity \in Nat
      /\ head < capacity /\ tail < capacity
      /\ tail' = IF tail + 1 = capacity THEN 0 ELSE tail + 1
  BY QueueAssumption, NextSlotIs DEF QueueInv, TypeOK, Slots
<1>2. Count \in Nat /\ Count > 0 /\ Count' = Count - 1
  BY <1>1 DEF Count
<1>3. \A i \in 1..(Count - 1) : Slot(i - 1)' = Slot(i)
  BY <1>1, <1>2 DEF Slot, Count
<1>4. Contents' = [i \in 1..(Count - 1) |-> buffer[Slot(i)]]
  BY <1>2, <1>3 DEF Contents
<1>5. Tail(Contents) = [i \in 1..(Count - 1) |-> Contents[i + 1]]
  <2>1. /\ Contents \in Seq(Order) /\ Contents # <<>>
        /\ Len(Contents) = Count
    BY ContentsFacts, <1>2
  <2>2. /\ Tail(Contents) \in Seq(Order) /\ Len(Tail(Contents)) = Count - 1
        /\ \A i \in 1..(Count - 1) : Tail(Contents)[i] = Contents[i + 1]
    BY <2>1, HeadTailProperties
  <2>3. Tail(Contents) = [i \in 1..(Count - 1) |-> Tail(Contents)[i]]
    BY <2>2, LenProperties
  <2>4. QED BY <2>2, <2>3
<1>6. \A i \in 1..(Count - 1) : Contents[i + 1] = buffer[Slot(i)]
  BY ContentsFacts, <1>2
<1>7. QED BY <1>2, <1>4, <1>5, <1>6

(* A queue that is not empty has its oldest order at tail.                 *)
LEMMA OldestIs ==
  ASSUME QueueInv, head # tail
  PROVE  Contents # <<>> /\ Head(Contents) = buffer[tail] /\ Count > 0
<1>1. /\ head \in Nat /\ tail \in Nat /\ capacity \in Nat
      /\ head < capacity /\ tail < capacity
  BY QueueAssumption DEF QueueInv, TypeOK, Slots
<1>2. Count > 0 /\ Count \in Nat /\ Slot(0) = tail
  BY <1>1 DEF Count, Slot
<1>3. QED BY <1>2, ContentsFacts
-----------------------------------------------------------------------------
(* Besides the order of the stamps: none is in the future, and the order   *)
(* being stored was stamped after all that are in the queue or left it.    *)
StampInv ==
  /\ \A i \in 1..Count : Contents[i].timestamp <= clock
  /\ out_order.timestamp <= clock
  /\ \A p \in Producers : pc[p] \in {"store", "advance"} =>
       /\ order[p].timestamp <= clock
       /\ \A i \in 1..Count : Contents[i].timestamp <= order[p].timestamp
       /\ out_order.timestamp <= order[p].timestamp
  /\ StampsInOrder

(* The stamps and the clock are numbers, the contents a sequence of        *)
(* orders.                                                                 *)
LEMMA StampTypes ==
  ASSUME QueueInv
  PROVE  /\ clock \in Nat /\ out_order.timestamp \in Nat
         /\ \A p \in Producers : order[p].timestamp \in Nat
         /\ \A i \in 1..Count : Contents[i].timestamp \in Nat
         /\ Count \in Nat /\ Len(Contents) = Count /\ Contents \in Seq(Order)
<1>1. \A o \in Order : o.timestamp \in Nat
  BY QueueAssumption DEF Order
<1>2. \A i \in 1..Count : Contents[i] \in Order
  BY ContentsFacts, ElementOfSeq
<1>3. QED BY <1>1, <1>2, ContentsFacts, QueueAssumption DEF QueueInv, TypeOK

(* An empty queue has its stamps in order.                                 *)
LEMMA StampInvInit == Init => StampInv
<1>1. Init => Count = 0 /\ out_order.timestamp = 0 /\ clock = 0
  BY DEF Init, Count, Blank
<1>2. Init => \A p \in Producers : pc[p] = "idle"
  BY DEF Init, Threads
<1>3. QED BY <1>1, <1>2 DEF StampInv, StampsInOrder

(* A step that neither stamps nor moves an order.                          *)
LEMMA StampsKept ==
  ASSUME QueueInv, StampInv, Contents' = Contents, Count' = Count,
         out_order' = out_order, clock' \in Nat, clock' >= clock,
         \A p \in Producers : pc'[p] \in {"store", "advance"} =>
           pc[p] \in {"store", "advance"} /\ order'[p] = order[p]
  PROVE  StampInv'
<1>1. StampsInOrder'
  BY DEF StampInv, StampsInOrder
<1>2. QED BY <1>1, StampTypes DEF StampInv

(* Every step keeps the stamps in order and none of them ahead of the      *)
(* clock.                                                                  *)
LEMMA StampStep ==
  ASSUME QueueInv, QueueInv', StampInv, [Next]_vars
  PROVE  StampInv'
<1> USE DEF Goto, Return, Threads
<1>0. /\ pc \in [Threads -> Labels] /\ Engine \notin Producers
      /\ order \in [Producers -> Order] /\ clock \in Nat
      /\ MaxClock \in Nat
  BY QueueAssumption DEF QueueInv, TypeOK
<1>1. CASE Tick
  BY <1>0, <1>1, StampsKept DEF Tick, Contents, Count, Slot
<1>2. ASSUME NEW p \in Producers, NEW x \in Payloads, CallEnqueue(p, x) PROVE StampInv'
  <2>1. Contents' = Contents /\ Count' = Count /\ out_order' = out_order /\ clock' = clock
    BY <1>2 DEF CallEnqueue, Contents, Count, Slot
  <2>2. \A q \in Producers : pc'[q] \in {"store", "advance"} =>
           pc[q] \in {"store", "advance"} /\ order'[q] = order[q]
    BY <1>0, <1>2 DEF CallEnqueue
  <2>3. QED BY <1>0, <2>1, <2>2, StampsKept
<1>3. ASSUME NEW t \in Threads, Lock(t) PROVE StampInv'
  <2>1. Contents' = Contents /\ Count' = Count /\ out_order' = out_order /\ clock' = clock
    BY <1>3 DEF Lock, Contents, Count, Slot
  <2>2. \A q \in Producers : pc'[q] \in {"store", "advance"} =>
           pc[q] \in {"store", "advance"} /\ order'[q] = order[q]
    BY <1>0, <1>3 DEF Lock
  <2>3. QED BY <1>0, <2>1, <2>2, StampsKept
<1>4. ASSUME NEW p \in Producers, CheckFull(p) PROVE StampInv'
  <2>1. Contents' = Contents /\ Count' = Count /\ out_order' = out_order /\ clock' = clock
    BY <1>4 DEF CheckFull, Contents, Count, Slot
  <2>2. \A q \in Producers : pc'[q] \in {"store", "advance"} =>
           pc[q] \in {"store", "advance"} /\ order'[q] = order[q]
    BY <1>0, <1>4 DEF CheckFull
  <2>3. QED BY <1>0, <2>1, <2>2, StampsKept
<1>5. ASSUME NEW p \in Producers, Stamp(p) PROVE StampInv'
  <2>1. Contents' = Contents /\ Count' = Count /\ out_order' = out_order /\ clock' = clock
    BY <1>5 DEF Stamp, Contents, Count, Slot
  <2>2. \A q \in Producers : q # p => pc'[q] \notin {"store", "advance"}
    <3>1. \A q \in Producers : q # p => pc[q] \in {"idle", "lock"}
      BY <1>5, Alone DEF Stamp
    <3>2. QED BY <1>0, <1>5, <3>1 DEF Stamp
  <2>3. order'[p].timestamp = clock
    BY <1>0, <1>5 DEF Stamp, Order
  <2>4. StampsInOrder'
    BY <2>1 DEF StampInv, StampsInOrder
  <2>5. QED BY <1>0, <2>1, <2>2, <2>3, <2>4 DEF StampInv
<1>6. ASSUME NEW p \in Producers, Store(p) PROVE StampInv'
  <2>1. Contents' = Contents
    BY <1>6, StoreOutside DEF Store
  <2>2. Count' = Count /\ out_order' = out_order /\ clock' = clock
    BY <1>6 DEF Store, Count
  <2>3. \A q \in Producers : pc'[q] \in {"store", "advance"} =>
           pc[q] \in {"store", "advance"} /\ order'[q] = order[q]
    BY <1>0, <1>6 DEF Store
  <2>4. QED BY <1>0, <2>1, <2>2, <2>3, StampsKept
<1>7. ASSUME NEW p \in Producers, AdvanceHead(p) PROVE StampInv'
  <2>1. /\ head' = NextSlot(head) /\ head' # tail /\ buffer[head] = order[p]
        /\ UNCHANGED <<buffer, tail, order, out_order, clock>>
    BY <1>7 DEF AdvanceHead, QueueInv, CallInv
  <2>2. Contents' = Append(Contents, order[p])
    BY <2>1, HeadAppends
  <2>3. /\ Count' = Count + 1
        /\ \A i \in 1..Count : Contents'[i] = Contents[i]
        /\ Contents'[Count + 1] = order[p]
    <3>1. order[p] \in Order
      BY <1>0
    <3>2. /\ Len(Append(Contents, order[p])) = Len(Contents) + 1
          /\ \A i \in 1..Len(Contents) : Append(Contents, order[p])[i] = Contents[i]
          /\ Append(Contents, order[p])[Len(Contents) + 1] = order[p]
      BY <3>1, StampTypes, AppendProperties
    <3>3. QED BY <2>1, <2>2, <3>2, StampTypes, HeadAppends
  <2>4. \A q \in Producers : pc'[q] \notin {"store", "advance"}
    <3>1. \A q \in Producers : q # p => pc[q] \in {"idle", "lock"}
      BY <1>7, Alone DEF AdvanceHead
    <3>2. QED BY <1>0, <1>7, <3>1 DEF AdvanceHead
  <2>5. \A i \in 1..(Count + 1) :
          \/ i \in 1..Count /\ Contents'[i] = Contents[i]
          \/ i = Count + 1 /\ Contents'[i] = order[p]
    BY <2>3, StampTypes
  <2>6. /\ order[p].timestamp <= clock /\ out_order.timestamp <= order[p].timestamp
        /\ \A i \in 1..Count : Contents[i].timestamp <= order[p].timestamp
    BY <1>7 DEF StampInv, AdvanceHead
  <2>7. \A i \in 1..Count' : Contents'[i].timestamp <= clock'
    BY <2>1, <2>3, <2>5, <2>6 DEF StampInv
  <2>8. StampsInOrder'
    <3>1. ASSUME NEW i \in 1..Count', NEW j \in 1..Count', i < j
          PROVE  Contents'[i].timestamp <= Contents'[j].timestamp
      BY <2>3, <2>5, <2>6, <3>1, StampTypes DEF StampInv, StampsInOrder
    <3>2. \A i \in 1..Count' : out_order'.timestamp <= Contents'[i].timestamp
      BY <2>1, <2>3, <2>5, <2>6, StampTypes DEF StampInv, StampsInOrder
    <3>3. QED BY <3>1, <3>2 DEF StampsInOrder
  <2>9. QED BY <2>1, <2>4, <2>7, <2>8 DEF StampInv
<1>8. CASE CallDequeue
  <2>1. Contents' = Contents /\ Count' = Count /\ out_order' = out_order /\ clock' = clock
    BY <1>8 DEF CallDequeue, Contents, Count, Slot
  <2>2. \A q \in Producers : pc'[q] \in {"store", "advance"} =>
           pc[q] \in {"store", "advance"} /\ order'[q] = order[q]
    BY <1>0, <1>8 DEF CallDequeue
  <2>3. QED BY <1>0, <2>1, <2>2, StampsKept
<1>9. CASE CheckEmpty
  <2>1. Contents' = Contents /\ Count' = Count /\ out_order' = out_order /\ clock' = clock
    BY <1>9 DEF CheckEmpty, Contents, Count, Slot
  <2>2. \A q \in Producers : pc'[q] \in {"store", "advance"} =>
           pc[q] \in {"store", "advance"} /\ order'[q] = order[q]
    BY <1>0, <1>9 DEF CheckEmpty
  <2>3. QED BY <1>0, <2>1, <2>2, StampsKept
<1>10. CASE Load
  <2>1. Contents' = Contents /\ Count' = Count /\ clock' = clock
    BY <1>10 DEF Load, Contents, Count, Slot
  <2>2. \A q \in Producers : pc'[q] \notin {"store", "advance"}
    <3>1. \A q \in Producers : pc[q] \in {"idle", "lock"}
      BY <1>0, <1>10, Alone DEF Load
    <3>2. QED BY <1>0, <1>10, <3>1 DEF Load
  <2>3. out_order' = Contents[1] /\ 1 \in 1..Count
    <3>1. /\ head # tail /\ Contents # <<>> /\ Head(Contents) = buffer[tail] /\ Count > 0
      BY <1>10, OldestIs DEF Load, QueueInv, CallInv
    <3>2. QED BY <1>10, <3>1, StampTypes DEF Load
  <2>4. StampsInOrder'
    BY <2>1, <2>3, StampTypes DEF StampInv, StampsInOrder
  <2>5. QED BY <2>1, <2>2, <2>3, <2>4 DEF StampInv
<1>11. CASE AdvanceTail
  <2>1. /\ tail' = NextSlot(tail) /\ head # tail
        /\ UNCHANGED <<buffer, head, order, out_order, clock>>
    BY <1>11 DEF AdvanceTail, QueueInv, CallInv
  <2>2. Contents' = Tail(Contents) /\ Contents # <<>>
    BY <2>1, TailTakes, OldestIs
  <2>3. /\ Count' = Count - 1
        /\ \A i \in 1..Count' : Contents'[i] = Contents[i + 1] /\ i + 1 \in 1..Count
    <3>1. /\ Len(Tail(Contents)) = Len(Contents) - 1
          /\ \A i \in 1..Len(Tail(Contents)) : Tail(Contents)[i] = Contents[i + 1]
      BY <2>2, StampTypes, HeadTailProperties
    <3>2. QED BY <2>1, <2>2, <3>1, StampTypes, TailTakes
  <2>4. \A q \in Producers : pc'[q] \notin {"store", "advance"}
    <3>1. \A q \in Producers : pc[q] \in {"idle", "lock"}
      BY <1>0, <1>11, Alone DEF AdvanceTail
    <3>2. QED BY <1>0, <1>11, <3>1 DEF AdvanceTail
  <2>5. StampsInOrder'
    <3>1. ASSUME NEW i \in 1..Count', NEW j \in 1..Count', i < j
          PROVE  Contents'[i].timestamp <= Contents'[j].timestamp
      <4>1. i + 1 \in 1..Count /\ j + 1 \in 1..Count /\ i + 1 < j + 1
        BY <2>3, <3>1, StampTypes
      <4>2. Contents[i + 1].timestamp <= Contents[j + 1].timestamp
        BY <4>1 DEF StampInv, StampsInOrder
      <4>3. QED BY <2>3, <4>2
    <3>2. \A i \in 1..Count' : out_order'.timestamp <= Contents'[i].timestamp
      BY <2>1, <2>3 DEF StampInv, StampsInOrder
    <3>3. QED BY <3>1, <3>2 DEF StampsInOrder
  <2>6. QED BY <2>1, <2>3, <2>4, <2>5 DEF StampInv
<1>12. CASE UNCHANGED vars
  BY <1>0, <1>12, StampsKept DEF vars, Contents, Count, Slot
<1>13. QED
  BY <1>1, <1>2, <1>3, <1>4, <1>5, <1>6, <1>7, <1>8, <1>9, <1>10, <1>11, <1>12
     DEF Next, try_enqueue, try_dequeue

(* No order overtakes one that was stamped before it.                      *)
THEOREM StampsAlwaysInOrder == Spec => []StampsInOrder
<1>1. Spec => []StampInv
  BY StampInvInit, StampStep, QueueInvariant, PTL DEF Spec
<1>2. StampInv => StampsInOrder
  BY DEF StampInv
<1>3. QED BY <1>1, <1>2, PTL
-----------------------------------------------------------------------------
(* The abstract state.                                                     *)
AbstractQueue == IF pc[Engine] = "retire" THEN Tail(Contents) ELSE Contents
AbstractAnswer == IF pc[Engine] = "retire" THEN [answer EXCEPT ![Engine] = "true"] ELSE answer
Requests == [p \in Producers |-> order[p].payload]

(* The variables of the abstract queue, by the names used here.            *)
LEMMA FifoVars == Fifo!vars = <<AbstractQueue, Requests, AbstractAnswer, out_order>>
BY DEF Fifo!vars, AbstractQueue, Requests, AbstractAnswer

(* The empty ring buffer is the empty queue.                               *)
LEMMA FifoInit == Init => Fifo!Init
<1> SUFFICES ASSUME Init PROVE Fifo!Init
  OBVIOUS
<1>1. pc[Engine] = "idle" /\ Count = 0
  BY DEF Init, Threads, Count
<1>2. Contents = <<>>
  BY <1>1 DEF Contents
<1>3. ASSUME NEW p \in Producers PROVE order[p].payload \in Payloads
  <2>1. PICK x \in Payloads : order[p] = [Blank EXCEPT !.payload = x]
    BY DEF Init
  <2>2. order[p] = [payload |-> x, timestamp |-> 0]
    BY <2>1 DEF Blank
  <2>3. QED BY <2>2
<1>4. [p \in Producers |-> order[p].payload] \in [Producers -> Payloads]
  BY <1>3
<1>5. QED BY <1>1, <1>2, <1>4 DEF Init, Threads, Fifo!Init

(* While a producer holds the lock, the engine is not between copying an   *)
(* order out and moving tail.                                              *)
LEMMA NotRetiring ==
  ASSUME QueueInv, NEW p \in Producers, pc[p] \notin {"idle", "lock"}
  PROVE  /\ pc[Engine] \in {"idle", "lock"}
         /\ AbstractQueue = Contents /\ AbstractAnswer = answer
         /\ answer[p] = "none"
<1>1. pc[Engine] \in {"idle", "lock"}
  BY Alone, QueueAssumption DEF Threads
<1>2. QED BY <1>1 DEF AbstractQueue, AbstractAnswer, QueueInv, CallInv, Threads

(* A producer's step asks, is accepted, is refused, or changes nothing of  *)
(* the queue.                                                              *)
LEMMA EnqueueRefined ==
  ASSUME QueueInv, NEW p \in Producers, try_enqueue(p)
  PROVE  [Fifo!Next]_(Fifo!vars)
<1> USE DEF Goto, Return, Answer, Threads
<1>0. /\ pc \in [Threads -> Labels] /\ answer \in [Threads -> {"none", "true", "false"}]
      /\ order \in [Producers -> Order] /\ p # Engine
  BY QueueAssumption DEF QueueInv, TypeOK
<1>1. ASSUME NEW x \in Payloads, CallEnqueue(p, x) PROVE Fifo!Ask(p, x)
  <2>1. Contents' = Contents /\ pc'[Engine] = pc[Engine]
    BY <1>0, <1>1 DEF CallEnqueue, Contents, Count, Slot
  <2>2. Requests' = [Requests EXCEPT ![p] = x]
    BY <1>0, <1>1 DEF CallEnqueue, Requests, Order
  <2>3. AbstractAnswer' = [AbstractAnswer EXCEPT ![p] = "none"]
    <3>1. answer' = [answer EXCEPT ![p] = "none"]
      BY <1>1 DEF CallEnqueue
    <3>2. CASE pc[Engine] = "retire"
      <4>1. /\ AbstractAnswer = [answer EXCEPT ![Engine] = "true"]
            /\ AbstractAnswer' = [answer' EXCEPT ![Engine] = "true"]
        BY <2>1, <3>2 DEF AbstractAnswer
      <4>2. \A t \in Threads : AbstractAnswer'[t] = [AbstractAnswer EXCEPT ![p] = "none"][t]
        BY <1>0, <3>1, <4>1
      <4>3. /\ AbstractAnswer' \in [Threads -> {"none", "true", "false"}]
            /\ [AbstractAnswer EXCEPT ![p] = "none"] \in [Threads -> {"none", "true", "false"}]
        BY <1>0, <3>1, <4>1
      <4>4. QED BY <4>2, <4>3
    <3>3. CASE pc[Engine] # "retire"
      BY <2>1, <3>1, <3>3 DEF AbstractAnswer
    <3>4. QED BY <3>2, <3>3
  <2>4. AbstractQueue' = AbstractQueue /\ out_order' = out_order
    BY <1>1, <2>1 DEF CallEnqueue, AbstractQueue
  <2>5. QED BY <2>2, <2>3, <2>4 DEF Fifo!Ask, Fifo!Answer, AbstractQueue, Requests, AbstractAnswer
<1>2. CASE Lock(p)
  <2>1. Contents' = Contents /\ pc'[Engine] = pc[Engine]
        /\ UNCHANGED <<order, answer, out_order>>
    BY <1>0, <1>2 DEF Lock, Contents, Count, Slot
  <2>2. QED BY <2>1, FifoVars DEF AbstractQueue, AbstractAnswer, Requests, Fifo!vars
<1>3. CASE CheckFull(p)
  <2>1. Contents' = Contents /\ pc'[Engine] = pc[Engine]
        /\ UNCHANGED <<order, out_order>>
    BY <1>0, <1>3 DEF CheckFull, Contents, Count, Slot
  <2>2. AbstractQueue = Contents /\ AbstractAnswer = answer /\ answer[p] = "none"
        /\ AbstractQueue' = Contents /\ AbstractAnswer' = answer' /\ Requests' = Requests
    BY <1>3, <2>1, NotRetiring DEF CheckFull, AbstractQueue, AbstractAnswer, Requests
  <2>3. CASE NextSlot(head) = tail
    <3>1. Len(Contents) = capacity - 1
      <4>1. /\ head \in Nat /\ tail \in Nat /\ capacity \in Nat
            /\ head < capacity /\ tail < capacity
            /\ tail = IF head + 1 = capacity THEN 0 ELSE head + 1
        <5>1. head \in Slots /\ tail \in Slots /\ capacity \in Nat
          BY QueueAssumption DEF QueueInv, TypeOK
        <5>2. NextSlot(head) = IF head + 1 = capacity THEN 0 ELSE head + 1
          BY <5>1, NextSlotIs
        <5>3. QED BY <2>3, <5>1, <5>2 DEF Slots
      <4>2. Count = capacity - 1
        BY <4>1 DEF Count
      <4>3. QED BY <4>2, ContentsFacts
    <3>2. answer' = [answer EXCEPT ![p] = "false"]
      BY <1>3, <2>3, QueueAssumption DEF CheckFull, IsFull, QueueInv, TypeOK
    <3>3. Fifo!Refuse(p)
      BY <2>1, <2>2, <3>1, <3>2
         DEF Fifo!Refuse, Fifo!Answer, AbstractQueue, AbstractAnswer, Requests
    <3>4. QED BY <3>3 DEF Fifo!Next
  <2>4. CASE NextSlot(head) # tail
    <3>1. answer' = answer
      BY <1>3, <2>4 DEF CheckFull, IsFull, QueueInv, TypeOK
    <3>2. QED BY <2>1, <2>2, <3>1, FifoVars DEF Fifo!vars
  <2>5. QED BY <2>3, <2>4
<1>4. CASE Stamp(p)
  <2>1. Contents' = Contents /\ pc'[Engine] = pc[Engine]
        /\ UNCHANGED <<answer, out_order>>
    BY <1>0, <1>4 DEF Stamp, Contents, Count, Slot
  <2>2. Requests' = Requests
    BY <1>0, <1>4 DEF Stamp, Requests, Order
  <2>3. AbstractQueue' = AbstractQueue /\ AbstractAnswer' = AbstractAnswer
    BY <2>1 DEF AbstractQueue, AbstractAnswer
  <2>4. QED BY <2>1, <2>2, <2>3 DEF AbstractQueue, AbstractAnswer, Requests, Fifo!vars
<1>5. CASE Store(p)
  <2>1. Contents' = Contents
    BY <1>5, StoreOutside DEF Store
  <2>2. pc'[Engine] = pc[Engine] /\ UNCHANGED <<order, answer, out_order>>
    BY <1>0, <1>5 DEF Store
  <2>3. QED BY <2>1, <2>2, FifoVars DEF AbstractQueue, AbstractAnswer, Requests, Fifo!vars
<1>6. CASE AdvanceHead(p)
  <2>1. /\ head' = NextSlot(head) /\ head' # tail /\ buffer[head] = order[p]
        /\ pc'[Engine] = pc[Engine] /\ answer' = [answer EXCEPT ![p] = "true"]
        /\ UNCHANGED <<buffer, tail, order, out_order, clock>>
    BY <1>0, <1>6 DEF AdvanceHead, QueueInv, CallInv
  <2>2. Contents' = Append(Contents, order[p]) /\ Len(Contents) < capacity - 1
    BY <2>1, HeadAppends, ContentsFacts
  <2>3. AbstractQueue = Contents /\ AbstractAnswer = answer /\ answer[p] = "none"
        /\ AbstractQueue' = Contents' /\ AbstractAnswer' = answer' /\ Requests' = Requests
    BY <1>6, <2>1, NotRetiring DEF AdvanceHead, AbstractQueue, AbstractAnswer, Requests
  <2>4. order[p] = [payload |-> Requests[p], timestamp |-> order[p].timestamp]
        /\ order[p].timestamp \in 0..MaxClock
    BY <1>0 DEF Order, Requests
  <2>5. Fifo!Accept(p, order[p].timestamp)
    BY <2>1, <2>2, <2>3, <2>4
       DEF Fifo!Accept, Fifo!Answer, AbstractQueue, AbstractAnswer, Requests
  <2>6. QED BY <2>4, <2>5 DEF Fifo!Next
<1>7. QED BY <1>1, <1>2, <1>3, <1>4, <1>5, <1>6 DEF try_enqueue, Fifo!Next

(* The engine's step polls, is handed an order, finds none, or changes     *)
(* nothing of the queue.                                                   *)
LEMMA DequeueRefined ==
  ASSUME QueueInv, try_dequeue
  PROVE  [Fifo!Next]_(Fifo!vars)
<1> USE DEF Goto, Return, Answer, Threads
<1>0. /\ pc \in [Threads -> Labels] /\ answer \in [Threads -> {"none", "true", "false"}]
  BY DEF QueueInv, TypeOK
<1>1. CASE CallDequeue
  <2>1. Contents' = Contents /\ pc[Engine] # "retire" /\ pc'[Engine] # "retire"
        /\ UNCHANGED <<order, out_order>> /\ answer' = [answer EXCEPT ![Engine] = "none"]
    BY <1>0, <1>1 DEF CallDequeue, Contents, Count, Slot
  <2>2. QED BY <2>1 DEF Fifo!Next, Fifo!Poll, Fifo!Answer
<1>2. CASE Lock(Engine)
  <2>1. Contents' = Contents /\ pc[Engine] # "retire" /\ pc'[Engine] # "retire"
        /\ UNCHANGED <<order, answer, out_order>>
    BY <1>0, <1>2 DEF Lock, Contents, Count, Slot
  <2>2. QED BY <2>1 DEF Fifo!vars
<1>3. CASE CheckEmpty
  <2>1. Contents' = Contents /\ pc[Engine] # "retire" /\ pc'[Engine] # "retire"
        /\ UNCHANGED <<order, out_order>> /\ answer[Engine] = "none"
    BY <1>0, <1>3 DEF CheckEmpty, Contents, Count, Slot, QueueInv, CallInv
  <2>2. CASE head = tail
    <3>1. answer' = [answer EXCEPT ![Engine] = "false"]
      BY <1>3, <2>2 DEF CheckEmpty
    <3>2. Contents = <<>>
      BY <2>2, QueueAssumption, ContentsFacts DEF Count, QueueInv, TypeOK, Slots
    <3>3. QED BY <2>1, <3>1, <3>2 DEF Fifo!Next, Fifo!Starve, Fifo!Answer
  <2>3. CASE head # tail
    <3>1. answer' = answer
      BY <1>3, <2>3 DEF CheckEmpty
    <3>2. QED BY <2>1, <3>1 DEF Fifo!vars
  <2>4. QED BY <2>2, <2>3
<1>4. CASE Load
  <2>1. Contents' = Contents /\ pc[Engine] # "retire" /\ pc'[Engine] = "retire"
        /\ UNCHANGED <<order, answer>> /\ out_order' = buffer[tail]
        /\ answer[Engine] = "none" /\ head # tail
    BY <1>0, <1>4 DEF Load, Contents, Count, Slot, QueueInv, CallInv
  <2>2. Contents # <<>> /\ out_order' = Head(Contents)
    BY <2>1, OldestIs
  <2>3. Fifo!Hand
    BY <2>1, <2>2 DEF Fifo!Hand, Fifo!Answer
  <2>4. QED BY <2>3 DEF Fifo!Next
<1>5. CASE AdvanceTail
  <2>1. /\ tail' = NextSlot(tail) /\ head # tail
        /\ pc[Engine] = "retire" /\ pc'[Engine] = "idle"
        /\ answer' = [answer EXCEPT ![Engine] = "true"]
        /\ UNCHANGED <<buffer, head, order, out_order, clock>>
    BY <1>0, <1>5 DEF AdvanceTail, QueueInv, CallInv
  <2>2. Contents' = Tail(Contents)
    BY <2>1, TailTakes
  <2>3. QED BY <2>1, <2>2 DEF Fifo!vars
<1>6. QED BY <1>1, <1>2, <1>3, <1>4, <1>5 DEF try_dequeue

(* The ring buffer under its mutex is a bounded first-in first-out queue,  *)
(* for any number of producers and any capacity.                           *)
THEOREM QueueIsFifo == Spec => FifoKept
<1>1. ASSUME QueueInv, [Next]_vars
      PROVE  [Fifo!Next]_(Fifo!vars)
  <2>1. CASE Tick \/ UNCHANGED vars
    <3>1. UNCHANGED <<buffer, head, tail, pc, order, answer, out_order>>
      BY <2>1 DEF Tick, vars
    <3>2. QED BY <3>1 DEF Fifo!vars, Contents, Count, Slot
  <2>2. QED BY <1>1, <2>1, EnqueueRefined, DequeueRefined DEF Next
<1>2. QED BY FifoInit, <1>1, QueueInvariant, PTL DEF Spec, FifoKept, Fifo!Spec
=============================================================================
