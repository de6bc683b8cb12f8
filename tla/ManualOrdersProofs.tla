-------------------------- MODULE ManualOrdersProofs -------------------------
(***************************************************************************)
(* Proofs about ManualOrders, for any number of pages, logins, orders and  *)
(* broadcasts under way: the server's list of clients, the pairing of      *)
(* answers with the websockets they are for, that the server knows whose   *)
(* the orders of a trade are, the types, and what the rows of a user say   *)
(* who is alone and waits for his answers.                                 *)
(***************************************************************************)
EXTENDS ManualOrders, SequenceTheorems, FiniteSetTheorems, TLAPS

USE DEF answers

(* Coroutines whose dead websockets are in D; M holds whatever else they   *)
(* carry.                                                                  *)
Coroutines(M, D) ==
  [message : M, to : M, started : BOOLEAN, visited : M, dead : SUBSET D, size : M]

LoopIn(D) == \E M : loop \in Seq(Coroutines(M, D))

(* What a broadcast has found dead is lost, also while it waits: only then *)
(* may it take websockets off the list at its end.                         *)
ListInv ==
  /\ owner \in Seq(Clients)
  /\ LoopIn(lost)
  /\ WorkingSocketsListed

(* A sequence over a set is one over a larger set.                         *)
LEMMA Larger ==
  ASSUME NEW S, NEW T, S \subseteq T, NEW q \in Seq(S)
  PROVE  q \in Seq(T)
OBVIOUS

(* Scheduling a coroutine keeps the loop in order.                         *)
LEMMA Scheduled ==
  ASSUME LoopIn(lost), lost' = lost, NEW message, NEW to,
         loop' = Append(loop, Coroutine(message, to))
  PROVE  LoopIn(lost)'
<1>1. PICK M : loop \in Seq(Coroutines(M, lost))
  BY DEF LoopIn
<1> DEFINE N == M \cup {message, to, {}, 0}
<1>2. Coroutines(M, lost) \subseteq Coroutines(N, lost)
  BY DEF Coroutines
<1>3. loop \in Seq(Coroutines(N, lost))
  BY <1>1, <1>2, Larger
<1>4. Coroutine(message, to) \in Coroutines(N, lost)
  BY DEF Coroutine, Coroutines
<1>5. loop' \in Seq(Coroutines(N, lost))
  BY <1>3, <1>4
<1>6. QED BY <1>5 DEF LoopIn

(* So does taking out one that has ended.                                  *)
LEMMA Unscheduled ==
  ASSUME LoopIn(lost), lost' = lost, NEW i \in DOMAIN loop, loop' = Without(loop, i)
  PROVE  LoopIn(lost)'
<1>1. PICK M : loop \in Seq(Coroutines(M, lost))
  BY DEF LoopIn
<1>2. i \in 1..Len(loop) /\ Len(loop) \in Nat
  BY <1>1
<1>3. /\ SubSeq(loop, 1, i - 1) \in Seq(Coroutines(M, lost))
      /\ SubSeq(loop, i + 1, Len(loop)) \in Seq(Coroutines(M, lost))
  BY <1>1, <1>2
<1>4. loop' \in Seq(Coroutines(M, lost))
  BY <1>3 DEF Without
<1>5. QED BY <1>4 DEF LoopIn

LEMMA ListStarts == Init => ListInv
<1> SUFFICES ASSUME Init PROVE ListInv
  OBVIOUS
<1>1. owner = <<>> /\ loop = <<>> /\ DOMAIN owner = {}
  BY DEF Init
<1>2. owner \in Seq(Clients) /\ loop \in Seq(Coroutines({}, lost))
  BY <1>1
<1>3. QED BY <1>1, <1>2 DEF ListInv, LoopIn, WorkingSocketsListed, Opened
-----------------------------------------------------------------------------
(* Steps of the bridge that send: only a broadcast changes the list.       *)
LEMMA ReaderKeeps ==
  ASSUME ListInv, stdout_reader_thread
  PROVE  ListInv'
<1>1. UNCHANGED <<owner, lost, connected_clients>>
  BY DEF stdout_reader_thread, links
<1>2. \/ UNCHANGED loop
      \/ \E message, to : loop' = Append(loop, Coroutine(message, to))
  BY DEF stdout_reader_thread, ReadAck, ReadReject, ReadTrade, ReadSpoiled, broadcast, send_to
<1>3. LoopIn(lost)'
  BY <1>1, <1>2, Scheduled DEF ListInv, LoopIn
<1>4. QED BY <1>1, <1>3 DEF ListInv, WorkingSocketsListed, Opened

LEMMA SendToKeeps ==
  ASSUME ListInv, NEW i \in DOMAIN loop, SendTo(i)
  PROVE  ListInv'
<1>1. UNCHANGED <<owner, lost, connected_clients>> /\ loop' = Without(loop, i)
  BY DEF SendTo
<1>2. LoopIn(lost)'
  BY <1>1, Unscheduled DEF ListInv
<1>3. QED BY <1>1, <1>2 DEF ListInv, WorkingSocketsListed, Opened

(* A broadcast puts on its list of dead only what is lost.                 *)
LEMMA BroadcastKeeps ==
  ASSUME ListInv, NEW i \in DOMAIN loop, NEW s, Broadcast(i, s)
  PROVE  ListInv'
<1>1. UNCHANGED <<owner, lost, connected_clients>>
  BY DEF Broadcast
<1>2. PICK M : loop \in Seq(Coroutines(M, lost))
  BY DEF ListInv, LoopIn
<1> DEFINE N == M \cup {Size(i), loop[i].visited \cup {s}}
           new == Visited(loop[i], s, Size(i))
<1>3. loop' = [loop EXCEPT ![i] = new]
  BY DEF Broadcast
<1>4. loop[i] \in Coroutines(M, lost)
  BY <1>2
<1>5. new \in Coroutines(N, lost)
  BY <1>4 DEF Coroutines, Visited
<1>6. Coroutines(M, lost) \subseteq Coroutines(N, lost)
  BY DEF Coroutines
<1>7. loop \in Seq(Coroutines(N, lost))
  BY <1>2, <1>6, Larger
<1>8. loop' \in Seq(Coroutines(N, lost))
  BY <1>3, <1>5, <1>7
<1>9. LoopIn(lost)'
  BY <1>1, <1>8 DEF LoopIn
<1>10. QED BY <1>1, <1>9 DEF ListInv, WorkingSocketsListed, Opened

(* What it takes off the list when it ends is lost.                        *)
LEMMA EndBroadcastKeeps ==
  ASSUME ListInv, NEW i \in DOMAIN loop, EndBroadcast(i)
  PROVE  ListInv'
<1>1. /\ UNCHANGED <<owner, lost>> /\ loop' = Without(loop, i)
      /\ \/ UNCHANGED connected_clients
         \/ connected_clients' = connected_clients \ loop[i].dead
  BY DEF EndBroadcast, links, Dead
<1>2. loop[i].dead \subseteq lost
  <2>1. PICK M : loop \in Seq(Coroutines(M, lost))
    BY DEF ListInv, LoopIn
  <2>2. loop[i] \in Coroutines(M, lost)
    BY <2>1
  <2>3. QED BY <2>2 DEF Coroutines
<1>3. LoopIn(lost)'
  BY <1>1, Unscheduled DEF ListInv
<1>4. WorkingSocketsListed'
  BY <1>1, <1>2 DEF ListInv, WorkingSocketsListed, Opened
<1>5. QED BY <1>1, <1>3, <1>4 DEF ListInv

(* Users come and go.                                                      *)
LEMMA ConnectKeeps ==
  ASSUME ListInv, NEW c \in Clients, Connect(c)
  PROVE  ListInv'
<1>1. /\ owner' = Append(owner, c) /\ UNCHANGED <<lost, loop>>
      /\ connected_clients' = connected_clients \cup {Len(owner')}
  BY DEF Connect
<1>2. /\ owner' \in Seq(Clients) /\ Len(owner') = Len(owner) + 1
      /\ DOMAIN owner' = DOMAIN owner \cup {Len(owner')}
  BY <1>1 DEF ListInv
<1>3. QED BY <1>1, <1>2 DEF ListInv, LoopIn, WorkingSocketsListed, Opened

LEMMA LoseKeeps ==
  ASSUME ListInv, NEW s, Lose(s)
  PROVE  ListInv'
<1>1. lost' = lost \cup {s} /\ UNCHANGED <<owner, loop, connected_clients>>
  BY DEF Lose, server
<1>2. PICK M : loop \in Seq(Coroutines(M, lost))
  BY DEF ListInv, LoopIn
<1>3. Coroutines(M, lost) \subseteq Coroutines(M, lost')
  BY <1>1 DEF Coroutines
<1>4. loop' \in Seq(Coroutines(M, lost'))
  BY <1>1, <1>2, <1>3, Larger
<1>5. QED BY <1>1, <1>4 DEF ListInv, LoopIn, WorkingSocketsListed, Opened

LEMMA EndHandlerKeeps ==
  ASSUME ListInv, NEW s, EndHandler(s)
  PROVE  ListInv'
BY DEF EndHandler, links, ListInv, LoopIn, WorkingSocketsListed, Opened

(* All other steps leave the list, the loop and the websockets alone.      *)
LEMMA OthersKeep ==
  ASSUME ListInv, UNCHANGED <<owner, lost, connected_clients, loop>>
  PROVE  ListInv'
BY DEF ListInv, LoopIn, WorkingSocketsListed, Opened

LEMMA ListKeeps == ASSUME ListInv, [Next]_vars PROVE ListInv'
<1>1. ASSUME NEW c \in Clients,
             Connect(c) \/ Logout(c) \/ (\E kind \in Kinds : Place(c, kind)) \/ Show(c)
      PROVE  ListInv'
  <2>1. CASE Connect(c)
    BY <2>1, ConnectKeeps
  <2>2. CASE Logout(c) \/ (\E kind \in Kinds : Place(c, kind)) \/ Show(c)
    BY <2>2, OthersKeep DEF Logout, Place, Show, server
  <2>3. QED BY <1>1, <2>1, <2>2
<1>2. ASSUME NEW s \in Opened, Lose(s) \/ EndHandler(s) \/ websocket_handler(s)
      PROVE  ListInv'
  <2>1. CASE websocket_handler(s)
    BY <2>1, OthersKeep DEF websocket_handler
  <2>2. QED BY <1>2, <2>1, LoseKeeps, EndHandlerKeeps
<1>3. ASSUME NEW i \in DOMAIN loop,
             SendTo(i) \/ (\E s \in Opened : Broadcast(i, s)) \/ EndBroadcast(i)
      PROVE  ListInv'
  BY <1>3, SendToKeeps, BroadcastKeeps, EndBroadcastKeeps
<1>4. CASE ReadCommand \/ PrintAck \/ Enqueue \/ Dequeue \/ Processed
  BY <1>4, OthersKeep DEF ReadCommand, PrintAck, Enqueue, Dequeue, Processed, links, server
<1>5. CASE \E maker \in 0..MaxCommands : on_trade(maker)
  BY <1>5, OthersKeep DEF on_trade, links, server
<1>6. CASE UNCHANGED vars
  BY <1>6, OthersKeep DEF vars, links, server
<1>7. QED BY <1>1, <1>2, <1>3, <1>4, <1>5, <1>6, ReaderKeeps DEF Next

(* However many broadcasts overlap, wait or fail, none of them takes a     *)
(* working client off the list.                                            *)
THEOREM WorkingSocketsAlwaysListed == Spec => []WorkingSocketsListed
<1>1. ListInv /\ [Next]_vars => ListInv'
  BY ListKeeps
<1>2. QED BY ListStarts, <1>1, PTL DEF Spec, ListInv
-----------------------------------------------------------------------------
(***************************************************************************)
(* The way of a command through the system: what every variable holds.     *)
(***************************************************************************)
Ids == DOMAIN origin

Lines ==
  {Ack(id) : id \in Ids} \cup {Reject(command) : command \in Command}
  \cup {TradeLine(maker, taker) : maker, taker \in Ids \cup {Bot}} \cup {Spoiled}

(* A line or a message that ends a user's wait.                            *)
IsAnswer(m) == m.type \notin {"trade", "manual_fill", "spoiled"}

(* The messages for websocket s alone: a rejection is one of a command that*)
(* came on it, as long as no command has gone unanswered.                  *)
Rejections(s) ==
  {[type |-> "order_reject", command |-> command] :
     command \in {x \in Command : unanswered = {} => x.socket = s}}
Fills == {[type |-> "manual_fill", order_id |-> id] : id \in Ids}
Acks == {Ack(id) : id \in Ids}

Addressed(message, to) ==
  \/ to = All /\ message \in Acks
  \/ to \in Sockets /\ message \in Rejections(to) \cup Fills

SocketsOK ==
  /\ owner \in Seq(Clients) /\ Len(owner) <= MaxSockets
  /\ ws \in [Clients -> {NoSocket} \cup Opened]
  /\ lost \subseteq Opened
  /\ connected_clients \subseteq Opened

CommandsOK ==
  /\ commands \in 0..MaxCommands
  /\ to_server \in [Sockets -> Seq(Command)]
  /\ \A s \in Sockets : \A i \in 1..Len(to_server[s]) : to_server[s][i].socket = s
  /\ order_sync_queue \in Seq(Opened)
  /\ stdin \in Seq(Command)

EngineOK ==
  /\ global_order_id \in Nat \ {0}
  /\ origin \in [1..(global_order_id - 1) -> Command]
  /\ \/ reader = IdleReader
     \/ reader \in [order_id : Ids, todo : {Steps, <<"enqueue">>}]
  /\ queue \in Seq(Ids) /\ Len(queue) <= QueueSize
  /\ processed \in Ids \cup {Bot}
  /\ resting \subseteq Ids
  /\ stdout \in Seq(Lines)

AnswersOK ==
  /\ pending_manual_orders \in [DOMAIN pending_manual_orders -> Sockets]
  /\ DOMAIN pending_manual_orders \subseteq Ids
  /\ \A i \in DOMAIN loop : Addressed(loop[i].message, loop[i].to)
  /\ to_client = [s \in Sockets |-> to_client[s]]
  /\ \A s \in Sockets : to_client[s] \in Seq(Acks \cup Fills \cup Rejections(s))

FlowOK == SocketsOK /\ CommandsOK /\ EngineOK /\ AnswersOK

(***************************************************************************)
(* order_sync_queue has a websocket for every command between the server   *)
(* and its answer.  g[p] is the number of answers in the first p lines of  *)
(* stdout; the websockets of those answers come first in order_sync_queue, *)
(* then that of an order stdin_reader is about to acknowledge, then those  *)
(* of the commands in stdin.  If stdin_reader skips commands or lines are  *)
(* spoiled there are more websockets than answers to come, never fewer.    *)
(***************************************************************************)
Counts(q, g) ==
  /\ g \in [0..Len(q) -> Nat]
  /\ g[0] = 0
  /\ \A p \in 1..Len(q) : g[p] = g[p - 1] + (IF IsAnswer(q[p]) THEN 1 ELSE 0)
  /\ \A p, r \in 0..Len(q) : p <= r => g[p] <= g[r]

Unprinted == IF reader.todo = Steps THEN 1 ELSE 0

Asker(line) == IF line.type = "ack" THEN origin[line.order_id].socket ELSE line.command.socket

InStep(g) ==
  /\ Len(order_sync_queue) = g[Len(stdout)] + Unprinted + Len(stdin)
  /\ \A p \in 1..Len(stdout) :
       IsAnswer(stdout[p]) => order_sync_queue[g[p]] = Asker(stdout[p])
  /\ reader.todo = Steps =>
       order_sync_queue[g[Len(stdout)] + 1] = origin[reader.order_id].socket
  /\ \A i \in 1..Len(stdin) :
       order_sync_queue[g[Len(stdout)] + Unprinted + i] = stdin[i].socket

Awaited(g) ==
  /\ Counts(stdout, g)
  /\ Len(order_sync_queue) >= g[Len(stdout)] + Unprinted + Len(stdin)
  /\ unanswered = {} => InStep(g)

PendingPaired ==
  unanswered = {} =>
    \A id \in DOMAIN pending_manual_orders : pending_manual_orders[id] = origin[id].socket

(* The server knows order id, or learns of it from a line in stdout.       *)
Learnt(id) == id \in DOMAIN pending_manual_orders \/ \E j \in DOMAIN stdout : stdout[j] = Ack(id)

(* Its ack has been printed, or spoiled.                                   *)
Acknowledged(id) == Learnt(id) \/ origin[id].number \in unanswered

(* All orders that have left stdin_reader's first step are acknowledged.   *)
AcksAhead ==
  /\ reader.todo = <<"enqueue">> => Acknowledged(reader.order_id)
  /\ \A i \in DOMAIN queue : Acknowledged(queue[i])
  /\ processed # Bot => Acknowledged(processed)
  /\ \A id \in resting : Acknowledged(id)
  /\ FillsRoutable
-----------------------------------------------------------------------------
(* Counting answers when a line is printed, and when one is read.          *)
LEMMA CountsAppend ==
  ASSUME NEW S, NEW q \in Seq(S), NEW x \in S, NEW g, Counts(q, g)
  PROVE  \E h : /\ Counts(Append(q, x), h)
                /\ \A p \in 0..Len(q) : h[p] = g[p]
                /\ h[Len(q) + 1] = g[Len(q)] + (IF IsAnswer(x) THEN 1 ELSE 0)
<1> DEFINE one == IF IsAnswer(x) THEN 1 ELSE 0
           h == [p \in 0..(Len(q) + 1) |-> IF p <= Len(q) THEN g[p] ELSE g[Len(q)] + one]
           r == Append(q, x)
<1>1. /\ Len(q) \in Nat /\ Len(r) = Len(q) + 1 /\ r[Len(q) + 1] = x
      /\ \A p \in 1..Len(q) : r[p] = q[p]
  OBVIOUS
<1>2. /\ g \in [0..Len(q) -> Nat] /\ g[0] = 0
      /\ \A p \in 1..Len(q) : g[p] = g[p - 1] + (IF IsAnswer(q[p]) THEN 1 ELSE 0)
      /\ \A p, s \in 0..Len(q) : p <= s => g[p] <= g[s]
  BY DEF Counts
<1>3. /\ \A p \in 0..Len(q) : h[p] = g[p]
      /\ h[Len(q) + 1] = g[Len(q)] + one
  BY <1>1
<1>4. h \in [0..Len(r) -> Nat] /\ h[0] = 0
  BY <1>1, <1>2
<1>5. ASSUME NEW p \in 1..Len(r)
      PROVE  h[p] = h[p - 1] + (IF IsAnswer(r[p]) THEN 1 ELSE 0)
  <2>1. CASE p = Len(q) + 1
    BY <2>1, <1>1, <1>3
  <2>2. CASE p # Len(q) + 1
    <3>1. p \in 1..Len(q) /\ p - 1 \in 0..Len(q)
      BY <2>2, <1>1
    <3> QED BY <3>1, <1>1, <1>2, <1>3
  <2> QED BY <2>1, <2>2
<1>6. ASSUME NEW p \in 0..Len(r), NEW s \in 0..Len(r), p <= s PROVE h[p] <= h[s]
  <2>1. g[Len(q)] \in Nat /\ one \in {0, 1} /\ \A n \in 0..Len(q) : g[n] \in Nat /\ g[n] <= g[Len(q)]
    BY <1>1, <1>2
  <2>2. CASE s = Len(q) + 1
    <3>1. CASE p = s
      BY <3>1, <2>1, <2>2, <1>3
    <3>2. CASE p # s
      <4>1. p \in 0..Len(q)
        BY <3>2, <2>2, <1>1, <1>6
      <4> QED BY <4>1, <2>1, <2>2, <1>3
    <3> QED BY <3>1, <3>2
  <2>3. CASE s # Len(q) + 1
    <3>1. s \in 0..Len(q) /\ p \in 0..Len(q)
      BY <2>3, <1>1, <1>6
    <3> QED BY <3>1, <1>2, <1>3, <1>6
  <2> QED BY <2>2, <2>3
<1>7. Counts(r, h)
  BY <1>4, <1>5, <1>6 DEF Counts
<1> HIDE DEF h
<1> QED BY <1>3, <1>7

(* An answer is one more to come.                                          *)
LEMMA AnswerCounted ==
  ASSUME NEW q \in Seq(Lines), NEW x \in Lines, IsAnswer(x), NEW g, Counts(q, g)
  PROVE  \E h : /\ Counts(Append(q, x), h)
                /\ \A p \in 0..Len(q) : h[p] = g[p]
                /\ h[Len(q) + 1] = g[Len(q)] + 1
BY CountsAppend

LEMMA CountsTail ==
  ASSUME NEW S, NEW q \in Seq(S), q # <<>>, NEW g, Counts(q, g)
  PROVE  /\ \E h : /\ Counts(Tail(q), h)
                   /\ \A p \in 0..Len(Tail(q)) : h[p] = g[p + 1] - g[1]
         /\ g[1] = IF IsAnswer(Head(q)) THEN 1 ELSE 0
<1> DEFINE r == Tail(q)
           h == [p \in 0..Len(r) |-> g[p + 1] - g[1]]
<1>1. /\ Len(q) \in Nat \ {0} /\ Len(r) = Len(q) - 1 /\ Head(q) = q[1]
      /\ \A p \in 1..Len(r) : r[p] = q[p + 1]
  OBVIOUS
<1>2. /\ g \in [0..Len(q) -> Nat] /\ g[0] = 0
      /\ \A p \in 1..Len(q) : g[p] = g[p - 1] + (IF IsAnswer(q[p]) THEN 1 ELSE 0)
      /\ \A p, s \in 0..Len(q) : p <= s => g[p] <= g[s]
  BY DEF Counts
<1>3. g[1] = IF IsAnswer(Head(q)) THEN 1 ELSE 0
  BY <1>1, <1>2
<1>4. h \in [0..Len(r) -> Nat] /\ h[0] = 0
  <2>1. ASSUME NEW p \in 0..Len(r) PROVE g[p + 1] \in Nat /\ g[1] \in Nat /\ g[1] <= g[p + 1]
    <3>1. p + 1 \in 0..Len(q) /\ 1 \in 0..Len(q) /\ 1 <= p + 1
      BY <1>1
    <3> QED BY <3>1, <1>2
  <2>2. ASSUME NEW p \in 0..Len(r) PROVE g[p + 1] - g[1] \in Nat
    BY <2>1
  <2>3. h \in [0..Len(r) -> Nat]
    BY <2>2
  <2>4. h[0] = g[0 + 1] - g[1] /\ g[1] \in Nat
    BY <2>1, <1>1
  <2> QED BY <2>3, <2>4
<1>5. \A p \in 1..Len(r) : h[p] = h[p - 1] + (IF IsAnswer(r[p]) THEN 1 ELSE 0)
  <2> SUFFICES ASSUME NEW p \in 1..Len(r)
               PROVE  h[p] = h[p - 1] + (IF IsAnswer(r[p]) THEN 1 ELSE 0)
    OBVIOUS
  <2>1. p + 1 \in 1..Len(q) /\ p \in 0..Len(q) /\ p - 1 \in 0..Len(r)
    BY <1>1
  <2>2. g[p + 1] = g[p] + (IF IsAnswer(q[p + 1]) THEN 1 ELSE 0)
    BY <2>1, <1>2
  <2>3. h[p] = g[p + 1] - g[1] /\ h[p - 1] = g[p] - g[1]
    BY <2>1
  <2>4. g[p] \in Nat /\ g[1] \in Nat
    BY <2>1, <1>1, <1>2
  <2> QED BY <2>2, <2>3, <2>4, <1>1
<1>6. \A p, s \in 0..Len(r) : p <= s => h[p] <= h[s]
  <2> SUFFICES ASSUME NEW p \in 0..Len(r), NEW s \in 0..Len(r), p <= s PROVE h[p] <= h[s]
    OBVIOUS
  <2>1. p + 1 \in 0..Len(q) /\ s + 1 \in 0..Len(q) /\ 1 \in 0..Len(q)
    BY <1>1
  <2>2. g[p + 1] <= g[s + 1] /\ g[p + 1] \in Nat /\ g[s + 1] \in Nat /\ g[1] \in Nat
    <3>1. p + 1 <= s + 1
      BY <1>1
    <3> QED BY <2>1, <3>1, <1>2
  <2> QED BY <2>2
<1>7. Counts(r, h)
  BY <1>4, <1>5, <1>6 DEF Counts
<1>8. \A p \in 0..Len(r) : h[p] = g[p + 1] - g[1]
  OBVIOUS
<1> HIDE DEF h
<1> QED BY <1>3, <1>7, <1>8
-----------------------------------------------------------------------------
(* Every variable holds what FlowOK says: what a step adds to a queue, and *)
(* that what is in it stays right when websockets are opened and ids given.*)
LEMMA FlowStarts == Init => FlowOK
<1> SUFFICES ASSUME Init PROVE FlowOK
  OBVIOUS
<1> USE ManualAssumption
<1>1. /\ owner = <<>> /\ to_server = [s \in Sockets |-> <<>>] /\ order_sync_queue = <<>>
      /\ stdin = <<>> /\ origin = <<>> /\ queue = <<>> /\ stdout = <<>> /\ loop = <<>>
      /\ to_client = [s \in Sockets |-> <<>>] /\ pending_manual_orders = <<>>
      /\ DOMAIN owner = {} /\ DOMAIN origin = {} /\ DOMAIN pending_manual_orders = {}
      /\ DOMAIN loop = {}
  BY DEF Init
<1>2. SocketsOK
  BY <1>1 DEF Init, SocketsOK, Opened, NoSocket
<1>3. CommandsOK
  BY <1>1 DEF Init, CommandsOK, Opened
<1>4. EngineOK
  <2>1. global_order_id = 1 /\ 1..(1 - 1) = {}
    BY DEF Init
  <2>2. origin \in [1..(global_order_id - 1) -> Command]
    BY <2>1, <1>1
  <2> QED BY <2>1, <2>2, <1>1 DEF Init, EngineOK, Ids, Lines
<1>5. AnswersOK
  BY <1>1 DEF Init, AnswersOK, Ids, Sockets, Acks, Fills, Rejections
<1> QED BY <1>2, <1>3, <1>4, <1>5 DEF FlowOK

(* The parts of FlowOK that a step leaves alone.                           *)
LEMMA SocketsStay ==
  ASSUME SocketsOK, UNCHANGED <<owner, ws, lost, connected_clients>> PROVE SocketsOK'
BY DEF SocketsOK, Opened

LEMMA CommandsStay ==
  ASSUME CommandsOK, UNCHANGED <<commands, to_server, order_sync_queue, stdin, owner>>
  PROVE  CommandsOK'
BY DEF CommandsOK, Opened

LEMMA EngineStays == ASSUME EngineOK, UNCHANGED <<engine, stdout>> PROVE EngineOK'
BY DEF EngineOK, engine, Ids, Lines

(* Once a command has gone unanswered a rejection may come to any websocket.*)
LEMMA RejectionsStay ==
  ASSUME unanswered' = {} => unanswered = {}, NEW s
  PROVE  /\ Rejections(s) \subseteq Rejections(s)'
         /\ UNCHANGED unanswered => Rejections(s)' = Rejections(s)
BY DEF Rejections

LEMMA AddressedStays ==
  ASSUME UNCHANGED origin, unanswered' = {} => unanswered = {},
         NEW message, NEW to, Addressed(message, to)
  PROVE  \/ to = All /\ message \in Acks'
         \/ to \in Sockets /\ message \in Rejections(to)' \cup Fills'
<1>1. Acks' = Acks /\ Fills' = Fills
  BY DEF Acks, Fills, Ids
<1>2. CASE to = All /\ message \in Acks
  BY <1>1, <1>2
<1>3. CASE to \in Sockets /\ message \in Rejections(to) \cup Fills
  <2>1. Rejections(to) \subseteq Rejections(to)'
    BY RejectionsStay
  <2> QED BY <2>1, <1>1, <1>3
<1> QED BY <1>2, <1>3 DEF Addressed

LEMMA AnswersStay ==
  ASSUME AnswersOK, UNCHANGED <<pending_manual_orders, loop, to_client, origin>>,
         unanswered' = {} => unanswered = {}
  PROVE  AnswersOK'
<1>1. Acks' = Acks /\ Fills' = Fills /\ Ids' = Ids
  BY DEF Acks, Fills, Ids
<1>2. ASSUME NEW s \in Sockets PROVE to_client'[s] \in Seq(Acks' \cup Fills' \cup Rejections(s)')
  <2>1. to_client'[s] \in Seq(Acks \cup Fills \cup Rejections(s))
    BY DEF AnswersOK
  <2>2. Acks \cup Fills \cup Rejections(s) \subseteq Acks' \cup Fills' \cup Rejections(s)'
    BY <1>1, RejectionsStay
  <2> QED BY <2>1, <2>2, Larger
<1>3. (\A i \in DOMAIN loop : Addressed(loop[i].message, loop[i].to))'
  BY AddressedStays DEF AnswersOK, Addressed
<1> QED BY <1>1, <1>2, <1>3 DEF AnswersOK

LEMMA ToClientChanges ==
  ASSUME AnswersOK, UNCHANGED <<origin, unanswered>>, NEW s, NEW q,
         s \in Sockets => q \in Seq(Acks \cup Fills \cup Rejections(s)),
         to_client' = [to_client EXCEPT ![s] = q]
  PROVE  /\ to_client' = [r \in Sockets |-> to_client'[r]]
         /\ \A r \in Sockets : to_client'[r] \in Seq(Acks \cup Fills \cup Rejections(r))'
<1>1. /\ to_client = [r \in Sockets |-> to_client[r]]
      /\ \A r \in Sockets : to_client[r] \in Seq(Acks \cup Fills \cup Rejections(r))
  BY DEF AnswersOK
<1>2. Acks' = Acks /\ Fills' = Fills /\ \A r : Rejections(r)' = Rejections(r)
  BY RejectionsStay DEF Acks, Fills, Ids
<1>3. ASSUME NEW r \in Sockets
      PROVE  to_client'[r] \in Seq(Acks \cup Fills \cup Rejections(r))
  <2>1. CASE r = s
    BY <2>1, <1>1
  <2>2. CASE r # s
    <3>1. to_client'[r] = to_client[r]
      BY <2>2, <1>1
    <3> QED BY <3>1, <1>1
  <2> QED BY <2>1, <2>2
<1>4. to_client' = [r \in Sockets |-> to_client'[r]]
  BY <1>1
<1> QED BY <1>2, <1>3, <1>4

LEMMA ConnectFlows == ASSUME FlowOK, NEW c \in Clients, Connect(c) PROVE FlowOK'
<1> USE ManualAssumption
<1>1. /\ Len(owner) < MaxSockets /\ owner' = Append(owner, c)
      /\ ws' = [ws EXCEPT ![c] = Len(owner')]
      /\ connected_clients' = connected_clients \cup {Len(owner')} /\ UNCHANGED lost
      /\ UNCHANGED <<commands, to_server, order_sync_queue, stdin>>
      /\ UNCHANGED <<engine, stdout, pending_manual_orders, loop, to_client, origin, unanswered>>
  BY DEF Connect, engine
<1>2. /\ owner' \in Seq(Clients) /\ Len(owner') = Len(owner) + 1
      /\ Opened' = Opened \cup {Len(owner')}
  BY <1>1 DEF FlowOK, SocketsOK, Opened
<1>3. SocketsOK'
  BY <1>1, <1>2 DEF FlowOK, SocketsOK
<1>4. CommandsOK'
  <2>1. order_sync_queue \in Seq(Opened')
    BY <1>2, Larger DEF FlowOK, CommandsOK
  <2> QED BY <2>1, <1>1 DEF FlowOK, CommandsOK
<1> QED BY <1>1, <1>3, <1>4, EngineStays, AnswersStay DEF FlowOK

LEMMA LogoutFlows == ASSUME FlowOK, NEW c \in Clients, Logout(c) PROVE FlowOK'
<1> USE ManualAssumption
<1>1. /\ UNCHANGED <<owner, lost, connected_clients, commands, to_server, order_sync_queue, stdin>>
      /\ UNCHANGED <<engine, stdout, pending_manual_orders, loop, origin, unanswered>>
      /\ ws' = [ws EXCEPT ![c] = NoSocket]
      /\ to_client' = [to_client EXCEPT ![ws[c]] = <<>>]
  BY DEF Logout, pages, server, engine
<1>2. SocketsOK'
  BY <1>1 DEF FlowOK, SocketsOK, Opened
<1>3. AnswersOK'
  <2>1. /\ to_client' = [r \in Sockets |-> to_client'[r]]
        /\ \A r \in Sockets : to_client'[r] \in Seq(Acks \cup Fills \cup Rejections(r))'
    <3>1. \A r : <<>> \in Seq(Acks \cup Fills \cup Rejections(r))
      OBVIOUS
    <3> QED BY <3>1, <1>1, ToClientChanges DEF FlowOK
  <2>2. (\A i \in DOMAIN loop : Addressed(loop[i].message, loop[i].to))'
    BY <1>1, AddressedStays DEF FlowOK, AnswersOK, Addressed
  <2> QED BY <2>1, <2>2, <1>1 DEF FlowOK, AnswersOK, Ids
<1> QED BY <1>1, <1>2, <1>3, CommandsStay, EngineStays DEF FlowOK

LEMMA PlaceFlows ==
  ASSUME FlowOK, NEW c \in Clients, NEW kind \in Kinds, Place(c, kind) PROVE FlowOK'
<1> USE ManualAssumption
<1> DEFINE new == [number |-> commands', socket |-> ws[c], kind |-> kind]
<1>1. /\ UNCHANGED <<owner, ws, lost, connected_clients, order_sync_queue, stdin>>
      /\ UNCHANGED <<engine, stdout, pending_manual_orders, loop, to_client, origin, unanswered>>
      /\ ws[c] # NoSocket /\ commands < MaxCommands /\ commands' = commands + 1
      /\ to_server' = [to_server EXCEPT ![ws[c]] = Append(to_server[ws[c]], new)]
  BY DEF Place, server, engine
<1>2. ws[c] \in Opened /\ Opened \subseteq Sockets
  BY <1>1 DEF FlowOK, SocketsOK, Opened, Sockets, NoSocket
<1>3. commands' \in 1..MaxCommands
  BY <1>1 DEF FlowOK, CommandsOK
<1>4. new \in Command
  BY <1>2, <1>3 DEF Command
<1>5. CommandsOK'
  <2>1. to_server' \in [Sockets -> Seq(Command)]
    BY <1>1, <1>2, <1>4 DEF FlowOK, CommandsOK
  <2>2. ASSUME NEW s \in Sockets, NEW i \in 1..Len(to_server'[s])
        PROVE  to_server'[s][i].socket = s
    <3> HIDE DEF new
    <3>1. new.socket = ws[c]
      BY DEF new
    <3>2. CASE s = ws[c]
      <4>1. to_server'[s] = Append(to_server[s], new) /\ to_server[s] \in Seq(Command)
        BY <1>1, <1>2, <3>2 DEF FlowOK, CommandsOK
      <4>2. CASE i \in 1..Len(to_server[s])
        BY <4>1, <4>2 DEF FlowOK, CommandsOK
      <4>3. CASE i = Len(to_server[s]) + 1
        BY <4>1, <4>3, <3>1, <3>2
      <4> QED BY <4>1, <4>2, <4>3
    <3>3. CASE s # ws[c]
      BY <3>3, <1>1 DEF FlowOK, CommandsOK
    <3> QED BY <3>2, <3>3
  <2> QED BY <2>1, <2>2, <1>1, <1>3 DEF FlowOK, CommandsOK, Opened
<1> QED BY <1>1, <1>5, SocketsStay, EngineStays, AnswersStay DEF FlowOK

LEMMA ShowFlows == ASSUME FlowOK, NEW c \in Clients, Show(c) PROVE FlowOK'
<1>1. /\ UNCHANGED <<owner, ws, lost, connected_clients, order_sync_queue, stdin>>
      /\ UNCHANGED <<engine, stdout, pending_manual_orders, loop, to_server, commands, origin,
                     unanswered>>
      /\ ws[c] # NoSocket /\ to_client[ws[c]] # <<>>
      /\ to_client' = [to_client EXCEPT ![ws[c]] = Tail(to_client[ws[c]])]
  BY DEF Show, server, engine
<1>2. ws[c] \in Sockets => Tail(to_client[ws[c]]) \in Seq(Acks \cup Fills \cup Rejections(ws[c]))
  BY <1>1 DEF FlowOK, AnswersOK
<1>3. AnswersOK'
  <2>1. /\ to_client' = [r \in Sockets |-> to_client'[r]]
        /\ \A r \in Sockets : to_client'[r] \in Seq(Acks \cup Fills \cup Rejections(r))'
    BY <1>1, <1>2, ToClientChanges DEF FlowOK
  <2>2. (\A i \in DOMAIN loop : Addressed(loop[i].message, loop[i].to))'
    BY <1>1, AddressedStays DEF FlowOK, AnswersOK, Addressed
  <2> QED BY <2>1, <2>2, <1>1 DEF FlowOK, AnswersOK, Ids
<1> QED BY <1>1, <1>3, SocketsStay, CommandsStay, EngineStays DEF FlowOK

LEMMA LoseFlows == ASSUME FlowOK, NEW s \in Opened, Lose(s) \/ EndHandler(s) PROVE FlowOK'
<1>1. /\ UNCHANGED <<owner, ws, to_server, commands, order_sync_queue, stdin>>
      /\ UNCHANGED <<engine, stdout, pending_manual_orders, loop, to_client, origin, unanswered>>
      /\ lost' \in {lost, lost \cup {s}}
      /\ connected_clients' \in {connected_clients, connected_clients \ {s}}
  BY DEF Lose, EndHandler, server, engine, pages, links
<1>2. SocketsOK'
  BY <1>1 DEF FlowOK, SocketsOK, Opened
<1> QED BY <1>1, <1>2, CommandsStay, EngineStays, AnswersStay DEF FlowOK

LEMMA HandlerFlows == ASSUME FlowOK, NEW s \in Opened, websocket_handler(s) PROVE FlowOK'
<1>1. /\ UNCHANGED <<owner, ws, lost, connected_clients, commands>>
      /\ UNCHANGED <<engine, stdout, pending_manual_orders, loop, to_client, origin, unanswered>>
      /\ to_server[s] # <<>> /\ to_server' = [to_server EXCEPT ![s] = Tail(to_server[s])]
      /\ \/ UNCHANGED <<order_sync_queue, stdin>>
         \/ /\ order_sync_queue' = Append(order_sync_queue, s)
            /\ stdin' = Append(stdin, Head(to_server[s]))
  BY DEF websocket_handler, engine, pages
<1>2. s \in Sockets
  BY ManualAssumption DEF FlowOK, SocketsOK, Opened, Sockets
<1>3. /\ to_server[s] \in Seq(Command) /\ Head(to_server[s]) \in Command
      /\ Tail(to_server[s]) \in Seq(Command)
      /\ \A i \in 1..Len(Tail(to_server[s])) : Tail(to_server[s])[i].socket = s
  BY <1>1, <1>2 DEF FlowOK, CommandsOK
<1>4. CommandsOK'
  <2>1. /\ order_sync_queue' \in Seq(Opened) /\ stdin' \in Seq(Command)
    <3>1. order_sync_queue \in Seq(Opened) /\ stdin \in Seq(Command)
      BY DEF FlowOK, CommandsOK
    <3>2. CASE UNCHANGED <<order_sync_queue, stdin>>
      BY <3>1, <3>2
    <3>3. CASE /\ order_sync_queue' = Append(order_sync_queue, s)
               /\ stdin' = Append(stdin, Head(to_server[s]))
      <4> DEFINE new == Head(to_server[s])
      <4> HIDE DEF new
      <4>1. stdin' = Append(stdin, new) /\ new \in Command
        BY <3>3, <1>3 DEF new
      <4> QED BY <3>1, <3>3, <4>1
    <3> QED BY <3>2, <3>3, <1>1
  <2>2. to_server' \in [Sockets -> Seq(Command)]
    BY <1>1, <1>2, <1>3 DEF FlowOK, CommandsOK
  <2>3. \A r \in Sockets : \A i \in 1..Len(to_server'[r]) : to_server'[r][i].socket = r
    BY <1>1, <1>2, <1>3 DEF FlowOK, CommandsOK
  <2> QED BY <2>1, <2>2, <2>3, <1>1 DEF FlowOK, CommandsOK, Opened
<1> QED BY <1>1, <1>4, SocketsStay, EngineStays, AnswersStay DEF FlowOK
-----------------------------------------------------------------------------
(* A coroutine leaves the loop: those behind it move up.                   *)
LEMMA WithoutIs ==
  ASSUME NEW S, NEW q \in Seq(S), NEW i \in 1..Len(q)
  PROVE  /\ Without(q, i) \in Seq(S) /\ Len(Without(q, i)) = Len(q) - 1
         /\ \A k \in 1..(Len(q) - 1) : Without(q, i)[k] = IF k < i THEN q[k] ELSE q[k + 1]
<1> DEFINE a == SubSeq(q, 1, i - 1)
           b == SubSeq(q, i + 1, Len(q))
<1>1. Len(q) \in Nat /\ i \in Nat /\ i >= 1 /\ i <= Len(q)
  OBVIOUS
<1>2. /\ a \in Seq(S) /\ Len(a) = i - 1 /\ \A k \in 1..(i - 1) : a[k] = q[k]
      /\ b \in Seq(S) /\ Len(b) = Len(q) - i /\ \A k \in 1..(Len(q) - i) : b[k] = q[i + k]
  BY <1>1
<1> HIDE DEF a, b
<1>3. /\ Len(a \o b) = Len(a) + Len(b)
      /\ \A k \in 1..(Len(a) + Len(b)) : (a \o b)[k] = IF k <= Len(a) THEN a[k] ELSE b[k - Len(a)]
  BY <1>2, ConcatProperties
<1>4. Len(a) + Len(b) = Len(q) - 1
  BY <1>1, <1>2
<1>5. ASSUME NEW k \in 1..(Len(q) - 1)
      PROVE  (a \o b)[k] = IF k < i THEN q[k] ELSE q[k + 1]
  <2>1. CASE k < i
    <3>1. k \in 1..(i - 1) /\ k <= Len(a) /\ k \in 1..(Len(a) + Len(b))
      BY <1>1, <1>2, <1>4, <2>1
    <3> QED BY <3>1, <1>2, <1>3, <2>1
  <2>2. CASE ~(k < i)
    <3>1. /\ ~(k <= Len(a)) /\ k \in 1..(Len(a) + Len(b))
          /\ k - Len(a) \in 1..(Len(q) - i) /\ i + (k - Len(a)) = k + 1
      BY <1>1, <1>2, <1>4, <2>2
    <3> QED BY <3>1, <1>2, <1>3, <2>2
  <2> QED BY <2>1, <2>2
<1>6. Without(q, i) = a \o b
  BY DEF Without, a, b
<1>7. a \o b \in Seq(S)
  BY <1>2
<1> QED BY <1>3, <1>4, <1>5, <1>6, <1>7

(* The steps of the bridge.  What is in the loop after a step was in it    *)
(* before, or has just been scheduled.                                     *)
LEMMA FromWithout ==
  ASSUME NEW S, NEW q \in Seq(S), NEW i \in DOMAIN q, NEW k \in DOMAIN Without(q, i)
  PROVE  \E j \in DOMAIN q : Without(q, i)[k] = q[j]
<1>1. i \in 1..Len(q) /\ Len(q) \in Nat /\ DOMAIN q = 1..Len(q)
  OBVIOUS
<1>2. /\ Without(q, i) \in Seq(S) /\ Len(Without(q, i)) = Len(q) - 1
      /\ \A j \in 1..(Len(q) - 1) : Without(q, i)[j] = IF j < i THEN q[j] ELSE q[j + 1]
  BY <1>1, WithoutIs
<1>3. k \in 1..(Len(q) - 1) /\ k \in 1..Len(q) /\ k + 1 \in 1..Len(q)
  BY <1>1, <1>2
<1> QED BY <1>1, <1>2, <1>3

LEMMA StillAddressed ==
  ASSUME ListInv, AnswersOK, NEW i \in DOMAIN loop, UNCHANGED <<origin, unanswered>>,
         \/ loop' = Without(loop, i)
         \/ \E s : loop' = [loop EXCEPT ![i] = Visited(loop[i], s, Size(i))]
  PROVE  (\A k \in DOMAIN loop : Addressed(loop[k].message, loop[k].to))'
<1>1. PICK M : loop \in Seq(Coroutines(M, lost))
  BY DEF ListInv, LoopIn
<1>2. ASSUME NEW k \in DOMAIN loop'
      PROVE  \E j \in DOMAIN loop : /\ loop'[k].message = loop[j].message
                                    /\ loop'[k].to = loop[j].to
  <2>1. CASE loop' = Without(loop, i)
    BY <2>1, <1>1, FromWithout
  <2>2. ASSUME NEW s, loop' = [loop EXCEPT ![i] = Visited(loop[i], s, Size(i))]
        PROVE  \E j \in DOMAIN loop : /\ loop'[k].message = loop[j].message
                                      /\ loop'[k].to = loop[j].to
    <3>1. k \in DOMAIN loop
      BY <2>2
    <3>2. loop[i] \in Coroutines(M, lost)
      BY <1>1
    <3>3. /\ Visited(loop[i], s, Size(i)).message = loop[i].message
          /\ Visited(loop[i], s, Size(i)).to = loop[i].to
      BY <3>2 DEF Visited, Coroutines
    <3> QED BY <2>2, <3>1, <3>3
  <2> QED BY <2>1, <2>2
<1>3. ASSUME NEW k \in DOMAIN loop'
      PROVE  Addressed(loop'[k].message, loop'[k].to)
  BY <1>2 DEF AnswersOK
<1> QED BY <1>3, AddressedStays DEF Addressed

LEMMA Delivered ==
  ASSUME AnswersOK, UNCHANGED <<origin, unanswered>>, NEW s \in Sockets, NEW message,
         message \in Acks \cup Fills \cup Rejections(s), Deliver(s, message)
  PROVE  /\ to_client' = [r \in Sockets |-> to_client'[r]]
         /\ \A r \in Sockets : to_client'[r] \in Seq(Acks \cup Fills \cup Rejections(r))'
<1> DEFINE T == Acks \cup Fills \cup Rejections(s)
<1>1. to_client[s] \in Seq(T)
  BY DEF AnswersOK
<1> HIDE DEF T
<1>2. message \in T
  BY DEF T
<1>3. Append(to_client[s], message) \in Seq(T)
  BY <1>1, <1>2
<1>4. CASE to_client' = [to_client EXCEPT ![s] = Append(to_client[s], message)]
  BY <1>3, <1>4, ToClientChanges DEF T
<1>5. CASE UNCHANGED to_client
  <2>1. Acks' = Acks /\ Fills' = Fills /\ \A r : Rejections(r)' = Rejections(r)
    BY RejectionsStay DEF Acks, Fills, Ids
  <2> QED BY <2>1, <1>5 DEF AnswersOK
<1> QED BY <1>4, <1>5 DEF Deliver

LEMMA SendToFlows == ASSUME ListInv, FlowOK, NEW i \in DOMAIN loop, SendTo(i) PROVE FlowOK'
<1>1. /\ UNCHANGED <<owner, ws, lost, connected_clients, commands, to_server>>
      /\ UNCHANGED <<engine, stdout, pending_manual_orders, order_sync_queue, stdin, origin,
                     unanswered>>
      /\ loop[i].to # All /\ Deliver(loop[i].to, loop[i].message) /\ loop' = Without(loop, i)
  BY DEF SendTo, pages, engine
<1>2. loop[i].to \in Sockets /\ loop[i].message \in Rejections(loop[i].to) \cup Fills
  BY <1>1 DEF FlowOK, AnswersOK, Addressed
<1>3. /\ to_client' = [r \in Sockets |-> to_client'[r]]
      /\ \A r \in Sockets : to_client'[r] \in Seq(Acks \cup Fills \cup Rejections(r))'
  BY <1>1, <1>2, Delivered DEF FlowOK
<1>4. (\A k \in DOMAIN loop : Addressed(loop[k].message, loop[k].to))'
  BY <1>1, StillAddressed DEF FlowOK
<1>5. AnswersOK'
  BY <1>1, <1>3, <1>4 DEF FlowOK, AnswersOK, Ids
<1> QED BY <1>1, <1>5, SocketsStay, CommandsStay, EngineStays DEF FlowOK

LEMMA BroadcastFlows ==
  ASSUME ListInv, FlowOK, NEW i \in DOMAIN loop, NEW s \in Opened, Broadcast(i, s) PROVE FlowOK'
<1>1. /\ UNCHANGED <<owner, ws, lost, connected_clients, commands, to_server>>
      /\ UNCHANGED <<engine, stdout, pending_manual_orders, order_sync_queue, stdin, origin,
                     unanswered>>
      /\ loop[i].to = All /\ Deliver(s, loop[i].message)
      /\ loop' = [loop EXCEPT ![i] = Visited(loop[i], s, Size(i))]
  BY DEF Broadcast, pages, engine
<1>2. s \in Sockets /\ loop[i].message \in Acks
  BY <1>1, ManualAssumption DEF FlowOK, AnswersOK, SocketsOK, Addressed, Opened, Sockets, All
<1>3. /\ to_client' = [r \in Sockets |-> to_client'[r]]
      /\ \A r \in Sockets : to_client'[r] \in Seq(Acks \cup Fills \cup Rejections(r))'
  BY <1>1, <1>2, Delivered DEF FlowOK
<1>4. (\A k \in DOMAIN loop : Addressed(loop[k].message, loop[k].to))'
  BY <1>1, StillAddressed DEF FlowOK
<1>5. AnswersOK'
  BY <1>1, <1>3, <1>4 DEF FlowOK, AnswersOK, Ids
<1> QED BY <1>1, <1>5, SocketsStay, CommandsStay, EngineStays DEF FlowOK

LEMMA EndBroadcastFlows ==
  ASSUME ListInv, FlowOK, NEW i \in DOMAIN loop, EndBroadcast(i) PROVE FlowOK'
<1>1. /\ UNCHANGED <<owner, ws, lost, to_client, commands, to_server>>
      /\ UNCHANGED <<engine, stdout, pending_manual_orders, order_sync_queue, stdin, origin,
                     unanswered>>
      /\ connected_clients' \subseteq connected_clients
      /\ loop' = Without(loop, i)
  BY DEF EndBroadcast, pages, links, engine
<1>2. (\A k \in DOMAIN loop : Addressed(loop[k].message, loop[k].to))'
  BY <1>1, StillAddressed DEF FlowOK
<1>3. AnswersOK'
  <2>1. Acks' = Acks /\ Fills' = Fills /\ Ids' = Ids /\ \A r : Rejections(r)' = Rejections(r)
    BY <1>1, RejectionsStay DEF Acks, Fills, Ids
  <2> QED BY <2>1, <1>1, <1>2 DEF FlowOK, AnswersOK
<1>4. SocketsOK'
  BY <1>1 DEF FlowOK, SocketsOK, Opened
<1> QED BY <1>1, <1>3, <1>4, CommandsStay, EngineStays DEF FlowOK
-----------------------------------------------------------------------------
(* The answer read next has its websocket at the head of order_sync_queue. *)
LEMMA AnswerAwaited ==
  ASSUME FlowOK, NEW g, Awaited(g), stdout # <<>>, IsAnswer(Head(stdout))
  PROVE  /\ order_sync_queue # <<>>
         /\ unanswered = {} => Head(order_sync_queue) = Asker(Head(stdout))
<1>1. /\ stdout \in Seq(Lines) /\ stdin \in Seq(Command) /\ order_sync_queue \in Seq(Opened)
      /\ Unprinted \in {0, 1}
  BY DEF FlowOK, EngineOK, CommandsOK, Unprinted
<1>2. Len(stdout) \in Nat \ {0} /\ Head(stdout) = stdout[1]
  BY <1>1
<1>3. g[1] = 1
  BY <1>1, CountsTail DEF Awaited
<1>4. g[1] <= g[Len(stdout)] /\ g[Len(stdout)] \in Nat
  BY <1>2 DEF Awaited, Counts
<1>5. Len(order_sync_queue) >= 1
  BY <1>1, <1>3, <1>4 DEF Awaited
<1>6. ASSUME unanswered = {}
      PROVE  Head(order_sync_queue) = Asker(Head(stdout))
  <2>1. order_sync_queue[g[1]] = Asker(stdout[1])
    BY <1>2, <1>6 DEF Awaited, InStep
  <2> QED BY <2>1, <1>1, <1>2, <1>3, <1>5
<1> QED BY <1>1, <1>5, <1>6

LEMMA LineKinds ==
  ASSUME NEW line \in Lines
  PROVE  /\ line.type = "ack" => line.order_id \in Ids /\ line = Ack(line.order_id)
         /\ line.type = "reject" => line.command \in Command /\ line = Reject(line.command)
         /\ line.type \in {"ack", "reject", "trade", "spoiled"}
         /\ IsAnswer(line) <=> line.type \in {"ack", "reject"}
BY DEF Lines, Ack, Reject, TradeLine, Spoiled, IsAnswer

LEMMA StdoutReaderFlows ==
  ASSUME ListInv, FlowOK, NEW g, Awaited(g), PendingPaired, stdout_reader_thread
  PROVE  FlowOK' /\ PendingPaired'
<1> USE ManualAssumption
<1> DEFINE line == Head(stdout)
<1>1. /\ stdout # <<>> /\ stdout' = Tail(stdout)
      /\ ReadAck(line) \/ ReadReject(line) \/ ReadTrade(line) \/ ReadSpoiled(line)
      /\ UNCHANGED <<owner, ws, lost, connected_clients, commands, to_server, stdin, to_client,
                     unanswered>>
      /\ UNCHANGED <<reader, global_order_id, queue, processed, resting, trades, origin>>
  BY DEF stdout_reader_thread, pages, links, engine
<1>2. /\ line \in Lines /\ stdout' \in Seq(Lines) /\ order_sync_queue \in Seq(Opened)
      /\ Opened \subseteq Sockets
  BY <1>1 DEF FlowOK, EngineOK, CommandsOK, SocketsOK, Opened, Sockets
<1> HIDE DEF line
<1>3. SocketsOK' /\ EngineOK'
  BY <1>1, <1>2, SocketsStay DEF FlowOK, EngineOK, Ids, Lines
<1>4. CommandsOK'
  <2>1. order_sync_queue' \in Seq(Opened)
    <3>1. \/ UNCHANGED order_sync_queue
          \/ order_sync_queue # <<>> /\ order_sync_queue' = Tail(order_sync_queue)
      BY <1>1 DEF ReadAck, ReadReject, ReadTrade, ReadSpoiled
    <3> QED BY <3>1, <1>2
  <2> QED BY <2>1, <1>1 DEF FlowOK, CommandsOK, Opened
<1>0. ASSUME (\A k \in DOMAIN loop : Addressed(loop[k].message, loop[k].to))',
             pending_manual_orders' \in [DOMAIN pending_manual_orders' -> Sockets],
             DOMAIN pending_manual_orders' \subseteq Ids
      PROVE  AnswersOK'
  <2>1. Acks' = Acks /\ Fills' = Fills /\ Ids' = Ids /\ \A r : Rejections(r)' = Rejections(r)
    BY <1>1, RejectionsStay DEF Acks, Fills, Ids
  <2> QED BY <2>1, <1>0, <1>1 DEF FlowOK, AnswersOK
<1>5. PICK M : loop \in Seq(Coroutines(M, lost))
  BY DEF ListInv, LoopIn
<1>6. ASSUME NEW message, NEW to, Addressed(message, to), loop' = Append(loop, Coroutine(message, to))
      PROVE  (\A k \in DOMAIN loop : Addressed(loop[k].message, loop[k].to))'
  <2>1. /\ DOMAIN loop' = DOMAIN loop \cup {Len(loop) + 1}
        /\ \A k \in DOMAIN loop : loop'[k] = loop[k]
        /\ loop'[Len(loop) + 1] = Coroutine(message, to)
    BY <1>5, <1>6
  <2>2. Coroutine(message, to).message = message /\ Coroutine(message, to).to = to
    BY DEF Coroutine
  <2>3. \A k \in DOMAIN loop' : Addressed(loop'[k].message, loop'[k].to)
    BY <2>1, <2>2, <1>6 DEF FlowOK, AnswersOK
  <2> QED BY <2>3, <1>1, AddressedStays DEF Addressed
<1>7. CASE ReadAck(line)
  <2>1. line.order_id \in Ids /\ line = Ack(line.order_id) /\ IsAnswer(line)
    BY <1>2, <1>7, LineKinds DEF ReadAck
  <2>2. /\ order_sync_queue # <<>>
        /\ unanswered = {} => Head(order_sync_queue) = origin[line.order_id].socket
    BY <2>1, <1>1, <1>7, AnswerAwaited DEF Asker, line, ReadAck
  <2>3. /\ pending_manual_orders' =
             With(pending_manual_orders, line.order_id, Head(order_sync_queue))
        /\ loop' = Append(loop, Coroutine(line, All))
    BY <2>2, <1>7 DEF ReadAck, broadcast
  <2>4. Head(order_sync_queue) \in Sockets
    BY <2>2, <1>2
  <2>5. Addressed(line, All)
    BY <2>1 DEF Addressed, Acks
  <2>6. (\A k \in DOMAIN loop : Addressed(loop[k].message, loop[k].to))'
    BY <2>3, <2>5, <1>6
  <2>7. /\ pending_manual_orders' \in [DOMAIN pending_manual_orders' -> Sockets]
        /\ DOMAIN pending_manual_orders' \subseteq Ids
    BY <2>1, <2>3, <2>4 DEF FlowOK, AnswersOK, With
  <2>8. AnswersOK'
    BY <2>6, <2>7, <1>0
  <2>9. PendingPaired'
    BY <2>1, <2>2, <2>3, <1>1 DEF PendingPaired, With
  <2> QED BY <2>8, <2>9, <1>3, <1>4 DEF FlowOK
<1>8. CASE ReadReject(line)
  <2>1. line.command \in Command /\ line = Reject(line.command) /\ IsAnswer(line)
    BY <1>2, <1>8, LineKinds DEF ReadReject
  <2>2. /\ order_sync_queue # <<>>
        /\ unanswered = {} => Head(order_sync_queue) = line.command.socket
    BY <2>1, <1>1, <1>8, AnswerAwaited DEF Asker, line, ReadReject
  <2> DEFINE message == [type |-> "order_reject", command |-> line.command]
  <2>3. /\ UNCHANGED pending_manual_orders
        /\ loop' = Append(loop, Coroutine(message, Head(order_sync_queue)))
    BY <2>2, <1>8 DEF ReadReject, send_to
  <2>4. Head(order_sync_queue) \in Sockets
    BY <2>2, <1>2
  <2>5. message \in Rejections(Head(order_sync_queue))
    BY <2>1, <2>2 DEF Rejections
  <2>6. Addressed(message, Head(order_sync_queue))
    BY <2>4, <2>5 DEF Addressed
  <2>7. (\A k \in DOMAIN loop : Addressed(loop[k].message, loop[k].to))'
    BY <2>3, <2>6, <1>6
  <2>8. AnswersOK'
    BY <2>3, <2>7, <1>0 DEF FlowOK, AnswersOK
  <2>9. PendingPaired'
    BY <2>3, <1>1 DEF PendingPaired
  <2> QED BY <2>8, <2>9, <1>3, <1>4 DEF FlowOK
<1>9. CASE ReadTrade(line)
  <2>1. UNCHANGED <<order_sync_queue, pending_manual_orders>>
    BY <1>9 DEF ReadTrade
  <2>2. (\A k \in DOMAIN loop : Addressed(loop[k].message, loop[k].to))'
    <3>1. CASE UNCHANGED loop
      BY <3>1, <1>1, AddressedStays DEF FlowOK, AnswersOK, Addressed
    <3>2. ASSUME NEW id \in UserOrder(line),
                 send_to(pending_manual_orders[id], [type |-> "manual_fill", order_id |-> id])
          PROVE  (\A k \in DOMAIN loop : Addressed(loop[k].message, loop[k].to))'
      <4>1. id \in DOMAIN pending_manual_orders
        BY DEF UserOrder
      <4>2. Addressed([type |-> "manual_fill", order_id |-> id], pending_manual_orders[id])
        BY <4>1 DEF FlowOK, AnswersOK, Addressed, Fills
      <4> QED BY <3>2, <4>2, <1>6 DEF send_to
    <3> QED BY <3>1, <3>2, <1>9 DEF ReadTrade
  <2>3. AnswersOK'
    BY <2>1, <2>2, <1>0 DEF FlowOK, AnswersOK
  <2> QED BY <2>1, <2>3, <1>1, <1>3, <1>4 DEF FlowOK, PendingPaired
<1>10. CASE ReadSpoiled(line)
  <2>1. UNCHANGED <<order_sync_queue, pending_manual_orders, loop>>
    BY <1>10 DEF ReadSpoiled
  <2> QED BY <2>1, <1>1, <1>3, <1>4, AnswersStay DEF FlowOK, PendingPaired
<1> QED BY <1>1, <1>7, <1>8, <1>9, <1>10
-----------------------------------------------------------------------------
(* The steps of the exchange.  A line is printed, or spoiled.              *)
LEMMA LinePrinted ==
  ASSUME NEW line, NEW answered, safe_print(line, answered)
  PROVE  /\ \/ stdout' = Append(stdout, line) /\ UNCHANGED unanswered
            \/ stdout' = Append(stdout, Spoiled) /\ unanswered' = unanswered \cup answered
         /\ unanswered \subseteq unanswered' /\ (unanswered' = {} => unanswered = {})
         /\ line \in Lines /\ stdout \in Seq(Lines) => stdout' \in Seq(Lines)
<1>1. \/ stdout' = Append(stdout, line) /\ UNCHANGED unanswered
      \/ stdout' = Append(stdout, Spoiled) /\ unanswered' = unanswered \cup answered
  BY DEF safe_print
<1>2. unanswered \subseteq unanswered' /\ (unanswered' = {} => unanswered = {})
  BY <1>1
<1>3. ASSUME line \in Lines, stdout \in Seq(Lines) PROVE stdout' \in Seq(Lines)
  <2>1. Spoiled \in Lines
    BY DEF Lines
  <2> QED BY <2>1, <1>1, <1>3
<1> QED BY <1>1, <1>2, <1>3

(* A new id is one more than all before it.                                *)
LEMMA IdGiven ==
  ASSUME EngineOK, NEW command \in Command, global_order_id' = global_order_id + 1,
         origin' = With(origin, global_order_id, command)
  PROVE  /\ origin' \in [1..(global_order_id' - 1) -> Command]
         /\ Ids' = Ids \cup {global_order_id} /\ global_order_id \notin Ids
         /\ \A id \in Ids : origin'[id] = origin[id]
         /\ origin'[global_order_id] = command
         /\ Lines \subseteq Lines' /\ Acks \subseteq Acks' /\ Fills \subseteq Fills'
<1>1. /\ global_order_id \in Nat \ {0} /\ origin \in [1..(global_order_id - 1) -> Command]
      /\ Ids = 1..(global_order_id - 1)
  BY DEF EngineOK, Ids
<1>2. Ids' = Ids \cup {global_order_id} /\ global_order_id \notin Ids
  BY <1>1 DEF Ids, With
<1>3. /\ \A id \in Ids : origin'[id] = origin[id]
      /\ origin'[global_order_id] = command
  BY <1>1, <1>2 DEF Ids, With
<1>4. origin' \in [1..(global_order_id' - 1) -> Command]
  BY <1>1, <1>2 DEF With
<1> QED BY <1>2, <1>3, <1>4 DEF Lines, Acks, Fills

LEMMA ReadCommandFlows == ASSUME FlowOK, PendingPaired, ReadCommand PROVE FlowOK' /\ PendingPaired'
<1> DEFINE command == Head(stdin)
<1>1. /\ stdin # <<>> /\ stdin' = Tail(stdin)
      /\ UNCHANGED <<owner, ws, lost, connected_clients, commands, to_server, order_sync_queue>>
      /\ UNCHANGED <<pending_manual_orders, loop, to_client, queue, processed, resting, trades>>
  BY DEF ReadCommand, pages, links, server
<1>2. command \in Command /\ stdin' \in Seq(Command)
  BY <1>1 DEF FlowOK, CommandsOK
<1> HIDE DEF command
<1>3. SocketsOK' /\ CommandsOK'
  BY <1>1, <1>2, SocketsStay DEF FlowOK, CommandsOK, Opened
<1>4. CASE /\ UNCHANGED <<reader, global_order_id, stdout, origin>>
           /\ unanswered' = unanswered \cup {command.number}
  BY <1>1, <1>3, <1>4, EngineStays, AnswersStay DEF FlowOK, PendingPaired, engine
<1>5. CASE /\ UNCHANGED <<reader, global_order_id, origin>>
           /\ safe_print(Reject(command), {command.number})
  <2>1. stdout' \in Seq(Lines) /\ (unanswered' = {} => unanswered = {})
    <3>1. Reject(command) \in Lines /\ stdout \in Seq(Lines)
      BY <1>2 DEF FlowOK, EngineOK, Lines
    <3> QED BY <3>1, <1>5, LinePrinted
  <2>2. EngineOK'
    BY <2>1, <1>1, <1>5 DEF FlowOK, EngineOK, Ids, Lines
  <2> QED BY <2>1, <2>2, <1>1, <1>3, <1>5, AnswersStay DEF FlowOK, PendingPaired
<1>6. CASE /\ global_order_id' = global_order_id + 1
           /\ reader' = [order_id |-> global_order_id, todo |-> Steps]
           /\ origin' = With(origin, global_order_id, command)
           /\ UNCHANGED <<stdout, unanswered>>
  <2>1. /\ origin' \in [1..(global_order_id' - 1) -> Command]
        /\ Ids' = Ids \cup {global_order_id} /\ global_order_id \notin Ids
        /\ \A id \in Ids : origin'[id] = origin[id]
        /\ Lines \subseteq Lines' /\ Acks \subseteq Acks' /\ Fills \subseteq Fills'
    BY <1>2, <1>6, IdGiven DEF FlowOK
  <2>2. EngineOK'
    <3>1. stdout' \in Seq(Lines') /\ queue' \in Seq(Ids')
      <4>1. stdout \in Seq(Lines) /\ queue \in Seq(Ids) /\ Ids \subseteq Ids'
        BY <2>1 DEF FlowOK, EngineOK
      <4> QED BY <4>1, <2>1, <1>1, <1>6, Larger
    <3>2. reader' \in [order_id : Ids', todo : {Steps, <<"enqueue">>}]
      BY <2>1, <1>6
    <3>3. global_order_id' \in Nat \ {0}
      BY <1>6 DEF FlowOK, EngineOK
    <3>4. /\ Len(queue') <= QueueSize /\ processed' \in Ids' \cup {Bot} /\ resting' \subseteq Ids'
      BY <2>1, <1>1 DEF FlowOK, EngineOK
    <3> QED BY <3>1, <3>2, <3>3, <3>4, <2>1 DEF EngineOK
  <2>3. AnswersOK'
    <3>1. ASSUME NEW s \in Sockets
          PROVE  to_client'[s] \in Seq(Acks' \cup Fills' \cup Rejections(s)')
      <4>1. /\ to_client[s] \in Seq(Acks \cup Fills \cup Rejections(s))
            /\ Acks \cup Fills \cup Rejections(s) \subseteq Acks' \cup Fills' \cup Rejections(s)'
        BY <2>1, <1>6, RejectionsStay DEF FlowOK, AnswersOK
      <4> QED BY <4>1, <1>1, Larger
    <3>2. ASSUME NEW k \in DOMAIN loop' PROVE Addressed(loop[k].message, loop[k].to)'
      <4>1. Addressed(loop[k].message, loop[k].to) /\ loop' = loop
        BY <1>1 DEF FlowOK, AnswersOK
      <4> QED BY <4>1, <2>1, <1>6, RejectionsStay DEF Addressed
    <3>3. to_client' = [s \in Sockets |-> to_client'[s]]
      BY <1>1 DEF FlowOK, AnswersOK
    <3>4. /\ pending_manual_orders' \in [DOMAIN pending_manual_orders' -> Sockets]
          /\ DOMAIN pending_manual_orders' \subseteq Ids'
      BY <2>1, <1>1 DEF FlowOK, AnswersOK
    <3> QED BY <3>1, <3>2, <3>3, <3>4 DEF AnswersOK
  <2>4. PendingPaired'
    BY <2>1, <1>1, <1>6 DEF FlowOK, AnswersOK, PendingPaired
  <2> QED BY <2>2, <2>3, <2>4, <1>3 DEF FlowOK
<1> QED BY <1>4, <1>5, <1>6 DEF ReadCommand, command

(* Between its two steps stdin_reader is at the one or at the other.       *)
LEMMA ReaderSteps ==
  ASSUME EngineOK
  PROVE  /\ PrintAck => /\ reader.todo = Steps /\ reader.order_id \in Ids
                        /\ reader' = [order_id |-> reader.order_id, todo |-> <<"enqueue">>]
         /\ Enqueue => /\ reader.todo = <<"enqueue">> /\ reader.order_id \in Ids
                       /\ reader' = IdleReader
         /\ reader.todo \in {<<>>, Steps, <<"enqueue">>}
<1>1. \/ reader = IdleReader /\ reader.todo = <<>>
      \/ reader \in [order_id : Ids, todo : {Steps, <<"enqueue">>}]
  BY DEF EngineOK, IdleReader
<1>2. /\ Steps # <<>> /\ Head(Steps) = "ack" /\ Len(Steps) = 2 /\ Tail(Steps) = <<"enqueue">>
      /\ <<"enqueue">> # <<>> /\ Head(<<"enqueue">>) = "enqueue" /\ Len(<<"enqueue">>) = 1
  BY DEF Steps
<1>3. ASSUME PrintAck
      PROVE  /\ reader.todo = Steps /\ reader.order_id \in Ids
             /\ reader' = [order_id |-> reader.order_id, todo |-> <<"enqueue">>]
  <2>1. reader.todo = Steps /\ reader \in [order_id : Ids, todo : {Steps, <<"enqueue">>}]
    BY <1>1, <1>2, <1>3 DEF PrintAck
  <2>2. Len(reader.todo) # 1 /\ Tail(reader.todo) = <<"enqueue">>
    BY <2>1, <1>2
  <2>3. reader' = [reader EXCEPT !.todo = <<"enqueue">>]
    BY <2>2, <1>3 DEF PrintAck, Done
  <2> QED BY <2>1, <2>3
<1>4. ASSUME Enqueue
      PROVE  reader.todo = <<"enqueue">> /\ reader.order_id \in Ids /\ reader' = IdleReader
  BY <1>1, <1>2, <1>4 DEF Enqueue, Done
<1> QED BY <1>1, <1>3, <1>4

LEMMA ExchangeFlows ==
  ASSUME FlowOK, PendingPaired,
         PrintAck \/ Enqueue \/ Dequeue \/ (\E maker \in 0..MaxCommands : on_trade(maker)) \/ Processed
  PROVE  FlowOK' /\ PendingPaired'
<1>1. /\ UNCHANGED <<owner, ws, lost, connected_clients, commands, to_server, order_sync_queue, stdin>>
      /\ UNCHANGED <<pending_manual_orders, loop, to_client, global_order_id, origin>>
  BY DEF PrintAck, Enqueue, Dequeue, on_trade, Processed, pages, links, server
<1>0. unanswered' = {} => unanswered = {}
  BY LinePrinted DEF PrintAck, Enqueue, Dequeue, on_trade, Processed
<1>2. PendingPaired' /\ SocketsOK' /\ CommandsOK' /\ AnswersOK'
  BY <1>0, <1>1, SocketsStay, CommandsStay, AnswersStay DEF FlowOK, PendingPaired
<1>3. Ids' = Ids /\ Lines' = Lines
  BY <1>1 DEF Ids, Lines
<1>4. /\ stdout \in Seq(Lines) /\ queue \in Seq(Ids) /\ Len(queue) <= QueueSize
      /\ processed \in Ids \cup {Bot} /\ resting \subseteq Ids
      /\ reader = IdleReader \/ reader \in [order_id : Ids, todo : {Steps, <<"enqueue">>}]
  BY DEF FlowOK, EngineOK
<1>5. CASE PrintAck
  <2>1. /\ reader.order_id \in Ids /\ UNCHANGED <<queue, processed, resting>>
        /\ reader' = [order_id |-> reader.order_id, todo |-> <<"enqueue">>]
        /\ safe_print(Ack(reader.order_id), {origin[reader.order_id].number})
    BY <1>5, ReaderSteps DEF FlowOK, PrintAck
  <2>2. Ack(reader.order_id) \in Lines
    BY <2>1 DEF Lines
  <2>3. stdout' \in Seq(Lines)
    BY <2>1, <2>2, <1>4, LinePrinted
  <2>4. EngineOK'
    BY <2>1, <2>3, <1>1, <1>3 DEF FlowOK, EngineOK
  <2> QED BY <2>4, <1>2 DEF FlowOK
<1>6. CASE Enqueue
  <2>1. /\ reader.order_id \in Ids /\ UNCHANGED <<stdout, processed, resting>>
        /\ reader' = IdleReader /\ Len(queue) < QueueSize
        /\ queue' = Append(queue, reader.order_id)
    BY <1>6, ReaderSteps DEF FlowOK, Enqueue, HasRoom
  <2>2. queue' \in Seq(Ids) /\ Len(queue') <= QueueSize
    BY <2>1, <1>4, ManualAssumption
  <2>3. EngineOK'
    BY <2>1, <2>2, <1>1, <1>3, <1>4 DEF FlowOK, EngineOK
  <2> QED BY <2>3, <1>2 DEF FlowOK
<1>7. CASE Dequeue
  <2>1. /\ UNCHANGED <<stdout, reader, resting>> /\ queue # <<>>
        /\ processed' = Head(queue) /\ queue' = Tail(queue)
    BY <1>7 DEF Dequeue
  <2>2. queue' \in Seq(Ids) /\ Len(queue') <= QueueSize /\ processed' \in Ids
    BY <2>1, <1>4, ManualAssumption
  <2>3. EngineOK'
    BY <2>1, <2>2, <1>1, <1>3, <1>4 DEF FlowOK, EngineOK
  <2> QED BY <2>3, <1>2 DEF FlowOK
<1>8. ASSUME NEW maker \in 0..MaxCommands, on_trade(maker) PROVE FlowOK'
  <2>1. /\ UNCHANGED <<reader, queue, processed>> /\ resting' \subseteq resting
        /\ maker \in resting \cup {Bot}
        /\ safe_print(TradeLine(maker, processed), {})
    BY <1>8 DEF on_trade
  <2>2. TradeLine(maker, processed) \in Lines
    BY <2>1, <1>4 DEF Lines
  <2>3. stdout' \in Seq(Lines)
    BY <2>1, <2>2, <1>4, LinePrinted
  <2>4. EngineOK'
    BY <2>1, <2>3, <1>1, <1>3, <1>4 DEF FlowOK, EngineOK
  <2> QED BY <2>4, <1>2 DEF FlowOK
<1>9. CASE Processed
  <2>1. /\ UNCHANGED <<stdout, reader, queue>> /\ processed' = Bot /\ processed # Bot
        /\ resting' \in {resting, resting \cup {processed}}
    BY <1>9 DEF Processed
  <2>2. EngineOK'
    BY <2>1, <1>1, <1>3, <1>4 DEF FlowOK, EngineOK
  <2> QED BY <2>2, <1>2 DEF FlowOK
<1> QED BY <1>2, <1>5, <1>6, <1>7, <1>8, <1>9
-----------------------------------------------------------------------------
(* Every step keeps the answers to come in step with order_sync_queue.     *)
LEMMA AwaitedStays ==
  ASSUME NEW g, Awaited(g),
         UNCHANGED <<stdout, stdin, order_sync_queue, reader, origin, unanswered>>
  PROVE  Awaited(g)'
BY DEF Awaited, Counts, InStep, Unprinted, Asker

(* What FlowOK says of the parts of the way.                               *)
LEMMA Parts ==
  ASSUME FlowOK, NEW g, Awaited(g)
  PROVE  /\ stdout \in Seq(Lines) /\ Len(stdout) \in Nat
         /\ stdin \in Seq(Command) /\ Len(stdin) \in Nat
         /\ order_sync_queue \in Seq(Opened) /\ Len(order_sync_queue) \in Nat
         /\ g[Len(stdout)] \in Nat /\ Unprinted \in {0, 1}
         /\ \A p \in 1..Len(stdout) : g[p] \in Nat /\ g[p] <= g[Len(stdout)]
         /\ \A p \in 1..Len(stdout) : IsAnswer(stdout[p]) => g[p] \in 1..g[Len(stdout)]
<1>1. /\ stdout \in Seq(Lines) /\ stdin \in Seq(Command) /\ order_sync_queue \in Seq(Opened)
      /\ Unprinted \in {0, 1}
  BY DEF FlowOK, EngineOK, CommandsOK, Unprinted
<1>2. Len(stdout) \in Nat /\ Len(stdin) \in Nat /\ Len(order_sync_queue) \in Nat
  BY <1>1
<1>3. /\ g \in [0..Len(stdout) -> Nat] /\ \A p, r \in 0..Len(stdout) : p <= r => g[p] <= g[r]
      /\ \A p \in 1..Len(stdout) : g[p] = g[p - 1] + (IF IsAnswer(stdout[p]) THEN 1 ELSE 0)
  BY DEF Awaited, Counts
<1>4. \A p \in 0..Len(stdout) : g[p] \in Nat /\ g[p] <= g[Len(stdout)]
  BY <1>2, <1>3
<1>5. ASSUME NEW p \in 1..Len(stdout), IsAnswer(stdout[p])
      PROVE  g[p] \in 1..g[Len(stdout)]
  <2>1. p - 1 \in 0..Len(stdout) /\ p \in 0..Len(stdout) /\ Len(stdout) \in 0..Len(stdout)
    BY <1>2
  <2>2. g[p] = g[p - 1] + 1
    BY <1>3, <1>5
  <2> QED BY <2>1, <2>2, <1>4
<1>6. \A p \in 1..Len(stdout) : p \in 0..Len(stdout)
  BY <1>2
<1> QED BY <1>1, <1>2, <1>4, <1>5, <1>6

(* A command and its websocket are put at the ends of the two queues.      *)
LEMMA HandlerAwaits ==
  ASSUME FlowOK, NEW g, Awaited(g), NEW s \in Opened, websocket_handler(s)
  PROVE  Awaited(g)'
<1>1. /\ UNCHANGED <<stdout, reader, origin, unanswered>> /\ to_server[s] # <<>>
      /\ \/ UNCHANGED <<order_sync_queue, stdin>>
         \/ /\ order_sync_queue' = Append(order_sync_queue, s)
            /\ stdin' = Append(stdin, Head(to_server[s]))
  BY DEF websocket_handler, engine
<1>2. CASE UNCHANGED <<order_sync_queue, stdin>>
  BY <1>1, <1>2, AwaitedStays
<1>3. CASE /\ order_sync_queue' = Append(order_sync_queue, s)
           /\ stdin' = Append(stdin, Head(to_server[s]))
  <2> DEFINE new == Head(to_server[s])
             a == g[Len(stdout)]
             n == Len(order_sync_queue)
             m == Len(stdin)
  <2>1. s \in Sockets
    BY ManualAssumption DEF FlowOK, SocketsOK, Opened, Sockets
  <2>2. new.socket = s
    BY <2>1, <1>1 DEF FlowOK, CommandsOK
  <2>3. /\ n \in Nat /\ m \in Nat /\ a \in Nat /\ Unprinted \in {0, 1}
        /\ order_sync_queue \in Seq(Opened) /\ stdin \in Seq(Command)
        /\ \A p \in 1..Len(stdout) : IsAnswer(stdout[p]) => g[p] \in 1..a
    BY Parts
  <2> HIDE DEF new
  <2>4. /\ Len(order_sync_queue') = n + 1 /\ order_sync_queue'[n + 1] = s
        /\ \A i \in 1..n : order_sync_queue'[i] = order_sync_queue[i]
        /\ Len(stdin') = m + 1 /\ stdin'[m + 1] = new
        /\ \A i \in 1..m : stdin'[i] = stdin[i]
    BY <2>3, <1>3 DEF new
  <2>5. Unprinted' = Unprinted /\ Counts(stdout, g)' /\ n >= a + Unprinted + m
    BY <1>1 DEF Unprinted, Awaited, Counts
  <2>6. ASSUME InStep(g) PROVE InStep(g)'
    <3>1. n = a + Unprinted + m
      BY <2>6 DEF InStep
    <3>2. \A p \in 1..Len(stdout) :
            IsAnswer(stdout[p]) => order_sync_queue'[g[p]] = Asker(stdout[p])
      <4>1. \A p \in 1..Len(stdout) : IsAnswer(stdout[p]) => g[p] \in 1..n
        BY <3>1, <2>3
      <4> QED BY <4>1, <2>4, <2>6 DEF InStep
    <3>3. reader.todo = Steps => order_sync_queue'[a + 1] = origin[reader.order_id].socket
      <4>1. reader.todo = Steps => a + 1 \in 1..n
        BY <3>1, <2>3 DEF Unprinted
      <4> QED BY <4>1, <2>4, <2>6 DEF InStep
    <3>4. ASSUME NEW i \in 1..(m + 1)
          PROVE  order_sync_queue'[a + Unprinted + i] = stdin'[i].socket
      <4>1. CASE i = m + 1
        BY <4>1, <3>1, <2>2, <2>3, <2>4
      <4>2. CASE i # m + 1
        <5>1. i \in 1..m /\ a + Unprinted + i \in 1..n
          BY <4>2, <3>1, <2>3
        <5> QED BY <5>1, <2>4, <2>6 DEF InStep
      <4> QED BY <4>1, <4>2
    <3>5. n + 1 = a + Unprinted + (m + 1)
      <4>1. a \in Nat /\ m \in Nat /\ n \in Nat /\ Unprinted \in Nat
        BY <2>3
      <4> HIDE DEF a, m, n
      <4> QED BY <4>1, <3>1
    <3> QED BY <3>2, <3>3, <3>4, <3>5, <2>4, <2>5, <1>1 DEF InStep, Asker
  <2>7. n + 1 >= a + Unprinted + (m + 1)
    BY <2>3, <2>5
  <2> QED BY <2>4, <2>5, <2>6, <2>7, <1>1 DEF Awaited
<1> QED BY <1>1, <1>2, <1>3

(* An answer is read, and its websocket taken; or a trade is read.         *)
LEMMA StdoutReaderAwaits ==
  ASSUME FlowOK, NEW g, Awaited(g), stdout_reader_thread
  PROVE  \E h : Awaited(h)'
<1> DEFINE one == g[1]
           n == Len(order_sync_queue)
           a == g[Len(stdout)]
<1>1. /\ stdout # <<>> /\ stdout' = Tail(stdout) 
      /\ UNCHANGED <<stdin, reader, origin, unanswered>>
      /\ \/ ReadAck(Head(stdout)) \/ ReadReject(Head(stdout))
         \/ ReadTrade(Head(stdout)) \/ ReadSpoiled(Head(stdout))
  BY DEF stdout_reader_thread, engine
<1>2. /\ stdout \in Seq(Lines) /\ order_sync_queue \in Seq(Opened) /\ stdin \in Seq(Command)
      /\ n \in Nat /\ a \in Nat /\ Len(stdin) \in Nat /\ Unprinted \in {0, 1}
      /\ \A p \in 1..Len(stdout) : IsAnswer(stdout[p]) => g[p] \in 1..a
      /\ \A p \in 1..Len(stdout) : g[p] \in Nat /\ g[p] <= a
  BY Parts
<1>3. PICK h : /\ Counts(stdout', h)
               /\ \A p \in 0..Len(stdout') : h[p] = g[p + 1] - one
  BY <1>1, <1>2, CountsTail DEF Awaited
<1>4. one = IF IsAnswer(Head(stdout)) THEN 1 ELSE 0
  BY <1>1, <1>2, CountsTail DEF Awaited
<1>5. /\ Len(stdout) \in Nat \ {0} /\ Len(stdout') = Len(stdout) - 1
      /\ \A p \in 1..Len(stdout') : stdout'[p] = stdout[p + 1] /\ p + 1 \in 1..Len(stdout)
      /\ Len(stdout') \in 0..Len(stdout')
  BY <1>1, <1>2
<1>6. h[Len(stdout')] = a - one /\ one <= a /\ one \in {0, 1}
  BY <1>2, <1>3, <1>4, <1>5
<1>7. /\ Len(order_sync_queue') = n - one
      /\ \A i \in 1..(n - one) : order_sync_queue'[i] = order_sync_queue[i + one]
  <2>1. CASE ~IsAnswer(Head(stdout))
    <3>1. UNCHANGED order_sync_queue /\ one = 0
      BY <2>1, <1>1, <1>4 DEF ReadAck, ReadReject, ReadTrade, ReadSpoiled, IsAnswer
    <3> QED BY <3>1, <1>2
  <2>2. CASE IsAnswer(Head(stdout))
    <3>1. order_sync_queue # <<>>
      BY <2>2, <1>1, AnswerAwaited
    <3>2. order_sync_queue' = Tail(order_sync_queue) /\ one = 1
      BY <2>2, <3>1, <1>1, <1>4 DEF ReadAck, ReadReject, ReadTrade, ReadSpoiled, IsAnswer
    <3> QED BY <3>1, <3>2, <1>2
  <2> QED BY <2>1, <2>2
<1>8. Unprinted' = Unprinted /\ n >= a + Unprinted + Len(stdin)
  BY <1>1 DEF Unprinted, Awaited
<1>9. n - one >= (a - one) + Unprinted + Len(stdin)
  BY <1>2, <1>6, <1>8
<1>10. ASSUME InStep(g) PROVE InStep(h)'
  <2>1. n = a + Unprinted + Len(stdin)
    BY <1>10 DEF InStep
  <2>2. n - one = (a - one) + Unprinted + Len(stdin)
    BY <2>1, <1>2, <1>6
  <2>3. ASSUME NEW p \in 1..Len(stdout'), IsAnswer(stdout'[p])
        PROVE  order_sync_queue'[h[p]] = Asker(stdout'[p])
    <3>1. /\ stdout'[p] = stdout[p + 1] /\ p + 1 \in 1..Len(stdout) /\ p \in 0..Len(stdout')
          /\ 1 \in 0..Len(stdout) /\ p \in 0..Len(stdout) /\ p + 1 \in 0..Len(stdout) /\ 1 <= p
      BY <1>5
    <3>2. g[p + 1] = g[p] + 1 /\ g[p] >= one /\ g[p] \in Nat
      BY <3>1, <2>3 DEF Awaited, Counts
    <3>3. h[p] = g[p + 1] - one /\ g[p + 1] \in 1..a
      BY <3>1, <2>3, <1>2, <1>3
    <3>4. h[p] \in 1..(n - one) /\ h[p] + one = g[p + 1]
      <4>1. a <= n /\ a \in Nat /\ n \in Nat /\ one \in Nat
        BY <2>1, <1>2, <1>6
      <4> DEFINE b == g[p + 1]
      <4>2. b \in 1..a /\ b >= one + 1
        BY <3>2, <3>3, <1>6
      <4>3. h[p] = b - one
        BY <3>3
      <4> HIDE DEF a, n, one, b
      <4>4. h[p] \in 1..(n - one) /\ h[p] + one = b
        BY <4>1, <4>2, <4>3
      <4> QED BY <4>4 DEF b
    <3>5. order_sync_queue'[h[p]] = order_sync_queue[g[p + 1]]
      BY <3>4, <1>7
    <3> QED BY <3>1, <3>5, <2>3, <1>10 DEF InStep
  <2>4. reader.todo = Steps =>
          order_sync_queue'[(a - one) + 1] = origin[reader.order_id].socket
    <3>1. reader.todo = Steps => (a - one) + 1 \in 1..(n - one) /\ (a - one) + 1 + one = a + 1
      BY <2>1, <1>2, <1>6 DEF Unprinted
    <3> QED BY <3>1, <1>7, <1>10 DEF InStep
  <2>5. ASSUME NEW i \in 1..Len(stdin)
        PROVE  order_sync_queue'[(a - one) + Unprinted + i] = stdin[i].socket
    <3>1. /\ (a - one) + Unprinted + i \in 1..(n - one)
          /\ (a - one) + Unprinted + i + one = a + Unprinted + i
      <4>1. /\ a \in Nat /\ one \in Nat /\ Unprinted \in Nat /\ Len(stdin) \in Nat /\ n \in Nat
            /\ a - one >= 0
        BY <1>2, <1>6
      <4> HIDE DEF a, n, one
      <4> QED BY <4>1, <2>1
    <3> QED BY <3>1, <1>7, <1>10 DEF InStep
  <2> QED BY <2>2, <2>3, <2>4, <2>5, <1>1, <1>6, <1>7, <1>8 DEF InStep, Asker
<1>11. Awaited(h)'
  BY <1>1, <1>3, <1>6, <1>7, <1>8, <1>9, <1>10 DEF Awaited
<1> QED BY <1>11

(* A spoiled line is no answer, and no websocket is taken for it.          *)
LEMMA SpoiledAwaits ==
  ASSUME FlowOK, NEW g, Awaited(g), stdout' = Append(stdout, Spoiled), unanswered' # {},
         UNCHANGED order_sync_queue,
         Unprinted' + Len(stdin') <= Unprinted + Len(stdin), stdin' \in Seq(Command)
  PROVE  \E h : Awaited(h)'
<1> DEFINE a == g[Len(stdout)]
           n == Len(order_sync_queue)
<1>1. /\ stdout \in Seq(Lines) /\ Len(stdout) \in Nat /\ a \in Nat /\ n \in Nat
      /\ Unprinted \in {0, 1} /\ Len(stdin) \in Nat
  BY Parts
<1>2. Spoiled \in Lines /\ ~IsAnswer(Spoiled)
  BY DEF Lines, Spoiled, IsAnswer
<1>3. PICK h : /\ Counts(stdout', h)
               /\ \A p \in 0..Len(stdout) : h[p] = g[p]
               /\ h[Len(stdout) + 1] = a + 0
  BY <1>1, <1>2, CountsAppend DEF Awaited
<1>4. Len(stdout') = Len(stdout) + 1
  BY <1>1, <1>2
<1>5. Len(stdin') \in Nat /\ Unprinted' \in {0, 1} /\ n >= a + Unprinted + Len(stdin)
  BY DEF Unprinted, Awaited
<1>6. n >= a + Unprinted' + Len(stdin')
  <2> DEFINE u == Unprinted
             v == Unprinted'
             k == Len(stdin)
             l == Len(stdin')
  <2>1. u \in Nat /\ v \in Nat /\ k \in Nat /\ l \in Nat /\ v + l <= u + k /\ n >= a + u + k
    BY <1>1, <1>5
  <2> HIDE DEF u, v, k, l, a, n
  <2>2. n >= a + v + l
    BY <2>1, <1>1
  <2> QED BY <2>2 DEF v, l
<1>7. h[Len(stdout')] = a /\ Len(order_sync_queue') = n
  BY <1>1, <1>3, <1>4
<1> QED BY <1>3, <1>6, <1>7 DEF Awaited

(* stdin_reader takes a command from stdin: it skips it, prints a rejection*)
(* in its place, or is to print an ack in its place.                       *)
LEMMA ReadCommandAwaits ==
  ASSUME FlowOK, NEW g, Awaited(g), ReadCommand
  PROVE  \E h : Awaited(h)'
<1> DEFINE command == Head(stdin)
           n == Len(order_sync_queue)
           a == g[Len(stdout)]
           m == Len(stdin)
<1>1. /\ reader.todo = <<>> /\ stdin # <<>> /\ stdin' = Tail(stdin)
      /\ UNCHANGED order_sync_queue
      /\ \/ /\ UNCHANGED <<reader, stdout, origin>>
            /\ unanswered' = unanswered \cup {command.number}
         \/ /\ UNCHANGED <<reader, origin>>
            /\ safe_print(Reject(command), {command.number})
         \/ /\ global_order_id' = global_order_id + 1
            /\ reader' = [order_id |-> global_order_id, todo |-> Steps]
            /\ origin' = With(origin, global_order_id, command)
            /\ UNCHANGED <<stdout, unanswered>>
  BY DEF ReadCommand, server
<1>2. /\ stdout \in Seq(Lines) /\ order_sync_queue \in Seq(Opened) /\ stdin \in Seq(Command)
      /\ n \in Nat /\ a \in Nat /\ m \in Nat
      /\ \A p \in 1..Len(stdout) : IsAnswer(stdout[p]) => g[p] \in 1..a
  BY Parts
<1>3. /\ m >= 1 /\ Len(stdin') = m - 1 /\ command = stdin[1] /\ command \in Command
      /\ \A i \in 1..(m - 1) : stdin'[i] = stdin[i + 1]
  BY <1>1, <1>2
<1>4. Unprinted = 0 /\ <<>> # Steps
  BY <1>1 DEF Unprinted, Steps
<1>5. n >= a + m /\ Counts(stdout, g)
  BY <1>2, <1>4 DEF Awaited
<1>6. ASSUME InStep(g)
      PROVE  /\ n = a + m
             /\ \A p \in 1..Len(stdout) :
                  IsAnswer(stdout[p]) => order_sync_queue[g[p]] = Asker(stdout[p])
             /\ order_sync_queue[a + 1] = command.socket
             /\ \A i \in 1..(m - 1) : order_sync_queue[a + 1 + i] = stdin'[i].socket
  <2>1. n = a + m /\ \A i \in 1..m : order_sync_queue[a + i] = stdin[i].socket
    BY <1>2, <1>4, <1>6 DEF InStep
  <2>2. order_sync_queue[a + 1] = command.socket
    BY <2>1, <1>2, <1>3
  <2>3. ASSUME NEW i \in 1..(m - 1) PROVE order_sync_queue[a + 1 + i] = stdin'[i].socket
    <3>1. i + 1 \in 1..m /\ a + (i + 1) = a + 1 + i
      <4>1. a \in Nat /\ m \in Nat
        BY <1>2
      <4> HIDE DEF a, m
      <4> QED BY <4>1
    <3> QED BY <3>1, <2>1, <1>3
  <2> QED BY <2>1, <2>2, <2>3, <1>6 DEF InStep
<1> HIDE DEF command
<1>7. CASE /\ UNCHANGED <<reader, stdout, origin>>
           /\ unanswered' = unanswered \cup {command.number}
  <2>1. unanswered' # {}
    BY <1>7
  <2>2. n >= a + 0 + (m - 1)
    BY <1>2, <1>5
  <2>3. Awaited(g)'
    BY <2>1, <2>2, <1>1, <1>3, <1>4, <1>5, <1>7 DEF Awaited, Counts, Unprinted
  <2> QED BY <2>3
<1>10. CASE UNCHANGED reader /\ stdout' = Append(stdout, Spoiled) /\ unanswered' # {}
  <2>1. Unprinted' = Unprinted /\ stdin' \in Seq(Command)
    BY <1>1, <1>2, <1>10 DEF Unprinted
  <2>2. Unprinted' + Len(stdin') <= Unprinted + Len(stdin)
    BY <2>1, <1>2, <1>3, <1>4
  <2> QED BY <2>1, <2>2, <1>1, <1>10, SpoiledAwaits
<1>8. CASE /\ UNCHANGED <<reader, origin, unanswered>>
           /\ stdout' = Append(stdout, Reject(command))
  <2>1. Reject(command) \in Lines /\ Reject(command).type = "reject"
        /\ Reject(command).command = command /\ IsAnswer(Reject(command))
    BY <1>3 DEF Lines, Reject, IsAnswer
  <2>2. PICK h : /\ Counts(stdout', h)
                 /\ \A p \in 0..Len(stdout) : h[p] = g[p]
                 /\ h[Len(stdout) + 1] = a + 1
    <3>1. \E h : /\ Counts(Append(stdout, Reject(command)), h)
                 /\ \A p \in 0..Len(stdout) : h[p] = g[p]
                 /\ h[Len(stdout) + 1] = g[Len(stdout)] + 1
      BY <2>1, <1>2, <1>5, AnswerCounted
    <3> QED BY <3>1, <1>8
  <2>3. /\ Len(stdout) \in Nat /\ Len(stdout') = Len(stdout) + 1
        /\ stdout'[Len(stdout) + 1] = Reject(command)
        /\ \A p \in 1..Len(stdout) : stdout'[p] = stdout[p]
    BY <2>1, <1>2, <1>8
  <2>4. h[Len(stdout')] = a + 1 /\ Unprinted' = 0 /\ reader'.todo # Steps
    BY <2>2, <2>3, <1>1, <1>4, <1>8 DEF Unprinted
  <2>5. ASSUME InStep(g) PROVE InStep(h)'
    <3>1. n = (a + 1) + 0 + (m - 1)
      BY <2>5, <1>2, <1>6
    <3>2. ASSUME NEW p \in 1..(Len(stdout) + 1), IsAnswer(stdout'[p])
          PROVE  order_sync_queue[h[p]] = Asker(stdout'[p])
      <4>1. CASE p = Len(stdout) + 1
        BY <4>1, <2>1, <2>2, <2>3, <2>5, <1>6 DEF Asker
      <4>2. CASE p # Len(stdout) + 1
        <5>1. p \in 1..Len(stdout) /\ p \in 0..Len(stdout)
          BY <4>2, <2>3
        <5> QED BY <5>1, <3>2, <2>2, <2>3, <2>5, <1>6
      <4> QED BY <4>1, <4>2
    <3>3. ASSUME NEW i \in 1..(m - 1) PROVE order_sync_queue[(a + 1) + 0 + i] = stdin'[i].socket
      <4>1. (a + 1) + 0 + i = a + 1 + i
        BY <1>2
      <4> QED BY <4>1, <2>5, <1>6
    <3>4. ASSUME NEW p \in 1..Len(stdout'), IsAnswer(stdout'[p])
          PROVE  order_sync_queue'[h[p]] = Asker(stdout[p])'
      <4>1. order_sync_queue[h[p]] = Asker(stdout'[p])
        BY <3>2, <3>4, <2>3
      <4>2. PICK line : line = stdout'[p]
        OBVIOUS
      <4>3. Asker(stdout[p])' = Asker(line)
        BY <4>2, <1>8 DEF Asker
      <4> QED BY <4>1, <4>2, <4>3, <1>1
    <3>5. Len(order_sync_queue') = h[Len(stdout')] + Unprinted' + Len(stdin')
      BY <3>1, <2>4, <1>1, <1>3
    <3>6. ASSUME NEW i \in 1..Len(stdin')
          PROVE  order_sync_queue'[h[Len(stdout')] + Unprinted' + i] = stdin'[i].socket
      BY <3>3, <2>4, <1>1, <1>3
    <3>7. \A p \in 1..Len(stdout') :
             IsAnswer(stdout[p])' => order_sync_queue'[h[p]] = Asker(stdout[p])'
      BY <3>4 DEF IsAnswer
    <3> HIDE DEF a, m, n
    <3> QED BY <3>5, <3>6, <3>7, <2>4 DEF InStep
  <2>6. n >= (a + 1) + 0 + (m - 1)
    BY <1>2, <1>5
  <2>7. Awaited(h)'
    BY <2>2, <2>4, <2>5, <2>6, <1>1, <1>3, <1>8 DEF Awaited
  <2> QED BY <2>7
<1>9. CASE /\ global_order_id' = global_order_id + 1
           /\ reader' = [order_id |-> global_order_id, todo |-> Steps]
           /\ origin' = With(origin, global_order_id, command)
           /\ UNCHANGED <<stdout, unanswered>>
  <2>1. /\ \A id \in Ids : origin'[id] = origin[id]
        /\ origin'[global_order_id] = command
    BY <1>3, <1>9, IdGiven DEF FlowOK
  <2>2. Unprinted' = 1 /\ reader'.todo = Steps /\ reader'.order_id = global_order_id
    BY <1>9 DEF Unprinted
  <2>3. \A p \in 1..Len(stdout) : IsAnswer(stdout[p]) => Asker(stdout[p])' = Asker(stdout[p])
    <3> SUFFICES ASSUME NEW p \in 1..Len(stdout), IsAnswer(stdout[p])
                 PROVE  Asker(stdout[p])' = Asker(stdout[p])
      OBVIOUS
    <3>1. stdout[p] \in Lines
      BY <1>2
    <3>2. stdout[p].type = "ack" => stdout[p].order_id \in Ids
      BY <3>1, LineKinds
    <3> QED BY <3>2, <2>1, <1>9 DEF Asker
  <2>4. ASSUME InStep(g) PROVE InStep(g)'
    <3>1. n = a + 1 + (m - 1)
      BY <2>4, <1>2, <1>6
    <3> QED BY <3>1, <2>1, <2>2, <2>3, <2>4, <1>1, <1>3, <1>6, <1>9 DEF InStep, Asker
  <2>5. n >= a + 1 + (m - 1)
    BY <1>2, <1>5
  <2>6. Awaited(g)'
    BY <2>2, <2>4, <2>5, <1>1, <1>3, <1>5, <1>9 DEF Awaited, Counts
  <2> QED BY <2>6
<1>11. ASSUME UNCHANGED <<reader, origin>>, safe_print(Reject(command), {command.number})
       PROVE  \E h : Awaited(h)'
  <2>1. \/ stdout' = Append(stdout, Reject(command)) /\ UNCHANGED unanswered
        \/ stdout' = Append(stdout, Spoiled) /\ unanswered' = unanswered \cup {command.number}
    BY <1>11, LinePrinted
  <2> QED BY <2>1, <1>8, <1>10, <1>11
<1> QED BY <1>1, <1>7, <1>9, <1>11

(* An ack is printed, or a trade.                                          *)
LEMMA PrintAckAwaits ==
  ASSUME FlowOK, NEW g, Awaited(g), PrintAck
  PROVE  \E h : Awaited(h)'
<1> DEFINE n == Len(order_sync_queue)
           a == g[Len(stdout)]
           m == Len(stdin)
           line == Ack(reader.order_id)
<1>0. /\ UNCHANGED <<order_sync_queue, stdin, origin>>
      /\ \/ stdout' = Append(stdout, line) /\ UNCHANGED unanswered
         \/ /\ stdout' = Append(stdout, Spoiled)
            /\ unanswered' = unanswered \cup {origin[reader.order_id].number}
      /\ reader.todo = Steps /\ reader.order_id \in Ids
      /\ reader' = [order_id |-> reader.order_id, todo |-> <<"enqueue">>]
  BY ReaderSteps, LinePrinted DEF FlowOK, PrintAck, server
<1>10. CASE stdout' = Append(stdout, Spoiled) /\ unanswered' # {}
  <2>1. Unprinted = 1 /\ Unprinted' = 0 /\ UNCHANGED stdin
    BY <1>0 DEF Unprinted, Steps
  <2>2. stdin' \in Seq(Command) /\ Len(stdin) \in Nat
    BY <2>1 DEF FlowOK, CommandsOK
  <2>3. Unprinted' + Len(stdin') <= Unprinted + Len(stdin)
    BY <2>1, <2>2
  <2> QED BY <2>2, <2>3, <1>0, <1>10, SpoiledAwaits
<1> SUFFICES ASSUME stdout' = Append(stdout, line), UNCHANGED unanswered
             PROVE  \E h : Awaited(h)'
  BY <1>0, <1>10
<1>1. /\ UNCHANGED <<order_sync_queue, stdin, origin, unanswered>> /\ stdout' = Append(stdout, line)
      /\ reader.todo = Steps /\ reader.order_id \in Ids
      /\ reader' = [order_id |-> reader.order_id, todo |-> <<"enqueue">>]
  BY <1>0
<1>2. /\ stdout \in Seq(Lines) /\ n \in Nat /\ a \in Nat /\ m \in Nat
  BY Parts
<1>3. line \in Lines /\ line.type = "ack" /\ line.order_id = reader.order_id /\ IsAnswer(line)
  BY <1>1 DEF Lines, Ack, IsAnswer
<1> HIDE DEF line
<1>4. /\ Unprinted = 1 /\ Unprinted' = 0 /\ reader'.todo # Steps
      /\ n >= a + 1 + m /\ Counts(stdout, g)
  BY <1>1 DEF Unprinted, Steps, Awaited
<1>5. PICK h : /\ Counts(stdout', h)
               /\ \A p \in 0..Len(stdout) : h[p] = g[p]
               /\ h[Len(stdout) + 1] = a + 1
  <2>1. \E h : /\ Counts(Append(stdout, line), h)
               /\ \A p \in 0..Len(stdout) : h[p] = g[p]
               /\ h[Len(stdout) + 1] = g[Len(stdout)] + 1
    BY <1>2, <1>3, <1>4, AnswerCounted
  <2> QED BY <2>1, <1>1
<1>6. /\ Len(stdout) \in Nat /\ Len(stdout') = Len(stdout) + 1
      /\ stdout'[Len(stdout) + 1] = line
      /\ \A p \in 1..Len(stdout) : stdout'[p] = stdout[p]
  BY <1>1, <1>2, <1>3
<1>7. ASSUME InStep(g) PROVE InStep(h)'
  <2>1. n = (a + 1) + 0 + m
    BY <1>2, <1>4, <1>7 DEF InStep
  <2>2. ASSUME NEW p \in 1..(Len(stdout) + 1), IsAnswer(stdout'[p])
        PROVE  order_sync_queue[h[p]] = Asker(stdout'[p])
    <3>1. CASE p = Len(stdout) + 1
      BY <3>1, <1>1, <1>3, <1>5, <1>6, <1>7 DEF Asker, InStep
    <3>2. CASE p # Len(stdout) + 1
      <4>1. p \in 1..Len(stdout) /\ p \in 0..Len(stdout)
        BY <3>2, <1>6
      <4> QED BY <4>1, <2>2, <1>5, <1>6, <1>7 DEF InStep
    <3> QED BY <3>1, <3>2
  <2>3. ASSUME NEW i \in 1..m PROVE order_sync_queue[(a + 1) + 0 + i] = stdin[i].socket
    <3>1. (a + 1) + 0 + i = a + 1 + i
      BY <1>2
    <3> QED BY <3>1, <1>4, <1>7 DEF InStep
  <2> QED BY <2>1, <2>2, <2>3, <1>1, <1>4, <1>5, <1>6 DEF InStep, Asker
<1>8. n >= (a + 1) + 0 + m
  BY <1>2, <1>4
<1>9. Awaited(h)'
  BY <1>1, <1>4, <1>5, <1>6, <1>7, <1>8 DEF Awaited
<1> QED BY <1>9

LEMMA TradeAwaits ==
  ASSUME FlowOK, NEW g, Awaited(g), NEW maker, on_trade(maker)
  PROVE  \E h : Awaited(h)'
<1> DEFINE a == g[Len(stdout)]
<1>0. /\ UNCHANGED <<order_sync_queue, stdin, origin, reader>>
      /\ maker \in resting \cup {Bot} /\ safe_print(TradeLine(maker, processed), {})
  BY DEF on_trade, server
<1>10. PICK line \in {TradeLine(maker, processed), Spoiled} : stdout' = Append(stdout, line)
  BY <1>0, LinePrinted
<1>11. UNCHANGED unanswered
  <2>1. unanswered' = unanswered \/ unanswered' = unanswered \cup {}
    BY <1>0, LinePrinted
  <2>2. unanswered \cup {} = unanswered
    OBVIOUS
  <2> QED BY <2>1, <2>2
<1>1. /\ UNCHANGED <<order_sync_queue, stdin, origin, reader, unanswered>>
      /\ stdout' = Append(stdout, line) /\ maker \in resting \cup {Bot}
  BY <1>0, <1>10, <1>11
<1>2. stdout \in Seq(Lines) /\ a \in Nat
  BY Parts
<1>3. line \in Lines /\ ~IsAnswer(line)
  <2>1. maker \in Ids \cup {Bot} /\ processed \in Ids \cup {Bot}
    BY <1>1 DEF FlowOK, EngineOK
  <2> QED BY <2>1 DEF Lines, TradeLine, Spoiled, IsAnswer
<1>4. Unprinted' = Unprinted
  BY <1>1 DEF Unprinted
<1>5. PICK h : /\ Counts(stdout', h)
               /\ \A p \in 0..Len(stdout) : h[p] = g[p]
               /\ h[Len(stdout) + 1] = a + 0
  BY <1>1, <1>2, <1>3, CountsAppend DEF Awaited
<1>6. /\ Len(stdout) \in Nat /\ Len(stdout') = Len(stdout) + 1 /\ h[Len(stdout')] = a
      /\ stdout'[Len(stdout) + 1] = line
      /\ \A p \in 1..Len(stdout) : stdout'[p] = stdout[p]
  BY <1>1, <1>2, <1>3, <1>5
<1>7. ASSUME InStep(g) PROVE InStep(h)'
  <2>1. ASSUME NEW p \in 1..(Len(stdout) + 1), IsAnswer(stdout'[p])
        PROVE  order_sync_queue[h[p]] = Asker(stdout'[p])
    <3>1. p \in 1..Len(stdout) /\ p \in 0..Len(stdout)
      BY <2>1, <1>3, <1>6
    <3> QED BY <3>1, <2>1, <1>5, <1>6, <1>7 DEF InStep
  <2> QED BY <2>1, <1>1, <1>4, <1>6, <1>7 DEF InStep, Asker
<1>8. Awaited(h)'
  BY <1>1, <1>4, <1>5, <1>6, <1>7 DEF Awaited
<1> QED BY <1>8
(***************************************************************************)
(* The whole: what the variables hold, the answers to come, and what the   *)
(* server has learnt.                                                      *)
(***************************************************************************)
WayInv == ListInv /\ FlowOK /\ PendingPaired /\ \E g : Awaited(g)

LEMMA WayStarts == Init => WayInv
<1> SUFFICES ASSUME Init PROVE WayInv
  OBVIOUS
<1>1. /\ stdout = <<>> /\ stdin = <<>> /\ order_sync_queue = <<>> /\ reader = IdleReader
      /\ DOMAIN pending_manual_orders = {}
  BY DEF Init
<1> DEFINE g == [p \in 0..0 |-> 0]
<1>2. Unprinted = 0 /\ reader.todo # Steps
  BY <1>1 DEF Unprinted, IdleReader, Steps
<1>3. /\ Len(stdout) = 0 /\ Len(stdin) = 0 /\ Len(order_sync_queue) = 0
      /\ g \in [0..0 -> Nat] /\ g[0] = 0
  BY <1>1
<1> HIDE DEF g
<1>4. Counts(stdout, g)
  BY <1>3 DEF Counts
<1>5. Awaited(g)
  BY <1>2, <1>3, <1>4 DEF Awaited, InStep
<1>6. PendingPaired
  BY <1>1 DEF PendingPaired
<1> QED BY <1>5, <1>6, ListStarts, FlowStarts DEF WayInv

LEMMA WayKeeps == ASSUME WayInv, [Next]_vars PROVE WayInv'
<1>1. ListInv /\ FlowOK /\ PendingPaired
  BY DEF WayInv
<1>2. PICK g : Awaited(g)
  BY DEF WayInv
<1>3. ListInv'
  BY <1>1, ListKeeps
<1>4. ASSUME UNCHANGED <<stdout, stdin, order_sync_queue, reader, origin, pending_manual_orders,
                          unanswered>>
      PROVE  PendingPaired' /\ \E h : Awaited(h)'
  BY <1>1, <1>2, <1>4, AwaitedStays DEF PendingPaired
<1>5. ASSUME NEW c \in Clients,
             Connect(c) \/ Logout(c) \/ (\E kind \in Kinds : Place(c, kind)) \/ Show(c)
      PROVE  WayInv'
  <2>1. FlowOK'
    BY <1>1, <1>5, ConnectFlows, LogoutFlows, PlaceFlows, ShowFlows
  <2>2. UNCHANGED <<stdout, stdin, order_sync_queue, reader, origin, pending_manual_orders,
                          unanswered>>
    BY <1>5 DEF Connect, Logout, Place, Show, engine, server
  <2> QED BY <2>1, <2>2, <1>3, <1>4 DEF WayInv
<1>6. ASSUME NEW s \in Opened, Lose(s) \/ EndHandler(s) PROVE WayInv'
  <2>1. UNCHANGED <<stdout, stdin, order_sync_queue, reader, origin, pending_manual_orders,
                          unanswered>>
    BY <1>6 DEF Lose, EndHandler, engine, server
  <2> QED BY <2>1, <1>1, <1>3, <1>4, <1>6, LoseFlows DEF WayInv
<1>7. ASSUME NEW s \in Opened, websocket_handler(s) PROVE WayInv'
  <2>1. UNCHANGED <<origin, pending_manual_orders, unanswered>>
    BY <1>7 DEF websocket_handler, engine
  <2>2. PendingPaired'
    BY <2>1, <1>1 DEF PendingPaired
  <2> QED BY <2>2, <1>1, <1>2, <1>3, <1>7, HandlerFlows, HandlerAwaits DEF WayInv
<1>8. CASE stdout_reader_thread
  BY <1>1, <1>2, <1>3, <1>8, StdoutReaderFlows, StdoutReaderAwaits DEF WayInv
<1>9. ASSUME NEW i \in DOMAIN loop,
             SendTo(i) \/ (\E s \in Opened : Broadcast(i, s)) \/ EndBroadcast(i)
      PROVE  WayInv'
  <2>1. FlowOK'
    BY <1>1, <1>9, SendToFlows, BroadcastFlows, EndBroadcastFlows
  <2>2. UNCHANGED <<stdout, stdin, order_sync_queue, reader, origin, pending_manual_orders,
                          unanswered>>
    BY <1>9 DEF SendTo, Broadcast, EndBroadcast, engine
  <2> QED BY <2>1, <2>2, <1>3, <1>4 DEF WayInv
<1>10. CASE ReadCommand
  BY <1>1, <1>2, <1>3, <1>10, ReadCommandFlows, ReadCommandAwaits DEF WayInv
<1>11. CASE PrintAck
  BY <1>1, <1>2, <1>3, <1>11, ExchangeFlows, PrintAckAwaits DEF WayInv
<1>12. CASE Enqueue \/ Dequeue \/ Processed
  <2>1. FlowOK' /\ PendingPaired'
    BY <1>1, <1>12, ExchangeFlows
  <2>2. UNCHANGED <<stdout, stdin, order_sync_queue, origin, unanswered>> /\ Unprinted' = Unprinted
        /\ (reader'.todo = Steps => UNCHANGED reader)
    <3>1. CASE Enqueue
      <4>1. reader.todo = <<"enqueue">> /\ reader' = IdleReader
        BY <3>1, <1>1, ReaderSteps DEF FlowOK
      <4>2. <<"enqueue">> # Steps /\ IdleReader.todo # Steps
        BY DEF IdleReader, Steps
      <4> QED BY <3>1, <4>1, <4>2 DEF Enqueue, server, Unprinted
    <3>2. CASE Dequeue \/ Processed
      BY <3>2 DEF Dequeue, Processed, server, Unprinted
    <3> QED BY <3>1, <3>2, <1>12
  <2>3. Awaited(g)'
    BY <2>2, <1>2 DEF Awaited, Counts, InStep, Asker, Unprinted
  <2> QED BY <2>1, <2>3, <1>3 DEF WayInv
<1>13. ASSUME NEW maker \in 0..MaxCommands, on_trade(maker) PROVE WayInv'
  BY <1>1, <1>2, <1>3, <1>13, ExchangeFlows, TradeAwaits DEF WayInv
<1>14. CASE UNCHANGED vars
  <2>1. UNCHANGED <<stdout, stdin, order_sync_queue, reader, origin, pending_manual_orders,
                          unanswered>>
    BY <1>14 DEF vars, engine, server
  <2>2. FlowOK'
    BY <1>1, <1>14, SocketsStay, CommandsStay, EngineStays, AnswersStay
       DEF FlowOK, vars, engine, server, links, pages
  <2> QED BY <2>1, <2>2, <1>3, <1>4 DEF WayInv
<1> QED
  BY <1>5, <1>6, <1>7, <1>8, <1>9, <1>10, <1>11, <1>12, <1>13, <1>14 DEF Next

LEMMA WayAlways == Spec => []WayInv
<1>1. WayInv /\ [Next]_vars => WayInv'
  BY WayKeeps
<1>2. QED BY WayStarts, <1>1, PTL DEF Spec

(* However many terminals place orders, leave and come back while answers  *)
(* are on their way: as long as every order gets an answer that the server *)
(* can read, every order is recorded for the websocket that it came on, and*)
(* every rejection goes there.                                             *)
THEOREM AnswersAlwaysPaired == Spec => []AnswersPaired
<1>1. WayInv => AnswersPaired
  <2> SUFFICES ASSUME WayInv, unanswered = {} PROVE AnswersRouted
    BY DEF AnswersPaired
  <2>1. \A id \in DOMAIN pending_manual_orders : pending_manual_orders[id] = origin[id].socket
    BY DEF WayInv, PendingPaired
  <2>2. ASSUME NEW s \in Sockets, NEW i \in DOMAIN to_client[s],
               to_client[s][i].type = "order_reject"
        PROVE  to_client[s][i].command.socket = s
    <3>1. to_client[s] \in Seq(Acks \cup Fills \cup Rejections(s))
      BY DEF WayInv, FlowOK, AnswersOK
    <3>2. to_client[s][i] \in Acks \cup Fills \cup Rejections(s)
      BY <3>1
    <3>3. to_client[s][i] \in Rejections(s)
      BY <3>2, <2>2 DEF Acks, Ack, Fills
    <3> QED BY <3>3 DEF Rejections
  <2> QED BY <2>1, <2>2 DEF AnswersRouted
<1>2. QED BY <1>1, WayAlways, PTL
-----------------------------------------------------------------------------
(* What the server has learnt, or is to read, of an order.                 *)
LEMMA OnlyReaderLearns ==
  ASSUME [Next]_vars
  PROVE  \/ stdout_reader_thread
         \/ /\ UNCHANGED pending_manual_orders
            /\ UNCHANGED stdout \/ \E line : stdout' = Append(stdout, line)
<1>1. ASSUME NEW c \in Clients,
             Connect(c) \/ Logout(c) \/ (\E kind \in Kinds : Place(c, kind)) \/ Show(c)
      PROVE  UNCHANGED <<pending_manual_orders, stdout>>
  BY <1>1 DEF Connect, Logout, Place, Show, server
<1>2. ASSUME NEW s \in Opened, Lose(s) \/ EndHandler(s) \/ websocket_handler(s)
      PROVE  UNCHANGED <<pending_manual_orders, stdout>>
  BY <1>2 DEF Lose, EndHandler, websocket_handler, server
<1>3. ASSUME NEW i \in DOMAIN loop,
             SendTo(i) \/ (\E s \in Opened : Broadcast(i, s)) \/ EndBroadcast(i)
      PROVE  UNCHANGED <<pending_manual_orders, stdout>>
  BY <1>3 DEF SendTo, Broadcast, EndBroadcast
<1>4. ASSUME ReadCommand \/ PrintAck \/ Enqueue \/ Dequeue \/ Processed
                \/ \E maker \in 0..MaxCommands : on_trade(maker)
      PROVE  /\ UNCHANGED pending_manual_orders
             /\ UNCHANGED stdout \/ \E line : stdout' = Append(stdout, line)
  BY <1>4, LinePrinted
     DEF ReadCommand, PrintAck, Enqueue, Dequeue, Processed, on_trade, server
<1>5. UNCHANGED vars => UNCHANGED <<pending_manual_orders, stdout>>
  BY DEF vars, server
<1> QED BY <1>1, <1>2, <1>3, <1>4, <1>5 DEF Next

(* The orders stay as they are, and so do those that go unanswered.        *)
LEMMA OrdersStay ==
  ASSUME WayInv, [Next]_vars
  PROVE  /\ \A id \in Ids : id \in Ids' /\ origin'[id] = origin[id]
         /\ unanswered \subseteq unanswered'
<1>1. ASSUME NEW c \in Clients,
             Connect(c) \/ Logout(c) \/ (\E kind \in Kinds : Place(c, kind)) \/ Show(c)
      PROVE  UNCHANGED <<origin, unanswered>>
  BY <1>1 DEF Connect, Logout, Place, Show, engine
<1>2. ASSUME NEW s \in Opened, Lose(s) \/ EndHandler(s) \/ websocket_handler(s)
      PROVE  UNCHANGED <<origin, unanswered>>
  BY <1>2 DEF Lose, EndHandler, websocket_handler, engine
<1>3. ASSUME NEW i \in DOMAIN loop,
             SendTo(i) \/ (\E s \in Opened : Broadcast(i, s)) \/ EndBroadcast(i)
      PROVE  UNCHANGED <<origin, unanswered>>
  BY <1>3 DEF SendTo, Broadcast, EndBroadcast, engine
<1>4. CASE ReadCommand
  <2>1. CASE UNCHANGED origin
    <3>1. unanswered \subseteq unanswered'
      BY <1>4, LinePrinted DEF ReadCommand
    <3> QED BY <2>1, <3>1 DEF Ids
  <2>2. CASE /\ global_order_id' = global_order_id + 1
             /\ origin' = With(origin, global_order_id, Head(stdin)) /\ UNCHANGED unanswered
    <3>1. Head(stdin) \in Command /\ EngineOK
      BY <1>4 DEF ReadCommand, WayInv, FlowOK, CommandsOK
    <3> QED BY <2>2, <3>1, IdGiven
  <2> QED BY <2>1, <2>2, <1>4 DEF ReadCommand
<1>5. CASE stdout_reader_thread \/ Enqueue \/ Dequeue \/ Processed \/ UNCHANGED vars
  BY <1>5 DEF stdout_reader_thread, Enqueue, Dequeue, Processed, vars, engine, Ids
<1>6. CASE PrintAck \/ \E maker \in 0..MaxCommands : on_trade(maker)
  BY <1>6, LinePrinted DEF PrintAck, on_trade, Ids
<1> QED BY <1>1, <1>2, <1>3, <1>4, <1>5, <1>6 DEF Next, Ids

LEMMA TradeKinds ==
  ASSUME NEW line \in Lines, line.type = "trade"
  PROVE  {line.maker, line.taker} \ {Bot} \subseteq Ids
BY DEF Lines, Ack, Reject, TradeLine, Spoiled

(* Reading a line: an ack is learnt, the other lines move up.              *)
LEMMA AckLearnt ==
  ASSUME WayInv, stdout_reader_thread
  PROVE  /\ stdout # <<>> /\ stdout' = Tail(stdout) /\ stdout \in Seq(Lines)
         /\ DOMAIN pending_manual_orders \subseteq DOMAIN pending_manual_orders'
         /\ \A id : Head(stdout) = Ack(id) => id \in DOMAIN pending_manual_orders'
<1>1. PICK g : Awaited(g)
  BY DEF WayInv
<1>2. /\ stdout # <<>> /\ stdout' = Tail(stdout) /\ stdout \in Seq(Lines)
      /\ \/ ReadAck(Head(stdout)) \/ ReadReject(Head(stdout))
         \/ ReadTrade(Head(stdout)) \/ ReadSpoiled(Head(stdout))
  BY DEF stdout_reader_thread, WayInv, FlowOK, EngineOK
<1>3. DOMAIN pending_manual_orders \subseteq DOMAIN pending_manual_orders'
  BY <1>2 DEF ReadAck, ReadReject, ReadTrade, ReadSpoiled, With
<1>4. ASSUME NEW id, Head(stdout) = Ack(id)
      PROVE  id \in DOMAIN pending_manual_orders'
  <2>1. Head(stdout).type = "ack" /\ Head(stdout).order_id = id /\ IsAnswer(Head(stdout))
    BY <1>4 DEF Ack, IsAnswer
  <2>2. order_sync_queue # <<>>
    BY <2>1, <1>1, <1>2, AnswerAwaited DEF WayInv
  <2>3. ReadAck(Head(stdout))
    BY <2>1, <1>2 DEF ReadReject, ReadTrade, ReadSpoiled
  <2> QED BY <2>1, <2>2, <2>3 DEF ReadAck, With
<1> QED BY <1>2, <1>3, <1>4

LEMMA LearntStays ==
  ASSUME WayInv, [Next]_vars, NEW id, Learnt(id)
  PROVE  Learnt(id)'
<1>1. stdout \in Seq(Lines)
  BY DEF WayInv, FlowOK, EngineOK
<1>2. CASE stdout_reader_thread
  <2>1. CASE id \in DOMAIN pending_manual_orders
    BY <2>1, <1>2, AckLearnt DEF Learnt
  <2>2. ASSUME NEW j \in DOMAIN stdout, stdout[j] = Ack(id) PROVE Learnt(id)'
    <3>1. CASE j = 1
      BY <3>1, <2>2, <1>2, AckLearnt DEF Learnt
    <3>2. CASE j # 1
      <4>1. j - 1 \in DOMAIN Tail(stdout) /\ Tail(stdout)[j - 1] = stdout[j]
        BY <3>2, <1>1
      <4> QED BY <4>1, <2>2, <1>2, AckLearnt DEF Learnt
    <3> QED BY <3>1, <3>2
  <2> QED BY <2>1, <2>2 DEF Learnt
<1>3. CASE UNCHANGED <<pending_manual_orders, stdout>>
  BY <1>3 DEF Learnt
<1>4. ASSUME NEW line, UNCHANGED pending_manual_orders, stdout' = Append(stdout, line)
      PROVE  Learnt(id)'
  <2>1. DOMAIN stdout \subseteq DOMAIN stdout' /\ \A j \in DOMAIN stdout : stdout'[j] = stdout[j]
    BY <1>1, <1>4
  <2> QED BY <2>1, <1>4 DEF Learnt
<1> QED BY <1>2, <1>3, <1>4, OnlyReaderLearns

LEMMA AcknowledgedStays ==
  ASSUME WayInv, [Next]_vars, NEW id \in Ids, Acknowledged(id)
  PROVE  Acknowledged(id)'
BY LearntStays, OrdersStay DEF Acknowledged

(* The lines behind the one that is read stay as they are.                 *)
LEMMA RoutableWhenRead ==
  ASSUME WayInv, FillsRoutable, stdout_reader_thread
  PROVE  FillsRoutable'
<1>1. /\ stdout # <<>> /\ stdout' = Tail(stdout) /\ stdout \in Seq(Lines)
      /\ DOMAIN pending_manual_orders \subseteq DOMAIN pending_manual_orders'
      /\ \A id : Head(stdout) = Ack(id) => id \in DOMAIN pending_manual_orders'
      /\ UNCHANGED <<origin, unanswered>>
  BY AckLearnt DEF stdout_reader_thread, engine
<1>2. /\ DOMAIN stdout' = 1..(Len(stdout) - 1) /\ Head(stdout) = stdout[1]
      /\ \A j \in DOMAIN stdout' : stdout'[j] = stdout[j + 1] /\ j + 1 \in DOMAIN stdout
      /\ Len(stdout) \in Nat
  BY <1>1
<1> SUFFICES ASSUME NEW i \in DOMAIN stdout', stdout'[i].type = "trade",
                    NEW id \in {stdout'[i].maker, stdout'[i].taker} \ {Bot}
             PROVE  \/ origin'[id].number \in unanswered'
                    \/ id \in DOMAIN pending_manual_orders'
                    \/ \E j \in 1..(i - 1) : stdout'[j] = Ack(id)
  BY DEF FillsRoutable
<1>3. /\ stdout[i + 1].type = "trade" /\ i + 1 \in DOMAIN stdout
      /\ id \in {stdout[i + 1].maker, stdout[i + 1].taker} \ {Bot}
  BY <1>2
<1>4. \/ origin[id].number \in unanswered
      \/ id \in DOMAIN pending_manual_orders
      \/ \E j \in 1..((i + 1) - 1) : stdout[j] = Ack(id)
  BY <1>3 DEF FillsRoutable
<1>5. ASSUME NEW j \in 1..((i + 1) - 1), stdout[j] = Ack(id)
      PROVE  \/ id \in DOMAIN pending_manual_orders'
             \/ \E k \in 1..(i - 1) : stdout'[k] = Ack(id)
  <2>1. CASE j = 1
    BY <2>1, <1>1, <1>2, <1>5
  <2>2. CASE j # 1
    <3>1. j - 1 \in 1..(i - 1) /\ j - 1 \in DOMAIN stdout' /\ (j - 1) + 1 = j
      BY <2>2, <1>2
    <3> QED BY <3>1, <1>2, <1>5
  <2> QED BY <2>1, <2>2
<1> QED BY <1>1, <1>4, <1>5

(* A line that is no trade, or a trade of orders that are acknowledged.    *)
LEMMA RoutableWhenPrinted ==
  ASSUME WayInv, FillsRoutable, [Next]_vars, UNCHANGED pending_manual_orders,
         NEW line \in Lines, stdout' = Append(stdout, line),
         line.type = "trade" => \A id \in {line.maker, line.taker} \ {Bot} : Acknowledged(id)
  PROVE  FillsRoutable'
<1>1. stdout \in Seq(Lines) /\ Len(stdout) \in Nat
  BY DEF WayInv, FlowOK, EngineOK
<1>2. /\ DOMAIN stdout' = 1..(Len(stdout) + 1) /\ stdout'[Len(stdout) + 1] = line
      /\ \A j \in 1..Len(stdout) : stdout'[j] = stdout[j]
      /\ DOMAIN stdout = 1..Len(stdout)
  BY <1>1
<1> SUFFICES ASSUME NEW i \in DOMAIN stdout', stdout'[i].type = "trade",
                    NEW id \in {stdout'[i].maker, stdout'[i].taker} \ {Bot}
             PROVE  \/ origin'[id].number \in unanswered'
                    \/ id \in DOMAIN pending_manual_orders'
                    \/ \E j \in 1..(i - 1) : stdout'[j] = Ack(id)
  BY DEF FillsRoutable
<1>5. id \in Ids
  <2>1. stdout'[i] \in Lines
    BY <1>1, <1>2
  <2> QED BY <2>1, TradeKinds
<1>6. origin'[id] = origin[id] /\ unanswered \subseteq unanswered'
  BY <1>5, OrdersStay
<1>3. CASE i = Len(stdout) + 1
  <2>1. Acknowledged(id)
    BY <1>2, <1>3
  <2>2. \A j \in DOMAIN stdout : j \in 1..(i - 1) /\ stdout'[j] = stdout[j]
    BY <1>1, <1>2, <1>3
  <2> QED BY <2>1, <2>2, <1>6 DEF Learnt, Acknowledged
<1>4. CASE i # Len(stdout) + 1
  <2>1. i \in DOMAIN stdout /\ stdout'[i] = stdout[i] /\ \A j \in 1..(i - 1) : stdout'[j] = stdout[j]
    BY <1>1, <1>2, <1>4
  <2> QED BY <2>1, <1>6 DEF FillsRoutable
<1> QED BY <1>3, <1>4

(* No line is read or printed.                                             *)
LEMMA RoutableOtherwise ==
  ASSUME WayInv, FillsRoutable, [Next]_vars, UNCHANGED <<stdout, pending_manual_orders>>
  PROVE  FillsRoutable'
<1> SUFFICES ASSUME NEW i \in DOMAIN stdout, stdout[i].type = "trade",
                    NEW id \in {stdout[i].maker, stdout[i].taker} \ {Bot}
             PROVE  \/ origin'[id].number \in unanswered'
                    \/ id \in DOMAIN pending_manual_orders
                    \/ \E j \in 1..(i - 1) : stdout[j] = Ack(id)
  BY DEF FillsRoutable
<1>1. stdout[i] \in Lines
  BY DEF WayInv, FlowOK, EngineOK
<1>2. id \in Ids
  BY <1>1, TradeKinds
<1>3. origin'[id] = origin[id] /\ unanswered \subseteq unanswered'
  BY <1>2, OrdersStay
<1> QED BY <1>3 DEF FillsRoutable

LEMMA AcksStayAhead ==
  ASSUME WayInv, AcksAhead, [Next]_vars
  PROVE  AcksAhead'
<1>1. /\ EngineOK /\ queue \in Seq(Ids) /\ stdout \in Seq(Lines)
      /\ processed \in Ids \cup {Bot} /\ resting \subseteq Ids
      /\ reader.todo = <<"enqueue">> => reader.order_id \in Ids
  <2>1. IdleReader.todo # <<"enqueue">>
    BY DEF IdleReader
  <2> QED BY <2>1 DEF WayInv, FlowOK, EngineOK
<1>0. \A i \in DOMAIN queue : queue[i] \in Ids
  BY <1>1
<1>2. \A id \in Ids : Acknowledged(id) => Acknowledged(id)'
  BY AcknowledgedStays
<1>3. ASSUME UNCHANGED <<reader, queue, processed, resting>>, FillsRoutable'
      PROVE  AcksAhead'
  BY <1>0, <1>1, <1>2, <1>3 DEF AcksAhead
<1>4. ASSUME UNCHANGED <<stdout, pending_manual_orders>> PROVE FillsRoutable'
  BY <1>4, RoutableOtherwise DEF AcksAhead
<1>5. ASSUME NEW c \in Clients,
             Connect(c) \/ Logout(c) \/ (\E kind \in Kinds : Place(c, kind)) \/ Show(c)
      PROVE  AcksAhead'
  BY <1>3, <1>4, <1>5 DEF Connect, Logout, Place, Show, server, engine
<1>6. ASSUME NEW s \in Opened, Lose(s) \/ EndHandler(s) \/ websocket_handler(s)
      PROVE  AcksAhead'
  BY <1>3, <1>4, <1>6 DEF Lose, EndHandler, websocket_handler, server, engine
<1>7. ASSUME NEW i \in DOMAIN loop,
             SendTo(i) \/ (\E s \in Opened : Broadcast(i, s)) \/ EndBroadcast(i)
      PROVE  AcksAhead'
  BY <1>3, <1>4, <1>7 DEF SendTo, Broadcast, EndBroadcast, engine
<1>8. CASE stdout_reader_thread
  <2>1. FillsRoutable'
    BY <1>8, RoutableWhenRead DEF AcksAhead
  <2> QED BY <2>1, <1>3, <1>8 DEF stdout_reader_thread, engine
<1>9. CASE ReadCommand
  <2>1. UNCHANGED <<queue, processed, resting, pending_manual_orders>>
    BY <1>9 DEF ReadCommand, server
  <2>2. reader'.todo = <<"enqueue">> => UNCHANGED reader
    BY <1>9 DEF ReadCommand, Steps
  <2>3. \/ UNCHANGED stdout
        \/ \E line \in {Reject(Head(stdin)), Spoiled} : stdout' = Append(stdout, line)
    BY <1>9, LinePrinted DEF ReadCommand
  <2>4. ASSUME NEW line \in {Reject(Head(stdin)), Spoiled}
        PROVE  line \in Lines /\ line.type # "trade"
    <3>1. Head(stdin) \in Command
      BY <1>9 DEF ReadCommand, WayInv, FlowOK, CommandsOK
    <3> QED BY <3>1 DEF Lines, Reject, Spoiled
  <2>5. FillsRoutable'
    BY <2>1, <2>3, <2>4, <1>4, RoutableWhenPrinted DEF AcksAhead
  <2> QED BY <2>1, <2>2, <2>5, <1>0, <1>1, <1>2 DEF AcksAhead
<1>10. CASE PrintAck
  <2>1. /\ UNCHANGED <<queue, processed, resting, pending_manual_orders>>
        /\ reader'.order_id = reader.order_id /\ reader.order_id \in Ids /\ UNCHANGED origin
        /\ \/ stdout' = Append(stdout, Ack(reader.order_id))
           \/ /\ stdout' = Append(stdout, Spoiled)
              /\ unanswered' = unanswered \cup {origin[reader.order_id].number}
    BY <1>1, <1>10, ReaderSteps, LinePrinted DEF PrintAck, server
  <2>2. FillsRoutable'
    <3>1. ASSUME NEW line \in {Ack(reader.order_id), Spoiled}
          PROVE  line \in Lines /\ line.type # "trade"
      BY <2>1 DEF Lines, Ack, Spoiled
    <3> QED BY <2>1, <3>1, RoutableWhenPrinted DEF AcksAhead
  <2>3. Acknowledged(reader.order_id)'
    <3>1. CASE stdout' = Append(stdout, Ack(reader.order_id))
      <4>1. Len(stdout) + 1 \in DOMAIN stdout' /\ stdout'[Len(stdout) + 1] = Ack(reader.order_id)
        BY <3>1, <1>1
      <4> QED BY <2>1, <4>1 DEF Learnt, Acknowledged
    <3>2. CASE unanswered' = unanswered \cup {origin[reader.order_id].number}
      BY <2>1, <3>2 DEF Acknowledged
    <3> QED BY <2>1, <3>1, <3>2
  <2> QED BY <2>1, <2>2, <2>3, <1>0, <1>1, <1>2 DEF AcksAhead
<1>11. CASE Enqueue
  <2>1. /\ UNCHANGED <<stdout, processed, resting, pending_manual_orders>>
        /\ reader.todo = <<"enqueue">> /\ reader' = IdleReader
        /\ queue' = Append(queue, reader.order_id)
    BY <1>1, <1>11, ReaderSteps DEF Enqueue, server
  <2>2. reader'.todo # <<"enqueue">>
    BY <2>1 DEF IdleReader
  <2>3. \A i \in DOMAIN queue' : Acknowledged(queue'[i]) /\ queue'[i] \in Ids
    <3> SUFFICES ASSUME NEW i \in DOMAIN queue' PROVE Acknowledged(queue'[i]) /\ queue'[i] \in Ids
      OBVIOUS
    <3>1. (i \in DOMAIN queue /\ queue'[i] = queue[i]) \/ queue'[i] = reader.order_id
      BY <2>1, <1>1
    <3> QED BY <3>1, <2>1, <1>0, <1>1 DEF AcksAhead
  <2>4. (\A i \in DOMAIN queue : Acknowledged(queue[i]))'
    BY <2>3, <1>2
  <2>5. FillsRoutable'
    BY <2>1, <1>4
  <2> QED BY <2>1, <2>2, <2>4, <2>5, <1>1, <1>2 DEF AcksAhead
<1>12. CASE Dequeue
  <2>1. /\ UNCHANGED <<stdout, reader, resting, pending_manual_orders>>
        /\ queue # <<>> /\ processed' = Head(queue) /\ queue' = Tail(queue)
    BY <1>12 DEF Dequeue, server
  <2>2. /\ Head(queue) = queue[1] /\ 1 \in DOMAIN queue
        /\ \A i \in DOMAIN queue' : i + 1 \in DOMAIN queue /\ queue'[i] = queue[i + 1]
    BY <2>1, <1>1
  <2>3. /\ Acknowledged(processed') /\ processed' \in Ids
        /\ \A i \in DOMAIN queue' : Acknowledged(queue'[i]) /\ queue'[i] \in Ids
    BY <2>1, <2>2, <1>0 DEF AcksAhead
  <2>4. (processed # Bot => Acknowledged(processed))' /\ (\A i \in DOMAIN queue : Acknowledged(queue[i]))'
    BY <2>3, <1>2
  <2> QED BY <2>1, <2>4, <1>1, <1>2, <1>4 DEF AcksAhead
<1>13. ASSUME NEW maker \in 0..MaxCommands, on_trade(maker) PROVE AcksAhead'
  <2>1. /\ UNCHANGED <<reader, queue, processed, pending_manual_orders>>
        /\ maker \in resting \cup {Bot} /\ resting' \subseteq resting
        /\ \E line \in {TradeLine(maker, processed), Spoiled} : stdout' = Append(stdout, line)
    BY <1>13, LinePrinted DEF on_trade, server
  <2>2. PICK line \in {TradeLine(maker, processed), Spoiled} : stdout' = Append(stdout, line)
    BY <2>1
  <2>3. line.type = "trade" => \A id \in {line.maker, line.taker} \ {Bot} : Acknowledged(id)
    BY <2>1 DEF AcksAhead, TradeLine, Spoiled
  <2>4. line \in Lines
    <3>1. maker \in Ids \cup {Bot} /\ processed \in Ids \cup {Bot}
      BY <2>1, <1>1
    <3>2. TradeLine(maker, processed) \in Lines /\ Spoiled \in Lines
      BY <3>1 DEF Lines
    <3> QED BY <3>2
  <2>5. FillsRoutable'
    BY <2>1, <2>2, <2>3, <2>4, RoutableWhenPrinted DEF AcksAhead
  <2> QED BY <2>1, <2>5, <1>0, <1>1, <1>2 DEF AcksAhead
<1>14. CASE Processed
  <2>1. /\ UNCHANGED <<stdout, reader, queue, pending_manual_orders>>
        /\ processed' = Bot /\ processed # Bot
        /\ resting' \in {resting, resting \cup {processed}}
    BY <1>14 DEF Processed, server
  <2> QED BY <2>1, <1>0, <1>1, <1>2, <1>4 DEF AcksAhead
<1>15. CASE UNCHANGED vars
  BY <1>3, <1>4, <1>15 DEF vars, server, engine
<1> QED
  BY <1>5, <1>6, <1>7, <1>8, <1>9, <1>10, <1>11, <1>12, <1>13, <1>14, <1>15 DEF Next

(* Whatever stdin_reader skips, whichever lines are spoiled, and whoever   *)
(* comes and goes: when the server reads that a manual order has traded, it*)
(* knows of the order, unless that order's own ack was spoiled.            *)
THEOREM FillsAlwaysRoutable == Spec => []FillsRoutable
<1>1. Init => AcksAhead
  <2> SUFFICES ASSUME Init PROVE AcksAhead
    OBVIOUS
  <2>1. /\ DOMAIN stdout = {} /\ DOMAIN queue = {} /\ processed = Bot /\ resting = {}
        /\ reader.todo # <<"enqueue">>
    BY DEF Init, IdleReader
  <2> QED BY <2>1 DEF AcksAhead, FillsRoutable
<1>2. AcksAhead /\ WayInv /\ [Next]_vars => AcksAhead'
  BY AcksStayAhead
<1>3. AcksAhead => FillsRoutable
  BY DEF AcksAhead
<1> QED BY <1>1, <1>2, <1>3, WayAlways, PTL DEF Spec
-----------------------------------------------------------------------------
(* The pages: a terminal's rows, and the row that the next answer is for.  *)
TerminalRows ==
  [command : 0..MaxCommands, order_id : Nat,
   status : {"PENDING", "RESTING", "REJECTED", "FILLED"}]

PageOK(t) ==
  /\ t \in [rows : Seq(TerminalRows), lastProvisionalKey : Nat]
  /\ Len(t.rows) <= FullList

PagesOK ==
  /\ terminals = [c \in Clients |-> terminals[c]]
  /\ \A c \in Clients : PageOK(terminals[c]) /\ terminals[c].lastProvisionalKey <= commands

(* How many rows are cut when one is added.                                *)
Cut(t) == IF Len(t.rows) = FullList THEN 1 ELSE 0

(* A row is added at the end, and the oldest goes when the list is full.   *)
LEMMA EntryAdded ==
  ASSUME NEW t, PageOK(t), NEW row \in TerminalRows
  PROVE  /\ PageOK(addOrderEntry(t, row))
         /\ addOrderEntry(t, row).lastProvisionalKey = t.lastProvisionalKey
         /\ Cut(t) \in {0, 1} /\ Len(t.rows) \in Nat /\ Cut(t) <= Len(t.rows)
         /\ Len(addOrderEntry(t, row).rows) = Len(t.rows) + 1 - Cut(t)
         /\ addOrderEntry(t, row).rows[Len(t.rows) + 1 - Cut(t)] = row
         /\ \A i \in 1..(Len(t.rows) - Cut(t)) :
              addOrderEntry(t, row).rows[i] = t.rows[i + Cut(t)]
<1> DEFINE q == Append(t.rows, row)
           n == Len(t.rows)
           u == addOrderEntry(t, row)
<1>1. t \in [rows : Seq(TerminalRows), lastProvisionalKey : Nat] /\ n \in Nat /\ n <= FullList
  BY DEF PageOK
<1>2. FullList \in Nat \ {0}
  BY TerminalAssumption DEF FullList
<1>3. /\ q \in Seq(TerminalRows) /\ Len(q) = n + 1 /\ q[n + 1] = row
      /\ \A i \in 1..n : q[i] = t.rows[i]
  BY <1>1
<1>4. u = [t EXCEPT !.rows = IF Len(q) > FullList THEN Tail(q) ELSE q]
  BY DEF addOrderEntry
<1> HIDE DEF q, u
<1>5. CASE n = FullList
  <2>1. Cut(t) = 1 /\ Len(q) > FullList
    BY <1>1, <1>2, <1>3, <1>5 DEF Cut
  <2>2. /\ Tail(q) \in Seq(TerminalRows) /\ Len(Tail(q)) = n
        /\ \A i \in 1..n : Tail(q)[i] = q[i + 1]
    BY <1>1, <1>3
  <2>3. u = [t EXCEPT !.rows = Tail(q)]
    BY <2>1, <1>4
  <2>4. u.rows = Tail(q) /\ u.lastProvisionalKey = t.lastProvisionalKey /\ PageOK(u)
    BY <2>2, <2>3, <1>1 DEF PageOK
  <2>5. n \in 1..n /\ \A i \in 1..(n - 1) : i \in 1..n /\ i + 1 \in 1..n
    BY <1>1, <1>2, <1>5
  <2>6. u.rows[n] = row /\ \A i \in 1..(n - 1) : u.rows[i] = t.rows[i + 1]
    BY <2>2, <2>4, <2>5, <1>3
  <2>7. 1 <= n /\ n + 1 - 1 = n
    BY <1>1, <1>2, <1>5
  <2> QED BY <2>1, <2>2, <2>4, <2>6, <2>7, <1>1 DEF u
<1>6. CASE n # FullList
  <2>1. Cut(t) = 0 /\ ~(Len(q) > FullList)
    BY <1>1, <1>2, <1>3, <1>6 DEF Cut
  <2>2. u = [t EXCEPT !.rows = q]
    BY <2>1, <1>4
  <2>3. u.rows = q /\ u.lastProvisionalKey = t.lastProvisionalKey /\ PageOK(u)
    BY <2>1, <2>2, <1>1, <1>2, <1>3 DEF PageOK
  <2>4. n + 1 - 0 = n + 1 /\ \A i \in 1..(n - 0) : i \in 1..n /\ i + 0 = i
    BY <1>1
  <2> QED BY <2>1, <2>3, <2>4, <1>1, <1>3 DEF u
<1> QED BY <1>5, <1>6

LEMMA PlaceOrderPage ==
  ASSUME NEW t, PageOK(t), NEW command \in 1..MaxCommands
  PROVE  /\ PageOK(PlaceOrder(t, command))
         /\ PlaceOrder(t, command).lastProvisionalKey = command
         /\ PlaceOrder(t, command).rows = addOrderEntry(t, Row(command, 0, "PENDING")).rows
<1> DEFINE row == Row(command, 0, "PENDING")
           u == addOrderEntry(t, row)
<1>1. row \in TerminalRows
  BY DEF Row, TerminalRows
<1>2. PageOK(u)
  BY <1>1, EntryAdded
<1>3. PlaceOrder(t, command) = [u EXCEPT !.lastProvisionalKey = command]
  BY DEF PlaceOrder
<1>4. command \in Nat
  BY ManualAssumption
<1> HIDE DEF u
<1>5. u \in [rows : Seq(TerminalRows), lastProvisionalKey : Nat] /\ Len(u.rows) <= FullList
  BY <1>2 DEF PageOK
<1>6. /\ PlaceOrder(t, command).rows = u.rows
      /\ PlaceOrder(t, command).lastProvisionalKey = command
      /\ PlaceOrder(t, command) \in [rows : Seq(TerminalRows), lastProvisionalKey : Nat]
  BY <1>3, <1>4, <1>5
<1> QED BY <1>5, <1>6 DEF PageOK, u

(* A message changes rows where they are.                                  *)
LEMMA RowsChanged ==
  ASSUME NEW t, PageOK(t), NEW key \in Nat, NEW q, q = [i \in DOMAIN t.rows |-> q[i]],
         \A i \in DOMAIN t.rows : q[i] \in TerminalRows
  PROVE  /\ PageOK([rows |-> q, lastProvisionalKey |-> key])
         /\ DOMAIN t.rows = 1..Len(t.rows) /\ Len(t.rows) \in Nat
         /\ Len(q) = Len(t.rows)
<1>1. t.rows \in Seq(TerminalRows) /\ Len(t.rows) <= FullList
  BY DEF PageOK
<1>2. DOMAIN t.rows = 1..Len(t.rows) /\ Len(t.rows) \in Nat
  BY <1>1
<1>3. q \in [1..Len(t.rows) -> TerminalRows]
  BY <1>2
<1>4. q \in Seq(TerminalRows) /\ Len(q) = Len(t.rows)
  BY <1>2, <1>3
<1>5. PageOK([rows |-> q, lastProvisionalKey |-> key])
  BY <1>1, <1>4 DEF PageOK
<1> QED BY <1>2, <1>4, <1>5

LEMMA RowTyped ==
  ASSUME NEW t, PageOK(t), NEW i \in DOMAIN t.rows, NEW order_id \in Nat,
         NEW status \in {"RESTING", "REJECTED", "FILLED"}
  PROVE  t.rows[i] \in TerminalRows /\ Row(t.rows[i].command, order_id, status) \in TerminalRows
<1>1. t.rows[i] \in TerminalRows
  BY DEF PageOK
<1> QED BY <1>1 DEF Row, TerminalRows

LEMMA AckPage ==
  ASSUME NEW t, PageOK(t), NEW order_id \in Nat
  PROVE  /\ PageOK(handleAck(t, order_id))
         /\ handleAck(t, order_id).lastProvisionalKey = NoOrder
         /\ Len(handleAck(t, order_id).rows) = Len(t.rows)
<1>1. CASE t.lastProvisionalKey = NoOrder
  BY <1>1 DEF handleAck
<1>2. CASE t.lastProvisionalKey # NoOrder
  <2> DEFINE q == [i \in DOMAIN t.rows |->
                     IF i \in BoundRow(t) THEN Row(t.rows[i].command, order_id, "RESTING")
                     ELSE t.rows[i]]
  <2>1. \A i \in DOMAIN t.rows : q[i] \in TerminalRows
    BY RowTyped
  <2>2. handleAck(t, order_id) = [rows |-> q, lastProvisionalKey |-> NoOrder]
    BY <1>2 DEF handleAck
  <2>3. q = [i \in DOMAIN t.rows |-> q[i]] /\ NoOrder \in Nat
    BY DEF NoOrder
  <2> HIDE DEF q
  <2>4. PageOK([rows |-> q, lastProvisionalKey |-> NoOrder]) /\ Len(q) = Len(t.rows)
    BY <2>1, <2>3, RowsChanged
  <2> QED BY <2>2, <2>4
<1> QED BY <1>1, <1>2

LEMMA RejectPage ==
  ASSUME NEW t, PageOK(t)
  PROVE  /\ PageOK(handleOrderReject(t))
         /\ handleOrderReject(t).lastProvisionalKey = NoOrder
         /\ Len(handleOrderReject(t).rows) = Len(t.rows)
<1>1. CASE t.lastProvisionalKey = NoOrder
  BY <1>1 DEF handleOrderReject
<1>2. CASE t.lastProvisionalKey # NoOrder
  <2> DEFINE q == [i \in DOMAIN t.rows |->
                     IF i \in BoundRow(t) THEN Row(t.rows[i].command, 0, "REJECTED")
                     ELSE t.rows[i]]
  <2>1. \A i \in DOMAIN t.rows : q[i] \in TerminalRows
    BY RowTyped
  <2>2. handleOrderReject(t) = [rows |-> q, lastProvisionalKey |-> NoOrder]
    BY <1>2 DEF handleOrderReject
  <2>3. q = [i \in DOMAIN t.rows |-> q[i]] /\ NoOrder \in Nat
    BY DEF NoOrder
  <2> HIDE DEF q
  <2>4. PageOK([rows |-> q, lastProvisionalKey |-> NoOrder]) /\ Len(q) = Len(t.rows)
    BY <2>1, <2>3, RowsChanged
  <2> QED BY <2>2, <2>4
<1> QED BY <1>1, <1>2

(* A fill adds a row at the end, or changes some.                          *)
LEMMA FillPage ==
  ASSUME NEW t, PageOK(t), NEW order_id \in Nat
  PROVE  /\ PageOK(handleManualFill(t, order_id))
         /\ handleManualFill(t, order_id).lastProvisionalKey = t.lastProvisionalKey
<1>1. CASE RowOf(t, order_id) = {}
  <2>1. FillRow \in TerminalRows
    BY ManualAssumption DEF FillRow, Row, NoOrder, TerminalRows
  <2> QED BY <2>1, <1>1, EntryAdded DEF handleManualFill
<1>2. CASE RowOf(t, order_id) # {}
  <2> DEFINE q == [i \in DOMAIN t.rows |->
                     IF i \in RowOf(t, order_id)
                     THEN Row(t.rows[i].command, order_id, "FILLED") ELSE t.rows[i]]
  <2>1. (\A i \in DOMAIN t.rows : q[i] \in TerminalRows) /\ q = [i \in DOMAIN t.rows |-> q[i]]
    BY RowTyped
  <2>2. handleManualFill(t, order_id) = [t EXCEPT !.rows = q]
    BY <1>2 DEF handleManualFill
  <2> HIDE DEF q
  <2>3. t \in [rows : Seq(TerminalRows), lastProvisionalKey : Nat]
    BY DEF PageOK
  <2>4. PageOK([rows |-> q, lastProvisionalKey |-> t.lastProvisionalKey])
    BY <2>1, <2>3, RowsChanged
  <2>5. [t EXCEPT !.rows = q] = [rows |-> q, lastProvisionalKey |-> t.lastProvisionalKey]
    BY <2>3
  <2> QED BY <2>2, <2>4, <2>5
<1> QED BY <1>1, <1>2

LEMMA MessagePage ==
  ASSUME FlowOK, NEW t, PageOK(t), NEW s, NEW message \in Acks \cup Fills \cup Rejections(s)
  PROVE  /\ PageOK(onmessage(t, message))
         /\ onmessage(t, message).lastProvisionalKey \in {NoOrder, t.lastProvisionalKey}
<1>1. Ids \subseteq Nat
  BY DEF FlowOK, EngineOK, Ids
<1>2. CASE message \in Acks
  <2>1. message.type = "ack" /\ message.order_id \in Nat
    BY <1>1, <1>2 DEF Acks, Ack
  <2> QED BY <2>1, AckPage DEF onmessage
<1>3. CASE message \in Fills
  <2>1. message.type = "manual_fill" /\ message.order_id \in Nat
    BY <1>1, <1>3 DEF Fills
  <2> QED BY <2>1, FillPage DEF onmessage
<1>4. CASE message \in Rejections(s)
  <2>1. message.type = "order_reject"
    BY <1>4 DEF Rejections
  <2> QED BY <2>1, RejectPage DEF onmessage
<1> QED BY <1>2, <1>3, <1>4

LEMMA PagesKeep ==
  ASSUME WayInv, PagesOK, [Next]_vars
  PROVE  PagesOK'
<1>0. commands \in Nat
  BY ManualAssumption DEF WayInv, FlowOK, CommandsOK
<1>1. ASSUME NEW c \in Clients, NEW t, PageOK(t), terminals' = [terminals EXCEPT ![c] = t],
             t.lastProvisionalKey <= commands', commands' \in {commands, commands + 1}
      PROVE  PagesOK'
  <2>1. ASSUME NEW d \in Clients
        PROVE  PageOK(terminals'[d]) /\ terminals'[d].lastProvisionalKey <= commands'
    <3>1. CASE d = c
      BY <3>1, <1>1 DEF PagesOK
    <3>2. CASE d # c
      <4>1. terminals'[d] = terminals[d] /\ terminals[d].lastProvisionalKey \in Nat
        BY <3>2, <1>1 DEF PagesOK, PageOK
      <4> QED BY <4>1, <1>0, <1>1 DEF PagesOK
    <3> QED BY <3>1, <3>2
  <2>2. terminals' = [d \in Clients |-> terminals'[d]]
    BY <1>1 DEF PagesOK
  <2> QED BY <2>1, <2>2 DEF PagesOK, PageOK
<1>2. UNCHANGED <<terminals, commands>> => PagesOK'
  BY DEF PagesOK, PageOK
<1>3. ASSUME NEW c \in Clients, NEW kind \in Kinds, Place(c, kind) PROVE PagesOK'
  <2>1. commands' \in 1..MaxCommands
    BY <1>3, ManualAssumption DEF Place, WayInv, FlowOK, CommandsOK
  <2>2. /\ PageOK(PlaceOrder(terminals[c], commands'))
        /\ PlaceOrder(terminals[c], commands').lastProvisionalKey = commands'
    BY <2>1, PlaceOrderPage DEF PagesOK
  <2>3. commands' = commands + 1 /\ commands' <= commands'
    BY <1>0, <1>3 DEF Place
  <2> QED BY <2>2, <2>3, <1>1, <1>3 DEF Place
<1>4. ASSUME NEW c \in Clients, Show(c) PROVE PagesOK'
  <2>1. ws[c] \in Sockets /\ to_client[ws[c]] # <<>>
    BY <1>4, ManualAssumption
       DEF Show, WayInv, FlowOK, SocketsOK, Opened, NoSocket, Sockets
  <2>2. Head(to_client[ws[c]]) \in Acks \cup Fills \cup Rejections(ws[c])
    <3>1. to_client[ws[c]] \in Seq(Acks \cup Fills \cup Rejections(ws[c]))
      BY <2>1 DEF WayInv, FlowOK, AnswersOK
    <3> QED BY <3>1, <2>1
  <2> DEFINE t == onmessage(terminals[c], Head(to_client[ws[c]]))
  <2>3. PageOK(t) /\ t.lastProvisionalKey \in {NoOrder, terminals[c].lastProvisionalKey}
    BY <2>2, MessagePage DEF WayInv, PagesOK
  <2>4. t.lastProvisionalKey <= commands
    BY <2>3, <1>0 DEF PagesOK, NoOrder
  <2>5. terminals' = [terminals EXCEPT ![c] = t] /\ UNCHANGED commands
    BY <1>4 DEF Show
  <2> HIDE DEF t
  <2> QED BY <2>3, <2>4, <2>5, <1>1
<1>5. ASSUME NEW c \in Clients, Connect(c) \/ Logout(c) PROVE PagesOK'
  BY <1>2, <1>5 DEF Connect, Logout, pages
<1>6. ASSUME NEW s \in Opened, Lose(s) \/ EndHandler(s) \/ websocket_handler(s) PROVE PagesOK'
  BY <1>2, <1>6 DEF Lose, EndHandler, websocket_handler, pages
<1>7. ASSUME NEW i \in DOMAIN loop,
             SendTo(i) \/ (\E s \in Opened : Broadcast(i, s)) \/ EndBroadcast(i)
      PROVE  PagesOK'
  BY <1>2, <1>7 DEF SendTo, Broadcast, EndBroadcast, pages
<1>8. CASE stdout_reader_thread \/ ReadCommand \/ PrintAck \/ Enqueue \/ Dequeue \/ Processed
             \/ \E maker \in 0..MaxCommands : on_trade(maker)
  BY <1>2, <1>8 DEF stdout_reader_thread, ReadCommand, PrintAck, Enqueue, Dequeue, Processed,
                    on_trade, pages
<1>9. CASE UNCHANGED vars
  BY <1>2, <1>9 DEF vars, pages
<1> QED BY <1>3, <1>4, <1>5, <1>6, <1>7, <1>8, <1>9 DEF Next
-----------------------------------------------------------------------------
(* Every command is in one place: its number is that of no other command   *)
(* on its way to stdin_reader and of no order.                             *)
ServerApart ==
  \A s \in Sockets : \A i \in 1..Len(to_server[s]) :
    /\ to_server[s][i].number <= commands
    /\ \A j \in 1..Len(to_server[s]) : i # j => to_server[s][i].number # to_server[s][j].number
    /\ \A r \in Sockets : \A j \in 1..Len(to_server[r]) :
         s # r => to_server[s][i].number # to_server[r][j].number
    /\ \A j \in 1..Len(stdin) : to_server[s][i].number # stdin[j].number
    /\ \A id \in Ids : to_server[s][i].number # origin[id].number

StdinApart ==
  \A i \in 1..Len(stdin) :
    /\ stdin[i].number <= commands
    /\ \A j \in 1..Len(stdin) : i # j => stdin[i].number # stdin[j].number
    /\ \A id \in Ids : stdin[i].number # origin[id].number

OrdersApart ==
  \A id \in Ids :
    /\ origin[id].number <= commands
    /\ \A other \in Ids : id # other => origin[id].number # origin[other].number

NumbersApart == ServerApart /\ StdinApart /\ OrdersApart

LEMMA NumbersStay ==
  ASSUME NumbersApart, UNCHANGED <<commands, to_server, stdin, origin>>
  PROVE  NumbersApart'
BY DEF NumbersApart, ServerApart, StdinApart, OrdersApart, Ids

LEMMA PlaceApart ==
  ASSUME FlowOK, NumbersApart, NEW c \in Clients, NEW kind \in Kinds, Place(c, kind)
  PROVE  NumbersApart'
<1> DEFINE new == [number |-> commands', socket |-> ws[c], kind |-> kind]
           w == ws[c]
<1>1. /\ UNCHANGED <<stdin, origin>> /\ commands' = commands + 1 /\ w # NoSocket
      /\ to_server' = [to_server EXCEPT ![w] = Append(to_server[w], new)]
  BY DEF Place, server, engine
<1>2. w \in Sockets
  BY <1>1, ManualAssumption DEF FlowOK, SocketsOK, Opened, Sockets, NoSocket
<1>3. /\ commands \in Nat /\ to_server \in [Sockets -> Seq(Command)] /\ stdin \in Seq(Command)
      /\ origin \in [Ids -> Command] /\ \A x \in Command : x.number \in Nat
  <2>1. /\ commands \in Nat /\ to_server \in [Sockets -> Seq(Command)] /\ stdin \in Seq(Command)
    BY ManualAssumption DEF FlowOK, CommandsOK
  <2>2. origin \in [Ids -> Command]
    <3>1. origin \in [1..(global_order_id - 1) -> Command]
      BY DEF FlowOK, EngineOK
    <3> QED BY <3>1 DEF Ids
  <2>3. \A x \in Command : x.number \in Nat
    BY ManualAssumption DEF Command
  <2> QED BY <2>1, <2>2, <2>3
<1>4. new.number = commands + 1
  BY <1>1
<1> HIDE DEF new, w
<1>5. /\ to_server'[w] = Append(to_server[w], new)
      /\ \A s \in Sockets : s # w => to_server'[s] = to_server[s]
  BY <1>1, <1>2, <1>3
<1>6. /\ Len(to_server'[w]) = Len(to_server[w]) + 1 /\ Len(to_server[w]) \in Nat
      /\ to_server'[w][Len(to_server[w]) + 1] = new
      /\ \A i \in 1..Len(to_server[w]) : to_server'[w][i] = to_server[w][i]
  BY <1>2, <1>3, <1>5
<1>7. ASSUME NEW s \in Sockets, NEW i \in 1..Len(to_server'[s])
      PROVE  \/ i \in 1..Len(to_server[s]) /\ to_server'[s][i] = to_server[s][i]
             \/ s = w /\ i = Len(to_server[w]) + 1 /\ to_server'[s][i] = new
  BY <1>5, <1>6
<1>8. /\ \A s \in Sockets : \A i \in 1..Len(to_server[s]) :
           to_server[s][i].number \in Nat /\ to_server[s][i].number <= commands
      /\ \A i \in 1..Len(stdin) : stdin[i].number \in Nat /\ stdin[i].number <= commands
      /\ \A id \in Ids : origin[id].number \in Nat /\ origin[id].number <= commands
  <2>1. ASSUME NEW s \in Sockets, NEW i \in 1..Len(to_server[s])
        PROVE  to_server[s][i].number \in Nat /\ to_server[s][i].number <= commands
    <3>1. to_server[s] \in Seq(Command)
      BY <1>3
    <3>2. to_server[s][i] \in Command
      BY <3>1
    <3> QED BY <3>2, <1>3 DEF NumbersApart, ServerApart
  <2>2. ASSUME NEW i \in 1..Len(stdin)
        PROVE  stdin[i].number \in Nat /\ stdin[i].number <= commands
    <3>1. stdin[i] \in Command
      BY <1>3
    <3> QED BY <3>1, <1>3 DEF NumbersApart, StdinApart
  <2>3. ASSUME NEW id \in Ids
        PROVE  origin[id].number \in Nat /\ origin[id].number <= commands
    <3>1. origin[id] \in Command
      BY <1>3
    <3> QED BY <3>1, <1>3 DEF NumbersApart, OrdersApart
  <2> QED BY <2>1, <2>2, <2>3
<1>9. ASSUME NEW s \in Sockets, NEW i \in 1..Len(to_server'[s])
      PROVE  /\ to_server'[s][i].number <= commands + 1
             /\ \A j \in 1..Len(to_server'[s]) :
                  i # j => to_server'[s][i].number # to_server'[s][j].number
             /\ \A r \in Sockets : \A j \in 1..Len(to_server'[r]) :
                  s # r => to_server'[s][i].number # to_server'[r][j].number
             /\ \A j \in 1..Len(stdin) : to_server'[s][i].number # stdin[j].number
             /\ \A id \in Ids : to_server'[s][i].number # origin[id].number
  <2>1. ASSUME NEW r \in Sockets, NEW j \in 1..Len(to_server'[r]), s # r \/ i # j
        PROVE  to_server'[s][i].number # to_server'[r][j].number
    <3>1. CASE /\ i \in 1..Len(to_server[s]) /\ to_server'[s][i] = to_server[s][i]
               /\ j \in 1..Len(to_server[r]) /\ to_server'[r][j] = to_server[r][j]
      BY <2>1, <3>1 DEF NumbersApart, ServerApart
    <3>2. CASE /\ i \in 1..Len(to_server[s]) /\ to_server'[s][i] = to_server[s][i]
               /\ to_server'[r][j] = new
      <4>1. to_server[s][i].number \in Nat /\ to_server[s][i].number <= commands
        BY <3>2, <1>8
      <4> QED BY <4>1, <3>2, <1>3, <1>4
    <3>3. CASE /\ j \in 1..Len(to_server[r]) /\ to_server'[r][j] = to_server[r][j]
               /\ to_server'[s][i] = new
      <4>1. to_server[r][j].number \in Nat /\ to_server[r][j].number <= commands
        BY <3>3, <1>8
      <4> QED BY <4>1, <3>3, <1>3, <1>4
    <3>4. ~ (s = w /\ i = Len(to_server[w]) + 1 /\ r = w /\ j = Len(to_server[w]) + 1)
      BY <2>1
    <3> QED BY <3>1, <3>2, <3>3, <3>4, <1>7
  <2>2. to_server'[s][i].number <= commands + 1
    <3>1. CASE i \in 1..Len(to_server[s]) /\ to_server'[s][i] = to_server[s][i]
      <4>1. to_server[s][i].number \in Nat /\ to_server[s][i].number <= commands
        BY <3>1, <1>8
      <4> QED BY <4>1, <3>1, <1>3
    <3>2. CASE to_server'[s][i] = new
      BY <3>2, <1>3, <1>4
    <3> QED BY <3>1, <3>2, <1>7
  <2>3. ASSUME NEW j \in 1..Len(stdin) PROVE to_server'[s][i].number # stdin[j].number
    <3>1. CASE i \in 1..Len(to_server[s]) /\ to_server'[s][i] = to_server[s][i]
      BY <3>1 DEF NumbersApart, ServerApart
    <3>2. CASE to_server'[s][i] = new
      <4>1. stdin[j].number \in Nat /\ stdin[j].number <= commands
        BY <1>8
      <4> QED BY <4>1, <3>2, <1>3, <1>4
    <3> QED BY <3>1, <3>2, <1>7
  <2>4. ASSUME NEW id \in Ids PROVE to_server'[s][i].number # origin[id].number
    <3>1. CASE i \in 1..Len(to_server[s]) /\ to_server'[s][i] = to_server[s][i]
      BY <3>1 DEF NumbersApart, ServerApart
    <3>2. CASE to_server'[s][i] = new
      <4>1. origin[id].number \in Nat /\ origin[id].number <= commands
        BY <1>8
      <4> QED BY <4>1, <3>2, <1>3, <1>4
    <3> QED BY <3>1, <3>2, <1>7
  <2> QED BY <2>1, <2>2, <2>3, <2>4
<1>10. /\ \A i \in 1..Len(stdin) : stdin[i].number <= commands + 1
       /\ \A id \in Ids : origin[id].number <= commands + 1
  BY <1>3, <1>8
<1>11. Ids' = Ids
  BY <1>1 DEF Ids
<1>12. ServerApart'
  BY <1>1, <1>9, <1>11 DEF ServerApart
<1>13. StdinApart' /\ OrdersApart'
  BY <1>1, <1>10, <1>11 DEF NumbersApart, StdinApart, OrdersApart
<1> QED BY <1>12, <1>13 DEF NumbersApart

LEMMA HandlerApart ==
  ASSUME FlowOK, NumbersApart, NEW s \in Opened, websocket_handler(s)
  PROVE  NumbersApart'
<1> DEFINE new == Head(to_server[s])
<1>1. /\ UNCHANGED <<commands, origin>>
      /\ to_server[s] # <<>> /\ to_server' = [to_server EXCEPT ![s] = Tail(to_server[s])]
      /\ UNCHANGED stdin \/ stdin' = Append(stdin, new)
  BY DEF websocket_handler, engine, pages
<1>2. s \in Sockets
  BY ManualAssumption DEF FlowOK, SocketsOK, Opened, Sockets
<1>3. to_server \in [Sockets -> Seq(Command)] /\ stdin \in Seq(Command)
  BY DEF FlowOK, CommandsOK
<1>4. /\ new = to_server[s][1] /\ 1 \in 1..Len(to_server[s]) /\ new \in Command
      /\ to_server'[s] = Tail(to_server[s])
      /\ \A i \in 1..Len(to_server'[s]) :
           i + 1 \in 1..Len(to_server[s]) /\ to_server'[s][i] = to_server[s][i + 1] /\ i + 1 # 1
      /\ \A r \in Sockets : r # s => to_server'[r] = to_server[r]
  BY <1>1, <1>2, <1>3
<1> HIDE DEF new
<1>5. ASSUME NEW i \in 1..Len(stdin')
      PROVE  \/ i \in 1..Len(stdin) /\ stdin'[i] = stdin[i]
             \/ i = Len(stdin) + 1 /\ stdin'[i] = new /\ stdin' # stdin
  BY <1>1, <1>3, <1>4
<1>6. ASSUME NEW r \in Sockets, NEW i \in 1..Len(to_server'[r])
      PROVE  \E k \in 1..Len(to_server[r]) : /\ to_server'[r][i] = to_server[r][k]
                                             /\ r = s => k = i + 1
                                             /\ r # s => k = i
  BY <1>4
<1>7. ASSUME NEW r \in Sockets, NEW i \in 1..Len(to_server'[r])
      PROVE  /\ to_server'[r][i].number <= commands
             /\ \A j \in 1..Len(to_server'[r]) :
                  i # j => to_server'[r][i].number # to_server'[r][j].number
             /\ \A q \in Sockets : \A j \in 1..Len(to_server'[q]) :
                  r # q => to_server'[r][i].number # to_server'[q][j].number
             /\ \A j \in 1..Len(stdin') : to_server'[r][i].number # stdin'[j].number
             /\ \A id \in Ids : to_server'[r][i].number # origin[id].number
  <2>1. PICK k \in 1..Len(to_server[r]) : /\ to_server'[r][i] = to_server[r][k]
                                          /\ r = s => k = i + 1
                                          /\ r # s => k = i
    BY <1>6
  <2>2. ASSUME NEW q \in Sockets, NEW j \in 1..Len(to_server'[q]), r # q \/ i # j
        PROVE  to_server'[r][i].number # to_server'[q][j].number
    <3>1. PICK l \in 1..Len(to_server[q]) : /\ to_server'[q][j] = to_server[q][l]
                                            /\ q = s => l = j + 1
                                            /\ q # s => l = j
      BY <1>6
    <3>2. r # q \/ k # l
      BY <2>1, <2>2, <3>1
    <3> QED BY <2>1, <3>1, <3>2 DEF NumbersApart, ServerApart, StdinApart, OrdersApart
  <2>3. ASSUME NEW j \in 1..Len(stdin') PROVE to_server'[r][i].number # stdin'[j].number
    <3>1. CASE j \in 1..Len(stdin) /\ stdin'[j] = stdin[j]
      BY <2>1, <3>1 DEF NumbersApart, ServerApart, StdinApart, OrdersApart
    <3>2. CASE stdin'[j] = new
      <4>1. r = s => k # 1
        BY <2>1, <1>4
      <4> QED BY <2>1, <3>2, <4>1, <1>2, <1>4 DEF NumbersApart, ServerApart, StdinApart, OrdersApart
    <3> QED BY <3>1, <3>2, <1>5
  <2>4. /\ to_server'[r][i].number <= commands
        /\ \A id \in Ids : to_server'[r][i].number # origin[id].number
    BY <2>1 DEF NumbersApart, ServerApart, StdinApart, OrdersApart
  <2> QED BY <2>2, <2>3, <2>4
<1>8. ASSUME NEW i \in 1..Len(stdin')
      PROVE  /\ stdin'[i].number <= commands
             /\ \A j \in 1..Len(stdin') : i # j => stdin'[i].number # stdin'[j].number
             /\ \A id \in Ids : stdin'[i].number # origin[id].number
  <2>1. /\ new.number <= commands
        /\ \A j \in 1..Len(stdin) : new.number # stdin[j].number
        /\ \A id \in Ids : new.number # origin[id].number
    BY <1>2, <1>4 DEF NumbersApart, ServerApart, StdinApart, OrdersApart
  <2>2. ASSUME NEW j \in 1..Len(stdin'), i # j PROVE stdin'[i].number # stdin'[j].number
    BY <2>1, <2>2, <1>5 DEF NumbersApart, ServerApart, StdinApart, OrdersApart
  <2>3. stdin'[i].number <= commands /\ \A id \in Ids : stdin'[i].number # origin[id].number
    BY <2>1, <1>5 DEF NumbersApart, ServerApart, StdinApart, OrdersApart
  <2> QED BY <2>2, <2>3
<1>9. Ids' = Ids
  BY <1>1 DEF Ids
<1>10. ServerApart'
  <2>1. commands' = commands /\ \A id \in Ids' : id \in Ids /\ origin'[id] = origin[id]
    BY <1>1, <1>9
  <2> QED BY <2>1, <1>7 DEF ServerApart
<1>11. StdinApart'
  BY <1>1, <1>8, <1>9 DEF StdinApart
<1>12. OrdersApart'
  BY <1>1, <1>9 DEF NumbersApart, OrdersApart
<1> QED BY <1>10, <1>11, <1>12 DEF NumbersApart

LEMMA ReadCommandApart ==
  ASSUME FlowOK, NumbersApart, ReadCommand
  PROVE  NumbersApart'
<1> DEFINE new == Head(stdin)
<1>1. /\ UNCHANGED <<commands, to_server>> /\ stdin # <<>> /\ stdin' = Tail(stdin)
      /\ \/ UNCHANGED origin
         \/ /\ global_order_id' = global_order_id + 1
            /\ origin' = With(origin, global_order_id, new)
  BY DEF ReadCommand, links, pages
<1>2. /\ stdin \in Seq(Command) /\ EngineOK
  BY DEF FlowOK, CommandsOK
<1>3. /\ new = stdin[1] /\ 1 \in 1..Len(stdin) /\ new \in Command
      /\ \A i \in 1..Len(stdin') :
           i + 1 \in 1..Len(stdin) /\ stdin'[i] = stdin[i + 1] /\ i + 1 # 1
      /\ \A i, j \in 1..Len(stdin') : i # j => i + 1 # j + 1
  BY <1>1, <1>2
<1> HIDE DEF new
<1>4. ASSUME NEW id \in Ids'
      PROVE  \/ id \in Ids /\ origin'[id] = origin[id]
             \/ id \notin Ids /\ id = global_order_id /\ origin'[id] = new
  <2>1. CASE UNCHANGED origin
    BY <2>1 DEF Ids
  <2>2. CASE /\ global_order_id' = global_order_id + 1
             /\ origin' = With(origin, global_order_id, new)
    <3>1. /\ Ids' = Ids \cup {global_order_id} /\ global_order_id \notin Ids
          /\ \A x \in Ids : origin'[x] = origin[x]
          /\ origin'[global_order_id] = new
      BY <2>2, <1>2, <1>3, IdGiven
    <3> QED BY <3>1
  <2> QED BY <2>1, <2>2, <1>1
<1>5. /\ new.number <= commands
      /\ \A i \in 1..Len(stdin') : stdin'[i].number # new.number
      /\ \A s \in Sockets : \A i \in 1..Len(to_server[s]) : to_server[s][i].number # new.number
      /\ \A id \in Ids : new.number # origin[id].number
  BY <1>3 DEF NumbersApart, ServerApart, StdinApart, OrdersApart
<1>6. ASSUME NEW s \in Sockets, NEW i \in 1..Len(to_server[s])
      PROVE  /\ \A j \in 1..Len(stdin') : to_server[s][i].number # stdin'[j].number
             /\ \A id \in Ids' : to_server[s][i].number # origin'[id].number
  <2>1. /\ \A j \in 1..Len(stdin) : to_server[s][i].number # stdin[j].number
        /\ \A id \in Ids : to_server[s][i].number # origin[id].number
    BY DEF NumbersApart, ServerApart
  <2>2. \A j \in 1..Len(stdin') : to_server[s][i].number # stdin'[j].number
    BY <2>1, <1>3
  <2>3. \A id \in Ids' : to_server[s][i].number # origin'[id].number
    BY <2>1, <1>4, <1>5
  <2> QED BY <2>2, <2>3
<1>7. ASSUME NEW i \in 1..Len(stdin')
      PROVE  /\ stdin'[i].number <= commands
             /\ \A j \in 1..Len(stdin') : i # j => stdin'[i].number # stdin'[j].number
             /\ \A id \in Ids' : stdin'[i].number # origin'[id].number
  <2>1. i + 1 \in 1..Len(stdin) /\ stdin'[i] = stdin[i + 1]
    BY <1>3
  <2>2. stdin'[i].number <= commands
    BY <2>1 DEF NumbersApart, StdinApart
  <2>3. ASSUME NEW j \in 1..Len(stdin'), i # j PROVE stdin'[i].number # stdin'[j].number
    <3>1. j + 1 \in 1..Len(stdin) /\ stdin'[j] = stdin[j + 1] /\ i + 1 # j + 1
      BY <1>3, <2>3
    <3> QED BY <2>1, <3>1 DEF NumbersApart, StdinApart
  <2>4. ASSUME NEW id \in Ids' PROVE stdin'[i].number # origin'[id].number
    <3>1. CASE id \in Ids /\ origin'[id] = origin[id]
      BY <2>1, <3>1 DEF NumbersApart, StdinApart
    <3>2. CASE origin'[id] = new
      BY <3>2, <1>5
    <3> QED BY <3>1, <3>2, <1>4
  <2> QED BY <2>2, <2>3, <2>4
<1>8. ASSUME NEW id \in Ids'
      PROVE  /\ origin'[id].number <= commands
             /\ \A other \in Ids' : id # other => origin'[id].number # origin'[other].number
  BY <1>4, <1>5 DEF NumbersApart, ServerApart, StdinApart, OrdersApart
<1>9. \A s \in Sockets : \A i \in 1..Len(to_server[s]) :
        /\ to_server[s][i].number <= commands
        /\ \A j \in 1..Len(to_server[s]) : i # j => to_server[s][i].number # to_server[s][j].number
        /\ \A r \in Sockets : \A j \in 1..Len(to_server[r]) :
             s # r => to_server[s][i].number # to_server[r][j].number
  BY DEF NumbersApart, ServerApart, StdinApart, OrdersApart
<1>10. ServerApart'
  BY <1>1, <1>6, <1>9 DEF ServerApart
<1>11. StdinApart'
  BY <1>1, <1>7 DEF StdinApart
<1>12. OrdersApart'
  BY <1>1, <1>8 DEF OrdersApart
<1> QED BY <1>10, <1>11, <1>12 DEF NumbersApart

LEMMA NumbersKeep ==
  ASSUME WayInv, NumbersApart, [Next]_vars
  PROVE  NumbersApart'
<1>1. ASSUME NEW c \in Clients, Connect(c) \/ Logout(c) \/ Show(c) PROVE NumbersApart'
  BY <1>1, NumbersStay DEF Connect, Logout, Show, engine, pages
<1>2. ASSUME NEW s \in Opened, Lose(s) \/ EndHandler(s) PROVE NumbersApart'
  BY <1>2, NumbersStay DEF Lose, EndHandler, engine, pages, links
<1>3. ASSUME NEW i \in DOMAIN loop,
             SendTo(i) \/ (\E s \in Opened : Broadcast(i, s)) \/ EndBroadcast(i)
      PROVE  NumbersApart'
  BY <1>3, NumbersStay DEF SendTo, Broadcast, EndBroadcast, engine, pages, links
<1>4. CASE stdout_reader_thread \/ PrintAck \/ Enqueue \/ Dequeue \/ Processed
             \/ \E maker \in 0..MaxCommands : on_trade(maker)
  BY <1>4, NumbersStay DEF stdout_reader_thread, PrintAck, Enqueue, Dequeue, Processed, on_trade,
                           engine, pages, links
<1>5. CASE UNCHANGED vars
  BY <1>5, NumbersStay DEF vars, engine, pages, links
<1> QED
  BY <1>1, <1>2, <1>3, <1>4, <1>5, PlaceApart, HandlerApart, ReadCommandApart DEF Next, WayInv

(* So there are no more ids than there have been commands.                 *)
LEMMA IdsBounded ==
  ASSUME FlowOK, NumbersApart
  PROVE  Ids \subseteq ManualIds
<1>1. /\ global_order_id \in Nat \ {0} /\ Ids = 1..(global_order_id - 1)
      /\ origin \in [Ids -> Command] /\ commands \in 0..MaxCommands /\ MaxCommands \in Nat
  BY ManualAssumption DEF FlowOK, EngineOK, CommandsOK, Ids
<1> DEFINE f == [id \in Ids |-> origin[id].number]
<1>2. f \in [Ids -> 1..commands]
  <2>1. ASSUME NEW id \in Ids PROVE origin[id].number \in 1..commands
    <3>1. origin[id].number \in 1..MaxCommands
      BY <1>1 DEF Command
    <3>2. origin[id].number <= commands
      BY DEF NumbersApart, OrdersApart
    <3> QED BY <3>1, <3>2, <1>1
  <2> QED BY <2>1
<1>3. \A id, other \in Ids : id # other => f[id] # f[other]
  BY DEF NumbersApart, ServerApart, StdinApart, OrdersApart
<1>4. IsFiniteSet(Ids) /\ Cardinality(Ids) = global_order_id - 1
  BY <1>1, FS_Interval
<1>5. IsFiniteSet(1..commands) /\ Cardinality(1..commands) = commands
  BY <1>1, FS_Interval
<1>6. global_order_id - 1 <= commands
  <2> HIDE DEF f
  <2>1. ~ (Cardinality(1..commands) < Cardinality(Ids))
    BY <1>2, <1>3, <1>4, <1>5, FS_PigeonHole
  <2> QED BY <2>1, <1>1, <1>4, <1>5
<1> QED BY <1>1, <1>6 DEF ManualIds

LEMMA PagesStart == Init => PagesOK /\ NumbersApart
<1> SUFFICES ASSUME Init PROVE PagesOK /\ NumbersApart
  OBVIOUS
<1>1. /\ terminals = [c \in Clients |-> EmptyTerminal]
      /\ to_server = [s \in Sockets |-> <<>>] /\ stdin = <<>> /\ Ids = {}
  BY DEF Init, Ids
<1>2. PageOK(EmptyTerminal)
  BY TerminalAssumption DEF EmptyTerminal, PageOK, NoOrder, FullList
<1>3. PagesOK
  <2>1. EmptyTerminal.lastProvisionalKey <= commands
    BY DEF EmptyTerminal, NoOrder, Init
  <2> QED BY <2>1, <1>1, <1>2 DEF PagesOK
<1>4. ServerApart /\ StdinApart /\ OrdersApart
  BY <1>1 DEF ServerApart, StdinApart, OrdersApart
<1> QED BY <1>3, <1>4 DEF NumbersApart

(* The orders that go unanswered, and the lines that are spoiled.          *)
SpoiledOK == spoiled \in 0..MaxSpoiled /\ unanswered \subseteq 1..MaxCommands

LEMMA SpoiledKeep ==
  ASSUME WayInv, SpoiledOK, [Next]_vars
  PROVE  SpoiledOK'
<1>1. UNCHANGED <<spoiled, unanswered>> => SpoiledOK'
  BY DEF SpoiledOK
<1>2. ASSUME NEW line, NEW answered, answered \subseteq 1..MaxCommands, safe_print(line, answered)
      PROVE  SpoiledOK'
  <2>1. spoiled' \in 0..MaxSpoiled
    BY <1>2, ManualAssumption DEF safe_print, SpoiledOK
  <2>2. unanswered' \subseteq 1..MaxCommands
    BY <1>2, LinePrinted DEF SpoiledOK
  <2> QED BY <2>1, <2>2 DEF SpoiledOK
<1>3. ASSUME NEW c \in Clients,
             Connect(c) \/ Logout(c) \/ (\E kind \in Kinds : Place(c, kind)) \/ Show(c)
      PROVE  SpoiledOK'
  BY <1>1, <1>3 DEF Connect, Logout, Place, Show
<1>4. ASSUME NEW s \in Opened, Lose(s) \/ EndHandler(s) \/ websocket_handler(s) PROVE SpoiledOK'
  BY <1>1, <1>4 DEF Lose, EndHandler, websocket_handler
<1>5. ASSUME NEW i \in DOMAIN loop,
             SendTo(i) \/ (\E s \in Opened : Broadcast(i, s)) \/ EndBroadcast(i)
      PROVE  SpoiledOK'
  BY <1>1, <1>5 DEF SendTo, Broadcast, EndBroadcast
<1>6. CASE stdout_reader_thread \/ Enqueue \/ Dequeue \/ Processed \/ UNCHANGED vars
  BY <1>1, <1>6 DEF stdout_reader_thread, Enqueue, Dequeue, Processed, vars
<1>7. CASE ReadCommand
  <2>1. Head(stdin).number \in 1..MaxCommands
    <3>1. stdin \in Seq(Command) /\ stdin # <<>>
      BY <1>7 DEF ReadCommand, WayInv, FlowOK, CommandsOK
    <3>2. Head(stdin) \in Command
      BY <3>1
    <3> QED BY <3>2 DEF Command
  <2>2. CASE UNCHANGED spoiled /\ unanswered' = unanswered \cup {Head(stdin).number}
    BY <2>1, <2>2 DEF SpoiledOK
  <2> QED BY <2>1, <2>2, <1>1, <1>2, <1>7 DEF ReadCommand
<1>8. CASE PrintAck
  <2>1. reader.order_id \in Ids
    BY <1>8, ReaderSteps DEF WayInv, FlowOK
  <2>2. origin[reader.order_id].number \in 1..MaxCommands
    BY <2>1 DEF WayInv, FlowOK, EngineOK, Command, Ids
  <2> QED BY <2>2, <1>2, <1>8 DEF PrintAck
<1>9. CASE \E maker \in 0..MaxCommands : on_trade(maker)
  BY <1>2, <1>9 DEF on_trade
<1> QED BY <1>3, <1>4, <1>5, <1>6, <1>7, <1>8, <1>9 DEF Next

(* The values of the variables, for any number of pages, orders and        *)
(* logins: no id is given that is not an order's, the queue never holds    *)
(* more than its size nor a page's list more rows than it is cut to, and no*)
(* terminal waits for the answer to an order that was not placed.          *)
THEOREM ManualTypeCorrect == Spec => []TypeOK
<1>1. Init => PagesOK /\ NumbersApart /\ SpoiledOK
  BY PagesStart, ManualAssumption DEF SpoiledOK, Init
<1>2. WayInv /\ PagesOK /\ NumbersApart /\ SpoiledOK /\ [Next]_vars
        => PagesOK' /\ NumbersApart' /\ SpoiledOK'
  BY PagesKeep, NumbersKeep, SpoiledKeep
<1>3. WayInv /\ PagesOK /\ NumbersApart /\ SpoiledOK => TypeOK
  <2> SUFFICES ASSUME WayInv, PagesOK, NumbersApart, SpoiledOK PROVE TypeOK
    OBVIOUS
  <2>1. SocketsOK /\ CommandsOK /\ EngineOK /\ AnswersOK
    BY DEF WayInv, FlowOK
  <2>2. Ids \subseteq ManualIds
    BY IdsBounded DEF WayInv
  <2>3. \A c \in Clients : /\ terminals[c].lastProvisionalKey \in 0..commands
                           /\ Len(terminals[c].rows) <= FullList
    BY <2>1, ManualAssumption DEF PagesOK, PageOK, CommandsOK
  <2>4. ASSUME NEW s \in Sockets, NEW i \in DOMAIN to_client[s]
        PROVE  to_client[s][i].type \in ReplyTypes
    <3>1. to_client[s] \in Seq(Acks \cup Fills \cup Rejections(s))
      BY <2>1 DEF AnswersOK
    <3>2. to_client[s][i] \in Acks \cup Fills \cup Rejections(s)
      BY <3>1
    <3> QED BY <3>2 DEF Acks, Ack, Fills, Rejections, ReplyTypes
  <2>5. reader.order_id \in ManualIds \cup {Bot}
    BY <2>1, <2>2 DEF EngineOK, IdleReader
  <2>6. queue \in Seq(ManualIds) /\ Len(queue) <= QueueSize
    BY <2>1, <2>2, Larger DEF EngineOK
  <2>7. processed \in ManualIds \cup {Bot} /\ resting \subseteq ManualIds
    BY <2>1, <2>2 DEF EngineOK
  <2>8. DOMAIN pending_manual_orders \subseteq DOMAIN origin /\ DOMAIN origin = 1..(global_order_id - 1)
    BY <2>1 DEF EngineOK, AnswersOK, Ids
  <2> QED BY <2>1, <2>3, <2>4, <2>5, <2>6, <2>7, <2>8
         DEF TypeOK, SocketsOK, CommandsOK, SpoiledOK
<1> QED BY <1>1, <1>2, <1>3, WayAlways, PTL DEF Spec
-----------------------------------------------------------------------------
(***************************************************************************)
(* A user who is alone and waits for his answers.  At most one order has   *)
(* no answer yet, the one placed last; its row is the one that the next    *)
(* answer is for, and the command, or its answer, is in one place.         *)
(***************************************************************************)
Alone ==
  /\ Len(owner) <= 1
  /\ \A c \in Clients : ws[c] # NoSocket \/ terminals[c] # EmptyTerminal => owner = <<c>>

User == IF owner = <<>> THEN EmptyTerminal ELSE terminals[owner[1]]
Left == owner # <<>> /\ ws[owner[1]] = NoSocket

(* The order with number n is not on its way to stdin_reader and has no id.*)
Settled(n) ==
  /\ \A i \in 1..Len(to_server[1]) : to_server[1][i].number # n
  /\ \A i \in 1..Len(stdin) : stdin[i].number # n
  /\ \A id \in Ids : origin[id].number # n

RowRight(row) ==
  /\ row.command \in 0..commands
  /\ row.order_id # 0 => row.order_id \in Ids /\ origin[row.order_id].number = row.command
  /\ row.status = "REJECTED" => Settled(row.command)

(* Every order has its row until the list is full.                         *)
RowsKept ==
  \/ Len(User.rows) = FullList
  \/ \A n \in 1..commands : \E i \in 1..Len(User.rows) : User.rows[i].command = n

RowsRight ==
  /\ \A i \in 1..Len(User.rows) : RowRight(User.rows[i])
  /\ RowsKept
  /\ User.lastProvisionalKey \in {NoOrder, commands}

(* A line or message that answers an order, and one that answers the order *)
(* placed last.                                                            *)
AnswersLast(m) ==
  IF m.type = "ack" THEN m.order_id \in Ids /\ origin[m.order_id].number = commands
  ELSE m.command.number = commands /\ \A id \in Ids : origin[id].number # commands

Undelivered(coroutine) == IsAnswer(coroutine.message) /\ ~coroutine.started

Going(place) ==
  /\ \A i \in 1..Len(to_server[1]) :
       i = 1 /\ place = "to_server" /\ to_server[1][i].number = commands
  /\ \A i \in 1..Len(stdin) : i = 1 /\ place = "stdin" /\ stdin[i].number = commands
  /\ reader.todo = Steps => place = "reader" /\ origin[reader.order_id].number = commands

Printed(place) ==
  \A i \in 1..Len(stdout) : IsAnswer(stdout[i]) =>
    /\ place = "stdout" /\ AnswersLast(stdout[i])
    /\ \A j \in 1..Len(stdout) : IsAnswer(stdout[j]) => i = j

Sending(place) ==
  \A i \in 1..Len(loop) : Undelivered(loop[i]) =>
    /\ place = "loop" /\ AnswersLast(loop[i].message)
    /\ \A j \in 1..Len(loop) : Undelivered(loop[j]) => i = j

Arriving(place) ==
  \A i \in 1..Len(to_client[1]) : IsAnswer(to_client[1][i]) =>
    /\ place = "to_client" /\ AnswersLast(to_client[1][i])
    /\ \A j \in 1..Len(to_client[1]) : IsAnswer(to_client[1][j]) => i = j

OneAnswer(place) ==
  /\ place # "nowhere" => User.lastProvisionalKey # NoOrder
  /\ Going(place) /\ Printed(place) /\ Sending(place) /\ Arriving(place)

(* The order's row has its id, if it is still there, or the ack that brings*)
(* it is ahead: in what was sent, or among the coroutines that have not    *)
(* begun.                                                                  *)
HasRow(id) ==
  \A i \in 1..Len(User.rows) :
    User.rows[i].command = origin[id].number => User.rows[i].order_id = id
Sent(id, n) == \E i \in 1..n : to_client[1][i] = Ack(id)
Coming(id, n) == \E i \in 1..n : loop[i].message = Ack(id) /\ ~loop[i].started

FillsSent ==
  \A i \in 1..Len(to_client[1]) : to_client[1][i].type = "manual_fill" =>
    HasRow(to_client[1][i].order_id) \/ Sent(to_client[1][i].order_id, i - 1)

FillsComing ==
  \A i \in 1..Len(loop) : loop[i].message.type = "manual_fill" =>
    \/ HasRow(loop[i].message.order_id)
    \/ Sent(loop[i].message.order_id, Len(to_client[1]))
    \/ Coming(loop[i].message.order_id, i - 1)

IdsKnown ==
  \A id \in DOMAIN pending_manual_orders :
    HasRow(id) \/ Sent(id, Len(to_client[1])) \/ Coming(id, Len(loop))

(* With one websocket, a broadcast that has begun has been to it.          *)
LoopRight ==
  \A i \in 1..Len(loop) :
    /\ loop[i].visited = IF loop[i].started THEN {1} ELSE {}
    /\ loop[i].started => loop[i].to = All

Places == {"nowhere", "to_server", "stdin", "reader", "stdout", "loop", "to_client"}

Answering ==
  /\ lost = {}
  /\ \E place \in Places : OneAnswer(place)
  /\ FillsSent /\ FillsComing /\ IdsKnown
  /\ LoopRight

Undisturbed == Alone /\ RowsRight /\ (~Left => Answering)

Known == WayInv /\ PagesOK /\ NumbersApart

LEMMA KnownFacts ==
  ASSUME Known
  PROVE  /\ 1 \in Sockets /\ commands \in Nat
         /\ owner \in Seq(Clients) /\ Opened = 1..Len(owner)
         /\ DOMAIN to_server = Sockets /\ to_server[1] \in Seq(Command)
         /\ stdin \in Seq(Command) /\ stdout \in Seq(Lines)
         /\ DOMAIN to_client = Sockets
         /\ to_client[1] \in Seq(Acks \cup Fills \cup Rejections(1))
         /\ Ids \subseteq Nat \ {0} /\ origin \in [Ids -> Command]
         /\ ws \in [Clients -> {NoSocket} \cup Opened]
         /\ terminals = [c \in Clients |-> terminals[c]]
         /\ \A c \in Clients : PageOK(terminals[c])
         /\ \A x \in Command : x.number \in Nat \ {0}
<1>1. 1 \in Sockets
  BY ManualAssumption DEF Sockets
<1>2. /\ owner \in Seq(Clients) /\ Opened = 1..Len(owner)
      /\ ws \in [Clients -> {NoSocket} \cup Opened]
  BY DEF Known, WayInv, FlowOK, SocketsOK, Opened
<1>3. /\ commands \in Nat /\ to_server \in [Sockets -> Seq(Command)] /\ stdin \in Seq(Command)
  BY ManualAssumption DEF Known, WayInv, FlowOK, CommandsOK
<1>4. stdout \in Seq(Lines) /\ Ids \subseteq Nat \ {0} /\ origin \in [Ids -> Command]
  BY DEF Known, WayInv, FlowOK, EngineOK, Ids
<1>5. /\ DOMAIN to_client = Sockets
      /\ to_client[1] \in Seq(Acks \cup Fills \cup Rejections(1))
  BY <1>1 DEF Known, WayInv, FlowOK, AnswersOK
<1>6. \A x \in Command : x.number \in Nat \ {0}
  BY DEF Command
<1>7. DOMAIN to_server = Sockets /\ to_server[1] \in Seq(Command)
  BY <1>1, <1>3
<1> QED BY <1>1, <1>2, <1>3, <1>4, <1>5, <1>6, <1>7 DEF Known, PagesOK

LEMMA LoopFacts ==
  ASSUME Known
  PROVE  /\ Len(loop) \in Nat /\ DOMAIN loop = 1..Len(loop)
         /\ \E M : loop \in Seq(Coroutines(M, lost))
         /\ \A i \in 1..Len(loop) : Addressed(loop[i].message, loop[i].to)
         /\ lost \subseteq Opened /\ connected_clients \subseteq Opened
         /\ Opened \ lost \subseteq connected_clients
<1>1. \E M : loop \in Seq(Coroutines(M, lost))
  BY DEF Known, WayInv, ListInv, LoopIn
<1>2. Len(loop) \in Nat /\ DOMAIN loop = 1..Len(loop)
  BY <1>1
<1> QED BY <1>1, <1>2 DEF Known, WayInv, ListInv, FlowOK, SocketsOK, AnswersOK, WorkingSocketsListed

LEMMA MessageKinds ==
  ASSUME NEW s, NEW m \in Acks \cup Fills \cup Rejections(s)
  PROVE  /\ m.type \in {"ack", "manual_fill", "order_reject"}
         /\ m.type = "ack" => m.order_id \in Ids /\ m = Ack(m.order_id)
         /\ m.type = "manual_fill" => m.order_id \in Ids
         /\ m.type = "order_reject" => m.command \in Command
         /\ IsAnswer(m) <=> m.type # "manual_fill"
BY DEF Acks, Ack, Fills, Rejections, IsAnswer

(* There is one websocket, and only its owner uses it.                     *)
LEMMA OneUser ==
  ASSUME Known, Alone, NEW c \in Clients, ws[c] # NoSocket
  PROVE  /\ owner = <<c>> /\ ws[c] = 1 /\ User = terminals[c] /\ ~Left
<1>1. owner = <<c>>
  BY DEF Alone
<1>2. Opened = {1}
  BY <1>1, KnownFacts
<1>3. ws[c] = 1
  BY <1>2, KnownFacts
<1> QED BY <1>1, <1>3 DEF User, Left, NoSocket

LEMMA OneSocket ==
  ASSUME Known, Alone, NEW s \in Opened
  PROVE  s = 1 /\ Opened = {1} /\ owner # <<>> /\ owner = <<owner[1]>> /\ owner[1] \in Clients
<1> DEFINE n == Len(owner)
<1>1. n \in Nat /\ n <= 1 /\ s \in 1..n /\ Opened = 1..n /\ owner \in Seq(Clients)
  BY KnownFacts DEF Alone
<1>2. s = 1 /\ n = 1
  <2> HIDE DEF n
  <2> QED BY <1>1
<1>3. owner \in [1..1 -> Clients]
  BY <1>1, <1>2
<1>4. owner # <<>> /\ owner[1] \in Clients
  BY <1>2, <1>3
<1>5. owner = <<owner[1]>>
  BY <1>1, <1>2, <1>4
<1> QED BY <1>1, <1>2, <1>4, <1>5

(* Steps that leave the pages, or parts of the way, alone.                 *)
LEMMA PageStays ==
  ASSUME UNCHANGED <<owner, ws, terminals>>
  PROVE  User' = User /\ Left' = Left /\ (Alone => Alone')
BY DEF User, Left, Alone

LEMMA RowsStay ==
  ASSUME RowsRight, UNCHANGED <<User, commands, to_server, stdin, origin>>
  PROVE  RowsRight'
BY DEF RowsRight, RowsKept, RowRight, Settled, Ids

LEMMA GoingStays ==
  ASSUME NEW place, Going(place), UNCHANGED <<commands, to_server, stdin, reader, origin>>
  PROVE  Going(place)'
BY DEF Going

LEMMA PrintedStays ==
  ASSUME NEW place, Printed(place), UNCHANGED <<commands, stdout, origin>>
  PROVE  Printed(place)'
BY DEF Printed, AnswersLast, Ids

LEMMA SendingStays ==
  ASSUME NEW place, Sending(place), UNCHANGED <<commands, loop, origin>>
  PROVE  Sending(place)'
BY DEF Sending, AnswersLast, Ids

LEMMA ArrivingStays ==
  ASSUME NEW place, Arriving(place), UNCHANGED <<commands, to_client, origin>>
  PROVE  Arriving(place)'
BY DEF Arriving, AnswersLast, Ids

LEMMA RowsHad ==
  ASSUME UNCHANGED User, \A id \in Ids : origin'[id] = origin[id]
  PROVE  \A id \in Ids : HasRow(id) => HasRow(id)'
BY DEF HasRow

LEMMA FillsStay ==
  ASSUME Known, FillsSent, FillsComing, IdsKnown,
         UNCHANGED <<to_client, loop, pending_manual_orders>>,
         \A id \in Ids : HasRow(id) => HasRow(id)'
  PROVE  (FillsSent /\ FillsComing /\ IdsKnown)'
<1>1. FillsSent'
  <2> SUFFICES ASSUME NEW k \in 1..Len(to_client[1]), to_client[1][k].type = "manual_fill"
               PROVE  HasRow(to_client[1][k].order_id)' \/ Sent(to_client[1][k].order_id, k - 1)'
    BY DEF FillsSent
  <2>1. PICK id : id = to_client[1][k].order_id
    OBVIOUS
  <2>2. id \in Ids
    <3>1. to_client[1][k] \in Acks \cup Fills \cup Rejections(1)
      BY KnownFacts
    <3> QED BY <2>1, <3>1, MessageKinds
  <2>3. HasRow(id)' \/ Sent(id, k - 1)'
    BY <2>1, <2>2 DEF FillsSent, Sent
  <2> QED BY <2>1, <2>3
<1>2. FillsComing'
  <2> SUFFICES ASSUME NEW k \in 1..Len(loop), loop[k].message.type = "manual_fill"
               PROVE  \/ HasRow(loop[k].message.order_id)'
                      \/ Sent(loop[k].message.order_id, Len(to_client[1]))'
                      \/ Coming(loop[k].message.order_id, k - 1)'
    BY DEF FillsComing
  <2>1. PICK id : id = loop[k].message.order_id
    OBVIOUS
  <2>2. id \in Ids
    <3>1. Addressed(loop[k].message, loop[k].to)
      BY LoopFacts
    <3> QED BY <2>1, <3>1 DEF Addressed, Acks, Ack, Fills, Rejections
  <2>3. HasRow(id)' \/ Sent(id, Len(to_client[1]))' \/ Coming(id, k - 1)'
    BY <2>1, <2>2 DEF FillsComing, Sent, Coming
  <2> QED BY <2>1, <2>3
<1>3. IdsKnown'
  <2> SUFFICES ASSUME NEW id \in DOMAIN pending_manual_orders
               PROVE  HasRow(id)' \/ Sent(id, Len(to_client[1]))' \/ Coming(id, Len(loop))'
    BY DEF IdsKnown
  <2>1. id \in Ids
    BY DEF Known, WayInv, FlowOK, AnswersOK
  <2> QED BY <2>1 DEF IdsKnown, Sent, Coming
<1> QED BY <1>1, <1>2, <1>3

(* Where there is no answer, none is as good as any.                       *)
LEMMA Elsewhere ==
  ASSUME NEW place, NEW other
  PROVE  /\ place # "stdout" /\ Printed(place) /\ UNCHANGED stdout => Printed(other)'
         /\ place # "loop" /\ Sending(place) /\ UNCHANGED loop => Sending(other)'
         /\ place # "to_client" /\ Arriving(place) /\ UNCHANGED to_client => Arriving(other)'
BY DEF Printed, Sending, Arriving

LEMMA AnsweringStays ==
  ASSUME Known, Answering,
         UNCHANGED <<User, commands, to_server, stdin, reader, origin, stdout, loop, to_client,
                     pending_manual_orders, lost>>
  PROVE  Answering'
<1>1. PICK place \in Places : OneAnswer(place)
  BY DEF Answering
<1>2. OneAnswer(place)'
  BY <1>1, GoingStays, PrintedStays, SendingStays, ArrivingStays DEF OneAnswer
<1>3. \A id \in Ids : HasRow(id) => HasRow(id)'
  BY RowsHad
<1> QED BY <1>2, <1>3, FillsStay DEF Answering, LoopRight

LEMMA UndisturbedStays ==
  ASSUME Known, Undisturbed,
         UNCHANGED <<owner, ws, terminals, commands, to_server, stdin, reader, origin, stdout,
                     loop, to_client, pending_manual_orders, lost>>
  PROVE  Undisturbed'
BY PageStays, RowsStay, AnsweringStays DEF Undisturbed

(* The one user logs in, or out, or the server learns that he did.         *)
LEMMA ConnectUndisturbed ==
  ASSUME Known, Undisturbed, NEW c \in Clients, Connect(c), ~disturbed'
  PROVE  Undisturbed'
<1>1. /\ owner' = Append(owner, c) /\ ws' = [ws EXCEPT ![c] = Len(owner')]
      /\ disturbed' = (disturbed \/ Len(owner') > 1)
      /\ UNCHANGED <<terminals, commands, to_server, stdin, reader, origin, stdout, loop,
                     to_client, pending_manual_orders, lost>>
  BY DEF Connect, engine
<1>2. owner \in Seq(Clients) /\ ws \in [Clients -> {NoSocket} \cup Opened]
  BY KnownFacts
<1>3. owner = <<>> /\ owner' = <<c>> /\ Len(owner') = 1
  <2>1. Len(owner') = Len(owner) + 1 /\ Len(owner) \in Nat
    BY <1>1, <1>2
  <2>2. Len(owner) = 0
    <3>1. ~(Len(owner') > 1)
      BY <1>1
    <3> QED BY <3>1, <2>1
  <2>3. owner = <<>>
    BY <2>2, <1>2
  <2> QED BY <2>3, <1>1
<1>4. \A d \in Clients : ws[d] = NoSocket /\ terminals[d] = EmptyTerminal
  BY <1>3 DEF Undisturbed, Alone
<1>5. ws' = [ws EXCEPT ![c] = 1]
  BY <1>1, <1>3
<1>6. Alone'
  BY <1>1, <1>2, <1>3, <1>4, <1>5 DEF Alone
<1>7. User' = User
  BY <1>1, <1>3, <1>4 DEF User
<1>8. ~Left
  BY <1>3 DEF Left
<1>9. Answering'
  BY <1>1, <1>7, <1>8, AnsweringStays DEF Undisturbed
<1>10. RowsRight'
  BY <1>1, <1>7, RowsStay DEF Undisturbed
<1> QED BY <1>6, <1>9, <1>10 DEF Undisturbed

LEMMA LogoutUndisturbed ==
  ASSUME Known, Undisturbed, NEW c \in Clients, Logout(c)
  PROVE  Undisturbed'
<1>1. /\ ws[c] # NoSocket /\ ws' = [ws EXCEPT ![c] = NoSocket]
      /\ UNCHANGED <<owner, terminals, commands, to_server, stdin, origin>>
  BY DEF Logout, pages, engine
<1>2. owner = <<c>> /\ ws \in [Clients -> {NoSocket} \cup Opened]
  BY <1>1, OneUser, KnownFacts DEF Undisturbed
<1>3. Left'
  BY <1>1, <1>2 DEF Left
<1>4. Alone'
  BY <1>1, <1>2 DEF Undisturbed, Alone
<1>5. User' = User
  BY <1>1 DEF User
<1>6. RowsRight'
  BY <1>1, <1>5, RowsStay DEF Undisturbed
<1> QED BY <1>3, <1>4, <1>6 DEF Undisturbed

LEMMA LoseUndisturbed ==
  ASSUME Known, Undisturbed, NEW s \in Opened, Lose(s) \/ EndHandler(s)
  PROVE  Undisturbed'
<1>1. UNCHANGED <<owner, ws, terminals, commands, to_server, stdin, reader, origin, stdout,
                  loop, to_client, pending_manual_orders>>
  BY DEF Lose, EndHandler, pages, server, engine, links
<1>2. CASE Lose(s)
  <2>1. s = 1 /\ Opened = {1} /\ owner # <<>> /\ owner[1] \in Clients
    BY OneSocket DEF Undisturbed
  <2>2. ws[owner[1]] # 1
    BY <1>2, <2>1 DEF Lose, Closed
  <2>3. ws[owner[1]] = NoSocket
    BY <2>1, <2>2, KnownFacts
  <2>4. Left'
    BY <1>1, <2>1, <2>3 DEF Left
  <2> QED BY <1>1, <2>4, PageStays, RowsStay DEF Undisturbed
<1>3. CASE EndHandler(s)
  <2>1. UNCHANGED lost
    BY <1>3 DEF EndHandler, links
  <2> QED BY <1>1, <2>1, UndisturbedStays
<1> QED BY <1>2, <1>3

LEMMA PlaceUndisturbed ==
  ASSUME Known, Undisturbed, NEW c \in Clients, NEW kind \in Kinds, Place(c, kind), ~disturbed'
  PROVE  Undisturbed'
<1> DEFINE t == terminals[c]
           n == commands + 1
           new == [number |-> n, socket |-> ws[c], kind |-> kind]
<1>1. /\ ws[c] # NoSocket /\ ~Waiting(c) /\ commands' = n
      /\ terminals' = [terminals EXCEPT ![c] = PlaceOrder(t, n)]
      /\ to_server' = [to_server EXCEPT ![ws[c]] = Append(to_server[ws[c]], new)]
      /\ UNCHANGED <<owner, ws, lost, stdin, reader, origin, stdout, loop, to_client,
                     pending_manual_orders>>
  BY DEF Place, engine, server
<1>2. owner = <<c>> /\ ws[c] = 1 /\ User = t /\ ~Left /\ Left' = Left
  BY <1>1, OneUser DEF Undisturbed, Left
<1>3. /\ PageOK(t) /\ terminals = [d \in Clients |-> terminals[d]]
      /\ 1 \in DOMAIN to_server /\ to_server[1] \in Seq(Command) /\ commands \in Nat
  BY KnownFacts
<1>4. User' = PlaceOrder(t, n)
  BY <1>1, <1>2, <1>3 DEF User
<1>5. Alone'
  BY <1>1, <1>2, <1>3 DEF Undisturbed, Alone
<1>6. to_server'[1] = Append(to_server[1], new)
  BY <1>1, <1>2, <1>3
<1>7. Len(t.rows) \in Nat /\ DOMAIN t.rows = 1..Len(t.rows)
  BY <1>3 DEF PageOK
<1>8. t.lastProvisionalKey = NoOrder
  BY <1>1 DEF Waiting
<1>9. OneAnswer("nowhere")
  BY <1>2, <1>8 DEF Undisturbed, Answering, OneAnswer
<1> DEFINE row == Row(n, 0, "PENDING")
           l == Len(t.rows) + 1 - Cut(t)
<1>10. /\ User'.lastProvisionalKey = n /\ Cut(t) \in {0, 1} /\ Cut(t) <= Len(t.rows)
       /\ Len(User'.rows) = l /\ User'.rows[l] = row
       /\ \A i \in 1..(Len(t.rows) - Cut(t)) : User'.rows[i] = t.rows[i + Cut(t)]
  <2>1. n \in 1..MaxCommands
    BY <1>3, ManualAssumption DEF Place
  <2>2. row \in TerminalRows
    BY <2>1 DEF Row, TerminalRows
  <2>3. User'.lastProvisionalKey = n /\ User'.rows = addOrderEntry(t, row).rows
    BY <1>3, <1>4, <2>1, PlaceOrderPage
  <2> QED BY <1>3, <2>2, <2>3, EntryAdded
<1>11. to_server[1] = <<>> /\ stdin = <<>> /\ reader.todo # Steps
  <2>1. Len(to_server[1]) \in Nat /\ Len(stdin) \in Nat /\ stdin \in Seq(Command)
    BY KnownFacts
  <2>2. ~(1 \in 1..Len(to_server[1])) /\ ~(1 \in 1..Len(stdin))
    BY <1>9 DEF OneAnswer, Going
  <2> QED BY <1>3, <1>9, <2>1, <2>2 DEF OneAnswer, Going
<1>12. to_server'[1] = <<new>>
  BY <1>6, <1>11
<1> HIDE DEF new, n, t, row, l
<1>13. /\ new.number = n /\ n = commands + 1 /\ l = Len(t.rows) + 1 - Cut(t)
       /\ row.command = n /\ row.order_id = 0 /\ row.status = "PENDING"
  BY DEF new, n, row, Row, l
<1>14. \A id \in Ids : origin[id].number \in Nat /\ origin[id].number <= commands
  <2>1. \A id \in Ids : origin[id].number <= commands
    BY DEF Known, NumbersApart, OrdersApart
  <2> QED BY <2>1, KnownFacts
<1>15. ASSUME NEW j \in 1..Len(User'.rows)
       PROVE  User'.rows[j] = row \/ \E i \in 1..Len(t.rows) : User'.rows[j] = t.rows[i]
  <2>1. CASE j = l
    BY <2>1, <1>10
  <2>2. CASE j # l
    <3>1. j \in 1..(Len(t.rows) - Cut(t)) /\ j + Cut(t) \in 1..Len(t.rows)
      BY <2>2, <1>7, <1>10, <1>13
    <3> QED BY <3>1, <1>10
  <2> QED BY <2>1, <2>2
<1>16. ASSUME NEW r, RowRight(r) PROVE RowRight(r)'
  <2>1. r.command \in 0..commands /\ r.command \in 0..commands'
    BY <1>1, <1>3, <1>13, <1>16 DEF RowRight
  <2>2. \A k \in 1..Len(to_server'[1]) : to_server'[1][k].number # r.command
    BY <1>3, <1>12, <1>13, <2>1
  <2> QED BY <1>1, <1>16, <2>1, <2>2 DEF RowRight, Settled, Ids
<1>17. RowsRight'
  <2>1. ASSUME NEW j \in 1..Len(User'.rows) PROVE RowRight(User.rows[j])'
    <3>1. PICK r : r = User'.rows[j]
      OBVIOUS
    <3>2. CASE r = row
      <4>1. n \in 0..commands'
        BY <1>1, <1>3, <1>13
      <4>2. RowRight(r)'
        BY <1>13, <3>2, <4>1 DEF RowRight
      <4> QED BY <3>1, <4>2
    <3>3. CASE \E i \in 1..Len(t.rows) : r = t.rows[i]
      <4>1. RowRight(r)
        BY <1>2, <3>3 DEF Undisturbed, RowsRight
      <4>2. RowRight(r)'
        BY <1>16, <4>1
      <4> QED BY <3>1, <4>2
    <3> QED BY <1>15, <3>1, <3>2, <3>3
  <2>2. RowsKept'
    <3>1. RowsKept /\ Len(t.rows) <= FullList /\ User = t
      BY <1>2, <1>3 DEF Undisturbed, RowsRight, PageOK
    <3>2. CASE Len(t.rows) = FullList
      <4>1. Len(User'.rows) = FullList
        BY <1>7, <1>10, <1>13, <3>2 DEF Cut
      <4> QED BY <4>1 DEF RowsKept, FullList
    <3>3. CASE Len(t.rows) # FullList
      <4>1. Cut(t) = 0 /\ l = Len(t.rows) + 1
        BY <1>7, <1>13, <3>3 DEF Cut
      <4>2. ASSUME NEW k \in 1..commands'
            PROVE  \E j \in 1..Len(User'.rows) : User'.rows[j].command = k
        <5>1. CASE k = n
          <6>1. l \in 1..Len(User'.rows) /\ User'.rows[l].command = k
            BY <1>7, <1>10, <1>13, <4>1, <5>1
          <6> QED BY <6>1
        <5>2. CASE k # n
          <6>1. k \in 1..commands
            BY <1>1, <1>3, <1>13, <5>2
          <6>2. PICK i \in 1..Len(t.rows) : t.rows[i].command = k
            BY <3>1, <3>3, <6>1 DEF RowsKept
          <6>3. i \in 1..Len(User'.rows) /\ User'.rows[i] = t.rows[i]
            <7>1. i \in 1..(Len(t.rows) - Cut(t)) /\ i + Cut(t) = i /\ i \in 1..l
              BY <1>7, <4>1
            <7> QED BY <7>1, <1>10
          <6> QED BY <6>2, <6>3
        <5> QED BY <5>1, <5>2
      <4> QED BY <4>2 DEF RowsKept
    <3> QED BY <3>2, <3>3
  <2>3. User'.lastProvisionalKey = commands'
    BY <1>1, <1>10
  <2> QED BY <2>1, <2>2, <2>3 DEF RowsRight
<1>18. OneAnswer("to_server")'
  <2>1. Going("to_server")'
    <3>1. Len(to_server'[1]) = 1 /\ to_server'[1][1] = new
      BY <1>12
    <3>2. new.number = commands'
      BY <1>1, <1>13
    <3> QED BY <3>1, <3>2, <1>1, <1>11 DEF Going
  <2>2. Printed("to_server")' /\ Sending("to_server")' /\ Arriving("to_server")'
    BY <1>1, <1>9, Elsewhere DEF OneAnswer
  <2>3. User'.lastProvisionalKey # NoOrder
    BY <1>3, <1>10, <1>13 DEF NoOrder
  <2> QED BY <2>1, <2>2, <2>3 DEF OneAnswer
<1>19. ASSUME NEW id \in Ids, HasRow(id) PROVE HasRow(id)'
  <2>1. ASSUME NEW j \in 1..Len(User'.rows), User'.rows[j].command = origin[id].number
        PROVE  User'.rows[j].order_id = id
    <3>1. User'.rows[j] # row
      BY <1>3, <1>13, <1>14, <2>1
    <3>2. PICK i \in 1..Len(t.rows) : User'.rows[j] = t.rows[i]
      BY <1>15, <3>1
    <3> QED BY <1>2, <1>19, <2>1, <3>2 DEF HasRow
  <2> QED BY <1>1, <2>1 DEF HasRow
<1>20. FillsSent' /\ FillsComing' /\ IdsKnown'
  BY <1>1, <1>2, <1>19, FillsStay DEF Undisturbed, Answering
<1> QED BY <1>1, <1>2, <1>5, <1>17, <1>18, <1>20
        DEF Undisturbed, Answering, LoopRight, Places
-----------------------------------------------------------------------------
(* Commands move on: what is settled remains so.                           *)
LEMMA RowsMove ==
  ASSUME RowsRight, UNCHANGED <<User, commands>>,
         \A id \in Ids : id \in Ids' /\ origin'[id] = origin[id],
         \A n : Settled(n) => Settled(n)'
  PROVE  RowsRight'
<1>1. ASSUME NEW i \in 1..Len(User.rows), RowRight(User.rows[i])
      PROVE  RowRight(User.rows[i])'
  BY <1>1 DEF RowRight
<1>2. RowsKept'
  BY DEF RowsRight, RowsKept
<1> QED BY <1>1, <1>2 DEF RowsRight

LEMMA HandlerUndisturbed ==
  ASSUME Known, Undisturbed, NEW s \in Opened, websocket_handler(s)
  PROVE  Undisturbed'
<1> DEFINE command == Head(to_server[1])
<1>1. s = 1
  BY OneSocket DEF Undisturbed
<1>2. /\ to_server[1] # <<>> /\ to_server' = [to_server EXCEPT ![1] = Tail(to_server[1])]
      /\ UNCHANGED stdin \/ stdin' = Append(stdin, command)
      /\ UNCHANGED <<owner, ws, lost, terminals, commands, reader, origin, stdout, loop, to_client,
                     pending_manual_orders>>
  BY <1>1 DEF websocket_handler, pages, engine
<1>3. 1 \in DOMAIN to_server /\ to_server[1] \in Seq(Command) /\ stdin \in Seq(Command)
  BY KnownFacts
<1>4. /\ Len(to_server[1]) \in Nat /\ 1 \in 1..Len(to_server[1]) /\ command = to_server[1][1]
      /\ to_server'[1] = Tail(to_server[1])
      /\ \A i \in 1..Len(to_server'[1]) :
           i + 1 \in 1..Len(to_server[1]) /\ to_server'[1][i] = to_server[1][i + 1]
  BY <1>2, <1>3
<1>5. \A i \in 1..Len(stdin') : \/ i \in 1..Len(stdin) /\ stdin'[i] = stdin[i]
                                \/ i = Len(stdin) + 1 /\ stdin'[i] = command
  <2>1. command \in Command
    BY <1>3, <1>4
  <2> HIDE DEF command
  <2> QED BY <1>2, <1>3, <2>1
<1> HIDE DEF command
<1>6. /\ User' = User /\ Left' = Left /\ Alone'
  BY <1>2, PageStays DEF Undisturbed
<1>7. RowsRight'
  <2>1. ASSUME NEW n, Settled(n) PROVE Settled(n)'
    BY <2>1, <1>2, <1>4, <1>5 DEF Settled, Ids
  <2> QED BY <2>1, <1>2, <1>6, RowsMove DEF Undisturbed, Ids
<1>8. ASSUME ~Left PROVE Answering'
  <2>1. PICK place \in Places : OneAnswer(place)
    BY <1>8 DEF Undisturbed, Answering
  <2>2. place = "to_server" /\ Len(to_server[1]) = 1 /\ command.number = commands
    <3>1. \A i \in 1..Len(to_server[1]) :
            i = 1 /\ place = "to_server" /\ to_server[1][i].number = commands
      BY <2>1 DEF OneAnswer, Going
    <3>2. Len(to_server[1]) \in 1..Len(to_server[1])
      BY <1>4
    <3> QED BY <3>1, <3>2, <1>4
  <2>3. stdin = <<>> /\ reader.todo # Steps
    <3>1. ~(1 \in 1..Len(stdin)) /\ reader.todo # Steps
      BY <2>1, <2>2 DEF OneAnswer, Going
    <3> QED BY <3>1, <1>3
  <2>4. to_server'[1] = <<>> /\ (stdin' = <<>> \/ stdin' = <<command>>)
    BY <1>2, <1>3, <1>4, <2>2, <2>3
  <2>5. Printed("stdin")' /\ Sending("stdin")' /\ Arriving("stdin")'
    BY <1>2, <2>1, <2>2, Elsewhere DEF OneAnswer
  <2>6. Going("stdin")'
    <3>1. ~(\E i \in 1..Len(to_server'[1]) : TRUE)
      <4>1. Len(<<>>) = 0
        OBVIOUS
      <4>2. Len(to_server'[1]) = 0
        BY <2>4, <4>1
      <4> QED BY <4>2
    <3>2. \A i \in 1..Len(stdin') : i = 1 /\ stdin'[i] = command
      <4>1. CASE stdin' = <<>>
        BY <4>1
      <4>2. CASE stdin' = <<command>>
        BY <4>2
      <4> QED BY <2>4, <4>1, <4>2
    <3> QED BY <3>1, <3>2, <1>2, <2>2, <2>3 DEF Going
  <2>7. OneAnswer("stdin")'
    BY <1>6, <2>1, <2>2, <2>5, <2>6 DEF OneAnswer
  <2>8. \A id \in Ids : HasRow(id) => HasRow(id)'
    BY <1>2, <1>6, RowsHad
  <2> QED BY <1>2, <1>6, <1>8, <2>7, <2>8, FillsStay DEF Undisturbed, Answering, LoopRight, Places
<1> QED BY <1>6, <1>7, <1>8 DEF Undisturbed

LEMMA LineAppended ==
  ASSUME Known, NEW line \in Lines, stdout' = Append(stdout, line)
  PROVE  /\ Len(stdout) \in Nat /\ Len(stdout') = Len(stdout) + 1
         /\ stdout'[Len(stdout) + 1] = line
         /\ \A i \in 1..Len(stdout) : stdout'[i] = stdout[i]
<1>1. stdout \in Seq(Lines)
  BY KnownFacts
<1> QED BY <1>1

LEMMA SpoiledAppended ==
  ASSUME Known, stdout' = Append(stdout, Spoiled)
  PROVE  \A i \in 1..Len(stdout') :
           /\ stdout'[i] = Spoiled \/ (i \in 1..Len(stdout) /\ stdout'[i] = stdout[i])
           /\ IsAnswer(stdout'[i]) => i \in 1..Len(stdout) /\ stdout'[i] = stdout[i]
<1>1. Spoiled \in Lines /\ ~IsAnswer(Spoiled)
  BY DEF Lines, Spoiled, IsAnswer
<1>2. /\ Len(stdout) \in Nat /\ Len(stdout') = Len(stdout) + 1
      /\ stdout'[Len(stdout) + 1] = Spoiled
      /\ \A i \in 1..Len(stdout) : stdout'[i] = stdout[i]
  BY <1>1, LineAppended
<1>3. ASSUME NEW i \in 1..Len(stdout')
      PROVE  stdout'[i] = Spoiled \/ (i \in 1..Len(stdout) /\ stdout'[i] = stdout[i])
  BY <1>2
<1> QED BY <1>1, <1>3

LEMMA ReadCommandUndisturbed ==
  ASSUME Known, Undisturbed, ReadCommand
  PROVE  Undisturbed'
<1> DEFINE command == Head(stdin)
<1>1. /\ stdin # <<>> /\ stdin' = Tail(stdin) /\ reader.todo = <<>>
      /\ \/ UNCHANGED <<reader, stdout, origin>>
         \/ UNCHANGED <<reader, origin>> /\ stdout' = Append(stdout, Reject(command))
         \/ UNCHANGED <<reader, origin>> /\ stdout' = Append(stdout, Spoiled)
         \/ /\ global_order_id' = global_order_id + 1
            /\ reader' = [order_id |-> global_order_id, todo |-> Steps]
            /\ origin' = With(origin, global_order_id, command)
            /\ UNCHANGED stdout
      /\ UNCHANGED <<owner, ws, lost, terminals, commands, to_server, loop, to_client,
                     pending_manual_orders>>
  BY LinePrinted DEF ReadCommand, pages, links, server
<1>2. stdin \in Seq(Command) /\ stdout \in Seq(Lines)
  BY KnownFacts
<1>3. /\ Len(stdin) \in Nat /\ 1 \in 1..Len(stdin) /\ command = stdin[1] /\ command \in Command
      /\ \A i \in 1..Len(stdin') : i + 1 \in 1..Len(stdin) /\ stdin'[i] = stdin[i + 1]
  BY <1>1, <1>2
<1> HIDE DEF command
<1>4. \/ UNCHANGED origin
      \/ /\ Ids' = Ids \cup {global_order_id} /\ global_order_id \notin Ids
         /\ \A id \in Ids : origin'[id] = origin[id]
         /\ origin'[global_order_id] = command
         /\ origin' = With(origin, global_order_id, command)
  BY <1>1, <1>3, IdGiven DEF Known, WayInv, FlowOK
<1>5. User' = User /\ Left' = Left /\ Alone'
  BY <1>1, PageStays DEF Undisturbed
<1>6. RowsRight'
  <2>1. ASSUME NEW n, Settled(n) PROVE Settled(n)'
    <3>1. command.number # n
      BY <2>1, <1>3 DEF Settled
    <3>2. \A id \in Ids' : origin'[id].number # n
      BY <2>1, <3>1, <1>4 DEF Settled, Ids
    <3> QED BY <2>1, <3>2, <1>1, <1>3 DEF Settled
  <2>2. \A id \in Ids : id \in Ids' /\ origin'[id] = origin[id]
    BY <1>4 DEF Ids
  <2> QED BY <2>1, <2>2, <1>1, <1>5, RowsMove DEF Undisturbed
<1>7. <<>> # Steps
  BY DEF Steps
<1>8. ASSUME ~Left PROVE Answering'
  <2>1. PICK place \in Places : OneAnswer(place)
    BY <1>8 DEF Undisturbed, Answering
  <2>2. place = "stdin" /\ Len(stdin) = 1 /\ command.number = commands
    <3>1. \A i \in 1..Len(stdin) : i = 1 /\ place = "stdin" /\ stdin[i].number = commands
      BY <2>1 DEF OneAnswer, Going
    <3>2. Len(stdin) \in 1..Len(stdin)
      BY <1>3
    <3> QED BY <3>1, <3>2, <1>3
  <2>3. \A id \in Ids : origin[id].number # commands
    BY <1>3, <2>2 DEF Known, NumbersApart, StdinApart
  <2>4. /\ ~(\E i \in 1..Len(to_server[1]) : TRUE) /\ ~(\E i \in 1..Len(stdin') : TRUE)
        /\ \A i \in 1..Len(stdout) : ~IsAnswer(stdout[i])
    <3>1. Len(stdin') = 0
      BY <1>1, <1>2, <2>2
    <3> QED BY <3>1, <2>1, <2>2 DEF OneAnswer, Going, Printed
  <2>5. \A other : Sending(other)' /\ Arriving(other)'
    BY <1>1, <2>1, <2>2, Elsewhere DEF OneAnswer
  <2>6. \E other \in Places : Going(other)' /\ Printed(other)'
    <3>1. CASE UNCHANGED <<reader, stdout, origin>>
      <4>1. reader'.todo # Steps
        BY <1>1, <1>7, <3>1
      <4> QED BY <1>1, <2>4, <3>1, <4>1 DEF Going, Printed, Places
    <3>2. CASE UNCHANGED <<reader, origin>> /\ stdout' = Append(stdout, Reject(command))
      <4>1. reader'.todo # Steps
        BY <1>1, <1>7, <3>2
      <4>2. Going("stdout")'
        BY <1>1, <2>4, <4>1 DEF Going
      <4>3. Reject(command) \in Lines /\ Reject(command).type = "reject"
            /\ Reject(command).command = command
        BY <1>3 DEF Lines, Reject
      <4>4. \A i \in 1..Len(stdout') : \/ i \in 1..Len(stdout) /\ stdout'[i] = stdout[i]
                                       \/ i = Len(stdout) + 1 /\ stdout'[i] = Reject(command)
        BY <1>2, <3>2, <4>3
      <4>5. \A i \in 1..Len(stdout') : IsAnswer(stdout'[i]) =>
              i = Len(stdout) + 1 /\ stdout'[i] = Reject(command)
        BY <2>4, <4>4
      <4>6. ASSUME NEW i \in 1..Len(stdout'), IsAnswer(stdout'[i])
            PROVE  /\ AnswersLast(stdout[i])'
                   /\ \A j \in 1..Len(stdout') : IsAnswer(stdout'[j]) => i = j
        BY <4>5, <4>6, <4>3, <1>1, <2>2, <2>3, <3>2 DEF AnswersLast, Ids
      <4> QED BY <4>2, <4>6 DEF Printed, Places
    <3>5. CASE UNCHANGED <<reader, origin>> /\ stdout' = Append(stdout, Spoiled)
      <4>1. Going("nowhere")'
        <5>1. reader'.todo # Steps
          BY <1>1, <1>7, <3>5
        <5> QED BY <1>1, <2>4, <5>1 DEF Going
      <4>2. \A i \in 1..Len(stdout') : ~IsAnswer(stdout'[i])
        BY <2>4, <3>5, SpoiledAppended
      <4> QED BY <4>1, <4>2 DEF Printed, Places
    <3>3. CASE /\ reader' = [order_id |-> global_order_id, todo |-> Steps]
               /\ origin'[global_order_id] = command /\ UNCHANGED stdout
      <4>1. Going("reader")'
        BY <1>1, <2>2, <2>4, <3>3 DEF Going
      <4> QED BY <2>4, <3>3, <4>1 DEF Printed, Places
    <3>4. origin' = With(origin, global_order_id, command) =>
            origin'[global_order_id] = command
      BY DEF With
    <3> QED BY <1>1, <3>1, <3>2, <3>3, <3>4, <3>5
  <2>7. \E other \in Places : OneAnswer(other)'
    BY <1>5, <2>1, <2>2, <2>5, <2>6 DEF OneAnswer
  <2>8. \A id \in Ids : HasRow(id) => HasRow(id)'
    BY <1>4, <1>5, RowsHad
  <2> QED BY <1>1, <1>5, <1>8, <2>7, <2>8, FillsStay DEF Undisturbed, Answering, LoopRight
<1> QED BY <1>5, <1>6, <1>8 DEF Undisturbed

LEMMA PrintAckUndisturbed ==
  ASSUME Known, Undisturbed, PrintAck
  PROVE  Undisturbed'
<1> DEFINE id == reader.order_id
           n == Len(stdout)
<1>1. /\ reader.todo = Steps /\ id \in Ids
      /\ reader' = [order_id |-> id, todo |-> <<"enqueue">>]
      /\ stdout' = Append(stdout, Ack(id)) \/ stdout' = Append(stdout, Spoiled)
      /\ UNCHANGED <<owner, ws, lost, terminals, commands, to_server, stdin, origin, loop,
                     to_client, pending_manual_orders>>
  BY ReaderSteps, LinePrinted DEF PrintAck, pages, links, server, Known, WayInv, FlowOK
<1>2. User' = User /\ Left' = Left /\ Alone' /\ RowsRight'
  BY <1>1, PageStays, RowsStay DEF Undisturbed
<1>3. Ack(id) \in Lines /\ Ack(id).type = "ack" /\ Ack(id).order_id = id
  BY <1>1 DEF Lines, Ack
<1>4. ASSUME ~Left PROVE Answering'
  <2>1. PICK place \in Places : OneAnswer(place)
    BY <1>4 DEF Undisturbed, Answering
  <2>2. /\ place = "reader" /\ origin[id].number = commands
        /\ \A i \in 1..n : ~IsAnswer(stdout[i])
    BY <1>1, <2>1 DEF OneAnswer, Going, Printed
  <2>3. \A other : Sending(other)' /\ Arriving(other)'
    BY <1>1, <2>1, <2>2, Elsewhere DEF OneAnswer
  <2>4. \A other : Going(other)'
    <3>1. reader'.todo # Steps
      BY <1>1 DEF Steps
    <3>2. ~(\E i \in 1..Len(to_server[1]) : TRUE) /\ ~(\E i \in 1..Len(stdin) : TRUE)
      BY <2>1, <2>2 DEF OneAnswer, Going
    <3> QED BY <1>1, <3>1, <3>2 DEF Going
  <2>5. \E other \in Places : Printed(other)'
    <3>1. CASE stdout' = Append(stdout, Ack(id))
      <4>1. /\ n \in Nat /\ Len(stdout') = n + 1 /\ stdout'[n + 1] = Ack(id)
            /\ \A i \in 1..n : stdout'[i] = stdout[i]
        BY <1>3, <3>1, LineAppended
      <4>2. \A i \in 1..Len(stdout') : IsAnswer(stdout'[i]) => i = n + 1
        <5> HIDE DEF n
        <5> QED BY <2>2, <4>1
      <4>3. ASSUME NEW i \in 1..Len(stdout'), IsAnswer(stdout'[i])
            PROVE  AnswersLast(stdout[i])'
        BY <1>1, <1>3, <2>2, <4>1, <4>2, <4>3 DEF AnswersLast, Ids
      <4> HIDE DEF n
      <4> QED BY <4>2, <4>3 DEF Printed, Places
    <3>2. CASE stdout' = Append(stdout, Spoiled)
      <4>1. \A i \in 1..Len(stdout') : ~IsAnswer(stdout'[i])
        BY <2>2, <3>2, SpoiledAppended
      <4> QED BY <4>1 DEF Printed, Places
    <3> QED BY <1>1, <3>1, <3>2
  <2>6. \E other \in Places : OneAnswer(other)'
    BY <1>2, <2>1, <2>2, <2>3, <2>4, <2>5 DEF OneAnswer
  <2>7. \A d \in Ids : HasRow(d) => HasRow(d)'
    BY <1>1, <1>2, RowsHad
  <2> QED BY <1>1, <1>2, <1>4, <2>6, <2>7, FillsStay DEF Undisturbed, Answering, LoopRight
<1> QED BY <1>2, <1>4 DEF Undisturbed

(* A line that answers nobody, or none.                                    *)
LEMMA ExchangeUndisturbed ==
  ASSUME Known, Undisturbed,
         Enqueue \/ Dequeue \/ Processed \/ \E maker \in 0..MaxCommands : on_trade(maker)
  PROVE  Undisturbed'
<1>1. /\ UNCHANGED <<owner, ws, lost, terminals, commands, to_server, stdin, origin, loop,
                     to_client, pending_manual_orders>>
      /\ \/ UNCHANGED stdout \/ stdout' = Append(stdout, Spoiled)
         \/ \E maker : stdout' = Append(stdout, TradeLine(maker, processed))
      /\ UNCHANGED reader \/ reader'.todo # Steps
  <2>1. IdleReader.todo # Steps
    BY DEF IdleReader, Steps
  <2>2. CASE Enqueue
    BY <2>1, <2>2, ReaderSteps DEF Enqueue, pages, links, server, Known, WayInv, FlowOK
  <2>3. CASE Dequeue \/ Processed
    BY <2>3 DEF Dequeue, Processed, pages, links, server
  <2>4. CASE \E maker \in 0..MaxCommands : on_trade(maker)
    BY <2>4, LinePrinted DEF on_trade, pages, links, server
  <2> QED BY <2>2, <2>3, <2>4
<1>2. User' = User /\ Left' = Left /\ Alone' /\ RowsRight'
  BY <1>1, PageStays, RowsStay DEF Undisturbed
<1>3. ASSUME NEW place, OneAnswer(place) PROVE OneAnswer(place)'
  <2>1. Going(place)' /\ Sending(place)' /\ Arriving(place)'
    BY <1>1, <1>3, SendingStays, ArrivingStays DEF OneAnswer, Going
  <2>2. Printed(place)'
    <3>1. CASE UNCHANGED stdout
      BY <1>1, <1>3, <3>1, PrintedStays DEF OneAnswer
    <3>2. CASE \E maker : stdout' = Append(stdout, TradeLine(maker, processed))
      <4>1. PICK maker : stdout' = Append(stdout, TradeLine(maker, processed))
        BY <3>2
      <4>2. \A i \in 1..Len(stdout') :
              IsAnswer(stdout'[i]) => i \in 1..Len(stdout) /\ stdout'[i] = stdout[i]
        <5> DEFINE line == TradeLine(maker, processed)
        <5>1. line.type = "trade"
          BY DEF TradeLine
        <5>2. stdout \in Seq(Lines \cup {line}) /\ line \in Lines \cup {line}
          BY KnownFacts
        <5> HIDE DEF line
        <5>3. \A i \in 1..Len(stdout') : \/ i \in 1..Len(stdout) /\ stdout'[i] = stdout[i]
                                         \/ stdout'[i] = line
          BY <4>1, <5>2 DEF line
        <5> QED BY <5>1, <5>3 DEF IsAnswer
      <4> QED BY <1>1, <1>3, <4>2 DEF OneAnswer, Printed, AnswersLast, Ids
    <3>3. CASE stdout' = Append(stdout, Spoiled)
      BY <1>1, <1>3, <3>3, SpoiledAppended DEF OneAnswer, Printed, AnswersLast, Ids
    <3> QED BY <1>1, <3>1, <3>2, <3>3
  <2> QED BY <1>2, <1>3, <2>1, <2>2 DEF OneAnswer
<1>4. \A id \in Ids : HasRow(id) => HasRow(id)'
  BY <1>1, <1>2, RowsHad
<1>5. ~Left => Answering'
  BY <1>1, <1>2, <1>3, <1>4, FillsStay DEF Undisturbed, Answering, LoopRight
<1> QED BY <1>2, <1>5 DEF Undisturbed
-----------------------------------------------------------------------------
(* The server reads an answer, or a trade.                                 *)
LEMMA LoopAppended ==
  ASSUME Known, NEW message, NEW to, loop' = Append(loop, Coroutine(message, to))
  PROVE  /\ Len(loop) \in Nat /\ Len(loop') = Len(loop) + 1
         /\ loop'[Len(loop) + 1].message = message
         /\ loop'[Len(loop) + 1].started = FALSE /\ loop'[Len(loop) + 1].visited = {}
         /\ \A i \in 1..Len(loop) : loop'[i] = loop[i]
<1> DEFINE new == Coroutine(message, to)
<1>1. PICK M : loop \in Seq(Coroutines(M, lost))
  BY LoopFacts
<1>2. loop \in Seq(Coroutines(M, lost) \cup {new}) /\ new \in Coroutines(M, lost) \cup {new}
  BY <1>1, Larger
<1>3. new.message = message /\ new.started = FALSE /\ new.visited = {}
  BY DEF Coroutine
<1> HIDE DEF new
<1>4. loop' = Append(loop, new)
  BY DEF new
<1> QED BY <1>2, <1>3, <1>4

LEMMA ReadUndisturbed ==
  ASSUME Known, Undisturbed, stdout_reader_thread
  PROVE  Undisturbed'
<1> DEFINE line == Head(stdout)
           n == Len(loop)
<1>1. /\ stdout # <<>> /\ stdout' = Tail(stdout)
      /\ ReadAck(line) \/ ReadReject(line) \/ ReadTrade(line) \/ ReadSpoiled(line)
      /\ UNCHANGED <<owner, ws, lost, terminals, commands, to_server, stdin, reader, origin,
                     to_client>>
  BY DEF stdout_reader_thread, pages, links, engine
<1>2. stdout \in Seq(Lines)
  BY KnownFacts
<1>3. /\ Len(stdout) \in Nat /\ 1 \in 1..Len(stdout) /\ line = stdout[1] /\ line \in Lines
      /\ Len(stdout') = Len(stdout) - 1
      /\ \A i \in 1..Len(stdout') : i + 1 \in 1..Len(stdout) /\ stdout'[i] = stdout[i + 1]
  BY <1>1, <1>2
<1> HIDE DEF line
<1>4. User' = User /\ Left' = Left /\ Alone' /\ RowsRight'
  BY <1>1, PageStays, RowsStay DEF Undisturbed
<1>5. CASE Left
  BY <1>4, <1>5 DEF Undisturbed
<1>6. CASE ~Left
  <2>1. PICK place \in Places : OneAnswer(place)
    BY <1>6 DEF Undisturbed, Answering
  <2>2. FillsSent /\ FillsComing /\ IdsKnown /\ LoopRight /\ lost = {} /\ n \in Nat
    BY <1>6, LoopFacts DEF Undisturbed, Answering
  <2>3. /\ Going(place)' /\ Arriving(place)'
    BY <1>1, <2>1, GoingStays, ArrivingStays DEF OneAnswer
  <2>4. FillsSent'
    BY <1>1, <1>4, <2>2 DEF FillsSent, HasRow, Sent
  <2>5. CASE IsAnswer(line)
    <3>1. /\ place = "stdout" /\ AnswersLast(line)
          /\ \A j \in 1..Len(stdout) : IsAnswer(stdout[j]) => j = 1
      BY <1>3, <2>1, <2>5 DEF OneAnswer, Printed
    <3>2. \A other : Printed(other)'
      <4>1. \A i \in 1..Len(stdout') : ~IsAnswer(stdout'[i])
        BY <1>3, <3>1
      <4> QED BY <4>1 DEF Printed
    <3>3. \A i \in 1..n : ~Undelivered(loop[i])
      BY <2>1, <3>1 DEF OneAnswer, Sending
    <3>4. \/ UNCHANGED loop /\ ReadReject(line)
          \/ \E message, to :
               /\ loop' = Append(loop, Coroutine(message, to))
               /\ IsAnswer(message) /\ AnswersLast(message)
               /\ message.type # "manual_fill"
               /\ ReadAck(line) => message = line
      <4>1. CASE ReadAck(line)
        BY <2>5, <3>1, <4>1 DEF ReadAck, broadcast, IsAnswer
      <4>2. CASE ReadReject(line)
        <5> DEFINE message == [type |-> "order_reject", command |-> line.command]
        <5>1. IsAnswer(message) /\ AnswersLast(message) /\ message.type # "manual_fill"
          BY <3>1, <4>2 DEF ReadReject, AnswersLast, IsAnswer
        <5>2. ~ReadAck(line)
          BY <4>2 DEF ReadReject, ReadAck
        <5>3. UNCHANGED loop \/ \E to : loop' = Append(loop, Coroutine(message, to))
          BY <4>2 DEF ReadReject, send_to
        <5> QED BY <4>2, <5>1, <5>2, <5>3
      <4>3. ~ReadTrade(line) /\ ~ReadSpoiled(line)
        BY <2>5 DEF ReadTrade, ReadSpoiled, IsAnswer
      <4> QED BY <1>1, <4>1, <4>2, <4>3
    <3>5. CASE UNCHANGED loop /\ ReadReject(line)
      <4>1. OneAnswer("stdout")'
        BY <1>1, <1>4, <2>1, <2>3, <3>1, <3>2, <3>5, SendingStays DEF OneAnswer
      <4>2. FillsComing' /\ IdsKnown'
        BY <1>1, <1>4, <2>2, <3>5 DEF ReadReject, FillsComing, IdsKnown, HasRow, Sent, Coming
      <4> QED BY <1>1, <1>4, <2>2, <2>4, <3>5, <4>1, <4>2
              DEF Undisturbed, Answering, LoopRight, Places
    <3>6. ASSUME NEW message, NEW to, loop' = Append(loop, Coroutine(message, to)),
                 IsAnswer(message), AnswersLast(message), message.type # "manual_fill",
                 ReadAck(line) => message = line
          PROVE  Undisturbed'
      <4>1. /\ Len(loop') = n + 1 /\ loop'[n + 1].message = message
            /\ loop'[n + 1].started = FALSE /\ loop'[n + 1].visited = {}
            /\ \A i \in 1..n : loop'[i] = loop[i]
        BY <3>6, LoopAppended
      <4> HIDE DEF n
      <4>2. \A i \in 1..Len(loop') : i \in 1..n \/ i = n + 1
        BY <2>2, <4>1
      <4>3. Sending("loop")'
        <5>1. \A i \in 1..Len(loop') : Undelivered(loop'[i]) => i = n + 1
          BY <3>3, <4>1, <4>2 DEF n
        <5>2. ASSUME NEW i \in 1..Len(loop'), Undelivered(loop'[i])
              PROVE  AnswersLast(loop[i].message)'
          <6>1. loop'[i].message = message
            BY <4>1, <5>1, <5>2
          <6> QED BY <1>1, <3>6, <6>1 DEF AnswersLast, Ids
        <5> QED BY <5>1, <5>2 DEF Sending, Undelivered
      <4>4. Going("loop")' /\ Arriving("loop")'
        <5>1. Going("loop")'
          BY <2>3, <3>1 DEF Going
        <5> QED BY <1>1, <2>1, <3>1, <5>1, Elsewhere DEF OneAnswer
      <4>5. OneAnswer("loop")'
        BY <1>4, <2>1, <3>1, <3>2, <4>3, <4>4 DEF OneAnswer
      <4>6. \A id, k : Coming(id, k) /\ k <= n /\ k \in Nat => Coming(id, k)'
        BY <2>2, <4>1 DEF Coming
      <4>7. FillsComing'
        <5> SUFFICES ASSUME NEW i \in 1..Len(loop'), loop'[i].message.type = "manual_fill"
                     PROVE  \/ HasRow(loop[i].message.order_id)'
                            \/ Sent(loop[i].message.order_id, Len(to_client[1]))'
                            \/ Coming(loop[i].message.order_id, i - 1)'
          BY DEF FillsComing
        <5>1. i \in 1..n /\ loop'[i] = loop[i] /\ i - 1 \in Nat /\ i - 1 <= n
          BY <2>2, <3>6, <4>1, <4>2
        <5> DEFINE id == loop[i].message.order_id
        <5>2. HasRow(id) \/ Sent(id, Len(to_client[1])) \/ Coming(id, i - 1)
          BY <2>2, <5>1 DEF FillsComing, n
        <5> QED BY <1>1, <1>4, <4>6, <5>1, <5>2 DEF HasRow, Sent, Coming
      <4>8. IdsKnown'
        <5> SUFFICES ASSUME NEW id \in DOMAIN pending_manual_orders'
                     PROVE  HasRow(id)' \/ Sent(id, Len(to_client[1]))' \/ Coming(id, Len(loop))'
          BY DEF IdsKnown
        <5>1. CASE id \in DOMAIN pending_manual_orders
          <6>1. HasRow(id) \/ Sent(id, Len(to_client[1])) \/ Coming(id, n)
            BY <2>2, <5>1 DEF IdsKnown, n
          <6>2. Coming(id, n) => Coming(id, Len(loop))'
            BY <2>2, <4>1 DEF Coming
          <6> QED BY <1>1, <1>4, <6>1, <6>2 DEF HasRow, Sent
        <5>2. CASE id \notin DOMAIN pending_manual_orders
          <6>1. ReadAck(line) /\ id = line.order_id
            BY <1>1, <5>2 DEF ReadAck, ReadReject, ReadTrade, ReadSpoiled, With
          <6>2. message = Ack(id)
            BY <1>3, <3>6, <6>1, LineKinds DEF ReadAck
          <6>3. n + 1 \in 1..Len(loop') /\ loop'[n + 1].message = Ack(id) /\ ~loop'[n + 1].started
            BY <2>2, <4>1, <6>2
          <6> QED BY <6>3 DEF Coming
        <5> QED BY <5>1, <5>2
      <4>9. LoopRight'
        <5> SUFFICES ASSUME NEW i \in 1..Len(loop')
                     PROVE  /\ loop'[i].visited = IF loop'[i].started THEN {1} ELSE {}
                            /\ loop'[i].started => loop'[i].to = All
          BY DEF LoopRight
        <5>1. CASE i \in 1..n
          BY <2>2, <4>1, <5>1 DEF LoopRight, n
        <5>2. CASE i = n + 1
          BY <4>1, <5>2
        <5> QED BY <4>2, <5>1, <5>2
      <4> QED BY <1>1, <1>4, <2>2, <2>4, <4>5, <4>7, <4>8, <4>9 DEF Undisturbed, Answering, Places
    <3> QED BY <3>4, <3>5, <3>6
  <2>6. CASE ~IsAnswer(line)
    <3>1. /\ ReadTrade(line) \/ ReadSpoiled(line)
          /\ UNCHANGED pending_manual_orders
      BY <1>1, <1>3, <2>6, LineKinds DEF ReadAck, ReadReject, ReadTrade, ReadSpoiled, IsAnswer
    <3>2. Printed(place)'
      <4> SUFFICES ASSUME NEW i \in 1..Len(stdout'), IsAnswer(stdout'[i])
                   PROVE  /\ place = "stdout" /\ AnswersLast(stdout[i])'
                          /\ \A j \in 1..Len(stdout') : IsAnswer(stdout'[j]) => i = j
        BY DEF Printed
      <4>1. /\ place = "stdout" /\ AnswersLast(stdout[i + 1])
            /\ \A j \in 1..Len(stdout) : IsAnswer(stdout[j]) => i + 1 = j
        BY <1>3, <2>1 DEF OneAnswer, Printed
      <4>2. AnswersLast(stdout[i])'
        BY <1>1, <1>3, <4>1 DEF AnswersLast, Ids
      <4>3. ASSUME NEW j \in 1..Len(stdout'), IsAnswer(stdout'[j]) PROVE i = j
        <5>1. i + 1 = j + 1
          BY <1>3, <4>1, <4>3
        <5> QED BY <5>1, <1>3
      <4> QED BY <4>1, <4>2, <4>3
    <3>3. CASE UNCHANGED loop
      <4>1. OneAnswer(place)'
        BY <1>1, <1>4, <2>1, <2>3, <3>2, <3>3, SendingStays DEF OneAnswer
      <4>2. \A id \in Ids : HasRow(id) => HasRow(id)'
        BY <1>1, <1>4, RowsHad
      <4> QED BY <1>1, <1>4, <2>2, <3>1, <3>3, <4>1, <4>2, FillsStay
              DEF Undisturbed, Answering, LoopRight
    <3>4. CASE loop' # loop
      <4>1. PICK id, to :
              /\ id \in DOMAIN pending_manual_orders
              /\ loop' = Append(loop, Coroutine([type |-> "manual_fill", order_id |-> id], to))
        BY <3>1, <3>4 DEF ReadTrade, ReadSpoiled, UserOrder, send_to
      <4> DEFINE message == [type |-> "manual_fill", order_id |-> id]
      <4>2. /\ Len(loop') = n + 1 /\ loop'[n + 1].message = message
            /\ loop'[n + 1].started = FALSE /\ loop'[n + 1].visited = {}
            /\ \A i \in 1..n : loop'[i] = loop[i]
        BY <4>1, LoopAppended
      <4>3. message.type = "manual_fill" /\ message.order_id = id /\ ~IsAnswer(message)
        BY DEF IsAnswer
      <4> HIDE DEF n, message
      <4>4. \A i \in 1..Len(loop') : i \in 1..n \/ i = n + 1
        BY <2>2, <4>2
      <4>5. Sending(place)'
        <5>1. \A i \in 1..Len(loop') : Undelivered(loop'[i]) => i \in 1..n
          BY <4>2, <4>3, <4>4 DEF Undelivered
        <5> SUFFICES ASSUME NEW i \in 1..Len(loop'), Undelivered(loop'[i])
                     PROVE  /\ place = "loop" /\ AnswersLast(loop[i].message)'
                            /\ \A j \in 1..Len(loop') : Undelivered(loop'[j]) => i = j
          BY DEF Sending, Undelivered
        <5>2. /\ place = "loop" /\ AnswersLast(loop[i].message)
              /\ \A j \in 1..n : Undelivered(loop[j]) => i = j
          BY <2>1, <4>2, <5>1 DEF OneAnswer, Sending, n
        <5>3. AnswersLast(loop[i].message)'
          BY <1>1, <4>2, <5>1, <5>2 DEF AnswersLast, Ids
        <5> QED BY <4>2, <5>1, <5>2, <5>3
      <4>6. OneAnswer(place)'
        BY <1>4, <2>1, <2>3, <3>2, <4>5 DEF OneAnswer
      <4>7. \A d, k : Coming(d, k) /\ k <= n /\ k \in Nat => Coming(d, k)'
        BY <2>2, <4>2 DEF Coming
      <4>8. FillsComing'
        <5> SUFFICES ASSUME NEW i \in 1..Len(loop'), loop'[i].message.type = "manual_fill"
                     PROVE  \/ HasRow(loop[i].message.order_id)'
                            \/ Sent(loop[i].message.order_id, Len(to_client[1]))'
                            \/ Coming(loop[i].message.order_id, i - 1)'
          BY DEF FillsComing
        <5>0. i - 1 \in Nat /\ i - 1 <= n
          BY <2>2, <4>4
        <5>1. PICK d : /\ d = loop'[i].message.order_id
                       /\ HasRow(d) \/ Sent(d, Len(to_client[1])) \/ Coming(d, i - 1)
          <6>1. CASE i \in 1..n
            BY <2>2, <4>2, <6>1 DEF FillsComing, n
          <6>2. CASE i = n + 1
            <7>1. HasRow(id) \/ Sent(id, Len(to_client[1])) \/ Coming(id, n)
              BY <2>2, <4>1 DEF IdsKnown, n
            <7>2. i - 1 = n /\ loop'[i].message.order_id = id
              BY <2>2, <4>2, <4>3, <6>2
            <7> QED BY <7>1, <7>2
          <6> QED BY <4>4, <6>1, <6>2
        <5> QED BY <1>1, <1>4, <4>7, <5>0, <5>1 DEF HasRow, Sent, Coming
      <4>9. IdsKnown'
        <5> SUFFICES ASSUME NEW d \in DOMAIN pending_manual_orders
                     PROVE  HasRow(d)' \/ Sent(d, Len(to_client[1]))' \/ Coming(d, Len(loop))'
          BY <3>1 DEF IdsKnown
        <5>1. HasRow(d) \/ Sent(d, Len(to_client[1])) \/ Coming(d, n)
          BY <2>2 DEF IdsKnown, n
        <5>2. Coming(d, n) => Coming(d, Len(loop))'
          BY <2>2, <4>2 DEF Coming
        <5> QED BY <1>1, <1>4, <5>1, <5>2 DEF HasRow, Sent
      <4>10. LoopRight'
        <5> SUFFICES ASSUME NEW i \in 1..Len(loop')
                     PROVE  /\ loop'[i].visited = IF loop'[i].started THEN {1} ELSE {}
                            /\ loop'[i].started => loop'[i].to = All
          BY DEF LoopRight
        <5>1. CASE i \in 1..n
          BY <2>2, <4>2, <5>1 DEF LoopRight, n
        <5>2. CASE i = n + 1
          BY <4>2, <5>2
        <5> QED BY <4>4, <5>1, <5>2
      <4> QED BY <1>1, <1>4, <2>2, <2>4, <4>6, <4>8, <4>9, <4>10 DEF Undisturbed, Answering
    <3> QED BY <3>3, <3>4
  <2> QED BY <2>5, <2>6
<1> QED BY <1>5, <1>6
-----------------------------------------------------------------------------
(* One that is no ack still to be sent leaves the others in order.         *)
LEMMA LoopShortened ==
  ASSUME Known, LoopRight, NEW i \in DOMAIN loop, loop' = Without(loop, i),
         \A id : loop[i].message = Ack(id) => loop[i].started
  PROVE  /\ i \in 1..Len(loop) /\ Len(loop') = Len(loop) - 1 /\ LoopRight'
         /\ \A k \in 1..Len(loop') : \E j \in 1..Len(loop) :
              /\ j # i /\ j = (IF k < i THEN k ELSE k + 1) /\ loop'[k] = loop[j]
              /\ \A id : Coming(id, j - 1) => Coming(id, k - 1)'
         /\ \A id : Coming(id, Len(loop)) => Coming(id, Len(loop))'
<1> DEFINE n == Len(loop)
           at(k) == IF k < i THEN k ELSE k + 1
<1>1. n \in Nat /\ i \in 1..n
  BY LoopFacts
<1>2. PICK M : loop \in Seq(Coroutines(M, lost))
  BY LoopFacts
<1>3. Len(loop') = n - 1 /\ \A k \in 1..(n - 1) : loop'[k] = loop[at(k)]
  BY <1>1, <1>2, WithoutIs
<1> HIDE DEF n
<1>4. \A k \in 1..(n - 1) : at(k) \in 1..n /\ at(k) # i
  BY <1>1
<1>5. LoopRight'
  BY <1>3, <1>4 DEF LoopRight, n
<1>6. ASSUME NEW id, NEW j \in 1..n, loop[j].message = Ack(id), ~loop[j].started
      PROVE  \E k \in 1..(n - 1) : at(k) = j /\ loop'[k].message = Ack(id) /\ ~loop'[k].started
  <2>1. j # i
    BY <1>6
  <2>2. \E k \in 1..(n - 1) : at(k) = j
    <3>1. CASE j < i
      <4>1. j \in 1..(n - 1) /\ at(j) = j
        BY <1>1, <3>1
      <4> QED BY <4>1
    <3>2. CASE j > i
      <4>1. j - 1 \in 1..(n - 1) /\ at(j - 1) = j
        BY <1>1, <3>2
      <4> QED BY <4>1
    <3> QED BY <1>1, <2>1, <3>1, <3>2
  <2> HIDE DEF at
  <2> QED BY <2>2, <1>3, <1>6
<1>7. ASSUME NEW id, Coming(id, Len(loop)) PROVE Coming(id, Len(loop))'
  <2>1. PICK j \in 1..n : loop[j].message = Ack(id) /\ ~loop[j].started
    BY <1>7 DEF Coming, n
  <2>2. \E k \in 1..(n - 1) : loop'[k].message = Ack(id) /\ ~loop'[k].started
    BY <1>6, <2>1
  <2> QED BY <1>3, <2>2 DEF Coming
<1>8. ASSUME NEW k \in 1..(n - 1), NEW id, Coming(id, at(k) - 1)
      PROVE  Coming(id, k - 1)'
  <2>1. PICK j \in 1..(at(k) - 1) : loop[j].message = Ack(id) /\ ~loop[j].started
    BY <1>8 DEF Coming
  <2>2. j \in 1..n /\ j < at(k)
    BY <1>1, <1>4, <2>1
  <2>3. PICK l \in 1..(n - 1) : at(l) = j /\ loop'[l].message = Ack(id) /\ ~loop'[l].started
    BY <1>6, <2>1, <2>2
  <2>4. l \in 1..(k - 1)
    BY <1>1, <2>2, <2>3
  <2> QED BY <2>3, <2>4 DEF Coming
<1>9. ASSUME NEW k \in 1..(n - 1)
      PROVE  \E j \in 1..n : /\ j # i /\ j = (IF k < i THEN k ELSE k + 1) /\ loop'[k] = loop[j]
                             /\ \A id : Coming(id, j - 1) => Coming(id, k - 1)'
  BY <1>3, <1>4, <1>8
<1> QED BY <1>1, <1>3, <1>5, <1>7, <1>9 DEF n

(* A message is sent on the one websocket, or is not.                      *)
LEMMA ClientAppended ==
  ASSUME Known, NEW message \in Acks \cup Fills \cup Rejections(1),
         to_client'[1] = Append(to_client[1], message)
  PROVE  /\ Len(to_client[1]) \in Nat /\ Len(to_client'[1]) = Len(to_client[1]) + 1
         /\ to_client'[1][Len(to_client[1]) + 1] = message
         /\ \A i \in 1..Len(to_client[1]) : to_client'[1][i] = to_client[1][i]
<1> DEFINE T == Acks \cup Fills \cup Rejections(1)
<1>1. to_client[1] \in Seq(T) /\ message \in T
  BY KnownFacts
<1> HIDE DEF T
<1> QED BY <1>1

(* What is behind it, and on its way, stays so; if it was the answer there *)
(* is none left.                                                           *)
LEMMA Shortened ==
  ASSUME Known, LoopRight, FillsComing, IdsKnown, NEW place, Sending(place),
         NEW i \in DOMAIN loop, loop' = Without(loop, i),
         \A id : loop[i].message = Ack(id) => loop[i].started,
         UNCHANGED <<User, commands, origin, pending_manual_orders>>,
         \A id : Sent(id, Len(to_client[1])) => Sent(id, Len(to_client[1]))'
  PROVE  /\ LoopRight' /\ FillsComing' /\ IdsKnown' /\ Sending(place)'
         /\ Undelivered(loop[i]) => \A other : Sending(other)'
<1> DEFINE n == Len(loop)
<1>1. n \in Nat /\ i \in 1..n
  BY LoopFacts
<1>2. /\ Len(loop') = n - 1 /\ LoopRight'
      /\ \A k \in 1..Len(loop') : \E j \in 1..n :
           /\ j # i /\ j = (IF k < i THEN k ELSE k + 1) /\ loop'[k] = loop[j]
           /\ \A id : Coming(id, j - 1) => Coming(id, k - 1)'
      /\ \A id : Coming(id, Len(loop)) => Coming(id, Len(loop))'
  BY LoopShortened
<1> HIDE DEF n
<1>3. FillsComing'
  <2> SUFFICES ASSUME NEW k \in 1..Len(loop'), loop'[k].message.type = "manual_fill"
               PROVE  \/ HasRow(loop[k].message.order_id)'
                      \/ Sent(loop[k].message.order_id, Len(to_client[1]))'
                      \/ Coming(loop[k].message.order_id, k - 1)'
    BY DEF FillsComing
  <2>1. PICK j \in 1..n : loop'[k] = loop[j] /\ \A id : Coming(id, j - 1) => Coming(id, k - 1)'
    BY <1>2
  <2>2. \/ HasRow(loop[j].message.order_id) \/ Sent(loop[j].message.order_id, Len(to_client[1]))
        \/ Coming(loop[j].message.order_id, j - 1)
    BY <2>1 DEF FillsComing, n
  <2> QED BY <2>1, <2>2 DEF HasRow
<1>4. IdsKnown'
  BY <1>2 DEF IdsKnown, HasRow
<1>5. Sending(place)'
  <2> SUFFICES ASSUME NEW k \in 1..Len(loop'), Undelivered(loop'[k])
               PROVE  /\ place = "loop" /\ AnswersLast(loop[k].message)'
                      /\ \A l \in 1..Len(loop') : Undelivered(loop'[l]) => k = l
    BY DEF Sending, Undelivered
  <2>1. PICK j \in 1..n : j = (IF k < i THEN k ELSE k + 1) /\ loop'[k] = loop[j]
    BY <1>2
  <2>2. /\ place = "loop" /\ AnswersLast(loop[j].message)
        /\ \A l \in 1..n : Undelivered(loop[l]) => j = l
    BY <2>1 DEF Sending, n
  <2>3. AnswersLast(loop[k].message)'
    BY <2>1, <2>2 DEF AnswersLast, Ids
  <2>4. ASSUME NEW l \in 1..Len(loop'), Undelivered(loop'[l]) PROVE k = l
    <3>1. PICK h \in 1..n : h = (IF l < i THEN l ELSE l + 1) /\ loop'[l] = loop[h]
      BY <1>2
    <3>2. h = j
      BY <2>2, <2>4, <3>1
    <3> QED BY <1>1, <1>2, <2>1, <3>1, <3>2
  <2> QED BY <2>2, <2>3, <2>4
<1>6. ASSUME Undelivered(loop[i]), NEW other PROVE Sending(other)'
  <2>1. \A j \in 1..n : Undelivered(loop[j]) => i = j
    BY <1>1, <1>6 DEF Sending, n
  <2>2. \A k \in 1..Len(loop') : ~Undelivered(loop'[k])
    BY <1>2, <2>1
  <2> QED BY <2>2 DEF Sending, Undelivered
<1> QED BY <1>2, <1>3, <1>4, <1>5, <1>6

LEMMA SendToUndisturbed ==
  ASSUME Known, Undisturbed, NEW i \in DOMAIN loop, SendTo(i)
  PROVE  Undisturbed'
<1> DEFINE message == loop[i].message
           n == Len(loop)
           m == Len(to_client[1])
<1>1. /\ \A j \in 1..(i - 1) : loop[j].started
      /\ loop[i].to # All /\ Deliver(loop[i].to, message) /\ loop' = Without(loop, i)
      /\ UNCHANGED <<owner, ws, lost, terminals, commands, to_server, stdin, reader, origin,
                     stdout, pending_manual_orders>>
  BY DEF SendTo, MayRun, pages, engine
<1>2. User' = User /\ Left' = Left /\ Alone' /\ RowsRight'
  BY <1>1, PageStays, RowsStay DEF Undisturbed
<1>3. CASE Left
  BY <1>2, <1>3 DEF Undisturbed
<1>4. CASE ~Left
  <2>1. PICK place \in Places : OneAnswer(place)
    BY <1>4 DEF Undisturbed, Answering
  <2>2. FillsSent /\ FillsComing /\ IdsKnown /\ LoopRight /\ lost = {}
    BY <1>4 DEF Undisturbed, Answering
  <2>3. /\ n \in Nat /\ i \in 1..n /\ Addressed(loop[i].message, loop[i].to) /\ ~loop[i].started
    BY <1>1, <2>2, LoopFacts DEF LoopRight
  <2>4. \A id : message # Ack(id)
    BY <1>1, <2>3 DEF Addressed, Rejections, Fills, Ack
  <2>5. \/ to_client'[1] = to_client[1]
        \/ /\ to_client'[1] = Append(to_client[1], message)
           /\ message \in Acks \cup Fills \cup Rejections(1)
    BY <1>1, <2>3, KnownFacts DEF Deliver, Addressed
  <2>6. /\ m \in Nat /\ Len(to_client'[1]) \in {m, m + 1}
        /\ \A k \in 1..m : to_client'[1][k] = to_client[1][k]
        /\ \A k \in 1..Len(to_client'[1]) :
             k \in 1..m \/ (k = m + 1 /\ to_client'[1][k] = message)
    <3>1. m \in Nat
      BY KnownFacts
    <3>2. CASE to_client'[1] = to_client[1]
      BY <3>1, <3>2
    <3>3. CASE /\ to_client'[1] = Append(to_client[1], message)
               /\ message \in Acks \cup Fills \cup Rejections(1)
      <4>1. /\ Len(to_client'[1]) = m + 1 /\ to_client'[1][m + 1] = message
            /\ \A k \in 1..m : to_client'[1][k] = to_client[1][k]
        BY <3>3, ClientAppended
      <4> QED BY <3>1, <4>1
    <3> QED BY <2>5, <3>2, <3>3
  <2> HIDE DEF n, m
  <2>7. \A id, k : /\ Sent(id, m) => Sent(id, Len(to_client[1]))'
                   /\ k \in Nat /\ k <= m /\ Sent(id, k) => Sent(id, k)'
    BY <2>6 DEF Sent
  <2>8. ~Coming(message.order_id, i - 1)
    BY <1>1 DEF Coming
  <2>9. FillsSent'
    <3> SUFFICES ASSUME NEW k \in 1..Len(to_client'[1]), to_client'[1][k].type = "manual_fill"
                 PROVE  HasRow(to_client[1][k].order_id)' \/ Sent(to_client[1][k].order_id, k - 1)'
      BY DEF FillsSent
    <3>1. CASE k \in 1..m
      <4>1. HasRow(to_client[1][k].order_id) \/ Sent(to_client[1][k].order_id, k - 1)
        BY <2>2, <2>6, <3>1 DEF FillsSent, m
      <4>2. k - 1 \in Nat /\ k - 1 <= m
        BY <2>6, <3>1
      <4> QED BY <1>1, <1>2, <2>6, <2>7, <3>1, <4>1, <4>2 DEF HasRow
    <3>2. CASE k = m + 1 /\ to_client'[1][k] = message
      <4>1. HasRow(message.order_id) \/ Sent(message.order_id, m)
        BY <2>2, <2>3, <2>8, <3>2 DEF FillsComing, n, m
      <4>2. k - 1 = m
        BY <2>6, <3>2
      <4> QED BY <1>1, <1>2, <2>6, <2>7, <3>2, <4>1, <4>2 DEF HasRow
    <3> QED BY <2>6, <3>1, <3>2
  <2>10. /\ LoopRight' /\ FillsComing' /\ IdsKnown' /\ Sending(place)'
         /\ Undelivered(loop[i]) => \A other : Sending(other)'
    BY <1>1, <1>2, <2>1, <2>2, <2>4, <2>7, Shortened DEF OneAnswer, m
  <2>11. \E other \in Places : OneAnswer(other)'
    <3>1. Going(place)' /\ Printed(place)'
      BY <1>1, <2>1, GoingStays, PrintedStays DEF OneAnswer
    <3>2. CASE IsAnswer(message)
      <4>1. place = "loop" /\ AnswersLast(message) /\ \A j \in 1..n : Undelivered(loop[j]) => i = j
        BY <2>1, <2>3, <3>2 DEF OneAnswer, Sending, Undelivered, n
      <4>2. Sending("to_client")'
        BY <2>3, <2>10, <3>2 DEF Undelivered
      <4>3. Going("to_client")' /\ Printed("to_client")'
        BY <1>1, <2>1, <3>1, <4>1, Elsewhere DEF Going, OneAnswer
      <4>4. Arriving("to_client")'
        <5>1. \A k \in 1..Len(to_client'[1]) : IsAnswer(to_client'[1][k]) =>
                k = m + 1 /\ to_client'[1][k] = message
          BY <2>1, <2>6, <4>1 DEF OneAnswer, Arriving, m
        <5>2. ASSUME NEW k \in 1..Len(to_client'[1]), IsAnswer(to_client'[1][k])
              PROVE  AnswersLast(to_client[1][k])'
          BY <1>1, <4>1, <5>1, <5>2 DEF AnswersLast, Ids
        <5> QED BY <5>1, <5>2 DEF Arriving
      <4> QED BY <1>2, <2>1, <4>1, <4>2, <4>3, <4>4 DEF OneAnswer, Places
    <3>3. CASE ~IsAnswer(message)
      <4>1. Arriving(place)'
        <5>1. \A k \in 1..Len(to_client'[1]) : IsAnswer(to_client'[1][k]) =>
                k \in 1..m /\ to_client'[1][k] = to_client[1][k]
          BY <2>6, <3>3
        <5> QED BY <1>1, <2>1, <5>1 DEF OneAnswer, Arriving, AnswersLast, Ids, m
      <4> QED BY <1>2, <2>1, <2>10, <3>1, <4>1 DEF OneAnswer
    <3> QED BY <3>2, <3>3
  <2> QED BY <1>1, <1>2, <2>2, <2>9, <2>10, <2>11 DEF Undisturbed, Answering
<1> QED BY <1>3, <1>4
-----------------------------------------------------------------------------
(* A broadcast cannot end before it has been to the one websocket.         *)
LEMMA EndsAfterwards ==
  ASSUME Known, Undisturbed, ~Left, NEW i \in DOMAIN loop, EndBroadcast(i)
  PROVE  loop[i].started
<1> SUFFICES ASSUME ~loop[i].started PROVE FALSE
  OBVIOUS
<1>1. PICK place \in Places : OneAnswer(place)
  BY DEF Undisturbed, Answering
<1>2. lost = {} /\ LoopRight
  BY DEF Undisturbed, Answering
<1>3. i \in 1..Len(loop) /\ loop[i].message \in Acks /\ loop[i].to = All
  BY LoopFacts DEF EndBroadcast, Addressed, Sockets, All
<1>4. Undelivered(loop[i])
  BY <1>3 DEF Undelivered, IsAnswer, Acks, Ack
<1>5. User.lastProvisionalKey # NoOrder
  BY <1>1, <1>3, <1>4 DEF OneAnswer, Sending
<1>6. owner # <<>>
  BY <1>5 DEF User, EmptyTerminal
<1>7. 1 \in Opened
  <2>1. owner \in Seq(Clients) /\ Opened = 1..Len(owner)
    BY KnownFacts
  <2> QED BY <1>6, <2>1
<1>8. 1 \in connected_clients /\ connected_clients \subseteq Opened
  BY <1>2, <1>7, LoopFacts
<1>9. IsFiniteSet(connected_clients)
  <2>1. Opened = {1}
    BY <1>7, OneSocket DEF Undisturbed
  <2>2. connected_clients = {1}
    BY <1>8, <2>1
  <2> QED BY <2>2, FS_Singleton
<1>10. Cardinality(connected_clients) = 1
  <2>1. connected_clients = {1}
    BY <1>7, <1>8, OneSocket DEF Undisturbed
  <2> QED BY <2>1, FS_Singleton
<1>11. loop[i].visited = {} /\ Size(i) = Cardinality(connected_clients)
  BY <1>2, <1>3 DEF LoopRight, Size
<1>12. Cardinality({}) = 0
  BY FS_EmptySet
<1> QED BY <1>10, <1>11, <1>12 DEF EndBroadcast

LEMMA EndBroadcastUndisturbed ==
  ASSUME Known, Undisturbed, NEW i \in DOMAIN loop, EndBroadcast(i)
  PROVE  Undisturbed'
<1>1. /\ loop' = Without(loop, i)
      /\ UNCHANGED <<owner, ws, lost, terminals, commands, to_server, to_client, stdin, reader,
                     origin, stdout, pending_manual_orders>>
  BY DEF EndBroadcast, pages, engine, links
<1>2. User' = User /\ Left' = Left /\ Alone' /\ RowsRight'
  BY <1>1, PageStays, RowsStay DEF Undisturbed
<1>3. CASE Left
  BY <1>2, <1>3 DEF Undisturbed
<1>4. CASE ~Left
  <2>1. PICK place \in Places : OneAnswer(place)
    BY <1>4 DEF Undisturbed, Answering
  <2>2. FillsSent /\ FillsComing /\ IdsKnown /\ LoopRight /\ lost = {}
    BY <1>4 DEF Undisturbed, Answering
  <2>3. loop[i].started
    BY <1>4, EndsAfterwards
  <2>4. \A id : Sent(id, Len(to_client[1])) => Sent(id, Len(to_client[1]))'
    BY <1>1 DEF Sent
  <2>5. /\ LoopRight' /\ FillsComing' /\ IdsKnown' /\ Sending(place)'
    BY <1>1, <1>2, <2>1, <2>2, <2>3, <2>4, Shortened DEF OneAnswer
  <2>6. OneAnswer(place)'
    BY <1>1, <1>2, <2>1, <2>5, GoingStays, PrintedStays, ArrivingStays DEF OneAnswer
  <2>7. FillsSent'
    BY <1>1, <1>2, <2>2 DEF FillsSent, HasRow, Sent
  <2> QED BY <1>1, <1>2, <2>2, <2>5, <2>6, <2>7 DEF Undisturbed, Answering
<1> QED BY <1>3, <1>4

(* The answer reaches the one websocket, on which nothing is lost.         *)
LEMMA BroadcastUndisturbed ==
  ASSUME Known, Undisturbed, NEW i \in DOMAIN loop, NEW s \in Opened, Broadcast(i, s)
  PROVE  Undisturbed'
<1> DEFINE message == loop[i].message
           n == Len(loop)
           m == Len(to_client[1])
           new == Visited(loop[i], 1, Size(i))
<1>1. s = 1 /\ Opened = {1} /\ owner # <<>> /\ owner[1] \in Clients
  BY OneSocket DEF Undisturbed
<1>2. /\ loop[i].to = All /\ 1 \notin loop[i].visited /\ Deliver(1, message)
      /\ loop' = [loop EXCEPT ![i] = new]
      /\ UNCHANGED <<owner, ws, lost, terminals, commands, to_server, stdin, reader, origin,
                     stdout, pending_manual_orders>>
  BY <1>1 DEF Broadcast, pages, engine
<1>3. User' = User /\ Left' = Left /\ Alone' /\ RowsRight'
  BY <1>2, PageStays, RowsStay DEF Undisturbed
<1>4. CASE Left
  BY <1>3, <1>4 DEF Undisturbed
<1>5. CASE ~Left
  <2>1. PICK place \in Places : OneAnswer(place)
    BY <1>5 DEF Undisturbed, Answering
  <2>2. FillsSent /\ FillsComing /\ IdsKnown /\ LoopRight /\ lost = {}
    BY <1>5 DEF Undisturbed, Answering
  <2>3. /\ n \in Nat /\ i \in 1..n /\ ~loop[i].started /\ message \in Acks
    BY <1>2, <2>2, LoopFacts DEF LoopRight, Addressed, Sockets, All
  <2>4. message.type = "ack" /\ IsAnswer(message) /\ Undelivered(loop[i])
    BY <2>3 DEF Acks, Ack, IsAnswer, Undelivered
  <2>5. /\ place = "loop" /\ AnswersLast(message)
        /\ \A j \in 1..n : Undelivered(loop[j]) => i = j
    BY <2>1, <2>3, <2>4 DEF OneAnswer, Sending
  <2>6. to_client'[1] = Append(to_client[1], message)
    <3>1. ws[owner[1]] = 1
      BY <1>1, <1>5, KnownFacts DEF Left, NoSocket
    <3>2. 1 \notin lost \cup Closed
      BY <2>2, <3>1 DEF Closed
    <3> QED BY <1>2, <3>2, KnownFacts DEF Deliver
  <2>7. /\ m \in Nat /\ Len(to_client'[1]) = m + 1 /\ to_client'[1][m + 1] = message
        /\ \A k \in 1..m : to_client'[1][k] = to_client[1][k]
    BY <2>3, <2>6, ClientAppended
  <2>8. /\ Len(loop') = n /\ loop'[i] = new
        /\ \A k \in 1..n : k # i => loop'[k] = loop[k]
    <3>1. \E M : loop \in Seq(Coroutines(M, lost))
      BY LoopFacts
    <3> HIDE DEF new
    <3> QED BY <1>2, <2>3, <3>1
  <2>9. /\ new.message = message /\ new.started = TRUE /\ new.to = All /\ new.visited = {1}
    <3>1. PICK M : loop \in Seq(Coroutines(M, lost))
      BY LoopFacts
    <3>2. loop[i] \in Coroutines(M, lost) /\ loop[i].visited = {}
      BY <2>2, <2>3, <3>1 DEF LoopRight
    <3> QED BY <1>2, <3>2 DEF Visited, Coroutines
  <2> HIDE DEF n, m, new, message
  <2>10. \A k \in 1..Len(to_client'[1]) :
           k \in 1..m \/ (k = m + 1 /\ to_client'[1][k] = message)
    BY <2>7
  <2>11. \A id, k : /\ Sent(id, m) => Sent(id, Len(to_client[1]))'
                    /\ k \in Nat /\ k <= m /\ Sent(id, k) => Sent(id, k)'
    BY <2>7 DEF Sent
  <2>12. ASSUME NEW id, NEW k \in Nat, k <= n, Coming(id, k)
         PROVE  Coming(id, k)' \/ Sent(id, Len(to_client[1]))'
    <3>1. PICK j \in 1..k : loop[j].message = Ack(id) /\ ~loop[j].started
      BY <2>12 DEF Coming
    <3>2. CASE j # i
      <4>1. j \in 1..n
        BY <2>3, <2>12
      <4>2. loop'[j] = loop[j]
        BY <2>8, <3>2, <4>1
      <4> QED BY <3>1, <4>2 DEF Coming
    <3>3. CASE j = i
      <4>1. m + 1 \in 1..Len(to_client'[1]) /\ to_client'[1][m + 1] = Ack(id)
        BY <2>7, <3>1, <3>3 DEF message
      <4> QED BY <4>1 DEF Sent
    <3> QED BY <3>2, <3>3
  <2>13. FillsSent'
    <3> SUFFICES ASSUME NEW k \in 1..Len(to_client'[1]), to_client'[1][k].type = "manual_fill"
                 PROVE  HasRow(to_client[1][k].order_id)' \/ Sent(to_client[1][k].order_id, k - 1)'
      BY DEF FillsSent
    <3>1. k \in 1..m /\ k - 1 \in Nat /\ k - 1 <= m
      BY <2>4, <2>7, <2>10
    <3>2. HasRow(to_client[1][k].order_id) \/ Sent(to_client[1][k].order_id, k - 1)
      BY <2>2, <2>7, <3>1 DEF FillsSent, m
    <3> QED BY <1>2, <1>3, <2>7, <2>11, <3>1, <3>2 DEF HasRow
  <2>14. \A k \in 1..n : loop'[k].message = loop[k].message
    BY <2>8, <2>9 DEF message
  <2>15. FillsComing'
    <3> SUFFICES ASSUME NEW k \in 1..n, loop[k].message.type = "manual_fill"
                 PROVE  \/ HasRow(loop[k].message.order_id)'
                        \/ Sent(loop[k].message.order_id, Len(to_client[1]))'
                        \/ Coming(loop[k].message.order_id, k - 1)'
      BY <2>8, <2>14 DEF FillsComing
    <3>0. PICK id : id = loop[k].message.order_id
      OBVIOUS
    <3>1. HasRow(id) \/ Sent(id, m) \/ Coming(id, k - 1)
      BY <2>2, <3>0 DEF FillsComing, m, n
    <3>2. k - 1 \in Nat /\ k - 1 <= n /\ loop'[k].message.order_id = id
      BY <2>3, <2>14, <3>0
    <3>3. Coming(id, k - 1) => Coming(id, k - 1)' \/ Sent(id, Len(to_client[1]))'
      BY <2>12, <3>2
    <3>4. HasRow(id)' \/ Sent(id, Len(to_client[1]))' \/ Coming(id, k - 1)'
      BY <1>2, <1>3, <2>11, <3>1, <3>3 DEF HasRow
    <3> QED BY <3>2, <3>4
  <2>16. IdsKnown'
    <3> SUFFICES ASSUME NEW id \in DOMAIN pending_manual_orders
                 PROVE  HasRow(id)' \/ Sent(id, Len(to_client[1]))' \/ Coming(id, Len(loop))'
      BY <1>2 DEF IdsKnown
    <3>1. HasRow(id) \/ Sent(id, m) \/ Coming(id, n)
      BY <2>2 DEF IdsKnown, m, n
    <3>2. PICK z \in Nat : z = n
      BY <2>3
    <3>3. Coming(id, z) => Coming(id, z)' \/ Sent(id, Len(to_client[1]))'
      BY <2>12, <3>2
    <3> QED BY <1>2, <1>3, <2>8, <2>11, <3>1, <3>2, <3>3 DEF HasRow
  <2>17. LoopRight'
    BY <2>2, <2>8, <2>9 DEF LoopRight, n
  <2>18. OneAnswer("to_client")'
    <3>1. Going("to_client")' /\ Printed("to_client")'
      BY <1>2, <2>1, <2>5, Elsewhere DEF OneAnswer, Going
    <3>2. Sending("to_client")'
      <4>1. \A k \in 1..Len(loop') : ~Undelivered(loop'[k])
        BY <2>5, <2>8, <2>9 DEF Undelivered
      <4> QED BY <4>1 DEF Sending, Undelivered
    <3>3. Arriving("to_client")'
      <4>1. \A k \in 1..Len(to_client'[1]) : IsAnswer(to_client'[1][k]) =>
              k = m + 1 /\ to_client'[1][k] = message
        BY <2>1, <2>5, <2>7, <2>10 DEF OneAnswer, Arriving, m
      <4>2. ASSUME NEW k \in 1..Len(to_client'[1]), IsAnswer(to_client'[1][k])
            PROVE  AnswersLast(to_client[1][k])'
        BY <1>2, <2>5, <4>1, <4>2 DEF AnswersLast, Ids
      <4> QED BY <4>1, <4>2 DEF Arriving
    <3> QED BY <1>3, <2>1, <2>5, <3>1, <3>2, <3>3 DEF OneAnswer
  <2> QED BY <1>2, <1>3, <2>2, <2>13, <2>15, <2>16, <2>17, <2>18
          DEF Undisturbed, Answering, Places
<1> QED BY <1>4, <1>5
-----------------------------------------------------------------------------
(* The page shows a message.                                               *)
LEMMA Shows ==
  ASSUME Known, Undisturbed, NEW c \in Clients, Show(c)
  PROVE  /\ ~Left /\ ~Left' /\ Alone' /\ PageOK(User) /\ User' = onmessage(User, to_client[1][1])
         /\ Len(to_client[1]) \in Nat /\ 1 \in 1..Len(to_client[1])
         /\ to_client[1][1] \in Acks \cup Fills \cup Rejections(1)
         /\ Len(to_client'[1]) = Len(to_client[1]) - 1
         /\ \A k \in 1..Len(to_client'[1]) :
              k + 1 \in 1..Len(to_client[1]) /\ to_client'[1][k] = to_client[1][k + 1]
         /\ UNCHANGED <<commands, to_server, stdin, reader, origin, stdout, loop,
                        pending_manual_orders, lost>>
<1> DEFINE T == Acks \cup Fills \cup Rejections(1)
           q == to_client[1]
<1>1. /\ ws[c] # NoSocket /\ to_client[ws[c]] # <<>>
      /\ terminals' = [terminals EXCEPT ![c] = onmessage(terminals[c], Head(to_client[ws[c]]))]
      /\ to_client' = [to_client EXCEPT ![ws[c]] = Tail(to_client[ws[c]])]
      /\ UNCHANGED <<owner, ws, lost, commands, to_server, stdin, reader, origin, stdout, loop,
                     pending_manual_orders>>
  BY DEF Show, server, engine
<1>2. owner = <<c>> /\ ws[c] = 1 /\ User = terminals[c] /\ ~Left /\ Left' = Left
  BY <1>1, OneUser DEF Undisturbed, Left
<1>3. /\ PageOK(terminals[c]) /\ terminals = [d \in Clients |-> terminals[d]]
      /\ 1 \in DOMAIN to_client /\ q \in Seq(T)
  BY KnownFacts
<1>4. q # <<>> /\ to_client'[1] = Tail(q)
  BY <1>1, <1>2, <1>3
<1> HIDE DEF T
<1>5. /\ Len(q) \in Nat /\ 1 \in 1..Len(q) /\ Head(q) = q[1] /\ q[1] \in T
      /\ Len(Tail(q)) = Len(q) - 1
      /\ \A k \in 1..Len(Tail(q)) : k + 1 \in 1..Len(q) /\ Tail(q)[k] = q[k + 1]
  BY <1>3, <1>4
<1>6. User' = onmessage(User, q[1])
  BY <1>1, <1>2, <1>3, <1>5 DEF User
<1>7. Alone'
  BY <1>1, <1>2, <1>3 DEF Undisturbed, Alone
<1> QED BY <1>1, <1>2, <1>3, <1>4, <1>5, <1>6, <1>7 DEF T

(* A fill changes the rows with the order's id.                            *)
LEMMA FilledRows ==
  ASSUME NEW t, PageOK(t), NEW id, RowOf(t, id) # {}, NEW u, u = handleManualFill(t, id)
  PROVE  /\ Len(u.rows) = Len(t.rows) /\ u.lastProvisionalKey = t.lastProvisionalKey
         /\ \A i \in 1..Len(t.rows) :
              IF t.rows[i].order_id = id THEN u.rows[i] = Row(t.rows[i].command, id, "FILLED")
              ELSE u.rows[i] = t.rows[i]
<1>1. t \in [rows : Seq(TerminalRows), lastProvisionalKey : Nat] /\ Len(t.rows) \in Nat
  BY DEF PageOK
<1> DEFINE rows == [i \in DOMAIN t.rows |->
                      IF i \in RowOf(t, id) THEN Row(t.rows[i].command, id, "FILLED")
                      ELSE t.rows[i]]
<1>2. u = [t EXCEPT !.rows = rows]
  BY DEF handleManualFill
<1>3. u.rows = rows /\ u.lastProvisionalKey = t.lastProvisionalKey
  <2> HIDE DEF rows
  <2> QED BY <1>1, <1>2
<1>4. DOMAIN t.rows = 1..Len(t.rows)
  BY <1>1
<1>5. Len(rows) = Len(t.rows)
  BY <1>1, <1>4
<1>6. ASSUME NEW i \in 1..Len(t.rows)
      PROVE  IF t.rows[i].order_id = id THEN rows[i] = Row(t.rows[i].command, id, "FILLED")
             ELSE rows[i] = t.rows[i]
  BY <1>4 DEF RowOf
<1> QED BY <1>3, <1>5, <1>6

(* What a row has, or waits for, it has afterwards, or still waits for.    *)
LEMMA FillsShown ==
  ASSUME Known, FillsSent, FillsComing, IdsKnown, UNCHANGED <<origin, loop, pending_manual_orders>>,
         Len(to_client[1]) \in Nat, Len(to_client'[1]) = Len(to_client[1]) - 1,
         \A k \in 1..Len(to_client'[1]) :
           k + 1 \in 1..Len(to_client[1]) /\ to_client'[1][k] = to_client[1][k + 1],
         \A id \in Ids : /\ HasRow(id) => HasRow(id)'
                         /\ to_client[1][1] = Ack(id) => HasRow(id)'
  PROVE  (FillsSent /\ FillsComing /\ IdsKnown)'
<1>1. ASSUME NEW id \in Ids, NEW k \in 0..Len(to_client[1]), Sent(id, k)
      PROVE  HasRow(id)' \/ Sent(id, k - 1)'
  <2>1. PICK j \in 1..k : to_client[1][j] = Ack(id)
    BY <1>1 DEF Sent
  <2>2. CASE j = 1
    BY <2>1, <2>2
  <2>3. CASE j # 1
    <3>1. j - 1 \in 1..(k - 1) /\ j - 1 \in 1..Len(to_client'[1]) /\ (j - 1) + 1 = j
      BY <2>3
    <3>2. to_client'[1][j - 1] = Ack(id)
      BY <2>1, <3>1
    <3> QED BY <3>1, <3>2 DEF Sent
  <2> QED BY <2>2, <2>3
<1>2. \A id, k : Coming(id, k) => Coming(id, k)'
  BY DEF Coming
<1>3. FillsSent'
  <2> SUFFICES ASSUME NEW k \in 1..Len(to_client'[1]), to_client'[1][k].type = "manual_fill"
               PROVE  HasRow(to_client[1][k].order_id)' \/ Sent(to_client[1][k].order_id, k - 1)'
    BY DEF FillsSent
  <2>1. PICK id : id = to_client'[1][k].order_id
    OBVIOUS
  <2>2. k + 1 \in 1..Len(to_client[1]) /\ to_client[1][k + 1] = to_client'[1][k]
    OBVIOUS
  <2>3. id \in Ids
    <3>1. to_client[1][k + 1] \in Acks \cup Fills \cup Rejections(1)
      BY <2>2, KnownFacts
    <3> QED BY <2>1, <2>2, <3>1, MessageKinds
  <2>4. HasRow(id) \/ Sent(id, k)
    <3>1. (k + 1) - 1 = k
      OBVIOUS
    <3> QED BY <2>1, <2>2, <3>1 DEF FillsSent
  <2>5. k \in 0..Len(to_client[1])
    BY <2>2
  <2>6. HasRow(id)' \/ Sent(id, k - 1)'
    BY <1>1, <2>3, <2>4, <2>5
  <2> QED BY <2>1, <2>6
<1>4. PICK z \in Nat : z = Len(to_client[1]) /\ z \in 0..Len(to_client[1])
  OBVIOUS
<1>5. ASSUME NEW id \in Ids, HasRow(id) \/ Sent(id, z)
      PROVE  HasRow(id)' \/ Sent(id, Len(to_client[1]))'
  <2>1. HasRow(id)' \/ Sent(id, z - 1)'
    BY <1>1, <1>4, <1>5
  <2>2. Len(to_client[1])' = z - 1
    BY <1>4
  <2> QED BY <2>1, <2>2
<1>6. FillsComing'
  <2> SUFFICES ASSUME NEW k \in 1..Len(loop), loop[k].message.type = "manual_fill"
               PROVE  \/ HasRow(loop[k].message.order_id)'
                      \/ Sent(loop[k].message.order_id, Len(to_client[1]))'
                      \/ Coming(loop[k].message.order_id, k - 1)'
    BY DEF FillsComing
  <2>1. PICK id : id = loop[k].message.order_id
    OBVIOUS
  <2>2. id \in Ids
    <3>1. Addressed(loop[k].message, loop[k].to)
      BY LoopFacts
    <3> QED BY <2>1, <3>1 DEF Addressed, Acks, Ack, Fills, Rejections
  <2>3. HasRow(id) \/ Sent(id, z) \/ Coming(id, k - 1)
    BY <1>4, <2>1 DEF FillsComing
  <2>4. HasRow(id)' \/ Sent(id, Len(to_client[1]))' \/ Coming(id, k - 1)'
    BY <1>2, <1>5, <2>2, <2>3
  <2> QED BY <2>1, <2>4
<1>7. IdsKnown'
  <2> SUFFICES ASSUME NEW id \in DOMAIN pending_manual_orders
               PROVE  HasRow(id)' \/ Sent(id, Len(to_client[1]))' \/ Coming(id, Len(loop))'
    BY DEF IdsKnown
  <2>1. id \in Ids
    BY DEF Known, WayInv, FlowOK, AnswersOK
  <2>2. HasRow(id) \/ Sent(id, z) \/ Coming(id, Len(loop))
    BY <1>4 DEF IdsKnown
  <2>3. Coming(id, Len(loop)) => Coming(id, Len(loop))'
    BY <1>2 DEF Coming
  <2> QED BY <1>5, <2>1, <2>2, <2>3
<1> QED BY <1>3, <1>6, <1>7

(* The one answer is for the row that waits.                               *)
LEMMA AnswerShownUndisturbed ==
  ASSUME Known, Undisturbed, NEW c \in Clients, Show(c), IsAnswer(to_client[1][1])
  PROVE  Undisturbed'
<1> DEFINE m == to_client[1][1]
           q == to_client[1]
           t == User
<1>1. /\ ~Left /\ ~Left' /\ Alone' /\ PageOK(t) /\ User' = onmessage(t, m)
      /\ Len(q) \in Nat /\ 1 \in 1..Len(q) /\ m \in Acks \cup Fills \cup Rejections(1)
      /\ Len(to_client'[1]) = Len(q) - 1
      /\ \A k \in 1..Len(to_client'[1]) :
           k + 1 \in 1..Len(q) /\ to_client'[1][k] = q[k + 1]
      /\ UNCHANGED <<commands, to_server, stdin, reader, origin, stdout, loop,
                     pending_manual_orders, lost>>
  BY Shows
<1>2. PICK place \in Places : OneAnswer(place)
  BY <1>1 DEF Undisturbed, Answering
<1>3. FillsSent /\ FillsComing /\ IdsKnown /\ LoopRight /\ lost = {} /\ RowsRight
  BY <1>1 DEF Undisturbed, Answering
<1>4. place = "to_client" /\ AnswersLast(m) /\ \A j \in 1..Len(q) : IsAnswer(q[j]) => 1 = j
  BY <1>1, <1>2 DEF OneAnswer, Arriving
<1>5. t.lastProvisionalKey # NoOrder
  BY <1>2, <1>4 DEF OneAnswer
<1>6. t.lastProvisionalKey = commands /\ RowsKept
  BY <1>3, <1>5 DEF RowsRight
<1> DEFINE Answered(id, status) ==
             [rows |-> [i \in DOMAIN t.rows |->
                          IF i \in BoundRow(t) THEN Row(t.rows[i].command, id, status)
                          ELSE t.rows[i]],
              lastProvisionalKey |-> NoOrder]
<1>7. PICK id, status :
        /\ \/ m.type = "ack" /\ m = Ack(id) /\ id \in Ids /\ id # 0 /\ status = "RESTING"
           \/ m.type = "order_reject" /\ id = 0 /\ status = "REJECTED"
        /\ User' = Answered(id, status)
  <2> HIDE DEF t, m
  <2>1. CASE m.type = "ack"
    <3>1. User' = handleAck(t, m.order_id)
      BY <1>1, <2>1 DEF onmessage
    <3>2. m = Ack(m.order_id) /\ m.order_id \in Ids /\ m.order_id # 0
      BY <1>1, <2>1, MessageKinds, KnownFacts
    <3>3. User' = Answered(m.order_id, "RESTING")
      BY <1>5, <3>1 DEF handleAck
    <3> HIDE DEF Answered
    <3> QED BY <2>1, <3>2, <3>3
  <2>2. CASE m.type = "order_reject"
    <3>1. User' = handleOrderReject(t)
      BY <1>1, <2>2 DEF onmessage
    <3>2. User' = Answered(0, "REJECTED")
      BY <1>5, <3>1 DEF handleOrderReject
    <3> HIDE DEF Answered
    <3> QED BY <2>2, <3>2
  <2>3. m.type \in {"ack", "order_reject"}
    BY <1>1, MessageKinds DEF IsAnswer, m
  <2> QED BY <2>1, <2>2, <2>3
<1>8. /\ Len(User'.rows) = Len(t.rows) /\ User'.lastProvisionalKey = NoOrder
      /\ \A i \in 1..Len(t.rows) :
           IF t.rows[i].command = commands /\ t.rows[i].order_id = 0
           THEN User'.rows[i] = Row(commands, id, status)
           ELSE User'.rows[i] = t.rows[i]
  <2> DEFINE rows == [i \in DOMAIN t.rows |->
                        IF i \in BoundRow(t) THEN Row(t.rows[i].command, id, status)
                        ELSE t.rows[i]]
  <2>1. t.rows \in Seq(TerminalRows)
    BY <1>1 DEF PageOK
  <2>2. DOMAIN t.rows = 1..Len(t.rows) /\ Len(t.rows) \in Nat
    BY <2>1
  <2>3. Len(rows) = Len(t.rows)
    BY <2>2
  <2>4. ASSUME NEW i \in 1..Len(t.rows)
        PROVE  IF t.rows[i].command = commands /\ t.rows[i].order_id = 0
               THEN rows[i] = Row(commands, id, status) ELSE rows[i] = t.rows[i]
    BY <1>6, <2>2 DEF BoundRow
  <2>5. User'.rows = rows /\ User'.lastProvisionalKey = NoOrder
    BY <1>7
  <2> HIDE DEF rows
  <2> QED BY <2>3, <2>4, <2>5
<1>9. ~(\E i \in 1..Len(to_server[1]) : TRUE) /\ ~(\E i \in 1..Len(stdin) : TRUE)
  BY <1>2, <1>4 DEF OneAnswer, Going
<1> DEFINE row == Row(commands, id, status)
<1>10. row.command = commands /\ row.order_id = id /\ row.status = status /\ RowRight(row)
  <2>1. row.command = commands /\ row.order_id = id /\ row.status = status
    BY DEF Row
  <2>2. commands \in 0..commands
    BY KnownFacts
  <2>3. CASE m = Ack(id) /\ m.type = "ack" /\ status = "RESTING"
    <3>1. m.order_id = id
      BY <2>3 DEF Ack
    <3>2. id \in Ids /\ origin[id].number = commands
      BY <1>4, <2>3, <3>1 DEF AnswersLast
    <3> HIDE DEF row, m
    <3> QED BY <2>1, <2>2, <2>3, <3>2 DEF RowRight
  <2>4. CASE m.type = "order_reject" /\ id = 0 /\ status = "REJECTED"
    <3>1. Settled(commands)
      BY <1>4, <1>9, <2>4 DEF AnswersLast, Settled
    <3> HIDE DEF row, m
    <3> QED BY <2>1, <2>2, <2>4, <3>1 DEF RowRight
  <2> QED BY <1>7, <2>1, <2>3, <2>4
<1> HIDE DEF t, q, m, row
<1>11. RowsRight'
  <2>1. ASSUME NEW i \in 1..Len(t.rows)
        PROVE  RowRight(User'.rows[i]) /\ User'.rows[i].command = t.rows[i].command
    <3>1. CASE t.rows[i].command = commands /\ t.rows[i].order_id = 0
      BY <1>8, <1>10, <3>1 DEF row
    <3>2. CASE ~(t.rows[i].command = commands /\ t.rows[i].order_id = 0)
      BY <1>3, <1>8, <3>2 DEF RowsRight, t
    <3> QED BY <3>1, <3>2
  <2>2. \A r : RowRight(r) => RowRight(r)'
    BY <1>1 DEF RowRight, Settled, Ids
  <2>3. ASSUME NEW i \in 1..Len(User'.rows) PROVE RowRight(User.rows[i])'
    <3>1. PICK r : r = User'.rows[i]
      OBVIOUS
    <3>2. RowRight(r)
      BY <1>8, <2>1, <3>1
    <3> QED BY <2>2, <3>1, <3>2
  <2>4. RowsKept'
    BY <1>1, <1>6, <1>8, <2>1 DEF RowsKept, FullList, t
  <2> QED BY <1>8, <2>3, <2>4 DEF RowsRight
<1>12. OneAnswer("nowhere")'
  <2>1. Going("nowhere")' /\ Printed("nowhere")' /\ Sending("nowhere")'
    BY <1>1, <1>2, <1>4, Elsewhere DEF OneAnswer, Going
  <2>2. \A k \in 1..Len(to_client'[1]) : ~IsAnswer(to_client'[1][k])
    <3> SUFFICES ASSUME NEW k \in 1..Len(to_client'[1]), IsAnswer(to_client'[1][k]) PROVE FALSE
      OBVIOUS
    <3>1. k + 1 \in 1..Len(q) /\ IsAnswer(q[k + 1])
      BY <1>1
    <3>2. 1 = k + 1
      BY <1>4, <3>1
    <3> QED BY <3>2
  <2>3. Arriving("nowhere")'
    BY <2>2 DEF Arriving
  <2> QED BY <2>1, <2>3 DEF OneAnswer
<1>13. ASSUME NEW d \in Ids, HasRow(d) PROVE HasRow(d)'
  <2>1. ASSUME NEW i \in 1..Len(t.rows), User'.rows[i].command = origin[d].number
        PROVE  User'.rows[i].order_id = d
    <3>1. CASE t.rows[i].command = commands /\ t.rows[i].order_id = 0
      <4>1. t.rows[i].command = origin[d].number
        BY <1>8, <1>10, <2>1, <3>1 DEF row
      <4>2. t.rows[i].order_id = d
        BY <1>13, <4>1 DEF HasRow, t
      <4> QED BY <3>1, <4>2, KnownFacts
    <3>2. CASE ~(t.rows[i].command = commands /\ t.rows[i].order_id = 0)
      BY <1>8, <1>13, <2>1, <3>2 DEF HasRow, t
    <3> QED BY <3>1, <3>2
  <2> QED BY <1>1, <1>8, <2>1 DEF HasRow
<1>14. ASSUME NEW d \in Ids, m = Ack(d) PROVE HasRow(d)'
  <2>1. m.type = "ack" /\ m.order_id = d
    BY <1>14 DEF Ack
  <2>2. id = d /\ origin[d].number = commands
    BY <1>4, <1>7, <2>1 DEF Ack, AnswersLast
  <2>3. ASSUME NEW i \in 1..Len(t.rows), User'.rows[i].command = commands
        PROVE  User'.rows[i].order_id = d
    <3>1. CASE t.rows[i].command = commands /\ t.rows[i].order_id = 0
      BY <1>8, <1>10, <2>2, <3>1 DEF row
    <3>2. CASE ~(t.rows[i].command = commands /\ t.rows[i].order_id = 0)
      <4>1. User'.rows[i] = t.rows[i] /\ t.rows[i].order_id # 0
        BY <1>8, <2>3, <3>2
      <4>2. t.rows[i].order_id \in Ids /\ origin[t.rows[i].order_id].number = commands
        BY <1>3, <2>3, <4>1 DEF RowsRight, RowRight, t
      <4>3. t.rows[i].order_id = d
        BY <2>2, <4>2 DEF Known, NumbersApart, OrdersApart
      <4> QED BY <4>1, <4>3
    <3> QED BY <3>1, <3>2
  <2> QED BY <1>1, <1>8, <2>2, <2>3 DEF HasRow
<1>15. (FillsSent /\ FillsComing /\ IdsKnown)'
  BY <1>1, <1>3, <1>13, <1>14, FillsShown DEF q, m
<1> QED BY <1>1, <1>3, <1>11, <1>12, <1>15 DEF Undisturbed, Answering, LoopRight, Places

(* A fill changes the row of its order, or adds one of no order.           *)
LEMMA FillShownUndisturbed ==
  ASSUME Known, Undisturbed, NEW c \in Clients, Show(c), ~IsAnswer(to_client[1][1])
  PROVE  Undisturbed'
<1> DEFINE m == to_client[1][1]
           q == to_client[1]
           t == User
<1>1. /\ ~Left /\ ~Left' /\ Alone' /\ PageOK(t) /\ User' = onmessage(t, m)
      /\ Len(q) \in Nat /\ 1 \in 1..Len(q) /\ m \in Acks \cup Fills \cup Rejections(1)
      /\ Len(to_client'[1]) = Len(q) - 1
      /\ \A k \in 1..Len(to_client'[1]) :
           k + 1 \in 1..Len(q) /\ to_client'[1][k] = q[k + 1]
      /\ UNCHANGED <<commands, to_server, stdin, reader, origin, stdout, loop,
                     pending_manual_orders, lost>>
  BY Shows
<1>2. PICK place \in Places : OneAnswer(place)
  BY <1>1 DEF Undisturbed, Answering
<1>3. FillsSent /\ FillsComing /\ IdsKnown /\ LoopRight /\ lost = {} /\ RowsRight
  BY <1>1 DEF Undisturbed, Answering
<1>4. m.type = "manual_fill"
  BY <1>1, MessageKinds
<1>5. PICK id \in Ids : id = m.order_id /\ id # 0
  BY <1>1, <1>4, MessageKinds, KnownFacts
<1>6. User' = handleManualFill(t, id)
  BY <1>1, <1>4, <1>5 DEF onmessage
<1> DEFINE cut == IF RowOf(t, id) = {} THEN Cut(t) ELSE 0
           size == Len(t.rows)
<1>7. /\ User'.lastProvisionalKey = t.lastProvisionalKey
      /\ size \in Nat /\ size <= FullList /\ cut \in {0, 1} /\ (cut = 1 => Len(User'.rows) = FullList)
      /\ Len(User'.rows) \in Nat /\ Len(User'.rows) >= size
      /\ \A i \in 1..Len(User'.rows) :
           \/ User'.rows[i] = FillRow
           \/ /\ i + cut \in 1..size
              /\ IF t.rows[i + cut].order_id = id
                 THEN User'.rows[i] = Row(t.rows[i + cut].command, id, "FILLED")
                 ELSE User'.rows[i] = t.rows[i + cut]
      /\ cut = 0 => \A i \in 1..size : User'.rows[i].command = t.rows[i].command
  <2>1. size \in Nat /\ size <= FullList /\ t.rows \in Seq(TerminalRows)
    BY <1>1 DEF PageOK
  <2>2. CASE RowOf(t, id) # {}
    <3>1. /\ Len(User'.rows) = size /\ User'.lastProvisionalKey = t.lastProvisionalKey
          /\ \A i \in 1..size :
               IF t.rows[i].order_id = id THEN User'.rows[i] = Row(t.rows[i].command, id, "FILLED")
               ELSE User'.rows[i] = t.rows[i]
      BY <1>1, <1>6, <2>2, FilledRows
    <3>2. cut = 0
      BY <2>2
    <3> HIDE DEF cut, t, size
    <3>3. \A i \in 1..size : i + cut = i
      BY <2>1, <3>2
    <3>4. ASSUME NEW i \in 1..size PROVE User'.rows[i].command = t.rows[i].command
      <4>1. PICK r : r = User'.rows[i]
        OBVIOUS
      <4>2. r = t.rows[i] \/ r = Row(t.rows[i].command, id, "FILLED")
        BY <3>1, <4>1
      <4> QED BY <4>1, <4>2 DEF Row
    <3> QED BY <2>1, <3>1, <3>2, <3>3, <3>4
  <2>3. CASE RowOf(t, id) = {}
    <3>1. User' = addOrderEntry(t, FillRow)
      BY <1>6, <2>3 DEF handleManualFill
    <3>2. FillRow \in TerminalRows
      BY ManualAssumption DEF FillRow, Row, NoOrder, TerminalRows
    <3>3. cut = Cut(t)
      BY <2>3
    <3>4. \A i \in 1..size : t.rows[i].order_id # id
      BY <2>1, <2>3 DEF RowOf
    <3>5. /\ User'.lastProvisionalKey = t.lastProvisionalKey /\ cut \in {0, 1} /\ cut <= size
          /\ Len(User'.rows) = size + 1 - cut /\ User'.rows[size + 1 - cut] = FillRow
          /\ \A i \in 1..(size - cut) : User'.rows[i] = t.rows[i + cut]
      <4> HIDE DEF cut, size
      <4>1. PICK v : v = t /\ PageOK(v)
        BY <1>1
      <4> QED BY <3>1, <3>2, <3>3, <4>1, EntryAdded DEF size
    <3>6. cut = 1 => size = FullList
      BY <3>3 DEF Cut
    <3> HIDE DEF cut, t, size
    <3>7. ASSUME NEW i \in 1..Len(User'.rows), User'.rows[i] # FillRow
          PROVE  i + cut \in 1..size /\ User'.rows[i] = t.rows[i + cut]
      <4>1. i \in 1..(size + 1 - cut) /\ i # size + 1 - cut
        BY <3>5, <3>7
      <4>2. i \in 1..(size - cut) /\ i + cut \in 1..size
        BY <2>1, <3>5, <4>1
      <4> QED BY <3>5, <4>2
    <3>8. cut = 0 => \A i \in 1..size : User'.rows[i] = t.rows[i]
      BY <2>1, <3>5
    <3>9. /\ cut = 1 => Len(User'.rows) = FullList
          /\ Len(User'.rows) \in Nat /\ Len(User'.rows) >= size
      BY <2>1, <3>5, <3>6
    <3>10. cut = 0 => \A i \in 1..size : User'.rows[i].command = t.rows[i].command
      BY <3>8
    <3>11. ASSUME NEW i \in 1..Len(User'.rows), User'.rows[i] # FillRow
           PROVE  /\ i + cut \in 1..size
                  /\ IF t.rows[i + cut].order_id = id
                     THEN User'.rows[i] = Row(t.rows[i + cut].command, id, "FILLED")
                     ELSE User'.rows[i] = t.rows[i + cut]
      BY <3>4, <3>7, <3>11
    <3> QED BY <2>1, <3>5, <3>9, <3>10, <3>11
  <2> QED BY <2>2, <2>3
<1> HIDE DEF t, q, m, cut, size
<1>8. FillRow.command = 0 /\ FillRow.order_id = 0 /\ FillRow.status = "FILLED"
  BY DEF FillRow, Row, NoOrder
<1>9. ASSUME NEW r, NEW row, RowRight(r), r.order_id = id, row = Row(r.command, id, "FILLED")
      PROVE  RowRight(row)
  <2>1. row.command = r.command /\ row.order_id = id /\ row.status = "FILLED"
    BY <1>9 DEF Row
  <2> QED BY <1>9, <2>1 DEF RowRight
<1>10. RowsRight'
  <2>1. ASSUME NEW i \in 1..Len(User'.rows) PROVE RowRight(User'.rows[i])
    <3>1. CASE User'.rows[i] = FillRow
      <4>1. RowRight(FillRow)
        <5>1. 0 \in 0..commands
          BY KnownFacts
        <5> QED BY <1>8, <5>1 DEF RowRight
      <4> QED BY <3>1, <4>1
    <3>2. CASE User'.rows[i] # FillRow
      <4>1. PICK j \in 1..size : IF t.rows[j].order_id = id
                              THEN User'.rows[i] = Row(t.rows[j].command, id, "FILLED")
                              ELSE User'.rows[i] = t.rows[j]
        BY <1>7, <3>2
      <4>2. RowRight(t.rows[j])
        BY <1>3 DEF RowsRight, t, size
      <4> QED BY <1>9, <4>1, <4>2
    <3> QED BY <3>1, <3>2
  <2>2. \A r : RowRight(r) => RowRight(r)'
    BY <1>1 DEF RowRight, Settled, Ids
  <2>3. ASSUME NEW i \in 1..Len(User'.rows) PROVE RowRight(User.rows[i])'
    <3>1. PICK r : r = User'.rows[i]
      OBVIOUS
    <3>2. RowRight(r)'
      BY <2>1, <2>2, <3>1
    <3> QED BY <3>1, <3>2
  <2>4. RowsKept'
    <3>1. CASE cut = 1
      BY <1>7, <3>1 DEF RowsKept, FullList
    <3>2. CASE cut = 0
      <4>1. RowsKept /\ User = t
        BY <1>3 DEF RowsRight, t
      <4>2. CASE size = FullList
        <5>1. Len(User'.rows) = FullList
          <6>1. PageOK(User')
            BY <1>1, <1>6, KnownFacts, FillPage
          <6>2. FullList \in Nat
            BY TerminalAssumption DEF FullList
          <6> QED BY <1>7, <4>2, <6>1, <6>2 DEF PageOK
        <5> QED BY <5>1 DEF RowsKept, FullList
      <4>3. CASE size # FullList
        <5>1. ASSUME NEW n \in 1..commands
              PROVE  \E i \in 1..Len(User'.rows) : User'.rows[i].command = n
          <6>1. PICK i \in 1..size : t.rows[i].command = n
            BY <4>1, <4>3 DEF RowsKept, size
          <6>2. i \in 1..Len(User'.rows) /\ User'.rows[i].command = n
            BY <1>7, <3>2, <6>1
          <6> QED BY <6>2
        <5> QED BY <1>1, <5>1 DEF RowsKept
      <4> QED BY <4>2, <4>3
    <3> QED BY <1>7, <3>1, <3>2
  <2>5. User'.lastProvisionalKey \in {NoOrder, commands'}
    BY <1>1, <1>3, <1>7 DEF RowsRight, t
  <2> QED BY <2>3, <2>4, <2>5 DEF RowsRight
<1>11. OneAnswer(place)'
  <2>1. Going(place)' /\ Printed(place)' /\ Sending(place)'
    BY <1>1, <1>2, GoingStays, PrintedStays, SendingStays DEF OneAnswer
  <2>2. Arriving(place)'
    <3> SUFFICES ASSUME NEW k \in 1..Len(to_client'[1]), IsAnswer(to_client'[1][k])
                 PROVE  /\ place = "to_client" /\ AnswersLast(to_client[1][k])'
                        /\ \A l \in 1..Len(to_client'[1]) : IsAnswer(to_client'[1][l]) => k = l
      BY DEF Arriving
    <3>1. k + 1 \in 1..Len(q) /\ to_client'[1][k] = q[k + 1]
      BY <1>1
    <3>2. /\ place = "to_client" /\ AnswersLast(q[k + 1])
          /\ \A j \in 1..Len(q) : IsAnswer(q[j]) => k + 1 = j
      BY <1>2, <3>1 DEF OneAnswer, Arriving, q
    <3>3. AnswersLast(to_client[1][k])'
      BY <1>1, <3>1, <3>2 DEF AnswersLast, Ids
    <3>4. ASSUME NEW l \in 1..Len(to_client'[1]), IsAnswer(to_client'[1][l]) PROVE k = l
      <4>1. l + 1 \in 1..Len(q) /\ to_client'[1][l] = q[l + 1]
        BY <1>1
      <4>2. k + 1 = l + 1
        BY <3>2, <3>4, <4>1
      <4> QED BY <4>2
    <3> QED BY <3>2, <3>3, <3>4
  <2>3. place # "nowhere" => User'.lastProvisionalKey # NoOrder
    BY <1>2, <1>7 DEF OneAnswer, t
  <2> QED BY <2>1, <2>2, <2>3 DEF OneAnswer
<1>12. ASSUME NEW d \in Ids, HasRow(d) PROVE HasRow(d)'
  <2>1. origin[d].number # 0
    BY KnownFacts
  <2>2. ASSUME NEW i \in 1..Len(User'.rows), User'.rows[i].command = origin[d].number
        PROVE  User'.rows[i].order_id = d
    <3>1. User'.rows[i] # FillRow
      BY <1>8, <2>1, <2>2
    <3>2. PICK j \in 1..size : IF t.rows[j].order_id = id
                            THEN User'.rows[i] = Row(t.rows[j].command, id, "FILLED")
                            ELSE User'.rows[i] = t.rows[j]
      BY <1>7, <3>1
    <3>3. /\ User'.rows[i].command = t.rows[j].command
          /\ User'.rows[i].order_id = t.rows[j].order_id
      BY <3>2 DEF Row
    <3>4. t.rows[j].order_id = d
      BY <1>12, <2>2, <3>3 DEF HasRow, t, size
    <3> QED BY <3>3, <3>4
  <2> QED BY <1>1, <2>2 DEF HasRow
<1>13. \A d : m # Ack(d)
  BY <1>4 DEF Ack
<1>14. (FillsSent /\ FillsComing /\ IdsKnown)'
  BY <1>1, <1>3, <1>12, <1>13, FillsShown DEF q, m
<1> QED BY <1>1, <1>3, <1>10, <1>11, <1>14 DEF Undisturbed, Answering, LoopRight
-----------------------------------------------------------------------------
LEMMA UndisturbedStarts == Init => Undisturbed
<1> SUFFICES ASSUME Init PROVE Undisturbed
  OBVIOUS
<1>1. /\ terminals = [c \in Clients |-> EmptyTerminal] /\ commands = 0 /\ owner = <<>>
      /\ ws = [c \in Clients |-> NoSocket] /\ lost = {}
      /\ to_server = [s \in Sockets |-> <<>>] /\ to_client = [s \in Sockets |-> <<>>]
      /\ stdin = <<>> /\ stdout = <<>> /\ loop = <<>>
      /\ reader = IdleReader /\ pending_manual_orders = <<>>
  BY DEF Init
<1>2. to_server[1] = <<>> /\ to_client[1] = <<>>
  BY <1>1, ManualAssumption DEF Sockets
<1>3. User = EmptyTerminal /\ User.rows = <<>> /\ User.lastProvisionalKey = NoOrder
  BY <1>1 DEF User, EmptyTerminal
<1>4. Alone
  BY <1>1 DEF Alone
<1>5. RowsRight
  BY <1>1, <1>3 DEF RowsRight, RowsKept
<1>6. reader.todo # Steps
  BY <1>1 DEF IdleReader, Steps
<1>7. OneAnswer("nowhere")
  BY <1>1, <1>2, <1>6 DEF OneAnswer, Going, Printed, Sending, Arriving
<1>8. FillsSent /\ FillsComing /\ IdsKnown /\ LoopRight
  BY <1>1, <1>2 DEF FillsSent, FillsComing, IdsKnown, LoopRight
<1> QED BY <1>1, <1>4, <1>5, <1>7, <1>8 DEF Undisturbed, Answering, Places

(* What has been disturbed remains so.                                     *)
LEMMA OnceDisturbed ==
  ASSUME [Next]_vars, ~disturbed'
  PROVE  ~disturbed
<1>1. ASSUME NEW c \in Clients,
             Connect(c) \/ Logout(c) \/ Show(c) \/ \E kind \in Kinds : Place(c, kind)
      PROVE  ~disturbed
  BY <1>1 DEF Connect, Logout, Place, Show, pages
<1>2. ASSUME NEW s \in Opened, Lose(s) \/ EndHandler(s) \/ websocket_handler(s) PROVE ~disturbed
  BY <1>2 DEF Lose, EndHandler, websocket_handler, pages
<1>3. ASSUME NEW i \in DOMAIN loop,
             SendTo(i) \/ (\E s \in Opened : Broadcast(i, s)) \/ EndBroadcast(i)
      PROVE  ~disturbed
  BY <1>3 DEF SendTo, Broadcast, EndBroadcast, pages
<1>4. CASE stdout_reader_thread \/ ReadCommand \/ PrintAck \/ Enqueue \/ Dequeue \/ Processed
             \/ \E maker \in 0..MaxCommands : on_trade(maker)
  BY <1>4 DEF stdout_reader_thread, ReadCommand, PrintAck, Enqueue, Dequeue, Processed, on_trade,
              pages
<1>5. CASE UNCHANGED vars
  BY <1>5 DEF vars, pages
<1> QED BY <1>1, <1>2, <1>3, <1>4, <1>5 DEF Next

LEMMA UndisturbedKeeps ==
  ASSUME Known, ~disturbed => Undisturbed, [Next]_vars
  PROVE  ~disturbed' => Undisturbed'
<1> SUFFICES ASSUME ~disturbed' PROVE Undisturbed'
  OBVIOUS
<1>1. Undisturbed
  BY OnceDisturbed
<1>2. ASSUME NEW c \in Clients,
             Connect(c) \/ Logout(c) \/ Show(c) \/ \E kind \in Kinds : Place(c, kind)
      PROVE  Undisturbed'
  BY <1>1, <1>2, ConnectUndisturbed, LogoutUndisturbed, PlaceUndisturbed,
     AnswerShownUndisturbed, FillShownUndisturbed
<1>3. ASSUME NEW s \in Opened, Lose(s) \/ EndHandler(s) \/ websocket_handler(s)
      PROVE  Undisturbed'
  BY <1>1, <1>3, LoseUndisturbed, HandlerUndisturbed
<1>4. ASSUME NEW i \in DOMAIN loop,
             SendTo(i) \/ (\E s \in Opened : Broadcast(i, s)) \/ EndBroadcast(i)
      PROVE  Undisturbed'
  BY <1>1, <1>4, SendToUndisturbed, BroadcastUndisturbed, EndBroadcastUndisturbed
<1>5. CASE stdout_reader_thread \/ ReadCommand \/ PrintAck
  BY <1>1, <1>5, ReadUndisturbed, ReadCommandUndisturbed, PrintAckUndisturbed
<1>6. CASE Enqueue \/ Dequeue \/ Processed \/ \E maker \in 0..MaxCommands : on_trade(maker)
  BY <1>1, <1>6, ExchangeUndisturbed
<1>7. CASE UNCHANGED vars
  BY <1>1, <1>7, UndisturbedStays DEF vars, pages, links, server, engine
<1> QED BY <1>2, <1>3, <1>4, <1>5, <1>6, <1>7 DEF Next

(* Only the one user has rows.                                             *)
LEMMA RowsOfTheUser ==
  ASSUME Undisturbed, NEW c \in Clients, NEW i \in DOMAIN terminals[c].rows,
         PageOK(terminals[c])
  PROVE  RowRight(terminals[c].rows[i])
<1>1. terminals[c] # EmptyTerminal
  BY DEF EmptyTerminal
<1>2. User = terminals[c]
  BY <1>1 DEF Undisturbed, Alone, User
<1>3. i \in 1..Len(User.rows)
  BY <1>2 DEF PageOK
<1> QED BY <1>2, <1>3 DEF Undisturbed, RowsRight

(* PagesOK and NumbersApart hold with WayInv.                              *)
LEMMA UndisturbedAlways == Spec => [](Known /\ (~disturbed => Undisturbed))
<1>1. Init => PagesOK /\ NumbersApart
  BY PagesStart
<1>2. WayInv /\ PagesOK /\ NumbersApart /\ [Next]_vars => PagesOK' /\ NumbersApart'
  BY PagesKeep, NumbersKeep
<1>3. /\ Init => (~disturbed => Undisturbed)
      /\ /\ WayInv /\ PagesOK /\ NumbersApart /\ (~disturbed => Undisturbed) /\ [Next]_vars
         => (~disturbed' => Undisturbed')
  BY UndisturbedStarts, UndisturbedKeeps DEF Known
<1> QED BY <1>1, <1>2, <1>3, WayAlways, PTL DEF Spec, Known

(* While one user is logged in, and places an order only when the last one *)
(* has been answered, no row has the id of another order than the one that *)
(* was placed with it, and none says REJECTED of an order that got an id,  *)
(* however long he trades, also if orders are lost on the way.             *)
THEOREM RowsAlwaysTruthful == Spec => []RowsTruthful
<1>1. Known /\ (~disturbed => Undisturbed) => RowsTruthful
  <2> SUFFICES ASSUME Known, Undisturbed,
                      NEW c \in Clients, NEW i \in DOMAIN terminals[c].rows,
                      NEW row, row = terminals[c].rows[i]
               PROVE  /\ row.order_id # 0 => origin[row.order_id].number = row.command
                      /\ row.status = "REJECTED" =>
                           \A id \in DOMAIN origin : origin[id].number # row.command
    BY DEF RowsTruthful
  <2>1. RowRight(row)
    BY RowsOfTheUser DEF Known, PagesOK
  <2> QED BY <2>1 DEF RowRight, Settled, Ids
<1> QED BY <1>1, UndisturbedAlways, PTL

(* For the same user, a fill finds the row of its order, however many      *)
(* orders he places: the ack that brings the order's id comes first, over  *)
(* the broadcasts, the messages to one websocket that overtake them, and   *)
(* the page.  Where it finds none, the row is one that the full list has   *)
(* cut off, and not one without the id.                                    *)
THEOREM FillsAlwaysFindTheirRow == Spec => []FillsFindTheirRow
<1>1. Known /\ (~disturbed => Undisturbed) => FillsFindTheirRow
  <2> SUFFICES ASSUME Known, Undisturbed,
                      NEW c \in Clients, ws[c] # NoSocket, to_client[ws[c]] # <<>>,
                      NEW message, message = Head(to_client[ws[c]]),
                      message.type = "manual_fill",
                      RowOf(terminals[c], message.order_id) = {}
               PROVE  /\ Len(terminals[c].rows) = FullList
                      /\ \A i \in DOMAIN terminals[c].rows :
                           terminals[c].rows[i].command # origin[message.order_id].number
    BY DEF FillsFindTheirRow
  <2>1. /\ ws[c] = 1 /\ User = terminals[c] /\ ~Left /\ PageOK(terminals[c])
        /\ to_client[1] \in Seq(Acks \cup Fills \cup Rejections(1))
    BY OneUser, KnownFacts DEF Undisturbed
  <2>2. 1 \in 1..Len(to_client[1]) /\ message = to_client[1][1]
    BY <2>1
  <2>3. message \in Acks \cup Fills \cup Rejections(1)
    BY <2>1, <2>2
  <2>4. PICK id \in Ids : id = message.order_id
    BY <2>3, MessageKinds
  <2>5. HasRow(id)
    <3>1. HasRow(id) \/ Sent(id, 1 - 1)
      BY <2>1, <2>2, <2>4 DEF Undisturbed, Answering, FillsSent
    <3> QED BY <3>1 DEF Sent
  <2>6. DOMAIN terminals[c].rows = 1..Len(terminals[c].rows)
    BY <2>1 DEF PageOK
  <2>7. \A i \in 1..Len(terminals[c].rows) : terminals[c].rows[i].command # origin[id].number
    BY <2>1, <2>4, <2>5, <2>6 DEF HasRow, RowOf
  <2>8. origin[id].number \in 1..commands
    BY KnownFacts DEF Known, NumbersApart, OrdersApart
  <2>9. Len(terminals[c].rows) = FullList
    BY <2>1, <2>7, <2>8 DEF Undisturbed, RowsRight, RowsKept
  <2> QED BY <2>4, <2>6, <2>7, <2>9
<1> QED BY <1>1, UndisturbedAlways, PTL
=============================================================================
