---------------------------- MODULE ManualOrders -----------------------------
(***************************************************************************)
(* The way of a manual order through the system, and of the answers back:  *)
(* the terminals, server.py between them and the exchange, the exchange's  *)
(* stdin_reader and its main loop.                                         *)
(*                                                                         *)
(*   terminal --> websocket_handler --stdin--> stdin_reader --> queue      *)
(*      ^                                           |             |        *)
(*      |                                           v             v        *)
(*   event loop <--- stdout_reader_thread <--stdout-+-------- main loop    *)
(*                                                                         *)
(* Every arrow is a FIFO.  Of the matching only the trades with a manual   *)
(* order are seen: which they are is open, as prices and bots would have   *)
(* it.  Lines that no terminal of a trader acts on are left out.           *)
(*                                                                         *)
(* Users come and go: a page opens a websocket when somebody logs in and   *)
(* closes it when he logs out; the server learns of it later.  A websocket *)
(* is known by its number, in the order they were opened.                  *)
(***************************************************************************)
EXTENDS Terminal, FiniteSets, TLC

CONSTANTS
  Clients,      (* the pages of the terminal                                *)
  Kinds,        (* the kinds of order a user may enter                      *)
  MaxCommands,  (* bound: the orders placed in a behaviour                  *)
  MaxTrades,    (* bound: the trades in a behaviour                         *)
  MaxSockets,   (* bound: the websockets opened in a behaviour              *)
  MaxLogouts,   (* bound: those of them that are closed                     *)
  MaxSpoiled,   (* bound: the lines of the exchange that are spoiled        *)
  QueueSize     (* the orders the OrderQueue holds at most                  *)

(***************************************************************************)
(* The kinds of order: one the engine takes; one outside the price bands;  *)
(* one whose price is less than a paisa, which the server does not pass    *)
(* on; and one with a number stdin_reader cannot read into its variables,  *)
(* such as a quantity that does not fit in 32 bits.                        *)
(***************************************************************************)
AllKinds == {"good", "out_of_band", "below_paisa", "unreadable"}

ASSUME ManualAssumption ==
  /\ Kinds \subseteq AllKinds
  /\ MaxCommands \in Nat
  /\ MaxTrades \in Nat
  /\ MaxSockets \in Nat \ {0}
  /\ MaxLogouts \in Nat
  /\ MaxSpoiled \in Nat
  /\ QueueSize \in Nat \ {0}

VARIABLES
  terminals,             (* terminals[c]: the page of client c              *)
  commands,              (* how many orders have been placed                *)
  owner,                 (* owner[s]: the client that opened websocket s    *)
  ws,                    (* ws[c]: c's open websocket, or NoSocket          *)
  lost,                  (* the websockets the server knows are closed      *)
  connected_clients,
  to_server,             (* to_server[s]: what websocket s carries          *)
  order_sync_queue,
  stdin,                 (* the pipe to the exchange                        *)
  reader,                (* stdin_reader's order and what it still does     *)
  global_order_id,
  queue,                 (* the OrderQueue, seen by manual orders           *)
  processed,             (* the manual order in process_order, or Bot       *)
  resting,               (* the manual orders in the books                  *)
  trades,                (* how many trades there have been                 *)
  stdout,                (* the pipe from the exchange                      *)
  spoiled,               (* how many lines have been spoiled                *)
  pending_manual_orders,
  loop,                  (* the coroutines scheduled on the event loop      *)
  to_client,             (* to_client[s]: what was sent on s, while open    *)
  origin,                (* history: origin[id] is the command of order id  *)
  unanswered,            (* history: the orders that get no answer, or none *)
                         (* that the server can read                        *)
  disturbed              (* history: did anybody else connect, or did the   *)
                         (* user not wait for an answer?                    *)

pages == <<terminals, commands, disturbed>>
links == <<owner, ws, lost, to_server, to_client>>
server == <<connected_clients, order_sync_queue, pending_manual_orders, loop>>
engine == <<reader, global_order_id, queue, processed, resting, trades, origin>>
answers == <<stdout, spoiled, unanswered>>
vars == <<pages, links, server, engine, stdin, answers>>

(* An order of a bot; no manual order has this id.                         *)
Bot == 0

Sockets == 1..MaxSockets
NoSocket == 0
Opened == DOMAIN owner

Command == [number : 1..MaxCommands, socket : Sockets, kind : Kinds]

Ack(order_id) == [type |-> "ack", order_id |-> order_id]
Reject(command) == [type |-> "reject", command |-> command]
TradeLine(maker, taker) == [type |-> "trade", maker |-> maker, taker |-> taker]
Spoiled == [type |-> "spoiled"]

(* Mutant of Steps: the answer is printed after the order is enqueued.     *)
EnqueueFirst == <<"enqueue", "ack">>

(* What stdin_reader does with an order it has accepted.                   *)
Steps == <<"ack", "enqueue">>

IdleReader == [order_id |-> Bot, todo |-> <<>>]

(* The map f once f[key] = value has been assigned.                        *)
With(f, key, value) ==
  [k \in DOMAIN f \cup {key} |-> IF k = key THEN value ELSE f[k]]
-----------------------------------------------------------------------------
Init ==
  /\ terminals = [c \in Clients |-> EmptyTerminal]
  /\ commands = 0
  /\ owner = <<>>
  /\ ws = [c \in Clients |-> NoSocket]
  /\ lost = {}
  /\ connected_clients = {}
  /\ to_server = [s \in Sockets |-> <<>>]
  /\ order_sync_queue = <<>>
  /\ stdin = <<>>
  /\ reader = IdleReader
  /\ global_order_id = 1
  /\ queue = <<>>
  /\ processed = Bot
  /\ resting = {}
  /\ trades = 0
  /\ stdout = <<>>
  /\ spoiled = 0
  /\ unanswered = {}
  /\ pending_manual_orders = <<>>
  /\ loop = <<>>
  /\ to_client = [s \in Sockets |-> <<>>]
  /\ origin = <<>>
  /\ disturbed = FALSE
-----------------------------------------------------------------------------
(* The terminals.                                                          *)

(* A user logs in: the page opens a websocket, and the server's handler    *)
(* for it begins.                                                          *)
Connect(c) ==
  /\ ws[c] = NoSocket
  /\ Len(owner) < MaxSockets
  /\ owner' = Append(owner, c)
  /\ ws' = [ws EXCEPT ![c] = Len(owner')]
  /\ connected_clients' = connected_clients \cup {Len(owner')}
  /\ disturbed' = (disturbed \/ Len(owner') > 1)
  /\ UNCHANGED <<terminals, commands, engine, lost, to_server, to_client, order_sync_queue,
                 pending_manual_orders, loop, stdin, answers>>

Closed == {s \in Opened : ws[owner[s]] # s}

(* A user logs out: the page takes no more messages from its websocket.    *)
Logout(c) ==
  /\ ws[c] # NoSocket
  /\ Cardinality(Closed) < MaxLogouts
  /\ ws' = [ws EXCEPT ![c] = NoSocket]
  /\ to_client' = [to_client EXCEPT ![ws[c]] = <<>>]
  /\ UNCHANGED <<pages, server, engine, owner, lost, to_server, stdin, answers>>

Waiting(c) == terminals[c].lastProvisionalKey # NoOrder

Place(c, kind) ==
  /\ ws[c] # NoSocket
  /\ commands < MaxCommands
  /\ commands' = commands + 1
  /\ disturbed' = (disturbed \/ Waiting(c))
  /\ terminals' = [terminals EXCEPT ![c] = PlaceOrder(terminals[c], commands')]
  /\ to_server' = [to_server EXCEPT ![ws[c]] =
       Append(to_server[ws[c]], [number |-> commands', socket |-> ws[c], kind |-> kind])]
  /\ UNCHANGED <<server, engine, owner, ws, lost, to_client, stdin, answers>>

Show(c) ==
  /\ ws[c] # NoSocket
  /\ to_client[ws[c]] # <<>>
  /\ terminals' = [terminals EXCEPT ![c] = onmessage(terminals[c], Head(to_client[ws[c]]))]
  /\ to_client' = [to_client EXCEPT ![ws[c]] = Tail(to_client[ws[c]])]
  /\ UNCHANGED <<server, engine, commands, disturbed, owner, ws, lost, to_server, stdin, answers>>
-----------------------------------------------------------------------------
(* The server.                                                             *)

(* The server receives the close of websocket s: sending on it fails from  *)
(* now on.                                                                 *)
Lose(s) ==
  /\ s \in Closed
  /\ lost' = lost \cup {s}
  /\ UNCHANGED <<pages, server, engine, owner, ws, to_server, to_client, stdin, answers>>

(* websocket_handler has read what came before the close, and ends.        *)
EndHandler(s) ==
  /\ s \in lost
  /\ to_server[s] = <<>>
  /\ connected_clients' = connected_clients \ {s}
  /\ UNCHANGED <<pages, links, engine, order_sync_queue, pending_manual_orders, loop,
                 stdin, answers>>

(* The body of websocket_handler's loop has no await: no other coroutine   *)
(* comes between the put and the write.                                    *)
websocket_handler(s) ==
  /\ to_server[s] # <<>>
  /\ LET command == Head(to_server[s])
     IN  IF command.kind = "below_paisa"
         THEN UNCHANGED <<order_sync_queue, stdin>>
         ELSE /\ order_sync_queue' = Append(order_sync_queue, s)
              /\ stdin' = Append(stdin, command)
  /\ to_server' = [to_server EXCEPT ![s] = Tail(to_server[s])]
  /\ UNCHANGED <<pages, engine, owner, ws, lost, to_client, connected_clients,
                 pending_manual_orders, loop, answers>>

(* run_coroutine_threadsafe: a coroutine that is to send a message on one  *)
(* websocket, or on all.  visited, dead and size are those of a broadcast  *)
(* under way: the websockets it has been to, those that failed, and how    *)
(* many there were when it began.                                          *)
All == 0
Coroutine(message, to) ==
  [message |-> message, to |-> to, started |-> FALSE, visited |-> {}, dead |-> {}, size |-> 0]
broadcast(message) == loop' = Append(loop, Coroutine(message, All))
send_to(websocket, message) == loop' = Append(loop, Coroutine(message, websocket))

(* An ack is for the websocket of the oldest command not yet answered.     *)
ReadAck(line) ==
  /\ line.type = "ack"
  /\ IF order_sync_queue = <<>>
     THEN UNCHANGED <<order_sync_queue, pending_manual_orders>>
     ELSE /\ order_sync_queue' = Tail(order_sync_queue)
          /\ pending_manual_orders' =
               With(pending_manual_orders, line.order_id, Head(order_sync_queue))
  /\ broadcast(line)

(* Mutant of ReadReject: the rejected command stays in order_sync_queue.   *)
ReadRejectPeeking(line) ==
  /\ line.type = "reject"
  /\ IF order_sync_queue = <<>> THEN UNCHANGED loop
     ELSE send_to(Head(order_sync_queue),
                  [type |-> "order_reject", command |-> line.command])
  /\ UNCHANGED <<order_sync_queue, pending_manual_orders>>

ReadReject(line) ==
  /\ line.type = "reject"
  /\ IF order_sync_queue = <<>>
     THEN UNCHANGED <<order_sync_queue, loop>>
     ELSE /\ order_sync_queue' = Tail(order_sync_queue)
          /\ send_to(Head(order_sync_queue),
                     [type |-> "order_reject", command |-> line.command])
  /\ UNCHANGED pending_manual_orders

(* A line that does not start with a brace, or is not JSON, is skipped.    *)
ReadSpoiled(line) ==
  /\ line.type = "spoiled"
  /\ UNCHANGED <<order_sync_queue, pending_manual_orders, loop>>

(* The order whose client is told of a trade: the maker's if it is manual. *)
UserOrder(line) ==
  IF line.maker \in DOMAIN pending_manual_orders THEN {line.maker}
  ELSE {line.taker} \cap DOMAIN pending_manual_orders

ReadTrade(line) ==
  /\ line.type = "trade"
  /\ IF UserOrder(line) = {} THEN UNCHANGED loop
     ELSE \E id \in UserOrder(line) :
            send_to(pending_manual_orders[id], [type |-> "manual_fill", order_id |-> id])
  /\ UNCHANGED <<order_sync_queue, pending_manual_orders>>

stdout_reader_thread ==
  /\ stdout # <<>>
  /\ LET line == Head(stdout)
     IN  ReadAck(line) \/ ReadReject(line) \/ ReadTrade(line) \/ ReadSpoiled(line)
  /\ stdout' = Tail(stdout)
  /\ UNCHANGED <<pages, links, engine, connected_clients, stdin, spoiled, unanswered>>

(* Coroutines begin in the order they were scheduled; one that waits for a *)
(* slow client is overtaken by the others.                                 *)
MayRun(i) == \A j \in 1..(i - 1) : loop[j].started

Without(q, i) == SubSeq(q, 1, i - 1) \o SubSeq(q, i + 1, Len(q))

(* websocket.send: the page gets the message unless it has closed.         *)
Deliver(s, message) ==
  to_client' = IF s \in lost \cup Closed THEN to_client
               ELSE [to_client EXCEPT ![s] = Append(to_client[s], message)]

(* send_to: an error is ignored.                                           *)
SendTo(i) ==
  /\ MayRun(i)
  /\ loop[i].to # All
  /\ Deliver(loop[i].to, loop[i].message)
  /\ loop' = Without(loop, i)
  /\ UNCHANGED <<pages, engine, owner, ws, lost, to_server, connected_clients,
                 order_sync_queue, pending_manual_orders, stdin, answers>>

(* A broadcast goes on with the next of connected_clients.  It may wait at *)
(* each; if the set has another size by then, the iteration fails and the  *)
(* broadcast with it.                                                      *)
Size(i) == IF loop[i].started THEN loop[i].size ELSE Cardinality(connected_clients)

Visited(coroutine, s, size) ==
  [coroutine EXCEPT !.started = TRUE, !.size = size, !.visited = @ \cup {s},
                    !.dead = IF s \in lost THEN @ \cup {s} ELSE @]

Broadcast(i, s) ==
  /\ MayRun(i)
  /\ loop[i].to = All
  /\ Size(i) = Cardinality(connected_clients)
  /\ s \in connected_clients \ loop[i].visited
  /\ Deliver(s, loop[i].message)
  /\ loop' = [loop EXCEPT ![i] = Visited(loop[i], s, Size(i))]
  /\ UNCHANGED <<pages, engine, owner, ws, lost, to_server, connected_clients,
                 order_sync_queue, pending_manual_orders, stdin, answers>>

(* The websockets that a broadcast takes off the list when it ends.        *)
DeadAndVisited(i) == loop[i].visited  (* a mutant                           *)
Dead(i) == loop[i].dead

(* A broadcast that has found nobody, or been to as many as there were,    *)
(* ends and forgets those that failed; one whose set has changed fails.    *)
EndBroadcast(i) ==
  /\ MayRun(i)
  /\ loop[i].to = All
  /\ \/ /\ Size(i) = Cardinality(connected_clients)
        /\ Cardinality(loop[i].visited) >= Size(i)
        /\ connected_clients' = connected_clients \ Dead(i)
     \/ /\ Size(i) # Cardinality(connected_clients)
        /\ UNCHANGED connected_clients
  /\ loop' = Without(loop, i)
  /\ UNCHANGED <<pages, links, engine, order_sync_queue, pending_manual_orders, stdin, answers>>
-----------------------------------------------------------------------------
(* The exchange.                                                           *)

(* safe_print: a line for the server, which answers the given orders.  The *)
(* mutex keeps apart those who use safe_print; monitor_loop does not, and  *)
(* a piece of its own line in this one spoils it.                          *)
safe_print(line, answered) ==
  \/ /\ stdout' = Append(stdout, line)
     /\ UNCHANGED <<spoiled, unanswered>>
  \/ /\ spoiled < MaxSpoiled
     /\ spoiled' = spoiled + 1
     /\ stdout' = Append(stdout, Spoiled)
     /\ unanswered' = unanswered \cup answered

(* stdin_reader reads a line: it skips what it cannot read, rejects a price*)
(* outside the bands, and gives an id to any other order.                  *)
ReadCommand ==
  /\ reader.todo = <<>>
  /\ stdin # <<>>
  /\ stdin' = Tail(stdin)
  /\ LET command == Head(stdin)
     IN  \/ /\ command.kind = "unreadable"
            /\ unanswered' = unanswered \cup {command.number}
            /\ UNCHANGED <<reader, global_order_id, stdout, spoiled, origin>>
         \/ /\ command.kind = "out_of_band"
            /\ safe_print(Reject(command), {command.number})
            /\ UNCHANGED <<reader, global_order_id, origin>>
         \/ /\ command.kind = "good"
            /\ global_order_id' = global_order_id + 1
            /\ reader' = [order_id |-> global_order_id, todo |-> Steps]
            /\ origin' = With(origin, global_order_id, command)
            /\ UNCHANGED answers
  /\ UNCHANGED <<pages, links, server, queue, processed, resting, trades>>

Done == reader' = IF Len(reader.todo) = 1 THEN IdleReader
                  ELSE [reader EXCEPT !.todo = Tail(reader.todo)]

PrintAck ==
  /\ reader.todo # <<>> /\ Head(reader.todo) = "ack"
  /\ safe_print(Ack(reader.order_id), {origin[reader.order_id].number})
  /\ Done
  /\ UNCHANGED <<pages, links, server, stdin, global_order_id, queue, processed, resting,
                 trades, origin>>

(* try_enqueue finds a free slot.                                          *)
HasRoomAlways == TRUE  (* a mutant                                          *)
HasRoom == Len(queue) < QueueSize

(* It tries again until there is room.                                     *)
Enqueue ==
  /\ reader.todo # <<>> /\ Head(reader.todo) = "enqueue"
  /\ HasRoom
  /\ queue' = Append(queue, reader.order_id)
  /\ Done
  /\ UNCHANGED <<pages, links, server, stdin, global_order_id, processed, resting, trades,
                 answers, origin>>

(* The main loop takes a manual order and calls process_order.             *)
Dequeue ==
  /\ processed = Bot
  /\ queue # <<>>
  /\ processed' = Head(queue)
  /\ queue' = Tail(queue)
  /\ UNCHANGED <<pages, links, server, stdin, reader, global_order_id, resting, trades,
                 answers, origin>>

(* on_trade for the order being processed and a resting one, at least one  *)
(* of them manual; the maker may be filled by it.                          *)
on_trade(maker) ==
  /\ trades < MaxTrades
  /\ maker \in resting \cup {Bot}
  /\ maker # Bot \/ processed # Bot
  /\ trades' = trades + 1
  /\ safe_print(TradeLine(maker, processed), {})
  /\ resting' \in {resting, resting \ {maker}}
  /\ UNCHANGED <<pages, links, server, stdin, reader, global_order_id, queue, processed, origin>>

(* process_order returns: the order rests, or is filled, or is dropped for *)
(* want of a node.                                                         *)
Processed ==
  /\ processed # Bot
  /\ processed' = Bot
  /\ resting' \in {resting, resting \cup {processed}}
  /\ UNCHANGED <<pages, links, server, stdin, reader, global_order_id, queue, trades, answers,
                 origin>>

Next ==
  \/ \E c \in Clients :
       \/ Connect(c)
       \/ Logout(c)
       \/ \E kind \in Kinds : Place(c, kind)
       \/ Show(c)
  \/ \E s \in Opened :
       \/ Lose(s)
       \/ EndHandler(s)
       \/ websocket_handler(s)
  \/ stdout_reader_thread
  \/ \E i \in DOMAIN loop :
       \/ SendTo(i)
       \/ \E s \in Opened : Broadcast(i, s)
       \/ EndBroadcast(i)
  \/ ReadCommand
  \/ PrintAck
  \/ Enqueue
  \/ Dequeue
  \/ \E maker \in 0..MaxCommands : on_trade(maker)
  \/ Processed

Spec == Init /\ [][Next]_vars
-----------------------------------------------------------------------------
(***************************************************************************)
(* Properties.                                                             *)
(***************************************************************************)
ManualIds == 1..MaxCommands
ReplyTypes == {"ack", "order_reject", "manual_fill"}

(* The values of the variables.                                            *)
TypeOK ==
  /\ \A c \in Clients : /\ terminals[c].lastProvisionalKey \in 0..commands
                        /\ Len(terminals[c].rows) <= FullList
  /\ owner \in Seq(Clients)
  /\ ws \in [Clients -> {NoSocket} \cup Opened]
  /\ lost \subseteq Opened
  /\ connected_clients \subseteq Opened
  /\ \A s \in Sockets : \A i \in DOMAIN to_client[s] : to_client[s][i].type \in ReplyTypes
  /\ order_sync_queue \in Seq(Opened)
  /\ stdin \in Seq(Command)
  /\ reader.order_id \in ManualIds \cup {Bot}
  /\ queue \in Seq(ManualIds) /\ Len(queue) <= QueueSize
  /\ processed \in ManualIds \cup {Bot}
  /\ resting \subseteq ManualIds
  /\ spoiled \in 0..MaxSpoiled
  /\ unanswered \subseteq 1..MaxCommands
  /\ DOMAIN pending_manual_orders \subseteq DOMAIN origin
  /\ DOMAIN origin = 1..(global_order_id - 1)

(* server.py: order_sync_queue "ensures that 'ack' messages from the engine*)
(* are routed back to the correct client".  An order is recorded for the   *)
(* websocket it came on, and a rejection goes there.                       *)
AnswersRouted ==
  /\ \A id \in DOMAIN pending_manual_orders :
       pending_manual_orders[id] = origin[id].socket
  /\ \A s \in Sockets : \A i \in DOMAIN to_client[s] :
       to_client[s][i].type = "order_reject" => to_client[s][i].command.socket = s

(* order_sync_queue pairs answers with commands: the n-th answer read is   *)
(* for the n-th command written, also when a user has left, as long as     *)
(* every command gets an answer that the server can read.                  *)
AnswersPaired == unanswered = {} => AnswersRouted

(* A websocket that still works is on the list of clients: broadcasts that *)
(* overlap, wait, or fail because the list changes under them take only    *)
(* websockets off it that are closed.                                      *)
WorkingSocketsListed == Opened \ lost \subseteq connected_clients

(* The server has learnt whose order it is before it reads that the order  *)
(* traded, unless its ack was spoiled: the ack is printed before the order *)
(* can reach the engine, and whatever else goes unanswered, there is a     *)
(* websocket left in order_sync_queue for it.                              *)
FillsRoutable ==
  \A i \in DOMAIN stdout :
    stdout[i].type = "trade" =>
      \A id \in {stdout[i].maker, stdout[i].taker} \ {Bot} :
        \/ origin[id].number \in unanswered
        \/ id \in DOMAIN pending_manual_orders
        \/ \E j \in 1..(i - 1) : stdout[j] = Ack(id)

(* For a user who is alone and waits for his answers, a row carries the id *)
(* of the order that was placed with it, and says REJECTED only of an order*)
(* that was rejected.                                                      *)
RowsTruthful ==
  ~disturbed =>
    \A c \in Clients : \A i \in DOMAIN terminals[c].rows :
      LET row == terminals[c].rows[i]
      IN  /\ row.order_id # 0 => origin[row.order_id].number = row.command
          /\ row.status = "REJECTED" =>
               \A id \in DOMAIN origin : origin[id].number # row.command

(* For a user who is alone and waits for his answers, a fill finds the row *)
(* of its order: it never overtakes the ack.  Only when the list is full   *)
(* may the row be gone, and then there is none of that order at all.       *)
FillsFindTheirRow ==
  ~disturbed =>
    \A c \in Clients :
      ws[c] # NoSocket /\ to_client[ws[c]] # <<>> =>
        LET message == Head(to_client[ws[c]])
            rows == terminals[c].rows
        IN  message.type = "manual_fill" =>
              \/ RowOf(terminals[c], message.order_id) # {}
              \/ /\ Len(rows) = FullList
                 /\ \A i \in DOMAIN rows :
                      rows[i].command # origin[message.order_id].number

(* server.py: "'ack' messages from the engine are routed back to the       *)
(* correct client".  No terminal takes an ack for another client's order.  *)
AcksToTheirClient ==
  \A c \in Clients : \A i \in DOMAIN terminals[c].rows :
    LET id == terminals[c].rows[i].order_id
    IN  id # 0 => owner[origin[id].socket] = c

(* server.py: pending_manual_orders is there "so we can send match          *)
(* confirmation back to the right client".  When a trade is read, the      *)
(* client of every manual order in it is told.                             *)
BothSidesTold ==
  [][\A id \in ManualIds :
       /\ stdout # <<>> /\ stdout' = Tail(stdout)
       /\ Head(stdout).type = "trade"
       /\ id \in {Head(stdout).maker, Head(stdout).taker}
       => \E i \in DOMAIN loop' :
            /\ loop'[i].message = [type |-> "manual_fill", order_id |-> id]
            /\ loop'[i].to = origin[id].socket]_vars
=============================================================================
