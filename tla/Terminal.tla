------------------------------ MODULE Terminal -------------------------------
(***************************************************************************)
(* A trader's terminal: the list of his orders and how the messages of the *)
(* server change it.  A terminal is a record of its rows, oldest first, and*)
(* of lastProvisionalKey, the order placed last while no answer has come,  *)
(* or NoOrder.  The page finds a row by the ids of its elements: they have *)
(* order_id in them once the order is known, and the provisional key of    *)
(* its command before; neither when the row was made for a fill only.      *)
(* pendingOrders is not a part: it has the provisional key whenever        *)
(* lastProvisionalKey does, and its other entries are never read.          *)
(***************************************************************************)
EXTENDS Naturals, Sequences

CONSTANTS
  MaxRows,    (* the list is cut when it has more rows: 30                  *)
  WhiteSpace  (* the nodes of white space at the end of the list: 2         *)

ASSUME TerminalAssumption == MaxRows \in Nat \ {0} /\ WhiteSpace \in Nat

NoOrder == 0

(* The list as it is when the page has loaded.                             *)
EmptyTerminal == [rows |-> <<>>, lastProvisionalKey |-> NoOrder]

(* A row; command is the order that was placed with it.                    *)
Row(command, order_id, status) ==
  [command |-> command, order_id |-> order_id, status |-> status]

(* The row of a fill whose order the page does not find.                   *)
FillRow == Row(NoOrder, 0, "FILLED")

(* A list with too many rows loses its last node: that is the white space  *)
(* while there is any, and then the oldest row, so that the list has       *)
(* FullList rows in the end.                                               *)
FullList == MaxRows + WhiteSpace

addOrderEntry(t, row) ==
  LET rows == Append(t.rows, row)
  IN  [t EXCEPT !.rows = IF Len(rows) > FullList THEN Tail(rows) ELSE rows]

(* The button that places an order.                                        *)
PlaceOrder(t, command) ==
  [addOrderEntry(t, Row(command, 0, "PENDING")) EXCEPT !.lastProvisionalKey = command]

(* Mutant of BoundRow: the answer goes to the first row of the list.       *)
FirstRow(t) == {1} \cap DOMAIN t.rows

(* The row that the next answer is for, unless it has been cut.            *)
BoundRow(t) == {i \in DOMAIN t.rows : /\ t.rows[i].command = t.lastProvisionalKey
                                      /\ t.rows[i].order_id = 0}

(* Mutant of handleAck: the row does not get the order's id.               *)
handleAckUnbound(t, order_id) ==
  IF t.lastProvisionalKey = NoOrder THEN t
  ELSE [rows |-> [i \in DOMAIN t.rows |->
                    IF i \in BoundRow(t) THEN Row(t.rows[i].command, 0, "RESTING")
                    ELSE t.rows[i]],
        lastProvisionalKey |-> NoOrder]

(* An ack is for the order placed last, whoever's it is.                   *)
handleAck(t, order_id) ==
  IF t.lastProvisionalKey = NoOrder THEN t
  ELSE [rows |-> [i \in DOMAIN t.rows |->
                    IF i \in BoundRow(t) THEN Row(t.rows[i].command, order_id, "RESTING")
                    ELSE t.rows[i]],
        lastProvisionalKey |-> NoOrder]

handleOrderReject(t) ==
  IF t.lastProvisionalKey = NoOrder THEN t
  ELSE [rows |-> [i \in DOMAIN t.rows |->
                    IF i \in BoundRow(t) THEN Row(t.rows[i].command, 0, "REJECTED")
                    ELSE t.rows[i]],
        lastProvisionalKey |-> NoOrder]

RowOf(t, order_id) == {i \in DOMAIN t.rows : t.rows[i].order_id = order_id}

(* A fill is shown in the row of its order, or in a new row when the page  *)
(* does not know the order, or no longer.                                  *)
handleManualFill(t, order_id) ==
  IF RowOf(t, order_id) = {}
  THEN addOrderEntry(t, FillRow)
  ELSE [t EXCEPT !.rows =
          [i \in DOMAIN t.rows |->
             IF i \in RowOf(t, order_id)
             THEN Row(t.rows[i].command, order_id, "FILLED") ELSE t.rows[i]]]

(* ws.onmessage.                                                           *)
onmessage(t, message) ==
  CASE message.type = "ack"          -> handleAck(t, message.order_id)
    [] message.type = "order_reject" -> handleOrderReject(t)
    [] message.type = "manual_fill"  -> handleManualFill(t, message.order_id)
=============================================================================
