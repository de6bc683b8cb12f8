----------------------------- MODULE BoundedFifo -----------------------------
(***************************************************************************)
(* What the order queue promises its callers: a bounded first-in first-out *)
(* queue.  A producer asks for an order to be taken and is told whether it *)
(* was; it is refused only when the queue is full.  The consumer is handed *)
(* the oldest order and is told "false" only when there is none.           *)
(***************************************************************************)
EXTENDS Naturals, Sequences

CONSTANTS
  Producers,
  Consumer,
  Payloads,    (* what tells one order from another                         *)
  Stamps,      (* the times an order may be stamped with                    *)
  Size,        (* how many orders the queue holds at most                   *)
  Blank        (* the consumer's order before the first one                 *)

VARIABLES
  queue,       (* the orders, oldest first                                  *)
  request,     (* request[p]: the payload p has last asked to be taken      *)
  answer,      (* answer[t]: what t's last call returned                    *)
  out          (* the last order handed to the consumer                     *)

vars == <<queue, request, answer, out>>

Answer(t, a) == answer' = [answer EXCEPT ![t] = a]
-----------------------------------------------------------------------------
Init ==
  /\ queue = <<>>
  /\ request \in [Producers -> Payloads]
  /\ answer = [t \in Producers \cup {Consumer} |-> "none"]
  /\ out = Blank

Ask(p, x) ==
  /\ request' = [request EXCEPT ![p] = x]
  /\ Answer(p, "none")
  /\ UNCHANGED <<queue, out>>

Accept(p, time) ==
  /\ answer[p] = "none"
  /\ Len(queue) < Size
  /\ queue' = Append(queue, [payload |-> request[p], timestamp |-> time])
  /\ Answer(p, "true")
  /\ UNCHANGED <<request, out>>

Refuse(p) ==
  /\ answer[p] = "none"
  /\ Len(queue) = Size
  /\ Answer(p, "false")
  /\ UNCHANGED <<queue, request, out>>

Poll ==
  /\ Answer(Consumer, "none")
  /\ UNCHANGED <<queue, request, out>>

Hand ==
  /\ answer[Consumer] = "none"
  /\ queue # <<>>
  /\ out' = Head(queue)
  /\ queue' = Tail(queue)
  /\ Answer(Consumer, "true")
  /\ UNCHANGED request

Starve ==
  /\ answer[Consumer] = "none"
  /\ queue = <<>>
  /\ Answer(Consumer, "false")
  /\ UNCHANGED <<queue, request, out>>

Next ==
  \/ \E p \in Producers :
       \/ \E x \in Payloads : Ask(p, x)
       \/ \E time \in Stamps : Accept(p, time)
       \/ Refuse(p)
  \/ Poll
  \/ Hand
  \/ Starve

Spec == Init /\ [][Next]_vars
=============================================================================
