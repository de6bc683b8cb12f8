------------------------------- MODULE Output --------------------------------
(***************************************************************************)
(* Standard output of the exchange, which server.py reads line by line.    *)
(* stdin_reader, the main loop and reporter_loop print with safe_print,    *)
(* that is under cout_mutex; monitor_loop of the load generator prints     *)
(* without it.  One << puts one piece into cout; pieces of threads that    *)
(* print at the same time come in any order.                               *)
(***************************************************************************)
EXTENDS Naturals, Sequences

CONSTANTS
  Printers,      (* the threads that print with safe_print                  *)
  Pieces         (* the pieces of monitor_loop's line, 5                    *)

Free == "free"
Monitor == "monitor_loop"

ASSUME OutputAssumption ==
  /\ Free \notin Printers /\ Monitor \notin Printers
  /\ Pieces \in Nat \ {0, 1}

VARIABLES
  cout_mutex,    (* the printer that holds it, or Free                      *)
  printing,      (* how many pieces the holder has put out                  *)
  written,       (* how many pieces of its line monitor_loop has put out    *)
  line           (* the threads whose pieces are in the line so far         *)

output == <<cout_mutex, printing, written, line>>

OutputInit ==
  /\ cout_mutex = Free
  /\ printing = 0
  /\ written = 0
  /\ line = <<>>
-----------------------------------------------------------------------------
Put(thread) == line' = Append(line, thread)
EndLine == line' = <<>>

(* May a printer take the lock?                                            *)
MayLockAlways == TRUE  (* a mutant                                          *)
MayLock == cout_mutex = Free

Lock(p) ==
  /\ MayLock
  /\ cout_mutex' = p
  /\ printing' = 0
  /\ UNCHANGED <<written, line>>

(* cout << json.                                                           *)
PutJson ==
  /\ cout_mutex # Free
  /\ printing = 0
  /\ printing' = 1
  /\ Put(cout_mutex)
  /\ UNCHANGED <<cout_mutex, written>>

(* << endl, and the lock is released.                                      *)
PutEndl ==
  /\ cout_mutex # Free
  /\ printing = 1
  /\ printing' = 0
  /\ EndLine
  /\ cout_mutex' = Free
  /\ UNCHANGED written

safe_print == (\E p \in Printers : Lock(p)) \/ PutJson \/ PutEndl

(* One << of monitor_loop; its last piece has the end of the line in it.   *)
PutStats ==
  /\ written' = (written + 1) % Pieces
  /\ IF written' = 0 THEN EndLine ELSE Put(Monitor)
  /\ UNCHANGED <<cout_mutex, printing>>
=============================================================================
