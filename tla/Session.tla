------------------------------ MODULE Session --------------------------------
(***************************************************************************)
(* One page of the terminal (app.js) in one browser: the accounts kept in  *)
(* localStorage, the screen on display, and the websockets the page opens  *)
(* and closes as users come and go.  TraderScreen and AdminScreen extend   *)
(* it with what the page shows on its two screens.                         *)
(*                                                                         *)
(* The browser's part is taken from how app.js uses it: close() makes a    *)
(* websocket CLOSING at once, a message is handed over only while the      *)
(* websocket is OPEN, and the close event comes later.                     *)
(***************************************************************************)
EXTENDS Naturals, Sequences, FiniteSets

CONSTANTS
  Names,          (* what users enter as their name                         *)
  Passwords,      (* what they enter as their password                      *)
  Short,          (* the passwords of fewer than four characters            *)
  MaxUsers,       (* bound: the accounts in localStorage                    *)
  MaxSockets      (* bound: the websockets the page opens                   *)

ADMIN_USER == "admin"
ADMIN_PASS == "admin@123"

ASSUME SessionAssumption ==
  /\ ADMIN_USER \in Names
  /\ ADMIN_PASS \in Passwords \ Short
  /\ MaxUsers \in Nat
  /\ MaxSockets \in Nat

VARIABLES
  screen,         (* the screen that is active                              *)
  users,          (* tralo_users in localStorage                            *)
  username,       (* the trader the page greets                             *)
  sockets,        (* every websocket the page has opened, in order          *)
  ws,             (* the last of them, or 0                                 *)
  indicator       (* indicator[role]: is LIVE lit on that role's screen?    *)

session == <<screen, users, username, sockets, ws, indicator>>

(* A list on the page is its nodes in order, new rows first; a node is the *)
(* sequence of its cells.  The page is loaded with white space in its      *)
(* lists, which is a node without cells, and not a row.                    *)
Text == <<>>
RowCount(nodes) == Cardinality({i \in DOMAIN nodes : nodes[i] # Text})

InsertRowAndDropFirst(row, nodes, max) ==  (* a mutant                      *)
  LET all == <<row>> \o nodes
  IN  IF RowCount(all) > max THEN <<row>> \o SubSeq(all, 3, Len(all)) ELSE all

(* A new row goes in front; when there are too many rows, the last node    *)
(* goes, be it a row or not.                                               *)
InsertRow(row, nodes, max) ==
  LET all == <<row>> \o nodes
  IN  IF RowCount(all) > max THEN SubSeq(all, 1, Len(all) - 1) ELSE all

Roles == {"trader", "admin"}
ReadyStates == {"CONNECTING", "OPEN", "CLOSING", "CLOSED"}
Nobody == "nobody"

SessionInit ==
  /\ screen = "auth"
  /\ users = <<>>
  /\ username = Nobody
  /\ sockets = <<>>
  /\ ws = 0
  /\ indicator = [r \in Roles |-> FALSE]
-----------------------------------------------------------------------------
(* WebSocket.close(): nothing to do for one that is closed or closing.     *)
Close(all, s) ==
  IF s = 0 \/ all[s].readyState \in {"CLOSING", "CLOSED"} THEN all
  ELSE [all EXCEPT ![s].readyState = "CLOSING"]

connectWS(role) ==
  /\ Len(sockets) < MaxSockets
  /\ sockets' = Append(Close(sockets, ws), [role |-> role, readyState |-> "CONNECTING"])
  /\ ws' = Len(sockets')
  /\ UNCHANGED indicator

enterTrader(name) ==
  /\ username' = name
  /\ screen' = "trader"
  /\ connectWS("trader")

enterAdmin ==
  /\ screen' = "admin"
  /\ connectWS("admin")
  /\ UNCHANGED username

Login(name, pass) ==
  /\ screen = "auth"
  /\ IF name = ADMIN_USER /\ pass = ADMIN_PASS THEN enterAdmin
     ELSE /\ \E i \in DOMAIN users : users[i] = [username |-> name, password |-> pass]
          /\ enterTrader(name)
  /\ UNCHANGED users

(* localStorage is shared with the browser's other tabs and has no lock:   *)
(* the list a tab reads may lack the accounts stored last.                 *)
getUsers == {SubSeq(users, 1, n) : n \in 0..Len(users)}

IsNewNameAlways(name, list) == TRUE  (* a mutant                            *)
IsNewName(name, list) == \A i \in DOMAIN list : list[i].username # name

(* What a tab stores when it accepts a registration.                       *)
SaveAccount(name, pass, list) ==
  /\ name # ADMIN_USER
  /\ pass \notin Short
  /\ IsNewName(name, list)
  /\ Len(list) < MaxUsers
  /\ users' = Append(list, [username |-> name, password |-> pass])

Register(name, pass) ==
  /\ screen = "auth"
  /\ \E list \in getUsers : SaveAccount(name, pass, list)
  /\ enterTrader(name)

OtherTabRegisters(name, pass) ==
  /\ \E list \in getUsers : SaveAccount(name, pass, list)
  /\ UNCHANGED <<screen, username, sockets, ws, indicator>>

SignIn == \E name \in Names, pass \in Passwords : Login(name, pass) \/ Register(name, pass)
OtherTab == \E name \in Names, pass \in Passwords : OtherTabRegisters(name, pass)

(* What the logout button does to the websockets.                          *)
CloseOnLogoutNot == sockets  (* a mutant                                    *)
CloseOnLogout == Close(sockets, ws)

logout ==
  /\ screen # "auth"
  /\ screen' = "auth"
  /\ sockets' = CloseOnLogout
  /\ UNCHANGED <<users, username, ws, indicator>>
-----------------------------------------------------------------------------
(* The events of websocket s.  Its handlers were made for the role it was  *)
(* opened with, whatever screen is active when they run.                   *)

(* ws.onopen.                                                              *)
Opened(s) ==
  /\ sockets[s].readyState = "CONNECTING"
  /\ sockets' = [sockets EXCEPT ![s].readyState = "OPEN"]
  /\ indicator' = [indicator EXCEPT ![sockets[s].role] = TRUE]
  /\ UNCHANGED <<screen, users, username, ws>>

(* The indicator that the close of s puts out.                             *)
ClosingRoleOfLast(s) == sockets[ws].role  (* a mutant                       *)
ClosingRole(s) == sockets[s].role

(* ws.onclose: the page has closed it, or the connection broke.  Nothing   *)
(* opens another.                                                          *)
Closed(s) ==
  /\ sockets[s].readyState # "CLOSED"
  /\ sockets' = [sockets EXCEPT ![s].readyState = "CLOSED"]
  /\ indicator' = [indicator EXCEPT ![ClosingRole(s)] = FALSE]
  /\ UNCHANGED <<screen, users, username, ws>>

(* A message of s reaches ws.onmessage, which acts in this role.           *)
Receives(s, role) ==
  /\ sockets[s].readyState = "OPEN"
  /\ role = sockets[s].role

Connections == \E s \in DOMAIN sockets : Opened(s) \/ Closed(s)

(* The browser reports the end of a websocket it is closing, if need be    *)
(* after a timeout of its own.                                             *)
ClosesComplete ==
  \A s \in 1..MaxSockets :
    WF_session(s \in DOMAIN sockets /\ sockets[s].readyState = "CLOSING" /\ Closed(s))
-----------------------------------------------------------------------------
(***************************************************************************)
(* Properties.                                                             *)
(***************************************************************************)
Accounts == [username : Names \ {ADMIN_USER}, password : Passwords \ Short]

(* The values of the variables.                                            *)
SessionTypeOK ==
  /\ screen \in {"auth"} \cup Roles
  /\ users \in Seq(Accounts) /\ Len(users) <= MaxUsers
  /\ username \in {Nobody} \cup (Names \ {ADMIN_USER})
  /\ sockets \in Seq([role : Roles, readyState : ReadyStates])
  /\ ws = Len(sockets) /\ ws <= MaxSockets
  /\ indicator \in [Roles -> BOOLEAN]

(* A name has one account, so one password opens it, also when two tabs    *)
(* register at the same time and one of them stores a list that lacks what *)
(* the other has just stored; the account it lacks is gone then.           *)
OneAccountPerName ==
  \A i, j \in DOMAIN users : users[i].username = users[j].username => i = j

(* Messages are only ever handled for the screen on display: a websocket   *)
(* that may still receive is the last one, and its role is the screen's.   *)
(* A user who logs in after another gets none of the other's messages.     *)
LiveSocketIsTheScreens ==
  \A s \in DOMAIN sockets :
    sockets[s].readyState \in {"CONNECTING", "OPEN"} => s = ws /\ sockets[s].role = screen

(* LIVE is lit on a screen only while a websocket of its role is open or   *)
(* has not been reported closed.  (It may be dark while one is open: the   *)
(* close of a websocket may be reported after its successor has opened.)   *)
LiveIsHonest ==
  \A r \in Roles : indicator[r] =>
    \E s \in DOMAIN sockets : /\ sockets[s].role = r
                              /\ sockets[s].readyState \in {"OPEN", "CLOSING"}

(* Once everybody has logged out for good, no screen is left LIVE.         *)
GoesDark == <>[](screen = "auth") => <>[](\A r \in Roles : ~indicator[r])
=============================================================================
