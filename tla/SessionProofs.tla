---------------------------- MODULE SessionProofs ----------------------------
(***************************************************************************)
(* What every step of a page keeps true of its accounts, websockets and    *)
(* indicators, for any users and any number of logins.  TraderScreenProofs *)
(* and AdminScreenProofs build on it.                                      *)
(***************************************************************************)
EXTENDS Session, SequenceTheorems, TLAPS

Sockets == [role : Roles, readyState : ReadyStates]

(* What a step of either screen does to the session.                       *)
SessionStep == SignIn \/ logout \/ Connections \/ OtherTab \/ UNCHANGED session

(* The inductive invariant: the properties of Session imply each other's   *)
(* next state only together.                                               *)
SessionInv ==
  /\ SessionTypeOK
  /\ OneAccountPerName
  /\ LiveSocketIsTheScreens
  /\ LiveIsHonest

(* The elements of a sequence over S are in S.                             *)
LEMMA Elements ==
  ASSUME NEW S, NEW q \in Seq(S)
  PROVE  \A i \in DOMAIN q : q[i] \in S
OBVIOUS

LEMMA SessionStarts == SessionInit => SessionInv
BY SessionAssumption
DEF SessionInit, SessionInv, SessionTypeOK, OneAccountPerName, LiveSocketIsTheScreens,
    LiveIsHonest, Nobody, Roles
-----------------------------------------------------------------------------
(* Accounts.                                                               *)

(* What SaveAccount stores is a list of accounts with a name each.         *)
LEMMA AccountSaved ==
  ASSUME SessionInv, NEW name \in Names, NEW pass \in Passwords,
         NEW list \in getUsers, SaveAccount(name, pass, list)
  PROVE  /\ users' \in Seq(Accounts) /\ Len(users') <= MaxUsers
         /\ OneAccountPerName'
         /\ name # ADMIN_USER
<1>1. PICK n \in 0..Len(users) : list = SubSeq(users, 1, n)
  BY DEF getUsers
<1>2. users \in Seq(Accounts) /\ Len(users) \in Nat /\ MaxUsers \in Nat
  BY SessionAssumption DEF SessionInv, SessionTypeOK
<1>3. /\ list \in Seq(Accounts) /\ Len(list) = n
      /\ \A i \in 1..n : list[i] = users[i]
  BY <1>1, <1>2
<1>4. /\ users' = Append(list, [username |-> name, password |-> pass])
      /\ [username |-> name, password |-> pass] \in Accounts
      /\ name # ADMIN_USER /\ n < MaxUsers
      /\ \A i \in 1..n : list[i].username # name
  BY <1>3 DEF SaveAccount, Accounts, IsNewName
<1>5. /\ users' \in Seq(Accounts) /\ Len(users') = n + 1
      /\ \A i \in 1..n : users'[i] = users[i]
      /\ users'[n + 1].username = name
  BY <1>3, <1>4
<1>6. OneAccountPerName'
  <2> SUFFICES ASSUME NEW i \in 1..(n + 1), NEW j \in 1..(n + 1),
                      users'[i].username = users'[j].username
               PROVE  i = j
    BY <1>5 DEF OneAccountPerName
  <2>1. CASE i \in 1..n /\ j \in 1..n
    BY <1>2, <1>5, <2>1 DEF SessionInv, OneAccountPerName
  <2>2. CASE i = n + 1 \/ j = n + 1
    BY <1>3, <1>4, <1>5, <2>2
  <2>3. QED BY <2>1, <2>2
<1>7. QED BY <1>2, <1>4, <1>5, <1>6
-----------------------------------------------------------------------------
(* Websockets.                                                             *)

(* A websocket that is closed for another is the last that was live.       *)
LEMMA CloseLeavesNoneLive ==
  ASSUME SessionInv
  PROVE  /\ Close(sockets, ws) \in Seq(Sockets)
         /\ Len(Close(sockets, ws)) = Len(sockets)
         /\ \A s \in DOMAIN sockets :
              /\ Close(sockets, ws)[s].role = sockets[s].role
              /\ Close(sockets, ws)[s].readyState \in {"CLOSING", "CLOSED"}
              /\ sockets[s].readyState \in {"OPEN", "CLOSING"}
                   => Close(sockets, ws)[s].readyState = "CLOSING"
<1>0. sockets \in Seq(Sockets) /\ ws = Len(sockets)
  BY DEF SessionInv, SessionTypeOK, Sockets
<1>1. /\ sockets \in Seq(Sockets) /\ ws = Len(sockets)
      /\ \A s \in DOMAIN sockets : sockets[s] \in Sockets
  BY <1>0, Elements
<1>2. CASE ws = 0
  <2>1. DOMAIN sockets = {}
    <3>1. DOMAIN sockets = 1..Len(sockets)
      BY <1>0
    <3>2. QED BY <1>0, <1>2, <3>1
  <2>2. QED BY <1>0, <1>2, <2>1 DEF Close
<1>3. CASE ws # 0 /\ sockets[ws].readyState \in {"CLOSING", "CLOSED"}
  BY <1>1, <1>3 DEF Close, SessionInv, LiveSocketIsTheScreens, Sockets, ReadyStates
<1>4. CASE ws # 0 /\ sockets[ws].readyState \notin {"CLOSING", "CLOSED"}
  <2>1. ws \in DOMAIN sockets
    BY <1>1, <1>4
  <2>2. Close(sockets, ws) = [sockets EXCEPT ![ws].readyState = "CLOSING"]
    BY <1>4 DEF Close
  <2>3. [sockets[ws] EXCEPT !.readyState = "CLOSING"] \in Sockets
    BY <1>1, <2>1 DEF Sockets, ReadyStates
  <2>4. \A s \in DOMAIN sockets \ {ws} : sockets[s].readyState \in {"CLOSING", "CLOSED"}
    BY <1>1 DEF SessionInv, LiveSocketIsTheScreens, Sockets, ReadyStates
  <2>5. QED BY <1>1, <2>1, <2>2, <2>3, <2>4 DEF Sockets
<1>5. QED BY <1>2, <1>3, <1>4

(* Logging in opens one websocket, of the screen's role, and it is the     *)
(* only live one.                                                          *)
LEMMA Connected ==
  ASSUME SessionInv, NEW role \in Roles, connectWS(role), screen' = role
  PROVE  /\ sockets' \in Seq(Sockets) /\ ws' = Len(sockets') /\ ws' <= MaxSockets
         /\ indicator' \in [Roles -> BOOLEAN]
         /\ LiveSocketIsTheScreens' /\ LiveIsHonest'
<1> DEFINE all == Close(sockets, ws)
           n == Len(sockets)
<1>1. /\ all \in Seq(Sockets) /\ Len(all) = n /\ n \in Nat /\ MaxSockets \in Nat
      /\ DOMAIN sockets = 1..n
  BY CloseLeavesNoneLive, SessionAssumption DEF SessionInv, SessionTypeOK
<1>2. /\ sockets' = Append(all, [role |-> role, readyState |-> "CONNECTING"])
      /\ ws' = Len(sockets') /\ indicator' = indicator /\ n < MaxSockets
  BY DEF connectWS
<1>3. [role |-> role, readyState |-> "CONNECTING"] \in Sockets
  BY DEF Sockets, ReadyStates
<1>4. /\ sockets' \in Seq(Sockets) /\ Len(sockets') = n + 1
      /\ DOMAIN sockets' = 1..(n + 1)
      /\ \A s \in 1..n : sockets'[s] = all[s]
      /\ sockets'[n + 1].role = role
  BY <1>1, <1>2, <1>3
<1>5. LiveSocketIsTheScreens'
  BY <1>1, <1>2, <1>4, CloseLeavesNoneLive DEF LiveSocketIsTheScreens
<1>6. LiveIsHonest'
  <2> SUFFICES ASSUME NEW r \in Roles, indicator[r]
               PROVE  \E s \in DOMAIN sockets' : /\ sockets'[s].role = r
                                                 /\ sockets'[s].readyState \in {"OPEN", "CLOSING"}
    BY <1>2 DEF LiveIsHonest
  <2>1. PICK s \in DOMAIN sockets : /\ sockets[s].role = r
                                    /\ sockets[s].readyState \in {"OPEN", "CLOSING"}
    BY DEF SessionInv, LiveIsHonest
  <2>2. QED BY <1>1, <1>4, <2>1, CloseLeavesNoneLive
<1>7. QED BY <1>1, <1>2, <1>4, <1>5, <1>6 DEF SessionInv, SessionTypeOK
-----------------------------------------------------------------------------
(* The steps.                                                              *)

LEMMA SignInKeeps == ASSUME SessionInv, SignIn PROVE SessionInv'
<1>1. PICK name \in Names, pass \in Passwords : Login(name, pass) \/ Register(name, pass)
  BY DEF SignIn
<1>2. CASE Login(name, pass)
  <2>1. /\ users' = users
        /\ \/ /\ screen' = "admin" /\ connectWS("admin") /\ username' = username
           \/ /\ screen' = "trader" /\ connectWS("trader") /\ username' = name
              /\ \E i \in DOMAIN users : users[i].username = name
    BY <1>2 DEF Login, enterAdmin, enterTrader
  <2>2. \A i \in DOMAIN users : users[i].username \in Names \ {ADMIN_USER}
    <3>1. users \in Seq(Accounts)
      BY DEF SessionInv, SessionTypeOK
    <3>2. \A i \in DOMAIN users : users[i] \in Accounts
      BY <3>1, Elements
    <3>3. QED BY <3>2 DEF Accounts
  <2>3. screen' \in Roles /\ connectWS(screen')
        /\ username' \in {Nobody} \cup (Names \ {ADMIN_USER})
    BY <2>1, <2>2 DEF SessionInv, SessionTypeOK, Roles
  <2>4. OneAccountPerName'
    BY <2>1 DEF SessionInv, OneAccountPerName
  <2>5. QED BY <2>1, <2>3, <2>4, Connected DEF SessionInv, SessionTypeOK, Sockets
<1>3. CASE Register(name, pass)
  <2>1. PICK list \in getUsers : SaveAccount(name, pass, list)
    BY <1>3 DEF Register
  <2>2. /\ screen' = "trader" /\ connectWS("trader") /\ username' = name
    BY <1>3 DEF Register, enterTrader
  <2>3. "trader" \in Roles
    BY DEF Roles
  <2>4. QED BY <2>1, <2>2, <2>3, AccountSaved, Connected DEF SessionInv, SessionTypeOK, Sockets
<1>4. QED BY <1>1, <1>2, <1>3

LEMMA LogoutKeeps == ASSUME SessionInv, logout PROVE SessionInv'
<1>1. /\ screen' = "auth" /\ sockets' = Close(sockets, ws)
      /\ users' = users /\ username' = username /\ ws' = ws /\ indicator' = indicator
  BY DEF logout, CloseOnLogout
<1>2. DOMAIN sockets' = DOMAIN sockets
  BY <1>1, CloseLeavesNoneLive DEF SessionInv, SessionTypeOK
<1>3. SessionTypeOK'
  BY <1>1, CloseLeavesNoneLive DEF SessionInv, SessionTypeOK, Sockets
<1>4. LiveSocketIsTheScreens' /\ OneAccountPerName'
  BY <1>1, <1>2, CloseLeavesNoneLive DEF SessionInv, LiveSocketIsTheScreens, OneAccountPerName
<1>5. LiveIsHonest'
  BY <1>1, <1>2, CloseLeavesNoneLive DEF SessionInv, LiveIsHonest
<1>6. QED BY <1>3, <1>4, <1>5 DEF SessionInv

LEMMA ConnectionsKeep == ASSUME SessionInv, Connections PROVE SessionInv'
<1>typed. sockets \in Seq(Sockets) /\ indicator \in [Roles -> BOOLEAN]
  BY DEF SessionInv, SessionTypeOK, Sockets
<1>0. /\ sockets \in Seq(Sockets) /\ indicator \in [Roles -> BOOLEAN]
      /\ \A s \in DOMAIN sockets : sockets[s] \in Sockets
  BY <1>typed, Elements
<1>1. PICK s \in DOMAIN sockets : Opened(s) \/ Closed(s)
  BY DEF Connections
<1>2. PICK new \in {"OPEN", "CLOSED"}, lit \in BOOLEAN :
        /\ sockets' = [sockets EXCEPT ![s].readyState = new]
        /\ indicator' = [indicator EXCEPT ![sockets[s].role] = lit]
        /\ lit <=> new = "OPEN"
        /\ new = "OPEN" => sockets[s].readyState = "CONNECTING"
        /\ UNCHANGED <<screen, users, username, ws>>
  BY <1>1 DEF Opened, Closed, ClosingRole
<1>3. [sockets[s] EXCEPT !.readyState = new] \in Sockets
  BY <1>0, <1>2 DEF Sockets, ReadyStates
<1>4. /\ sockets' \in Seq(Sockets) /\ DOMAIN sockets' = DOMAIN sockets
      /\ Len(sockets') = Len(sockets)
      /\ \A x \in DOMAIN sockets \ {s} : sockets'[x] = sockets[x]
      /\ sockets'[s].role = sockets[s].role /\ sockets'[s].readyState = new
  BY <1>0, <1>2, <1>3 DEF Sockets
<1>5. SessionTypeOK' /\ OneAccountPerName'
  BY <1>0, <1>2, <1>4 DEF SessionInv, SessionTypeOK, OneAccountPerName, Sockets
<1>6. LiveSocketIsTheScreens'
  BY <1>2, <1>4 DEF SessionInv, LiveSocketIsTheScreens
<1>7. LiveIsHonest'
  <2> SUFFICES ASSUME NEW r \in Roles, indicator'[r]
               PROVE  \E x \in DOMAIN sockets : /\ sockets'[x].role = r
                                                /\ sockets'[x].readyState \in {"OPEN", "CLOSING"}
    BY <1>4 DEF LiveIsHonest
  <2>1. CASE r = sockets[s].role
    BY <1>0, <1>2, <1>4, <2>1
  <2>2. CASE r # sockets[s].role
    <3>1. PICK x \in DOMAIN sockets : /\ sockets[x].role = r
                                      /\ sockets[x].readyState \in {"OPEN", "CLOSING"}
      BY <1>0, <1>2, <2>2 DEF SessionInv, LiveIsHonest
    <3>2. QED BY <1>4, <2>2, <3>1
  <2>3. QED BY <2>1, <2>2
<1>8. QED BY <1>5, <1>6, <1>7 DEF SessionInv

LEMMA OtherTabKeeps == ASSUME SessionInv, OtherTab PROVE SessionInv'
<1>1. PICK name \in Names, pass \in Passwords : OtherTabRegisters(name, pass)
  BY DEF OtherTab
<1>2. PICK list \in getUsers : SaveAccount(name, pass, list)
  BY <1>1 DEF OtherTabRegisters
<1>3. UNCHANGED <<screen, username, sockets, ws, indicator>>
  BY <1>1 DEF OtherTabRegisters
<1>4. QED BY <1>2, <1>3, AccountSaved
          DEF SessionInv, SessionTypeOK, LiveSocketIsTheScreens, LiveIsHonest

(* The invariant is kept by every step of the session.                     *)
LEMMA SessionKeeps == ASSUME SessionInv, SessionStep PROVE SessionInv'
<1>1. CASE UNCHANGED session
  BY <1>1 DEF session, SessionInv, SessionTypeOK, OneAccountPerName, LiveSocketIsTheScreens,
              LiveIsHonest
<1>2. QED BY <1>1, SignInKeeps, LogoutKeeps, ConnectionsKeep, OtherTabKeeps DEF SessionStep
=============================================================================
