------------------------- MODULE TraderScreenProofs --------------------------
(***************************************************************************)
(* The trader's screen, for any stocks, quotes, users and logins.          *)
(***************************************************************************)
EXTENDS TraderScreen, SessionProofs

(* A stock is only chosen on the trader's screen, where every new quote is *)
(* shown: that is why the pane cannot lag behind.                          *)
ScreenInv ==
  /\ TypeOK
  /\ PaneIsCurrent
  /\ WatchListIsCurrent
  /\ ~Trading => selectedSymbol = None

TraderInv == SessionInv /\ ScreenInv

LEMMA TraderStarts == Init => TraderInv
<1> SUFFICES ASSUME Init PROVE ScreenInv
  BY SessionStarts DEF Init, TraderInv
<1>1. TypeOK
  BY TraderAssumption DEF Init, TypeOK, EmptyPane, Tip, Sides, NoQuote
<1>2. QED BY <1>1 DEF Init, ScreenInv, PaneIsCurrent, WatchListIsCurrent, Trading, SessionInit

(* What the trader's screen does is a step of the session.                 *)
LEMMA TraderIsSession == ASSUME [Next]_vars PROVE SessionStep
<1>1. CASE Enter \/ Leave \/ Events
  BY <1>1 DEF Enter, Leave, Events, SessionStep
<1>2. CASE \E sym \in SYMBOLS : selectStock(sym)
  BY <1>2 DEF selectStock, SessionStep
<1>3. CASE \E side \in Sides : setSide(side)
  BY <1>3 DEF setSide, SessionStep
<1>4. CASE CloseDetail \/ EnterField \/ PlaceOrder
  BY <1>4 DEF CloseDetail, EnterField, PlaceOrder, SessionStep
<1>5. CASE \E s \in DOMAIN sockets, sym \in SYMBOLS, q \in Quotes : handleMarketData(s, sym, q)
  BY <1>5 DEF handleMarketData, SessionStep
<1>6. QED BY <1>1, <1>2, <1>3, <1>4, <1>5 DEF Next, vars, SessionStep

(* A message is handled in the role of the screen.                         *)
LEMMA RoleIsScreen ==
  ASSUME SessionInv, NEW s \in DOMAIN sockets, NEW role, Receives(s, role)
  PROVE  role = screen
BY DEF SessionInv, LiveSocketIsTheScreens, Receives

(* The total is a number again whatever is typed.                          *)
LEMMA TotalIs ==
  ASSUME NEW f \in [price : Nat, qty : Nat, total : Nat]
  PROVE  /\ WithTotal(f) \in [price : Nat, qty : Nat, total : Nat]
         /\ WithTotal(f).total = WithTotal(f).price * WithTotal(f).qty
<1>1. f.price * f.qty \in Nat
  OBVIOUS
<1>2. QED BY <1>1 DEF WithTotal

LEMMA ScreenKeeps == ASSUME TraderInv, [Next]_vars PROVE ScreenInv'
<1>0. /\ ScreenInv /\ SessionInv /\ TypeOK
      /\ None \notin SYMBOLS /\ NoQuote \in Quotes
      /\ form \in [price : Nat, qty : Nat, total : Nat]
  BY TraderAssumption DEF TraderInv, ScreenInv, TypeOK
<1>1. CASE Enter
  <2>1. /\ screen = "auth" /\ selectedSymbol = None
    BY <1>0, <1>1 DEF Enter, SignIn, Login, Register, ScreenInv, Trading
  <2>2. QED BY <1>0, <1>1, <2>1
            DEF Enter, ScreenInv, TypeOK, PaneIsCurrent, WatchListIsCurrent, Trading,
                buildStockList
<1>2. CASE Leave
  BY <1>0, <1>2 DEF Leave, logout, SymbolAfterLogout, ScreenInv, TypeOK, PaneIsCurrent,
                    WatchListIsCurrent, Trading
<1>3. CASE Events
  <2>1. screen' = screen /\ UNCHANGED trader
    BY <1>3 DEF Events, Connections, OtherTab, Opened, Closed, OtherTabRegisters
  <2>2. QED BY <1>0, <2>1 DEF trader, ScreenInv, TypeOK, PaneIsCurrent, WatchListIsCurrent, Trading
<1>4. ASSUME NEW sym \in SYMBOLS, selectStock(sym) PROVE ScreenInv'
  <2>1. market[sym].ask \in Nat /\ selectedSide \in Sides
    BY <1>0, TraderAssumption DEF TypeOK
  <2>2. /\ form' \in [price : Nat, qty : Nat, total : Nat]
        /\ form'.total = form'.price * form'.qty
    <3> DEFINE f == IF market[sym].ask > 0 THEN [form EXCEPT !.price = market[sym].ask] ELSE form
    <3>1. f \in [price : Nat, qty : Nat, total : Nat]
      BY <1>0, <2>1
    <3>2. form' = WithTotal(f)
      BY <1>4 DEF selectStock
    <3>3. QED BY <3>1, <3>2, TotalIs
  <2>3. TypeOK'
    BY <1>0, <1>4, <2>1, <2>2 DEF selectStock, TypeOK, Tip
  <2>4. QED BY <1>0, <1>4, <2>3
            DEF selectStock, ScreenInv, PaneIsCurrent, WatchListIsCurrent, Trading, session
<1>5. CASE CloseDetail
  BY <1>0, <1>5 DEF CloseDetail, ScreenInv, TypeOK, PaneIsCurrent, WatchListIsCurrent, Trading,
                    session
<1>6. ASSUME NEW side \in Sides, setSide(side) PROVE ScreenInv'
  <2>1. /\ screen' = screen
        /\ UNCHANGED <<market, selectedSymbol, watch, form>> /\ selectedSide' = side
        /\ pane' = IF selectedSymbol = None THEN pane
                   ELSE [pane EXCEPT !.tip = Tip(side, market[selectedSymbol])]
    BY <1>6 DEF setSide, session
  <2>2. CASE selectedSymbol = None
    BY <1>0, <2>1, <2>2 DEF ScreenInv, TypeOK, PaneIsCurrent, WatchListIsCurrent, Trading
  <2>3. CASE selectedSymbol # None
    <3>1. pane = [open |-> TRUE, symbol |-> selectedSymbol,
                  detail |-> Detail(market[selectedSymbol]),
                  depth |-> Depth(market[selectedSymbol]),
                  tip |-> Tip(selectedSide, market[selectedSymbol])]
      BY <1>0, <2>3 DEF ScreenInv, PaneIsCurrent
    <3>2. pane' = [pane EXCEPT !.tip = Tip(side, market[selectedSymbol])]
      BY <2>1, <2>3
    <3>3. pane' = [open |-> TRUE, symbol |-> selectedSymbol,
                   detail |-> Detail(market[selectedSymbol]),
                   depth |-> Depth(market[selectedSymbol]),
                   tip |-> Tip(side, market[selectedSymbol])]
      BY <3>1, <3>2
    <3>4. TypeOK'
      BY <1>0, <2>1, <3>3 DEF TypeOK, Tip
    <3>5. QED BY <1>0, <2>1, <3>3, <3>4
              DEF ScreenInv, PaneIsCurrent, WatchListIsCurrent, Trading
  <2>4. QED BY <2>2, <2>3
<1>7. CASE EnterField
  <2>1. PICK f \in [price : Nat, qty : Nat, total : Nat] : form' = WithTotal(f)
    <3>1. CASE \E p \in Typed : form' = WithTotal([form EXCEPT !.price = p])
      BY <1>0, <3>1, TraderAssumption
    <3>2. CASE \E q \in Quantities : form' = WithTotal([form EXCEPT !.qty = q])
      BY <1>0, <3>2, TraderAssumption
    <3>3. QED BY <1>7, <3>1, <3>2 DEF EnterField
  <2>2. UNCHANGED <<session, market, selectedSymbol, selectedSide, watch, pane>>
    BY <1>7 DEF EnterField
  <2>3. QED BY <1>0, <2>1, <2>2, TotalIs
            DEF ScreenInv, TypeOK, PaneIsCurrent, WatchListIsCurrent, Trading, session
<1>8. CASE PlaceOrder
  BY <1>0, <1>8 DEF PlaceOrder, ScreenInv, TypeOK, PaneIsCurrent, WatchListIsCurrent, Trading,
                    session
<1>9. ASSUME NEW s \in DOMAIN sockets, NEW sym \in SYMBOLS, NEW quote \in Quotes,
             handleMarketData(s, sym, quote)
      PROVE  ScreenInv'
  <2>1. PICK role \in Roles :
          /\ Receives(s, role)
          /\ market' = [market EXCEPT ![sym] = quote]
          /\ IF role = "trader"
             THEN /\ watch' = [watch EXCEPT ![sym] = quote]
                  /\ pane' = IF Redraws(sym)
                             THEN [pane EXCEPT !.detail = Detail(quote), !.depth = Depth(quote),
                                               !.tip = Tip(selectedSide, quote)]
                             ELSE pane
             ELSE UNCHANGED <<watch, pane>>
          /\ UNCHANGED <<screen, selectedSymbol, selectedSide, form>>
    BY <1>9 DEF handleMarketData, session
  <2>2. role = screen
    BY <1>0, <2>1, RoleIsScreen
  <2>3. market' \in [SYMBOLS -> Quotes] /\ market'[sym] = quote
        /\ \A x \in SYMBOLS \ {sym} : market'[x] = market[x]
    BY <1>0, <2>1 DEF TypeOK
  <2>4. CASE role # "trader"
    <3>1. selectedSymbol = None
      BY <1>0, <2>2, <2>4 DEF ScreenInv, Trading
    <3>2. QED BY <1>0, <2>1, <2>2, <2>3, <2>4, <3>1
              DEF ScreenInv, TypeOK, PaneIsCurrent, WatchListIsCurrent, Trading
  <2>5. CASE role = "trader"
    <3>1. /\ watch' \in [SYMBOLS -> Quotes] /\ watch'[sym] = quote
          /\ \A x \in SYMBOLS \ {sym} : watch'[x] = watch[x]
      BY <1>0, <2>1, <2>5 DEF TypeOK
    <3>2. WatchListIsCurrent'
      BY <1>0, <2>2, <2>3, <2>5, <3>1 DEF ScreenInv, WatchListIsCurrent, Trading
    <3>3. CASE selectedSymbol = sym
      <4>1. pane = [open |-> TRUE, symbol |-> sym, detail |-> Detail(market[sym]),
                    depth |-> Depth(market[sym]), tip |-> Tip(selectedSide, market[sym])]
        BY <1>0, <3>3 DEF ScreenInv, PaneIsCurrent
      <4>2. pane' = [pane EXCEPT !.detail = Detail(quote), !.depth = Depth(quote),
                                 !.tip = Tip(selectedSide, quote)]
        BY <2>1, <2>5, <3>3 DEF Redraws
      <4>3. pane' = [open |-> TRUE, symbol |-> sym, detail |-> Detail(quote),
                     depth |-> Depth(quote), tip |-> Tip(selectedSide, quote)]
        BY <4>1, <4>2
      <4>4. TypeOK'
        BY <1>0, <2>1, <2>3, <3>1, <4>3 DEF TypeOK, Tip
      <4>5. QED BY <1>0, <2>1, <2>2, <2>3, <2>5, <3>2, <3>3, <4>3, <4>4
                DEF ScreenInv, PaneIsCurrent, Trading
    <3>4. CASE selectedSymbol # sym
      <4>1. pane' = pane
        BY <2>1, <2>5, <3>4 DEF Redraws
      <4>2. TypeOK'
        BY <1>0, <2>1, <2>3, <3>1, <4>1 DEF TypeOK
      <4>3. selectedSymbol # None => market'[selectedSymbol] = market[selectedSymbol]
        BY <1>0, <2>3, <3>4 DEF TypeOK
      <4>4. QED BY <1>0, <2>1, <2>2, <2>5, <3>2, <4>1, <4>2, <4>3
                DEF ScreenInv, PaneIsCurrent, Trading
    <3>5. QED BY <3>3, <3>4
  <2>6. QED BY <2>4, <2>5
<1>10. CASE UNCHANGED vars
  BY <1>0, <1>10 DEF vars, session, trader, ScreenInv, TypeOK, PaneIsCurrent,
                     WatchListIsCurrent, Trading
<1>11. QED BY <1>1, <1>2, <1>3, <1>4, <1>5, <1>6, <1>7, <1>8, <1>9, <1>10 DEF Next

(* Session and screen stay right together: the pane and the watch list are *)
(* current because no message is handled for a screen that is not shown.   *)
THEOREM TraderInvariant == Spec => []TraderInv
<1>1. TraderInv /\ [Next]_vars => TraderInv'
  BY TraderIsSession, SessionKeeps, ScreenKeeps DEF TraderInv
<1>2. QED BY TraderStarts, <1>1, PTL DEF Spec

(* The variables keep their types; the total is price times quantity.      *)
THEOREM TypeCorrect == Spec => []TypeOK
BY TraderInvariant, PTL DEF TraderInv, ScreenInv

(* The pane of a chosen stock shows its last quote.                        *)
THEOREM PaneIsAlwaysCurrent == Spec => []PaneIsCurrent
BY TraderInvariant, PTL DEF TraderInv, ScreenInv

(* The watch list shows no price that has been replaced.                   *)
THEOREM WatchListIsAlwaysCurrent == Spec => []WatchListIsCurrent
BY TraderInvariant, PTL DEF TraderInv, ScreenInv
=============================================================================
