---------------------------- MODULE TraderScreen -----------------------------
(***************************************************************************)
(* A trader's screen: the watch list, the pane of the stock he has chosen, *)
(* with its prices, depth, tip and order form, and what market data, which *)
(* arrives on either screen, does to them.  Prices are in paise, 0 where   *)
(* there is none.  What becomes of an order once it is sent is the subject *)
(* of ManualOrders.                                                        *)
(***************************************************************************)
EXTENDS Session, RupeesToPaise

CONSTANTS
  SYMBOLS,
  Quotes,         (* the pairs of best bid and best ask that are reported   *)
  Typed,          (* the prices a user types                                *)
  Quantities,     (* the quantities a user types                            *)
  MaxOrderRows,   (* the rows after which the list of orders is cut, 30     *)
  MaxPlaced       (* bound: the orders placed                               *)

None == "none"
NoQuote == [bid |-> 0, ask |-> 0]

ASSUME TraderAssumption ==
  /\ None \notin SYMBOLS
  /\ Quotes \subseteq [bid : Nat, ask : Nat]
  /\ NoQuote \in Quotes
  /\ Typed \subseteq Nat
  /\ Quantities \subseteq Nat
  /\ MaxOrderRows \in Nat
  /\ MaxPlaced \in Nat

VARIABLES
  market,         (* the quotes received last                               *)
  selectedSymbol,
  selectedSide,
  watch,          (* watch[s]: the quote that the watch list shows for s    *)
  pane,           (* what the pane shows                                    *)
  form,           (* the fields of the order form                           *)
  orders          (* the nodes of the list of orders, a row by its status   *)

trader == <<market, selectedSymbol, selectedSide, watch, pane, form, orders>>
vars == <<session, trader>>

Sides == {"BUY", "SELL"}
-----------------------------------------------------------------------------
(* updateDetailPrices.                                                     *)
Detail(q) ==
  [bid |-> q.bid, ask |-> q.ask,
   spread |-> IF q.ask > 0 /\ q.bid > 0 /\ q.ask > q.bid THEN q.ask - q.bid ELSE 0]

(* renderDepth: five prices on each side, from the best one on.  The       *)
(* quantities next to them are drawn at random.                            *)
Depth(q) ==
  [bids |-> IF q.bid > 0 THEN [i \in 1..5 |-> q.bid - (i - 1) * 5] ELSE <<>>,
   asks |-> IF q.ask > 0 THEN [i \in 1..5 |-> q.ask + (i - 1) * 5] ELSE <<>>]

(* updateMarketTip: at which price an order matches instantly, 0 when the  *)
(* page waits for somebody to trade with.                                  *)
Tip(side, q) == [side |-> side, price |-> IF side = "BUY" THEN q.ask ELSE q.bid]

(* calcTotal.                                                              *)
TotalAsItWas(f) == f  (* a mutant                                           *)
WithTotal(f) == [f EXCEPT !.total = f.price * f.qty]

EmptyPane == [open |-> FALSE, symbol |-> None, detail |-> Detail(NoQuote),
              depth |-> Depth(NoQuote), tip |-> Tip("BUY", NoQuote)]

Init ==
  /\ SessionInit
  /\ market = [s \in SYMBOLS |-> NoQuote]
  /\ selectedSymbol = None
  /\ selectedSide = "BUY"
  /\ watch = [s \in SYMBOLS |-> NoQuote]
  /\ pane = EmptyPane
  /\ form = [price |-> 0, qty |-> 10, total |-> 0]
  /\ orders = <<Text, Text>>
-----------------------------------------------------------------------------
(* buildStockList: the watch list is built anew, without prices.           *)
KeepStockList == watch  (* a mutant                                         *)
buildStockList == [s \in SYMBOLS |-> NoQuote]

Enter ==
  /\ SignIn
  /\ watch' = IF screen' = "trader" THEN buildStockList ELSE watch
  /\ UNCHANGED <<market, selectedSymbol, selectedSide, pane, form, orders>>

(* What logging out makes of the choice of a stock.                        *)
SymbolAfterLogoutKept == selectedSymbol  (* a mutant                        *)
SymbolAfterLogout == None

(* The pane is not closed.                                                 *)
Leave ==
  /\ logout
  /\ selectedSymbol' = SymbolAfterLogout
  /\ UNCHANGED <<market, selectedSide, watch, pane, form, orders>>

Trading == screen = "trader"

selectStock(sym) ==
  /\ Trading
  /\ selectedSymbol' = sym
  /\ pane' = [open |-> TRUE, symbol |-> sym, detail |-> Detail(market[sym]),
              depth |-> Depth(market[sym]), tip |-> Tip(selectedSide, market[sym])]
  /\ form' = WithTotal(IF market[sym].ask > 0
                       THEN [form EXCEPT !.price = market[sym].ask] ELSE form)
  /\ UNCHANGED <<session, market, selectedSide, watch, orders>>

(* The button that closes the pane.                                        *)
CloseDetail ==
  /\ Trading /\ pane.open
  /\ pane' = [pane EXCEPT !.open = FALSE]
  /\ selectedSymbol' = None
  /\ UNCHANGED <<session, market, selectedSide, watch, form, orders>>

setSide(side) ==
  /\ Trading /\ pane.open
  /\ selectedSide' = side
  /\ pane' = IF selectedSymbol = None THEN pane
             ELSE [pane EXCEPT !.tip = Tip(side, market[selectedSymbol])]
  /\ UNCHANGED <<session, market, selectedSymbol, watch, form, orders>>

EnterField ==
  /\ Trading /\ pane.open
  /\ \/ \E p \in Typed : form' = WithTotal([form EXCEPT !.price = p])
     \/ \E q \in Quantities : form' = WithTotal([form EXCEPT !.qty = q])
  /\ UNCHANGED <<session, market, selectedSymbol, selectedSide, watch, pane, orders>>

(* The button that places an order, for the symbol that the pane shows.    *)
(* When the websocket is not open, the row is all there is of the order.   *)
PlaceOrder ==
  /\ Trading /\ pane.open
  /\ RowCount(orders) < MaxPlaced
  /\ form.price > 0 /\ form.qty > 0
  /\ orders' = InsertRow(<<IF sockets[ws].readyState = "OPEN" THEN "PENDING" ELSE "CONNECTING">>,
                         orders, MaxOrderRows)
  /\ UNCHANGED <<session, market, selectedSymbol, selectedSide, watch, pane, form>>

(* Is the pane drawn again for new market data of sym?                     *)
Redraws(sym) == selectedSymbol = sym

handleMarketData(s, sym, quote) ==
  \E role \in Roles :
    /\ Receives(s, role)
    /\ market' = [market EXCEPT ![sym] = quote]
    /\ IF role = "trader"
       THEN /\ watch' = [watch EXCEPT ![sym] = quote]
            /\ pane' = IF Redraws(sym)
                       THEN [pane EXCEPT !.detail = Detail(quote), !.depth = Depth(quote),
                                         !.tip = Tip(selectedSide, quote)]
                       ELSE pane
       ELSE UNCHANGED <<watch, pane>>
    /\ UNCHANGED <<session, selectedSymbol, selectedSide, form, orders>>

Events ==
  /\ Connections \/ OtherTab
  /\ UNCHANGED trader

Next ==
  \/ Enter
  \/ Leave
  \/ Events
  \/ \E sym \in SYMBOLS : selectStock(sym)
  \/ CloseDetail
  \/ \E side \in Sides : setSide(side)
  \/ EnterField
  \/ PlaceOrder
  \/ \E s \in DOMAIN sockets, sym \in SYMBOLS, q \in Quotes : handleMarketData(s, sym, q)

Spec == Init /\ [][Next]_vars
-----------------------------------------------------------------------------
(***************************************************************************)
(* Properties.                                                             *)
(***************************************************************************)
(* The values of the variables.                                            *)
TypeOK ==
  /\ market \in [SYMBOLS -> Quotes]
  /\ watch \in [SYMBOLS -> Quotes]
  /\ selectedSymbol \in SYMBOLS \cup {None}
  /\ selectedSide \in Sides
  /\ pane.open \in BOOLEAN
  /\ pane.symbol \in SYMBOLS \cup {None}
  /\ pane.tip.side \in Sides
  /\ form \in [price : Nat, qty : Nat, total : Nat]
  /\ form.total = form.price * form.qty

(* While a stock is chosen, the pane is the pane of that stock: prices,    *)
(* depth and tip are those of its last quote and of the side of the form,  *)
(* whatever arrived on which screen before.                                *)
PaneIsCurrent ==
  selectedSymbol # None =>
    pane = [open |-> TRUE, symbol |-> selectedSymbol,
            detail |-> Detail(market[selectedSymbol]),
            depth |-> Depth(market[selectedSymbol]),
            tip |-> Tip(selectedSide, market[selectedSymbol])]

(* The watch list of an active screen shows no price that has been         *)
(* replaced since, also when the quotes moved during a session in between  *)
(* whose screen had no watch list.                                         *)
WatchListIsCurrent ==
  Trading => \A s \in SYMBOLS : watch[s] \in {NoQuote, market[s]}

(* The tip promises that an order at its price matches instantly: it must  *)
(* still reach the quote when the server has converted its price.          *)
TipIsEnough ==
  selectedSymbol # None /\ pane.tip.price > 0 =>
    IF selectedSide = "BUY" THEN paise(pane.tip.price) >= pane.tip.price
    ELSE paise(pane.tip.price) <= pane.tip.price
=============================================================================
