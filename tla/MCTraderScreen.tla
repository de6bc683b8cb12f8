--------------------------- MODULE MCTraderScreen ----------------------------
(* TraderScreen with two stocks and prices around 2500 rupees.              *)
EXTENDS TraderScreen

CONSTANTS reliance, tcs

MCSymbols == {reliance, tcs}
MCQuotes == {NoQuote, [bid |-> 249990, ask |-> 250018]}
MCNames == {ADMIN_USER, "alice"}
MCPasswords == {ADMIN_PASS}
MCShort == {}
MCTyped == {0, 250000}
MCQuantities == {0, 10}
=============================================================================
