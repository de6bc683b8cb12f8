---------------------------- MODULE MCOrderQueue -----------------------------
(* OrderQueue with two producers and a buffer that holds two orders.        *)
EXTENDS OrderQueue

CONSTANTS bot, stdin, a, b

MCProducers == {bot, stdin}
MCPayloads == {a, b}
=============================================================================
