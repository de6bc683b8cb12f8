----------------------------- MODULE MCOrderBook -----------------------------
(* OrderBook on four price levels, with a pool that runs out.               *)
EXTENDS OrderBook

MCPrices == 1..4
MCQuantities == 1..2
=============================================================================
