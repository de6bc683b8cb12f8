-------------------------- MODULE MCLoadGenerator ----------------------------
(* LoadGenerator with a trader of each kind and a queue of one order.       *)
EXTENDS LoadGenerator, TLC

CONSTANTS stdin_reader, reporter_loop

MCProfiles == <<"RetailTrader", "MarketMaker", "SniperTrader">>
MCPrinters == {stdin_reader, reporter_loop}
MCSymmetry == Permutations(MCPrinters)
=============================================================================
