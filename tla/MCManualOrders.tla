--------------------------- MODULE MCManualOrders ----------------------------
(* ManualOrders with two terminals and a few orders.                        *)
EXTENDS ManualOrders

CONSTANTS alice, bob

MCTwoClients == {alice, bob}
MCReadable == {"good", "out_of_band", "below_paisa"}
MCGoodOnly == {"good"}
MCUnreadable == {"good", "unreadable"}
MCSymmetry == Permutations(MCTwoClients)
=============================================================================
