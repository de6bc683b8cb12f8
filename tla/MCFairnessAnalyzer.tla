------------------------- MODULE MCFairnessAnalyzer --------------------------
(* FairnessAnalyzer with two traders and orders that trade in parts.        *)
EXTENDS FairnessAnalyzer, TLC

CONSTANTS bot, user

MCTraders == {bot, user}

(* The traders are interchangeable.                                         *)
MCSymmetry == Permutations(MCTraders)
=============================================================================
