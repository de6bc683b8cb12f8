--------------------------- MODULE RupeesToPaise -----------------------------
(***************************************************************************)
(* The price of a manual order on its way from the price field to the      *)
(* engine.  The page reads the field with parseFloat, the server computes  *)
(* int(float(price) * 100).  A price of n paise is thus n / 100 rounded to *)
(* a double, 100 times that rounded to a double again, and truncated.      *)
(*                                                                         *)
(* With 2^e <= n / 100 < 2^(e+1), the first double is m / 2^k, where       *)
(* k = 52 - e and m is n * 2^k / 100 rounded to an integer of 53 bits.     *)
(* Then 100 * m = n * 2^k + r, where the remainder r is -n * 2^k modulo    *)
(* 100, taken between -50 and 50.  The product has 53 bits again when      *)
(* rounded to a multiple of 64 or of 128, depending on its size: r rounds  *)
(* to 0 or to -64 or 64, and truncation drops a paisa if it is -64.        *)
(***************************************************************************)
EXTENDS Naturals, Integers

MaxExponent == 30

(* 2^k modulo 100, for k up to 52.                                         *)
PowerMod100(k) == ((2^(k \div 2) % 100) * (2^(k - k \div 2) % 100)) % 100

Exponent(n) == CHOOSE e \in 0..MaxExponent : 100 * 2^e <= n /\ n < 100 * 2^(e + 1)

(* 100 * m - n * 2^k.                                                      *)
Remainder(n) ==
  LET r == (100 - (((n % 100) * PowerMod100(52 - Exponent(n))) % 100)) % 100
  IN  IF r > 50 THEN r - 100 ELSE r

(* Is the product below 2^59?  Then it rounds to a multiple of 64.         *)
RoundsTo64(n) ==
  n < 2^(Exponent(n) + 7) \/ (n = 2^(Exponent(n) + 7) /\ Remainder(n) < 0)

(* The price in paise that the engine gets for n paise entered, from one   *)
(* rupee up.                                                               *)
paise(n) == IF RoundsTo64(n) /\ Remainder(n) < -32 THEN n - 1 ELSE n
=============================================================================
