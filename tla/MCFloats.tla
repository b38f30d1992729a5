------------------------------ MODULE MCFloats ------------------------------
(***************************************************************************)
(* Both formats scaled down with the proportions that fix their digits:    *)
(* as many spare bits above the significand as kappa needs, a significand  *)
(* for which no power of two but the second and third has an integral end  *)
(* and for which one power of two is a tie.  The narrow format's float     *)
(* nearest to 10^-MaxPrec, 131 * 2^-17, lies below it, as 15474250 * 2^-87 *)
(* lies below 10^-19.  Exponents reach past both bounds of the domain.     *)
(***************************************************************************)
EXTENDS Floats

MCBase == 2 ^ WordBits
MCPow10 == [k \in 0..2*MaxPrec |-> 10^k]
Double == [w |-> 15, p |-> 3, kappa |-> 2, whole |-> FALSE, tie |-> -7]
Single == [w |-> 15, p |-> 7, kappa |-> 1, whole |-> TRUE, tie |-> -12]
MCFormats == {Double, Single}
MCExponents(f) == IF f = Double THEN -14..17 ELSE -19..14
=============================================================================
