------------------------------- MODULE Words -------------------------------
(***************************************************************************)
(* The fixed-width unsigned arithmetic the decimal code is written in,     *)
(* seen at the level of integers: a u128 is a number below Cap, a u256 a   *)
(* number below Wide, and every operation keeps the wrap-around and the    *)
(* carry, borrow or fit flag of the Go code.  What the limb kernels of     *)
(* u128.go, u256.go and div10.go compute is stated here, not how.          *)
(*                                                                         *)
(* The word size and the greatest precision are parameters, tied together  *)
(* as in the code (10^19 < 2^64 < 10^20, 10^38 < 2^128 < 10^39).           *)
(***************************************************************************)
EXTENDS Integers

CONSTANTS
  WordBits,     \* bits in a machine word: 64
  Base,         \* 2^WordBits
  MaxPrec,      \* the greatest number of fractional digits: 19
  Pow10         \* pow10u64 and pow10u128: Pow10[k] is 10^k, k in 0..2*MaxPrec

ASSUME WordAssumption ==
  /\ WordBits \in Nat /\ WordBits >= 2
  /\ Base \in Nat /\ Base = 2 ^ WordBits /\ Base >= 4

Cap == Base * Base
Wide == Cap * Cap

(* The tables: powers of ten, with the largest single-word power at MaxPrec *)
(* and the largest two-word power at 2*MaxPrec.                             *)
ASSUME TableAssumption ==
  /\ MaxPrec \in Nat /\ MaxPrec >= 1
  /\ Pow10 \in [0..2*MaxPrec -> Nat \ {0}]
  /\ Pow10[0] = 1 /\ Pow10[1] = 10
  /\ \A a, b \in 0..2*MaxPrec :
        a + b <= 2*MaxPrec => Pow10[a + b] = Pow10[a] * Pow10[b]
  /\ Pow10[MaxPrec] < Base /\ Base < 10 * Pow10[MaxPrec]
  /\ Pow10[2*MaxPrec] < Cap /\ Cap < 10 * Pow10[2*MaxPrec]

U64 == 0..(Base - 1)
U128 == 0..(Cap - 1)
U256 == 0..(Wide - 1)

OneLimb(u) == u < Base                     \* hi == 0
ZeroUpper(u) == u < Cap                    \* u256.isZeroUpper
Sign3(n) == IF n < 0 THEN -1 ELSE IF n > 0 THEN 1 ELSE 0
Larger(a, b) == IF a >= b THEN a ELSE b
Smaller(a, b) == IF a <= b THEN a ELSE b
Abs(n) == IF n < 0 THEN -n ELSE n

(* Wrapping addition and subtraction with their carry and borrow bits.     *)
Add128(u, v) == IF u + v < Cap THEN [val |-> u + v, carry |-> 0]
                               ELSE [val |-> u + v - Cap, carry |-> 1]
Sub128(u, v) == IF u >= v THEN [val |-> u - v, borrow |-> 0]
                          ELSE [val |-> u - v + Cap, borrow |-> 1]
Neg128(u) == Sub128(0, u).val
Inc128(u) == Add128(u, 1).val
Cmp128(u, v) == Sign3(u - v)

(* The low 128 bits of u*v and the limb above them.                        *)
Mul128by64(u, v) == [val |-> (u * v) % Cap, overflow |-> (u * v) \div Cap]

(* u256 sums whose carry out is dropped, and products kept modulo Wide.    *)
Add256(u, v) == IF u + v < Wide THEN u + v ELSE u + v - Wide
Mul256(u, v) == (u * v) % Wide

(* mul256by64: ok iff the product fits, tested without forming it.         *)
Mul256Fits(u, v) == u <= (Wide - 1) \div v

(* The number of binary digits of n (bits.Len64 over both limbs), and the  *)
(* same for a power of ten (the bitlen10 table).                           *)
BitLen128(n) == CHOOSE k \in 0..2*WordBits :
                  n < 2^k /\ \A j \in 0..(k - 1) : n >= 2^j
BitLen10(f) == BitLen128(Pow10[f])
=============================================================================
