------------------------------- MODULE Exact -------------------------------
(***************************************************************************)
(* The operations of exact.go and muldiv.go: MulExact and DivExact, which  *)
(* return the exact result or say why there is none, and MulRound,         *)
(* DivRound and MulDivRound, which round once to a requested precision.    *)
(***************************************************************************)
EXTENDS Rounding

MaxCoef == Cap - 1

(* Fault: the fraction above the largest coefficient is not seen.          *)
MulMagnitudeTruncates(prod, prec) == prod \div Pow10[prec] > MaxCoef

(* mulExactRangeError: why a product is not representable.                 *)
MulMagnitudeOverflows(prod, prec) == prod > MaxCoef * Pow10[prec]
MulExactRangeError(prod, naturalPrec, truncated) ==
  IF MulMagnitudeOverflows(prod, naturalPrec) THEN Fail("Overflow")
  ELSE IF truncated = 0 THEN Fail("Underflow")
  ELSE Fail("Inexact")

(* MulExact: precision above MaxPrec comes off in one division, then       *)
(* trailing zeros one at a time until the coefficient fits.                *)
MulExact(d, e) ==
  LET prod == d.coef * e.coef
      naturalPrec == d.prec + e.prec
      over == Larger(naturalPrec - MaxPrec, 0)
      narrow[s \in [work : U256, prec : 0..MaxPrec]] ==
        IF ZeroUpper(s.work) THEN Ok(NewDecimal(s.work, d.neg # e.neg, s.prec))
        ELSE IF s.prec = 0 THEN Fail("Overflow")
        ELSE IF s.work % 10 # 0 THEN MulExactRangeError(prod, naturalPrec, s.work \div 10)
        ELSE narrow[[work |-> s.work \div 10, prec |-> s.prec - 1]]
  IN  IF prod = 0 THEN Ok(Zero)
      ELSE IF prod % Pow10[over] # 0
           THEN MulExactRangeError(prod, naturalPrec, prod \div Pow10[over])
      ELSE narrow[[work |-> prod \div Pow10[over], prec |-> naturalPrec - over]]

NoFit == [fits |-> FALSE, q |-> 0, rem |-> FALSE, half |-> 0]
Quot(q, rem, half) == [fits |-> TRUE, q |-> q, rem |-> rem, half |-> half]

(* divRoundWide: quotient, inexactness and half comparison, if it fits.    *)
DivRoundWide(num, den) ==
  LET q == num \div den
      r == num % den
  IN  IF num \div Cap >= den THEN NoFit
      ELSE Quot(q, r # 0, IF OneLimb(den) THEN CmpHalf64(r, den) ELSE CmpDouble128(r, den))

(* divRoundPow10: for one-word powers the half is the power shifted right. *)
DivRoundPow10(num, k) ==
  LET r == num % Pow10[k]
  IN  IF k > MaxPrec THEN DivRoundWide(num, Pow10[k])
      ELSE IF num \div Cap >= Pow10[k] THEN NoFit
      ELSE Quot(num \div Pow10[k], r # 0, Sign3(r - Pow10[k] \div 2))

(* divRoundAt: d/e at a precision; a divisor above 128 bits leaves q = 0.  *)
DivRoundAt(d, e, places) ==
  LET f == places + e.prec - d.prec
      den == e.coef * Pow10[-f]
  IN  CASE f >= 0 -> DivRoundWide(d.coef * Pow10[f], e.coef)
        [] f < 0 -> IF ZeroUpper(den) THEN DivRoundWide(d.coef, den)
                    ELSE Quot(0, d.coef # 0, Sign3(2 * d.coef - den))

(* Fault: the quotient is trimmed instead of keeping its precision.        *)
FinishDivExactTrimmed(q, rem, places, neg) ==
  IF ~rem THEN Ok(Trim(NewDecimal(q, neg, places)))
  ELSE IF places = 0 /\ q = MaxCoef THEN Fail("Overflow")
  ELSE IF q = 0 THEN Fail("Underflow")
  ELSE Fail("Inexact")

FinishDivExact(q, rem, places, neg) ==
  IF ~rem THEN Ok(NewDecimal(q, neg, places))
  ELSE IF places = 0 /\ q = MaxCoef THEN Fail("Overflow")
  ELSE IF q = 0 THEN Fail("Underflow")
  ELSE Fail("Inexact")

(* DivExact: MaxPrec first, then a binary search below it (module          *)
(* PrecSearch steps through the same loop).                                *)
DivExact(d, e) ==
  LET At(p) == DivRoundAt(d, e, p)
      Bounds(lo, hi, best) == [lo |-> lo, hi |-> hi, best |-> best]
      search[s \in [lo : 0..MaxPrec, hi : -1..(MaxPrec - 1), best : -1..MaxPrec]] ==
        LET mid == (s.lo + s.hi) \div 2
        IN  IF s.lo > s.hi THEN s.best
            ELSE IF At(mid).fits THEN search[Bounds(mid + 1, s.hi, mid)]
            ELSE search[Bounds(s.lo, mid - 1, s.best)]
      places == IF At(MaxPrec).fits THEN MaxPrec
                                    ELSE search[Bounds(0, MaxPrec - 1, -1)]
  IN  CASE e.coef = 0 -> Fail("DivideByZero")
        [] e.coef # 0 /\ d.coef = 0 -> Ok(Zero)
        [] e.coef # 0 /\ d.coef # 0 ->
             IF places = -1 THEN Fail("Overflow")
             ELSE FinishDivExact(At(places).q, At(places).rem, places, d.neg # e.neg)

----------------------------------------------------------------------------
(* The common tail of the rounding operations.                             *)
FinishRound(quot, neg, places, mode) ==
  LET rounded == RoundQuotient(quot.q, quot.rem, quot.half, neg, mode)
  IN  IF ~quot.fits THEN Fail("Overflow")
      ELSE IF rounded.err # "nil" THEN Fail(rounded.err)
      ELSE Ok(NewDecimal(rounded.val, neg, places))

(* One-word quotients are rounded in place, with no test for overflow.     *)
RoundInPlace(q, r, half, neg, places, mode) ==
  LET up == RoundsUp(mode, r # 0, half, IsOdd(q), neg)
  IN  Ok(NewDecimal(IF up THEN (q + 1) % Base ELSE q, neg, places))

(* Checks shared by the rounding operations, in the code's order.          *)
RoundArgsError(places, mode, divisor) ==
  IF places > MaxPrec THEN "PrecOutOfRange"
  ELSE IF mode \notin Modes THEN "InvalidRoundingMode"
  ELSE IF divisor = 0 THEN "DivideByZero"
  ELSE "nil"

MulRound(d, e, places, mode) ==
  LET argsError == RoundArgsError(places, mode, 1)
      neg == d.neg # e.neg
      naturalPrec == d.prec + e.prec
      prod == d.coef * e.coef
      k == naturalPrec - places
      scaled == Mul128by64(prod, Pow10[-k])
      inPlace == /\ OneLimb(d.coef) /\ OneLimb(e.coef) /\ OneLimb(prod)
                 /\ k \in 1..MaxPrec
  IN  IF argsError # "nil" THEN Fail(argsError)
      ELSE IF prod = 0 THEN Ok(Zero)
      ELSE IF inPlace
      THEN RoundInPlace(prod \div Pow10[k], prod % Pow10[k],
                        Sign3((prod % Pow10[k]) - Pow10[k] \div 2), neg, places, mode)
      ELSE IF k <= 0
      THEN IF ~ZeroUpper(prod) \/ scaled.overflow # 0 THEN Fail("Overflow")
           ELSE Ok(NewDecimal(scaled.val, neg, places))
      ELSE FinishRound(DivRoundPow10(prod, k), neg, places, mode)

DivRound(d, e, places, mode) ==
  LET argsError == RoundArgsError(places, mode, e.coef)
      neg == d.neg # e.neg
      f == places + e.prec - d.prec
      num == d.coef * Pow10[f]
      inPlace == /\ OneLimb(d.coef) /\ OneLimb(e.coef)
                 /\ f \in 0..MaxPrec /\ OneLimb(num)
  IN  IF argsError # "nil" THEN Fail(argsError)
      ELSE IF d.coef = 0 THEN Ok(Zero)
      ELSE IF inPlace
      THEN RoundInPlace(num \div e.coef, num % e.coef, CmpHalf64(num % e.coef, e.coef),
                        neg, places, mode)
      ELSE FinishRound(DivRoundAt(d, e, places), neg, places, mode)
=============================================================================
