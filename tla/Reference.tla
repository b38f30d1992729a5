----------------------------- MODULE Reference -----------------------------
(***************************************************************************)
(* What a correctly rounded or exact result is, in exact rational          *)
(* arithmetic: the definitions the properties of Calculator and Aggregate  *)
(* compare the code's answers with.  A magnitude is a fraction num/den.    *)
(***************************************************************************)
EXTENDS Exact

(* coef is num/den rounded once in the given mode: judged by the distance  *)
(* between coef*den and num, not by quotient and remainder.                *)
RoundedTo(coef, num, den, neg, mode) ==
  LET over == coef * den - num
      Below == over \in (1 - den)..0
      Above == over \in 0..(den - 1)
  IN  CASE mode = "TowardZero" -> Below
        [] mode = "AwayFromZero" -> Above
        [] mode = "TowardPositive" -> IF neg THEN Below ELSE Above
        [] mode = "TowardNegative" -> IF neg THEN Above ELSE Below
        [] mode = "ToNearestAway" -> 2 * over \in (1 - den)..den
        [] mode = "ToNearestEven" ->
             2 * Abs(over) <= den /\ (2 * Abs(over) = den => ~IsOdd(coef))

(* The answer to a rounding request whose exact result is num/den units.   *)
RoundsOnce(num, den, neg, places, mode, val, err) ==
  LET exact == CHOOSE c \in (num \div den)..(num \div den + 1) :
                 RoundedTo(c, num, den, neg, mode)
  IN  IF exact >= Cap THEN err = "Overflow"
      ELSE err = "nil" /\ val = NewDecimal(exact, neg, places)

(* The exact value num/den classified the way MulExact and DivExact do:    *)
(* representable, or too large, too small, or in need of more digits.      *)
Classified(num, den, neg, val, err) ==
  LET Hits(p) == (num * Pow10[p]) % den = 0 /\ (num * Pow10[p]) \div den < Cap
  IN  IF \E p \in 0..MaxPrec : Hits(p)
      THEN /\ err = "nil"
           /\ Hits(val.prec)
           /\ val = NewDecimal((num * Pow10[val.prec]) \div den, neg, val.prec)
      ELSE err = IF num > MaxCoef * den THEN "Overflow"
                 ELSE IF num * Pow10[MaxPrec] < den THEN "Underflow"
                 ELSE "Inexact"
=============================================================================
