------------------------------- MODULE Arith -------------------------------
(***************************************************************************)
(* The operators of arith.go: Add, Sub, Mul, Div, QuoRem, Mod, Min, Max.   *)
(* The divisions the code delegates to its kernels (div256by128,           *)
(* div256by64, quoRem64, the reciprocal tables) are exact integer division *)
(* here; the fits tests in front of them, the order in which paths are     *)
(* tried and the wrap-around of fixed-width results are the code's.        *)
(***************************************************************************)
EXTENDS Decimal, Sequences

(* Precisions differ: the coarser coefficient is widened to 192 bits.      *)
AddUnaligned(d, e, eNeg) ==
  LET swapped == d.prec > e.prec
      lo == IF swapped THEN e ELSE d
      hi == IF swapped THEN d ELSE e
      loNeg == IF swapped THEN eNeg ELSE d.neg
      hiNeg == IF swapped THEN d.neg ELSE eNeg
      w == lo.coef * Pow10[hi.prec - lo.prec]
      mag == IF loNeg = hiNeg THEN w + hi.coef ELSE Abs(w - hi.coef)
      neg == IF loNeg # hiNeg /\ w < hi.coef THEN hiNeg ELSE loNeg
  IN  IF mag >= Cap THEN Fail("Overflow") ELSE Ok(NewDecimal(mag, neg, hi.prec))

(* Fault: the carry out of 128 bits is dropped.                            *)
AddMagnitudesWrapping(d, e) == Ok(NewDecimal(Add128(d.coef, e.coef).val, d.neg, d.prec))

(* One precision: magnitudes add, the carry is the overflow...             *)
AddMagnitudes(d, e) ==
  LET sum == Add128(d.coef, e.coef)
  IN  IF sum.carry # 0 THEN Fail("Overflow")
                       ELSE Ok(RawDecimal(sum.val, d.neg, d.prec))

(* Fault: a difference of zero keeps its sign and precision.               *)
SubMagnitudesRaw(d, e, eNeg) ==
  LET diff == Sub128(d.coef, e.coef)
  IN  IF diff.borrow # 0 THEN Ok(RawDecimal(Neg128(diff.val), eNeg, d.prec))
                         ELSE Ok(RawDecimal(diff.val, d.neg, d.prec))

(* ...or subtract, a borrow meaning that e is the larger one.              *)
SubMagnitudes(d, e, eNeg) ==
  LET diff == Sub128(d.coef, e.coef)
  IN  IF diff.borrow # 0 THEN Ok(NewDecimal(Neg128(diff.val), eNeg, d.prec))
                         ELSE Ok(NewDecimal(diff.val, d.neg, d.prec))

Add(d, e) ==
  CASE d.prec # e.prec -> AddUnaligned(d, e, e.neg)
    [] d.prec = e.prec /\ d.neg = e.neg -> AddMagnitudes(d, e)
    [] d.prec = e.prec /\ d.neg # e.neg -> SubMagnitudes(d, e, e.neg)

Sub(d, e) ==
  CASE d.prec # e.prec -> AddUnaligned(d, e, ~e.neg /\ e.coef # 0)
    [] d.prec = e.prec /\ d.neg # e.neg -> AddMagnitudes(d, e)
    [] d.prec = e.prec /\ d.neg = e.neg -> SubMagnitudes(d, e, ~d.neg)

(* Fault: the fits test reads the dividend before the first pass.          *)
DivU256Pow10Early(u, k) ==
  IF u \div Cap >= Pow10[IF k > MaxPrec THEN k - MaxPrec ELSE k]
  THEN [val |-> 0, err |-> "Overflow"]
  ELSE [val |-> u \div Pow10[k], err |-> "nil"]

(* divU256Pow10: a divisor above one word takes two passes, and the fits   *)
(* test reads the high half of what the first pass left.                   *)
DivU256Pow10(u, k) ==
  LET passes == IF k > MaxPrec
                THEN [u |-> u \div Pow10[MaxPrec], k |-> k - MaxPrec]
                ELSE [u |-> u, k |-> k]
  IN  IF passes.u \div Cap >= Pow10[passes.k]
      THEN [val |-> 0, err |-> "Overflow"]
      ELSE [val |-> passes.u \div Pow10[passes.k], err |-> "nil"]

Mul(d, e) ==
  LET pSum == d.prec + e.prec
      neg == d.neg # e.neg
      prod == d.coef * e.coef
      quot == DivU256Pow10(prod, pSum - DefaultPrec)
  IN  IF pSum <= DefaultPrec
      THEN IF ZeroUpper(prod) THEN Ok(NewDecimal(prod, neg, pSum)) ELSE Fail("Overflow")
      ELSE IF quot.err = "nil" THEN Ok(NewDecimal(quot.val, neg, DefaultPrec))
                               ELSE Fail(quot.err)

(* Fault: the fits test lets a high half equal to the divisor through.     *)
DivCoefAtLoose(d, e, p) ==
  LET f == p + e.prec - d.prec
      num == d.coef * Pow10[f]
  IN  CASE f < 0 -> [ok |-> TRUE, q |-> d.coef \div (e.coef * Pow10[-f])]
        [] f >= 0 -> [ok |-> num \div Cap <= e.coef, q |-> (num \div e.coef) % Cap]

(* divCoefAt: the quotient's coefficient at precision p, if it fits.       *)
DivCoefAt(d, e, p) ==
  LET f == p + e.prec - d.prec
      num == d.coef * Pow10[f]
      den == e.coef * Pow10[-f]
  IN  CASE f < 0 -> [ok |-> TRUE, q |-> IF den >= Cap THEN 0 ELSE d.coef \div den]
        [] f >= 0 -> IF num \div Cap < e.coef
                     THEN [ok |-> TRUE, q |-> num \div e.coef]
                     ELSE [ok |-> FALSE, q |-> 0]

(* Fault: the estimate demands two bits more than a quotient can need.        *)
DivEstimateLow(d, e) ==
  LET bound == 2*WordBits - 1 + BitLen128(e.coef) - BitLen128(d.coef)
      Stop(p) == LET f == p + e.prec - d.prec
                 IN  p = 0 \/ f <= 0 \/ BitLen10(f) < bound - 1
  IN  CHOOSE p \in 0..(DefaultPrec - 1) :
        Stop(p) /\ \A q \in (p + 1)..(DefaultPrec - 1) : ~Stop(q)

(* The bit-length estimate: the first p, walking down from DefaultPrec-1,  *)
(* at which the quotient surely fits, or 0.                                *)
DivEstimate(d, e) ==
  LET bound == 2*WordBits - 1 + BitLen128(e.coef) - BitLen128(d.coef)
      SurelyFits(p) == LET f == p + e.prec - d.prec
                       IN  IF f <= 0 THEN TRUE ELSE BitLen10(f) <= bound
      Stop(p) == p = 0 \/ SurelyFits(p)
  IN  CHOOSE p \in 0..(DefaultPrec - 1) :
        Stop(p) /\ \A q \in (p + 1)..(DefaultPrec - 1) : ~Stop(q)

Div(d, e) ==
  LET neg == d.neg # e.neg
      At(p) == DivCoefAt(d, e, p)
      start == DivEstimate(d, e)
      backstop == CHOOSE p \in 0..start :
                    /\ At(p).ok \/ p = 0
                    /\ \A q \in (p + 1)..start : ~At(q).ok
      probe == backstop + 1
      Result(p) == Ok(NewDecimal(At(p).q, neg, p))
  IN  CASE e.coef = 0 -> Fail("DivideByZero")
        [] e.coef # 0 /\ d.coef = 0 -> Ok(Zero)
        [] e.coef # 0 /\ d.coef # 0 ->
             IF At(DefaultPrec).ok THEN Result(DefaultPrec)
             ELSE IF ~At(backstop).ok THEN Fail("Overflow")
             ELSE IF probe < DefaultPrec /\ At(probe).ok THEN Result(probe)
             ELSE Result(backstop)

(* Fault: the remainder takes its sign from the divisor.                   *)
QuoRemFloored(d, e) ==
  LET f == Larger(d.prec, e.prec)
      num == d.coef * Pow10[f - d.prec]
      den == e.coef * Pow10[f - e.prec]
      Pair(q, r, err) == [quo |-> q, rem |-> r, err |-> err]
  IN  IF e.coef = 0 THEN Pair(Zero, Zero, "DivideByZero")
      ELSE IF den >= Cap THEN Pair(Zero, d, "nil")
      ELSE IF num \div Cap >= den THEN Pair(Zero, Zero, "Overflow")
      ELSE Pair(NewDecimal(num \div den, d.neg # e.neg, 0),
                NewDecimal(num % den, e.neg, f), "nil")

(* QuoRem returns a quotient, a remainder and an error.                    *)
QuoRem(d, e) ==
  LET f == Larger(d.prec, e.prec)
      num == d.coef * Pow10[f - d.prec]
      den == e.coef * Pow10[f - e.prec]
      Pair(q, r, err) == [quo |-> q, rem |-> r, err |-> err]
  IN  IF e.coef = 0 THEN Pair(Zero, Zero, "DivideByZero")
      ELSE IF den >= Cap THEN Pair(Zero, d, "nil")   \* above every numerator
      ELSE IF num \div Cap >= den THEN Pair(Zero, Zero, "Overflow")
      ELSE Pair(NewDecimal(num \div den, d.neg # e.neg, 0),
                NewDecimal(num % den, d.neg, f), "nil")

Mod(d, e) == LET qr == QuoRem(d, e) IN [val |-> qr.rem, err |-> qr.err]

(* Min and Max of a sequence: the first of equal values wins.              *)
Extreme(s, Better(_, _)) ==
  LET best[i \in 1..Len(s)] ==
        IF i = 1 THEN s[1]
        ELSE IF Better(s[i], best[i - 1]) THEN s[i] ELSE best[i - 1]
  IN  best[Len(s)]
(* Fault: a later equal argument displaces the first.                      *)
MinOfLast(s) == LET AtMost(a, b) == Cmp(a, b) <= 0 IN Extreme(s, AtMost)
MinOf(s) == LET Less(a, b) == Cmp(a, b) < 0 IN Extreme(s, Less)
MaxOf(s) == LET More(a, b) == Cmp(a, b) > 0 IN Extreme(s, More)
=============================================================================
