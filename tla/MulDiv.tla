------------------------------- MODULE MulDiv -------------------------------
(***************************************************************************)
(* MulDivRound of muldiv.go: d*e/f at a requested precision with a single  *)
(* rounding, through a 256-bit product and a numerator or a divisor that   *)
(* may need more than one word.                                            *)
(***************************************************************************)
EXTENDS Exact

(* mul256Pow10: up to two multiplications, each of which must fit.         *)
Mul256Pow10(u, s) ==
  LET first == IF s > MaxPrec THEN MaxPrec ELSE 0
      NoRoom == [ok |-> FALSE, val |-> 0]
  IN  IF ~Mul256Fits(u, Pow10[first]) THEN NoRoom
      ELSE IF ~Mul256Fits(u * Pow10[first], Pow10[s - first]) THEN NoRoom
      ELSE [ok |-> TRUE, val |-> u * Pow10[first] * Pow10[s - first]]

(* Fault: a doubled second remainder one short of v is taken for below     *)
(* half, whatever the first remainder adds.                                *)
DivRoundPow10ByCoarse(num, t, v) ==
  LET w == num \div Pow10[t]
      r1 == num % Pow10[t]
      r2 == w % v
      c == CmpDouble128(r2, v)
  IN  Quot(w \div v, r1 # 0 \/ r2 # 0, IF c = 0 /\ r1 # 0 THEN 1 ELSE c)

(* divRoundPow10By: num / (v*10^t) where v*10^t is above 128 bits, as a    *)
(* division by 10^t (two passes above MaxPrec) and one by v; the half      *)
(* comparison looks at the second remainder first.                         *)
DivRoundPow10By(num, t, v) ==
  LET low == Smaller(t, MaxPrec)
      pass == num \div Pow10[low]
      w == pass \div Pow10[t - low]
      r1 == (pass % Pow10[t - low]) * Pow10[low] + (num % Pow10[low])
      r2 == w % v
      c == CmpDouble128(r2, v)
      half == IF c > 0 \/ (c = 0 /\ r1 # 0) THEN 1
              ELSE IF c = 0 THEN 0
              ELSE IF v - 2 * r2 = 1 THEN CmpDouble128(r1, Pow10[t])
              ELSE -1
  IN  Quot(w \div v, r1 # 0 \/ r2 # 0, half)

MulDivRoundWide(d, e, f, places, mode, neg) ==
  LET prod == d.coef * e.coef
      s == places + f.prec - (d.prec + e.prec)
      num == Mul256Pow10(prod, s)
      den == f.coef * Pow10[-s]
      quot == IF s >= 0 THEN DivRoundWide(num.val, f.coef)
              ELSE IF ZeroUpper(den) THEN DivRoundWide(prod, den)
              ELSE DivRoundPow10By(prod, -s, f.coef)
  IN  IF s >= 0 /\ ~num.ok THEN Fail("Overflow")
      ELSE FinishRound(quot, neg, places, mode)

MulDivRound(d, e, f, places, mode) ==
  LET argsError == RoundArgsError(places, mode, f.coef)
      neg == (d.neg # e.neg) # f.neg
      s == places + f.prec - d.prec - e.prec
      prod == d.coef * e.coef
      num == prod * Pow10[s]
      inPlace == /\ OneLimb(d.coef) /\ OneLimb(e.coef) /\ OneLimb(f.coef)
                 /\ s \in 0..MaxPrec /\ OneLimb(prod) /\ OneLimb(num)
  IN  IF argsError # "nil" THEN Fail(argsError)
      ELSE IF prod = 0 THEN Ok(Zero)
      ELSE IF inPlace
      THEN RoundInPlace(num \div f.coef, num % f.coef, CmpHalf64(num % f.coef, f.coef),
                        neg, places, mode)
      ELSE MulDivRoundWide(d, e, f, places, mode, neg)
=============================================================================
