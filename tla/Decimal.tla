------------------------------ MODULE Decimal ------------------------------
(***************************************************************************)
(* The value type of decimal.go, its constructors and its comparisons.  A  *)
(* Decimal is a coefficient, a sign and a precision; zero has exactly one  *)
(* representation.                                                         *)
(***************************************************************************)
EXTENDS Words

CONSTANT DefaultPrec     \* precision at which Mul, Div and Avg truncate

ASSUME DefaultPrecAssumption == DefaultPrec \in 1..MaxPrec

Zero == [coef |-> 0, neg |-> FALSE, prec |-> 0]

(* The invariant of the type: every Decimal is one of these.               *)
Decimals == {d \in [coef : U128, neg : BOOLEAN, prec : 0..MaxPrec] :
               d.coef = 0 => d = Zero}

RawDecimal(coef, neg, prec) == [coef |-> coef, neg |-> neg, prec |-> prec]
NewDecimal(coef, neg, prec) ==
  IF coef = 0 THEN Zero ELSE RawDecimal(coef, neg, prec)

(* What a fallible operation returns: a value and an error, "nil" if none. *)
Ok(d) == [val |-> d, err |-> "nil"]
Fail(e) == [val |-> Zero, err |-> e]
Errors == {"nil", "Overflow", "Underflow", "Inexact", "DivideByZero",
           "PrecOutOfRange", "IntPartOverflow", "InvalidRoundingMode"}

(* Constructors.  A 64-bit signed value v has magnitude |v| in U64, also   *)
(* at the most negative one, where the negated word is 2^63 again.         *)
Int64 == (-(Base \div 2))..(Base \div 2 - 1)
(* Fault: the negated word loses the magnitude of the least integer.       *)
NewFromIntClipped(v) == NewDecimal(Abs(v) % (Base \div 2), v < 0, 0)
NewFromInt(v) == NewDecimal(Abs(v), v < 0, 0)
NewFromUint64(v) == NewDecimal(v, FALSE, 0)

(* Fault: the coefficient is taken as it comes, zero included.             *)
NewFromHiLoRaw(neg, hi, lo, prec) ==
  IF prec > MaxPrec THEN Fail("PrecOutOfRange")
                    ELSE Ok(RawDecimal(hi * Base + lo, neg, prec))
NewFromHiLo(neg, hi, lo, prec) ==
  IF prec > MaxPrec THEN Fail("PrecOutOfRange")
                    ELSE Ok(NewDecimal(hi * Base + lo, neg, prec))

(* New: a positive exponent multiplies, a negative one becomes precision,  *)
(* after trailing zeros are divided away as far as MaxPrec demands.        *)
New(value, exp) ==
  LET strip[s \in [mag : U64, scale : Nat]] ==
        IF s.scale > MaxPrec /\ s.mag % 10 = 0
        THEN strip[[mag |-> s.mag \div 10, scale |-> s.scale - 1]]
        ELSE IF s.scale > MaxPrec THEN Fail("PrecOutOfRange")
        ELSE Ok(NewDecimal(s.mag, value < 0, s.scale))
  IN  CASE value = 0 -> Ok(Zero)
        [] value # 0 /\ exp > 2*MaxPrec -> Fail("Overflow")
        [] value # 0 /\ exp \in 0..2*MaxPrec ->
             LET prod == Mul128by64(Pow10[exp], Abs(value))
             IN  IF prod.overflow # 0 THEN Fail("Overflow")
                                      ELSE Ok(NewDecimal(prod.val, value < 0, 0))
        [] value # 0 /\ exp < 0 -> strip[[mag |-> Abs(value), scale |-> -exp]]

Neg(d) == NewDecimal(d.coef, ~d.neg, d.prec)
AbsValue(d) == NewDecimal(d.coef, FALSE, d.prec)
CopySign(d, sign) == NewDecimal(d.coef, sign.neg, d.prec)

(* Fault: the negative end of Int64 is treated like the positive one.      *)
IntPartSymmetric(d) ==
  LET q == d.coef \div Pow10[d.prec]
  IN  IF q >= Base \div 2 THEN [int |-> 0, err |-> "IntPartOverflow"]
                          ELSE [int |-> IF d.neg THEN -q ELSE q, err |-> "nil"]

(* IntPart: the truncated integer part, if it is an Int64; int is 0 else.  *)
IntPart(d) ==
  LET q == d.coef \div Pow10[d.prec]
      half == Base \div 2
  IN  IF ~OneLimb(q) \/ q > half \/ (q = half /\ ~d.neg)
      THEN [int |-> 0, err |-> "IntPartOverflow"]
      ELSE [int |-> IF d.neg THEN -q ELSE q, err |-> "nil"]

(* Cmp: by sign class first, then by magnitude at the larger precision.    *)
CmpUnaligned(d, e) ==
  LET swapped == d.prec > e.prec
      lo == IF swapped THEN e ELSE d
      hi == IF swapped THEN d ELSE e
      w == lo.coef * Pow10[hi.prec - lo.prec]
      sign == IF swapped THEN -1 ELSE 1
  IN  IF w >= Cap THEN sign ELSE sign * Cmp128(w, hi.coef)

(* Fault: the unaligned comparison forgets that both values are negative.  *)
CmpUnoriented(d, e) ==
  CASE d.neg # e.neg -> IF d.neg THEN -1 ELSE 1
    [] d.neg = e.neg /\ d.prec = e.prec -> (IF d.neg THEN -1 ELSE 1) * Cmp128(d.coef, e.coef)
    [] d.neg = e.neg /\ d.prec # e.prec -> CmpUnaligned(d, e)

Cmp(d, e) ==
  LET orient(c) == IF d.neg THEN -c ELSE c
  IN  CASE d.neg # e.neg -> IF d.neg THEN -1 ELSE 1
        [] d.neg = e.neg /\ d.prec = e.prec -> orient(Cmp128(d.coef, e.coef))
        [] d.neg = e.neg /\ d.prec # e.prec -> orient(CmpUnaligned(d, e))

Equal(d, e) == d = e \/ Cmp(d, e) = 0

(* The exact integer a Decimal denotes, in units of 10^-MaxPrec.           *)
Signed(d) == IF d.neg THEN -d.coef ELSE d.coef
Scaled(d) == Signed(d) * Pow10[MaxPrec - d.prec]
=============================================================================
