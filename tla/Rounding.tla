------------------------------ MODULE Rounding ------------------------------
(***************************************************************************)
(* The rounding decisions: the six modes of exact.go with their half       *)
(* comparisons, the infallible rounding family of round.go, and Trim and   *)
(* Rescale of rescale.go.                                                  *)
(***************************************************************************)
EXTENDS Arith

Modes == {"ToNearestAway", "ToNearestEven", "AwayFromZero", "TowardZero",
          "TowardPositive", "TowardNegative"}

IsOdd(q) == q % 2 = 1

(* roundsUp: rem says that something was discarded, half orders twice the  *)
(* discarded part against the divisor.                                     *)
RoundsUp(mode, rem, half, odd, neg) ==
  /\ rem
  /\ \/ mode = "ToNearestAway" /\ half >= 0
     \/ mode = "ToNearestEven" /\ (half > 0 \/ (half = 0 /\ odd))
     \/ mode = "AwayFromZero"
     \/ mode = "TowardPositive" /\ ~neg
     \/ mode = "TowardNegative" /\ neg

RoundQuotient(q, rem, half, neg, mode) ==
  CASE mode \notin Modes -> [val |-> 0, err |-> "InvalidRoundingMode"]
    [] mode \in Modes ->
         IF ~RoundsUp(mode, rem, half, IsOdd(q), neg) THEN [val |-> q, err |-> "nil"]
         ELSE IF q = Cap - 1 THEN [val |-> 0, err |-> "Overflow"]
         ELSE [val |-> Inc128(q), err |-> "nil"]

(* cmpHalf64 compares r with den - r, cmpDouble128 the doubled remainder   *)
(* with den after its carry.                                               *)
(* Faults: half of an odd divisor is rounded down; a carry is dropped.     *)
CmpHalf64Floor(r, den) == Sign3(r - den \div 2)
CmpDouble128NoCarry(r, den) == Cmp128(Add128(r, r).val, den)

CmpHalf64(r, den) == Sign3(r - (den - r))
CmpDouble128(r, den) ==
  LET twice == Add128(r, r)
  IN  IF twice.carry # 0 THEN 1 ELSE Cmp128(twice.val, den)

----------------------------------------------------------------------------
(* round.go: dropping k digits; the quotient plus one cannot wrap.         *)
DropDigits(d, places, Up(_, _, _)) ==
  LET unit == Pow10[d.prec - places]
      q == d.coef \div unit
      r == d.coef % unit
      up == Up(q, r, unit \div 2)
  IN  NewDecimal(IF ~up THEN q ELSE IF OneLimb(d.coef) THEN (q + 1) % Base ELSE Inc128(q),
                 d.neg, places)

TruncCore(d, places) == LET Never(q, r, half) == FALSE IN DropDigits(d, places, Never)
RoundHalfAwayCore(d, places) ==
  LET Up(q, r, half) == r >= half IN DropDigits(d, places, Up)
(* Fault: a tie goes up whatever the parity.                               *)
RoundBankCoreTiesUp(d, places) ==
  LET Up(q, r, half) == r >= half IN DropDigits(d, places, Up)
RoundBankCore(d, places) ==
  LET Up(q, r, half) == r > half \/ (r = half /\ IsOdd(q)) IN DropDigits(d, places, Up)
DirCore(d, places, pred) ==
  LET Up(q, r, half) == pred /\ r # 0 IN DropDigits(d, places, Up)

Round(d, places) == IF places >= d.prec THEN d ELSE RoundHalfAwayCore(d, places)
RoundBank(d, places) == IF places >= d.prec THEN d ELSE RoundBankCore(d, places)
RoundUp(d, places) == IF places >= d.prec THEN d ELSE DirCore(d, places, TRUE)
RoundDown(d, places) == IF places >= d.prec THEN d ELSE TruncCore(d, places)
RoundCeil(d, places) == IF places >= d.prec THEN d ELSE DirCore(d, places, ~d.neg)
RoundFloor(d, places) == IF places >= d.prec THEN d ELSE DirCore(d, places, d.neg)
Truncate(d, places) == IF places >= d.prec THEN d ELSE TruncCore(d, places)
Floor(d) == IF d.prec = 0 THEN d ELSE DirCore(d, 0, d.neg)
Ceil(d) == IF d.prec = 0 THEN d ELSE DirCore(d, 0, ~d.neg)

----------------------------------------------------------------------------
(* Trim: two-limb digits are stripped with the reciprocal divide and stop  *)
(* at the first nonzero digit, one-limb digits in a loop of their own.     *)
TrimCore(d) ==
  LET Digits == [coef : U128, prec : 0..MaxPrec]
      Strip(s) == [coef |-> s.coef \div 10, prec |-> s.prec - 1]
      narrow[s \in Digits] ==
        IF s.prec > 0 /\ s.coef % 10 = 0 THEN narrow[Strip(s)]
                                        ELSE NewDecimal(s.coef, d.neg, s.prec)
      wide[s \in Digits] ==
        IF s.prec = 0 \/ OneLimb(s.coef) THEN narrow[s]
        ELSE IF s.coef % 10 # 0 THEN NewDecimal(s.coef, d.neg, s.prec)
        ELSE wide[Strip(s)]
  IN  wide[[coef |-> d.coef, prec |-> d.prec]]
(* Fault: two-limb coefficients are left alone.                            *)
TrimOneLimb(d) == IF OneLimb(d.coef) THEN TrimCore(d) ELSE d
Trim(d) == IF d.prec = 0 THEN d ELSE TrimCore(d)

(* Fault: the overflow word of the longer coefficient is not looked at.    *)
RescaleCoreUnchecked(d, prec) ==
  CASE prec > MaxPrec -> Fail("PrecOutOfRange")
    [] prec <= MaxPrec /\ prec < d.prec -> Ok(RoundBankCore(d, prec))
    [] prec <= MaxPrec /\ prec >= d.prec ->
         Ok(NewDecimal(Mul128by64(d.coef, Pow10[prec - d.prec]).val, d.neg, prec))
RescaleCore(d, prec) ==
  CASE prec > MaxPrec -> Fail("PrecOutOfRange")
    [] prec <= MaxPrec /\ prec < d.prec -> Ok(RoundBankCore(d, prec))
    [] prec <= MaxPrec /\ prec >= d.prec ->
         LET prod == Mul128by64(d.coef, Pow10[prec - d.prec])
         IN  IF prod.overflow # 0 THEN Fail("Overflow")
                                  ELSE Ok(NewDecimal(prod.val, d.neg, prec))
Rescale(d, prec) == IF prec = d.prec THEN Ok(d) ELSE RescaleCore(d, prec)
=============================================================================
