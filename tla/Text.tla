-------------------------------- MODULE Text --------------------------------
(***************************************************************************)
(* Decimal literals as the parser and the formatter see them.  A text is   *)
(* the number its characters spell, not the characters: the digits without *)
(* the point are sig * 10^zeros, where sig does not end in zero, and scale *)
(* is how many of them stand after the point, less the exponent.  Texts    *)
(* that spell no number are told apart by the verdict of the parser.       *)
(***************************************************************************)
EXTENDS Rounding

CONSTANT CacheSpan       \* the small-value cache holds -CacheSpan..CacheSpan hundredths

(* cache.go's scaling multiply cannot wrap inside the window.              *)
ASSUME CacheAssumption ==
  /\ MaxPrec >= 2
  /\ CacheSpan \in Nat /\ CacheSpan * Pow10[2] < Base

Number(neg, sig, zeros, scale) ==
  [form |-> "number", neg |-> neg, sig |-> sig, zeros |-> zeros, scale |-> scale]
NotNumber(form) == [Number(FALSE, 0, 0, 0) EXCEPT !.form = form]
Empty == NotNumber("empty")
TooLong == NotNumber("toolong")          \* more than maxParseLen bytes
Malformed == NotNumber("malformed")

(* How often 10 divides a coefficient.                                     *)
TrailingZeros(n) ==
  CHOOSE t \in 0..2*MaxPrec : /\ n % Pow10[t] = 0
                              /\ \A u \in (t + 1)..2*MaxPrec : n % Pow10[u] # 0

----------------------------------------------------------------------------
(* Strict parsing.  The range is checked on the canonical value, after the *)
(* trailing zeros have moved into the precision.                           *)
ScaleUpExact(coef, up) ==
  IF up > 2*MaxPrec THEN [val |-> 0, err |-> "Overflow"]
  ELSE IF coef > (Cap - 1) \div Pow10[up] THEN [val |-> 0, err |-> "Overflow"]
  ELSE [val |-> coef * Pow10[up], err |-> "nil"]

(* Fault: an all-zero mantissa goes on to have its precision checked.      *)
ParseNumberZeroScaled(text) ==
  LET effPrec == text.scale - text.zeros
      scaled == ScaleUpExact(text.sig, -effPrec)
  IN  IF text.sig >= Cap THEN Fail("Overflow")
      ELSE IF effPrec > MaxPrec THEN Fail("PrecOutOfRange")
      ELSE IF effPrec >= 0 THEN Ok(RawDecimal(text.sig, text.neg, effPrec))
      ELSE IF scaled.err # "nil" THEN Fail(scaled.err)
      ELSE Ok(RawDecimal(scaled.val, text.neg, 0))

(* Fault: the range is checked on the mantissa as it is written.           *)
ParseNumberRawRange(text) ==
  LET effPrec == text.scale - text.zeros
      scaled == ScaleUpExact(text.sig, -effPrec)
  IN  IF text.sig = 0 THEN Ok(Zero)
      ELSE IF text.sig * Pow10[text.zeros] >= Cap THEN Fail("Overflow")
      ELSE IF effPrec > MaxPrec THEN Fail("PrecOutOfRange")
      ELSE IF effPrec >= 0 THEN Ok(NewDecimal(text.sig, text.neg, effPrec))
      ELSE IF scaled.err # "nil" THEN Fail(scaled.err)
      ELSE Ok(NewDecimal(scaled.val, text.neg, 0))

ParseNumber(text) ==
  LET effPrec == text.scale - text.zeros
      scaled == ScaleUpExact(text.sig, -effPrec)
  IN  IF text.sig = 0 THEN Ok(Zero)
      ELSE IF text.sig >= Cap THEN Fail("Overflow")
      ELSE IF effPrec > MaxPrec THEN Fail("PrecOutOfRange")
      ELSE IF effPrec >= 0 THEN Ok(NewDecimal(text.sig, text.neg, effPrec))
      ELSE IF scaled.err # "nil" THEN Fail(scaled.err)
      ELSE Ok(NewDecimal(scaled.val, text.neg, 0))

ParseCore(text) ==
  CASE text.form = "empty" -> Fail("EmptyString")
    [] text.form = "toolong" -> Fail("MaxStrLen")
    [] text.form = "malformed" -> Fail("InvalidFormat")
    [] text.form = "number" -> ParseNumber(text)

(* NewFromFloat: the shortest decimal of the float is an input, a number   *)
(* or "notfinite"; out-of-range magnitudes are refused before assembly.    *)
AssembleFloat(digits, e10, neg) ==
  LET scaled == ScaleUpExact(digits, e10)
  IN  IF e10 < -MaxPrec THEN Fail("PrecOutOfRange")
      ELSE IF e10 < 0 THEN Ok(NewDecimal(digits, neg, -e10))
      ELSE IF scaled.err # "nil" THEN Fail(scaled.err)
      ELSE Ok(NewDecimal(scaled.val, neg, 0))
NewFromFloat(f) ==
  CASE f.form = "notfinite" -> Fail("InvalidFloat")
    [] f.form = "number" /\ f.sig = 0 -> Ok(Zero)
    [] f.form = "number" /\ f.sig # 0 -> AssembleFloat(f.sig, f.zeros - f.scale, f.neg)

----------------------------------------------------------------------------
(* Canonical text: all integer digits, the fraction without the zeros at   *)
(* its end, no point when nothing is left of the fraction.                 *)
(* Fault: the zeros of an integer without a fraction are trimmed as well.  *)
AppendCanonicalTrimmed(d) ==
  LET q == d.coef \div Pow10[d.prec]
      r == d.coef % Pow10[d.prec]
      cut == TrailingZeros(r)
  IN  CASE r # 0 -> Number(d.neg, q * Pow10[d.prec - cut] + r \div Pow10[cut],
                           0, d.prec - cut)
        [] r = 0 /\ q # 0 -> Number(d.neg, q \div Pow10[TrailingZeros(q)], 0, 0)
        [] r = 0 /\ q = 0 -> Number(d.neg, 0, 0, 0)

AppendCanonical(d) ==
  LET q == d.coef \div Pow10[d.prec]
      r == d.coef % Pow10[d.prec]
      cut == TrailingZeros(r)            \* zeros trimmed off the fraction
      zeros == TrailingZeros(q)
  IN  CASE r # 0 -> Number(d.neg, q * Pow10[d.prec - cut] + r \div Pow10[cut],
                           0, d.prec - cut)
        [] r = 0 /\ q # 0 -> Number(d.neg, q \div Pow10[zeros], zeros, 0)
        [] r = 0 /\ q = 0 -> Number(d.neg, 0, 0, 0)

(* The opt-in cache: one rendered entry per hundredth in the window.       *)
CacheIndexUnsigned(d) ==                                           \* fault
  LET scaled == (d.coef * Pow10[2 - d.prec]) % Base
  IN  IF ~OneLimb(d.coef) \/ d.prec > 2 \/ d.coef > CacheSpan THEN 2*CacheSpan + 1
      ELSE IF scaled > CacheSpan THEN 2*CacheSpan + 1
      ELSE CacheSpan + scaled
CacheIndex(d) ==
  LET miss == 2*CacheSpan + 1
      scaled == (d.coef * Pow10[2 - d.prec]) % Base
  IN  IF ~OneLimb(d.coef) \/ d.prec > 2 \/ d.coef > CacheSpan THEN miss
      ELSE IF scaled > CacheSpan THEN miss
      ELSE IF d.neg THEN CacheSpan - scaled ELSE CacheSpan + scaled

StringCache ==
  [i \in 0..2*CacheSpan |->
     AppendCanonical(NewDecimal(Abs(i - CacheSpan), i < CacheSpan, 2))]

(* String, AppendText and Value; the build tag says whether the cache is in. *)
StringOf(d, cached) ==
  IF cached /\ CacheIndex(d) <= 2*CacheSpan THEN StringCache[CacheIndex(d)]
                                            ELSE AppendCanonical(d)
=============================================================================
