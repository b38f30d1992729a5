--------------------------- MODULE ReceiverProofs ---------------------------
(***************************************************************************)
(* What a reused destination may rely on, for every word size, every held  *)
(* value and every foreign message: what was sent is what is read, nothing *)
(* of an earlier row stays, and the decoders accept one spelling of each   *)
(* binary value and every spelling of a representable number.              *)
(***************************************************************************)
EXTENDS Receivers, ArithProofs

(* A Decimal by its integer and its fraction.                              *)
LEMMA WholeAndFraction ==
  ASSUME NEW d \in Decimals
  PROVE  LET w == Pow10[d.prec]
             q == d.coef \div w
             r == d.coef % w
         IN  /\ w \in Nat \ {0} /\ w < Cap /\ d.prec \in 0..MaxPrec
             /\ q \in Nat /\ q <= d.coef /\ r \in Nat /\ r < w /\ d.coef = q * w + r
             /\ d.coef \in Nat /\ d.coef < Cap
<1>1. d.coef \in Nat /\ d.coef < Cap /\ d.prec \in 0..MaxPrec
  BY DecimalFacts
<1>2. Pow10[d.prec] \in Nat \ {0} /\ Pow10[d.prec] < Cap
  BY <1>1, PowBounds, TableAssumption
<1> DEFINE w == Pow10[d.prec]
<1> HIDE DEF w
<1>3. w \in Nat \ {0} /\ w < Cap
  BY <1>2 DEF w
<1>4. /\ d.coef \div w \in Nat /\ d.coef % w \in Nat /\ d.coef % w < w /\ d.coef \div w <= d.coef
  BY <1>1, <1>3, DivBelow
<1>5. d.coef = (d.coef \div w) * w + (d.coef % w)
  <2>1. d.coef \in Int
    BY <1>1
  <2>2. d.coef = w * (d.coef \div w) + (d.coef % w)
    BY <1>3, <2>1, DivMod
  <2> QED BY <1>3, <1>4, <2>2
<1> QED
  BY <1>1, <1>3, <1>4, <1>5 DEF w

----------------------------------------------------------------------------
(* What a decoder hands back: a Decimal, or an error of its own.           *)
Reading(res) ==
  res.err # "NilReceiver" /\ (res.err = "nil" => res.val \in Decimals)

(* A coefficient and a decimal exponent: the Decimal they denote, or the   *)
(* bound that is exceeded.                                                 *)
Assembled(sig, prec, neg) ==
  IF prec >= 0 THEN NewDecimal(sig, neg, prec) ELSE NewDecimal(sig * Pow10[-prec], neg, 0)
Assembles(sig, prec) ==
  /\ sig < Cap /\ prec <= MaxPrec
  /\ prec < 0 => -prec <= 2*MaxPrec /\ sig * Pow10[-prec] < Cap

LEMMA AssembledTyped ==
  ASSUME NEW sig \in Nat, NEW prec \in Int, NEW neg \in BOOLEAN, Assembles(sig, prec)
  PROVE  Assembled(sig, prec, neg) \in Decimals
<1>1. MaxPrec \in Nat
  BY PowFacts
<1>2. CASE prec >= 0
  <2>1. prec \in 0..MaxPrec /\ sig < Cap
    BY <1>1, <1>2 DEF Assembles
  <2>2. NewDecimal(sig, neg, prec) \in Decimals
    BY <2>1, MakeDecimal
  <2> QED BY <1>2, <2>2 DEF Assembled
<1>3. CASE prec < 0
  <2> DEFINE c == sig * Pow10[-prec]
  <2>1. -prec \in 0..2*MaxPrec /\ c < Cap
    BY <1>1, <1>3 DEF Assembles
  <2>2. Pow10[-prec] \in Nat
    BY <2>1, TableAssumption
  <2>3. c \in Nat /\ 0 \in 0..MaxPrec
    BY <1>1, <2>2
  <2> HIDE DEF c
  <2>4. NewDecimal(c, neg, 0) \in Decimals
    BY <2>1, <2>3, MakeDecimal
  <2> QED BY <1>3, <2>4 DEF Assembled, c
<1> QED
  BY <1>2, <1>3

(* Strict parsing of a number.                                             *)
LEMMA NumberReads ==
  ASSUME NEW text, Spells(text), text.form = "number"
  PROVE  LET res == ParseCore(text)
             prec == text.scale - text.zeros
         IN  /\ Reading(res)
             /\ text.sig = 0 => res = Ok(Zero)
             /\ text.sig # 0 =>
                  /\ (res.err = "nil") <=> Assembles(text.sig, prec)
                  /\ res.err = "nil" => res = Ok(Assembled(text.sig, prec, text.neg))
<1> DEFINE sig == text.sig
           neg == text.neg
           prec == text.scale - text.zeros
           scaled == ScaleUpExact(sig, -prec)
           res == ParseCore(text)
<1>1. sig \in Nat /\ neg \in BOOLEAN /\ prec \in Int
  BY DEF Spells
<1>2. MaxPrec \in Nat /\ Cap \in Nat
  BY PowFacts, CapFacts
<1>3. res = IF sig = 0 THEN Ok(Zero)
            ELSE IF sig >= Cap THEN Fail("Overflow")
            ELSE IF prec > MaxPrec THEN Fail("PrecOutOfRange")
            ELSE IF prec >= 0 THEN Ok(NewDecimal(sig, neg, prec))
            ELSE IF scaled.err # "nil" THEN Fail(scaled.err)
            ELSE Ok(NewDecimal(scaled.val, neg, 0))
  BY DEF ParseCore, ParseNumber
<1> HIDE DEF res, sig, neg, prec
<1>4. CASE sig = 0
  <2>1. res = Ok(Zero)
    BY <1>3, <1>4
  <2> QED BY <1>4, <2>1, Replies DEF Reading, Ok, res, sig
<1>5. CASE sig # 0 /\ (sig >= Cap \/ prec > MaxPrec)
  <2>1. res \in {Fail("Overflow"), Fail("PrecOutOfRange")}
    BY <1>3, <1>5
  <2>2. ~Assembles(sig, prec)
    BY <1>1, <1>2, <1>5 DEF Assembles
  <2> QED BY <1>5, <2>1, <2>2 DEF Reading, Fail, res, sig, prec
<1>6. CASE sig # 0 /\ sig < Cap /\ prec <= MaxPrec /\ prec >= 0
  <2>1. Assembles(sig, prec)
    BY <1>1, <1>2, <1>6 DEF Assembles
  <2>2. res = Ok(Assembled(sig, prec, neg)) /\ Assembled(sig, prec, neg) \in Decimals
    BY <1>1, <1>2, <1>3, <1>6, <2>1, AssembledTyped DEF Assembled
  <2> QED BY <1>6, <2>1, <2>2 DEF Reading, Ok, res, sig, prec, neg
<1>7. CASE sig # 0 /\ sig < Cap /\ prec <= MaxPrec /\ prec < 0
  <2> DEFINE up == -prec
  <2>1. up \in Nat
    BY <1>1, <1>7
  <2>2. CASE Assembles(sig, prec)
    <3>1. up <= 2*MaxPrec /\ sig * Pow10[up] < Cap
      BY <1>7, <2>2 DEF Assembles
    <3>2. scaled = [val |-> sig * Pow10[up], err |-> "nil"]
      BY <1>1, <2>1, <3>1, ScaleUpExactly
    <3>3. res = Ok(NewDecimal(sig * Pow10[up], neg, 0))
      BY <1>1, <1>2, <1>3, <1>7, <3>2
    <3>4. res = Ok(Assembled(sig, prec, neg)) /\ Assembled(sig, prec, neg) \in Decimals
      BY <1>1, <1>7, <2>2, <3>3, AssembledTyped DEF Assembled
    <3> QED BY <1>7, <2>2, <3>4 DEF Reading, Ok, res, sig, prec, neg
  <2>3. CASE ~Assembles(sig, prec)
    <3>1. ~(up <= 2*MaxPrec /\ sig * Pow10[up] < Cap)
      BY <1>7, <2>3 DEF Assembles
    <3>2. scaled = [val |-> 0, err |-> "Overflow"]
      BY <1>1, <2>1, <3>1, ScaleUpExactly
    <3>3. res = Fail("Overflow")
      BY <1>1, <1>2, <1>3, <1>7, <3>2
    <3> QED BY <1>7, <2>3, <3>3 DEF Reading, Fail, res, sig, prec
  <2> QED BY <2>2, <2>3
<1> QED
  BY <1>1, <1>2, <1>4, <1>5, <1>6, <1>7

(* Strict parsing of any text.                                             *)
LEMMA TextReads ==
  ASSUME NEW text, Spells(text)
  PROVE  Reading(ParseCore(text))
<1>1. CASE text.form = "number"
  BY <1>1, NumberReads
<1>2. CASE text.form # "number"
  <2>1. ParseCore(text) \in {Fail("EmptyString"), Fail("MaxStrLen"), Fail("InvalidFormat")}
    BY <1>2 DEF Spells, ParseCore
  <2> QED BY <2>1 DEF Reading, Fail
<1> QED
  BY <1>1, <1>2

(* Floats and integers of a driver.                                        *)
LEMMA DriverReads ==
  /\ \A text : IsFloat(text) => Reading(NewFromFloat(text))
  /\ \A text : IsInteger(text) => Reading(Ok(Integer(text)))
<1>1. ASSUME NEW text, IsFloat(text)
      PROVE  Reading(NewFromFloat(text))
  <2> DEFINE sig == text.sig
             e10 == text.zeros - text.scale
             up == ScaleUpExact(sig, e10)
             res == NewFromFloat(text)
  <2>1. sig \in Nat /\ sig < Cap /\ e10 \in Int /\ text.neg \in BOOLEAN /\ MaxPrec \in Nat
    BY <1>1, CapFacts, PowFacts DEF IsFloat, U128
  <2>2. res \in {Fail("InvalidFloat"), Ok(Zero)}
          \/ res = AssembleFloat(sig, e10, text.neg)
    BY <1>1 DEF IsFloat, NewFromFloat
  <2> SUFFICES Reading(res)
    OBVIOUS
  <2> HIDE DEF sig, e10, res
  <2>3. CASE res \in {Fail("InvalidFloat"), Ok(Zero)}
    BY <2>3, Replies DEF Reading, Fail, Ok
  <2>4. CASE res = AssembleFloat(sig, e10, text.neg) /\ e10 < 0
    <3>1. CASE e10 < -MaxPrec
      BY <2>4, <3>1 DEF AssembleFloat, Reading, Fail
    <3>2. CASE e10 >= -MaxPrec
      <4>1. -e10 \in 0..MaxPrec
        BY <2>1, <2>4, <3>2
      <4>2. res = Ok(NewDecimal(sig, text.neg, -e10))
        BY <2>1, <2>4, <3>2 DEF AssembleFloat
      <4>3. NewDecimal(sig, text.neg, -e10) \in Decimals
        BY <2>1, <4>1, MakeDecimal
      <4> QED BY <4>2, <4>3 DEF Reading, Ok
    <3> QED BY <2>1, <3>1, <3>2
  <2>5. CASE res = AssembleFloat(sig, e10, text.neg) /\ e10 >= 0
    <3>1. e10 \in Nat /\ ~(e10 < -MaxPrec) /\ ~(e10 < 0)
      BY <2>1, <2>5
    <3>2. CASE e10 <= 2*MaxPrec /\ sig * Pow10[e10] < Cap
      <4> DEFINE c == sig * Pow10[e10]
      <4>1. up = [val |-> c, err |-> "nil"]
        BY <2>1, <3>1, <3>2, ScaleUpExactly
      <4>2. Pow10[e10] \in Nat
        BY <2>1, <3>1, <3>2, TableAssumption
      <4>3. c \in Nat /\ c < Cap /\ 0 \in 0..MaxPrec
        BY <2>1, <3>2, <4>2
      <4> HIDE DEF c
      <4>4. NewDecimal(c, text.neg, 0) \in Decimals
        BY <2>1, <4>3, MakeDecimal
      <4>5. res = Ok(NewDecimal(c, text.neg, 0))
        BY <2>5, <3>1, <4>1 DEF AssembleFloat
      <4> QED BY <4>4, <4>5 DEF Reading, Ok
    <3>3. CASE ~(e10 <= 2*MaxPrec /\ sig * Pow10[e10] < Cap)
      <4>1. up = [val |-> 0, err |-> "Overflow"]
        BY <2>1, <3>1, <3>3, ScaleUpExactly
      <4>2. res = Fail("Overflow")
        BY <2>5, <3>1, <4>1 DEF AssembleFloat
      <4> QED BY <4>2 DEF Reading, Fail
    <3> QED BY <3>2, <3>3
  <2> QED BY <2>1, <2>2, <2>3, <2>4, <2>5
<1>2. ASSUME NEW text, IsInteger(text)
      PROVE  Reading(Ok(Integer(text)))
  <2> DEFINE c == text.sig * Pow10[text.zeros]
  <2>1. c \in U64 /\ text.neg \in BOOLEAN
    BY <1>2 DEF IsInteger
  <2>2. Base \in Nat /\ Base >= 4
    BY WordAssumption
  <2>3. Base < Cap
    <3>1. \A n \in Nat : n >= 4 => n < n * n
      OBVIOUS
    <3> QED BY <2>2, <3>1 DEF Cap
  <2> HIDE DEF c
  <2>4. c \in Nat /\ c < Cap /\ 0 \in 0..MaxPrec
    BY <2>1, <2>2, <2>3, CapFacts, PowFacts DEF U64
  <2>5. NewDecimal(c, text.neg, 0) \in Decimals
    BY <2>1, <2>4, MakeDecimal
  <2> QED BY <2>5 DEF Integer, Reading, Ok, c
<1> QED
  BY <1>1, <1>2

----------------------------------------------------------------------------
(* A Decimal that loses all the zeros it can, or its whole fraction, is    *)
(* the one Trim gives.                                                     *)
LEMMA TrimIs ==
  ASSUME NEW d \in Decimals, NEW c \in Nat, c # 0, NEW t \in 0..d.prec,
         d.coef = c * Pow10[t], t = d.prec \/ c % 10 # 0
  PROVE  NewDecimal(c, d.neg, d.prec - t) = Trim(d)
<1> DEFINE k == d.prec - t
           x == NewDecimal(c, d.neg, k)
           f == MaxPrec - d.prec
<1>1. MaxPrec \in Nat /\ d.prec \in 0..MaxPrec /\ d.neg \in BOOLEAN /\ d.coef \in Nat /\ d.coef < Cap
  BY PowFacts, DecimalFacts
<1>2. k \in 0..MaxPrec /\ f \in 0..2*MaxPrec /\ t \in 0..2*MaxPrec
      /\ MaxPrec - k = t + f /\ t + f <= 2*MaxPrec
  BY <1>1
<1>3. Pow10[t] \in Nat \ {0} /\ Pow10[f] \in Nat \ {0} /\ Pow10[t + f] = Pow10[t] * Pow10[f]
  BY <1>2, TableAssumption
<1>4. c < Cap
  <2> DEFINE w == Pow10[t]
  <2>1. w \in Nat /\ w >= 1 /\ d.coef = c * w
    BY <1>3
  <2> HIDE DEF w
  <2>2. c <= c * w /\ c * w \in Nat
    BY <2>1
  <2> QED BY <1>1, <2>1, <2>2, CapFacts
<1> HIDE DEF k
<1>5. /\ x \in Decimals /\ x.coef = c /\ x.prec = k
      /\ Scaled(x) = WithSign(c * Pow10[MaxPrec - k], d.neg)
  BY <1>1, <1>2, <1>4, MakeDecimal, ScaledNew
<1>6. c * Pow10[MaxPrec - k] = d.coef * Pow10[f]
  <2> DEFINE w == Pow10[t]
             v == Pow10[f]
  <2>1. w \in Nat /\ v \in Nat /\ Pow10[MaxPrec - k] = w * v /\ d.coef = c * w
    BY <1>2, <1>3
  <2> HIDE DEF w, v
  <2>2. c * (w * v) = (c * w) * v
    BY <2>1
  <2> QED BY <2>1, <2>2 DEF v
<1>7. Scaled(x) = Scaled(d)
  BY <1>5, <1>6, ScaledMagnitude
<1>8. Reduced(x)
  <2>1. k = 0 \/ c % 10 # 0
    BY <1>1 DEF k
  <2> QED BY <1>5, <2>1 DEF Reduced
<1>9. Trim(d) \in Decimals /\ Scaled(Trim(d)) = Scaled(d) /\ Reduced(Trim(d))
  BY TrimReduces
<1> HIDE DEF x
<1>10. x = Trim(d)
  BY <1>5, <1>7, <1>8, <1>9, ReducedUnique
<1> QED
  BY <1>10 DEF x, k

(* What canonical text spells.                                             *)
Canonical(d, text) ==
  /\ text.form = "number" /\ Spells(text) /\ text.neg = d.neg
  /\ text.sig = 0 <=> d.coef = 0
  /\ text.sig # 0 =>
       /\ Assembles(text.sig, text.scale - text.zeros)
       /\ Assembled(text.sig, text.scale - text.zeros, text.neg) = Trim(d)

(* A fraction: its last digit is not zero, and the zeros it lost are those *)
(* of the remainder.                                                       *)
LEMMA FractionText ==
  ASSUME NEW d \in Decimals, d.coef % Pow10[d.prec] # 0
  PROVE  Canonical(d, AppendCanonical(d))
<1> DEFINE w == Pow10[d.prec]
           q == d.coef \div w
           r == d.coef % w
           t == TrailingZeros(r)
           k == d.prec - t
           m == r \div Pow10[t]
           sig == q * Pow10[k] + m
           text == Number(d.neg, sig, 0, k)
<1>1. MaxPrec \in Nat /\ d.neg \in BOOLEAN /\ Cap \in Nat
  BY PowFacts, CapFacts, DecimalFacts
<1>2. /\ w \in Nat \ {0} /\ w < Cap /\ d.prec \in 0..MaxPrec
      /\ q \in Nat /\ r \in Nat /\ r < w /\ r # 0 /\ d.coef = q * w + r
      /\ d.coef \in Nat /\ d.coef < Cap
  BY WholeAndFraction
<1>3. AppendCanonical(d) = text
  BY <1>2 DEF AppendCanonical
<1> HIDE DEF r, q
<1>4. /\ t \in 0..2*MaxPrec /\ Pow10[t] \in Nat \ {0} /\ m \in Nat \ {0} /\ m % 10 # 0
      /\ r = m * Pow10[t]
  <2> HIDE DEF w
  <2>1. r < Cap
    BY <1>1, <1>2
  <2> QED BY <1>2, <2>1, TrailingZerosFacts
<1> HIDE DEF m, t
<1>5. t < d.prec
  <2>1. Pow10[t] <= r
    <3> DEFINE u == Pow10[t]
    <3>1. u \in Nat /\ r = m * u
      BY <1>4
    <3> HIDE DEF u
    <3>2. u <= m * u
      BY <1>4, <3>1
    <3> QED BY <3>1, <3>2 DEF u
  <2>2. d.prec \in 0..2*MaxPrec
    BY <1>1, <1>2
  <2>3. d.prec <= t => w <= Pow10[t]
    BY <1>4, <2>2, PowRatio
  <2> HIDE DEF w
  <2>4. ~(d.prec <= t)
    BY <1>2, <1>4, <2>1, <2>3
  <2> QED BY <1>2, <1>4, <2>4
<1>6. /\ k \in 1..MaxPrec /\ k - 1 \in 0..(2*MaxPrec - 1) /\ (k - 1) + 1 = k
      /\ k \in 0..2*MaxPrec /\ t + k = d.prec /\ t + k <= 2*MaxPrec
  BY <1>1, <1>2, <1>4, <1>5
<1> HIDE DEF k
<1>7. w = Pow10[t] * Pow10[k] /\ Pow10[k] \in Nat
  BY <1>4, <1>6, TableAssumption
<1>8. Pow10[k] = Pow10[k - 1] * 10 /\ Pow10[k - 1] \in Nat
  BY <1>6, PowStep
<1>9. sig \in Nat /\ sig # 0 /\ d.coef = sig * Pow10[t] /\ sig % 10 # 0
  <2> DEFINE u == Pow10[t]
             v == Pow10[k]
             s == Pow10[k - 1]
             h == q * s
  <2>1. u \in Nat /\ v \in Nat /\ s \in Nat /\ v = s * 10 /\ w = u * v /\ r = m * u
        /\ d.coef = q * w + r /\ sig = q * v + m
    BY <1>2, <1>4, <1>7, <1>8
  <2> HIDE DEF u, v, s, w, sig
  <2>2. q * (u * v) + m * u = (q * v + m) * u
    BY <1>2, <1>4, <2>1
  <2>3. q * v \in Nat /\ h \in Nat /\ q * v = h * 10
    BY <1>2, <2>1
  <2> HIDE DEF h
  <2>6. m \in Nat \ {0}
    BY <1>4
  <2>7. sig = h * 10 + m
    BY <2>1, <2>3
  <2>4. sig \in Nat /\ sig # 0
    BY <2>3, <2>6, <2>7
  <2>5. sig % 10 = m % 10
    BY <2>3, <2>6, <2>7
  <2> QED BY <1>4, <2>1, <2>2, <2>4, <2>5 DEF u
<1> HIDE DEF sig, w
<1>10. NewDecimal(sig, d.neg, k) = Trim(d)
  <2>1. t \in 0..d.prec /\ d.prec - t = k
    BY <1>2, <1>4, <1>5 DEF k
  <2> QED BY <1>9, <2>1, TrimIs
<1>11. sig < Cap
  <2> DEFINE u == Pow10[t]
  <2>1. u \in Nat /\ u >= 1 /\ d.coef = sig * u
    BY <1>4, <1>9
  <2> HIDE DEF u
  <2>2. sig <= sig * u
    BY <1>9, <2>1
  <2> QED BY <1>1, <1>2, <1>9, <2>1, <2>2
<1>12. /\ text.form = "number" /\ text.sig = sig /\ text.neg = d.neg
       /\ text.zeros = 0 /\ text.scale = k
  BY DEF Number
<1>13. text.scale - text.zeros = k /\ k >= 0 /\ k <= MaxPrec /\ k \in Int
  BY <1>1, <1>6, <1>12
<1>14. Spells(text)
  BY <1>1, <1>9, <1>12, <1>13 DEF Spells
<1>15. Assembles(sig, k) /\ Assembled(sig, k, d.neg) = Trim(d)
  BY <1>1, <1>10, <1>11, <1>13 DEF Assembles, Assembled
<1>16. d.coef # 0
  <2>1. d.coef = 0 => sig * Pow10[t] = 0
    BY <1>9
  <2> DEFINE u == Pow10[t]
  <2>2. u \in Nat \ {0}
    BY <1>4
  <2> HIDE DEF u
  <2>3. sig * u # 0
    BY <1>9, <2>2
  <2> QED BY <2>1, <2>3 DEF u
<1> HIDE DEF text
<1> QED
  BY <1>3, <1>9, <1>12, <1>13, <1>14, <1>15, <1>16 DEF Canonical

(* No fraction: all integer digits are written, and Trim has none after    *)
(* the point either.                                                       *)
LEMMA IntegerText ==
  ASSUME NEW d \in Decimals, d.coef % Pow10[d.prec] = 0
  PROVE  Canonical(d, AppendCanonical(d))
<1> DEFINE w == Pow10[d.prec]
           q == d.coef \div w
           r == d.coef % w
           z == TrailingZeros(q)
           sig == q \div Pow10[z]
           text == Number(d.neg, sig, z, 0)
<1>1. MaxPrec \in Nat /\ d.neg \in BOOLEAN /\ Cap \in Nat /\ d.prec \in 0..d.prec
  <2>1. d.neg \in BOOLEAN /\ d.prec \in 0..MaxPrec
    BY DecimalFacts
  <2>2. MaxPrec \in Nat /\ Cap \in Nat
    BY PowFacts, CapFacts
  <2> QED BY <2>1, <2>2
<1>2. /\ w \in Nat \ {0} /\ q \in Nat /\ q <= d.coef /\ r = 0
      /\ d.coef = q * w + r /\ d.coef \in Nat /\ d.coef < Cap /\ d.prec \in 0..MaxPrec
  BY WholeAndFraction
<1>3. d.coef = q * w
  <2> HIDE DEF q, r, w
  <2> QED BY <1>2
<1>4. CASE q = 0
  <2>1. d.coef = 0
    <3> HIDE DEF q, w
    <3> QED BY <1>2, <1>3, <1>4
  <2>2. d.neg = FALSE
    BY <2>1, DecimalFacts
  <2> DEFINE zero == AppendCanonical(d)
  <2>3. zero = Number(d.neg, 0, 0, 0)
    BY <1>2, <1>4 DEF AppendCanonical
  <2> HIDE DEF zero
  <2>4. zero.form = "number" /\ zero.neg = d.neg /\ zero.sig = 0 /\ zero.zeros = 0 /\ zero.scale = 0
    BY <2>3 DEF Number
  <2>5. Spells(zero)
    BY <1>1, <2>4 DEF Spells
  <2>6. Canonical(d, zero)
    BY <2>1, <2>4, <2>5 DEF Canonical
  <2> QED BY <2>6 DEF zero
<1>5. CASE q # 0
  <2>1. AppendCanonical(d) = text
    BY <1>2, <1>5 DEF AppendCanonical
  <2> HIDE DEF q, r
  <2>2. q < Cap
    BY <1>1, <1>2
  <2>3. /\ z \in 0..2*MaxPrec /\ Pow10[z] \in Nat \ {0} /\ sig \in Nat \ {0} /\ sig % 10 # 0
        /\ q = sig * Pow10[z]
    BY <1>2, <1>5, <2>2, TrailingZerosFacts
  <2>4. NewDecimal(q, d.neg, 0) = Trim(d)
    <3>1. NewDecimal(q, d.neg, d.prec - d.prec) = Trim(d)
      BY <1>1, <1>2, <1>3, <1>5, TrimIs
    <3>2. d.prec - d.prec = 0
      BY <1>2
    <3> QED BY <3>1, <3>2
  <2> HIDE DEF z, sig
  <2>5. sig <= q
    <3> DEFINE u == Pow10[z]
    <3>1. u \in Nat /\ u >= 1 /\ q = sig * u
      BY <2>3
    <3> HIDE DEF u
    <3> QED BY <2>3, <3>1
  <2>6. /\ text.form = "number" /\ text.sig = sig /\ text.neg = d.neg
        /\ text.zeros = z /\ text.scale = 0
    BY DEF Number
  <2>7. Spells(text)
    BY <1>1, <2>3, <2>6 DEF Spells
  <2>8. text.scale - text.zeros = 0 - z /\ z \in Nat /\ 0 - z \in Int /\ -(0 - z) = z
    BY <1>1, <2>3, <2>6
  <2>9. Assembles(sig, 0 - z) /\ Assembled(sig, 0 - z, d.neg) = Trim(d)
    <3>1. sig < Cap
      <4>1. sig \in Nat /\ q \in Nat /\ Cap \in Nat
        BY <1>1, <1>2, <2>3
      <4> QED BY <2>2, <2>5, <4>1
    <3>2. CASE z = 0
      <4>1. sig = q
        BY <2>3, <3>2, PowFacts
      <4> QED BY <1>1, <2>4, <2>8, <3>1, <3>2, <4>1 DEF Assembles, Assembled
    <3>3. CASE z # 0
      <4>1. 0 - z < 0 /\ 0 - z <= MaxPrec /\ ~(0 - z >= 0) /\ z <= 2*MaxPrec
        BY <1>1, <2>3, <3>3
      <4>2. Pow10[-(0 - z)] = Pow10[z]
        BY <2>8
      <4>3. sig * Pow10[-(0 - z)] = q
        BY <2>3, <4>2
      <4> QED BY <2>2, <2>4, <2>8, <3>1, <4>1, <4>3 DEF Assembles, Assembled
    <3> QED BY <3>2, <3>3
  <2>10. d.coef # 0
    BY <1>2, <1>5
  <2> HIDE DEF text
  <2> QED BY <2>1, <2>3, <2>6, <2>7, <2>8, <2>9, <2>10 DEF Canonical
<1> QED
  BY <1>4, <1>5

(* Canonical text read by the strict parser: the number without the zeros  *)
(* at its end.                                                             *)
LEMMA CanonicalReads ==
  ASSUME NEW d \in Decimals
  PROVE  /\ Spells(AppendCanonical(d)) /\ AppendCanonical(d).form = "number"
         /\ ParseCore(AppendCanonical(d)) = Ok(Trim(d))
<1> DEFINE text == AppendCanonical(d)
<1>1. Canonical(d, text)
  BY FractionText, IntegerText
<1> HIDE DEF text
<1>2. CASE text.sig = 0
  <2>1. d = Zero
    BY <1>1, <1>2, DecimalFacts DEF Canonical
  <2>2. Trim(d) = Zero
    BY <2>1 DEF Trim, Zero
  <2>3. ParseCore(text) = Ok(Zero)
    BY <1>1, <1>2, NumberReads DEF Canonical
  <2> QED BY <1>1, <2>2, <2>3 DEF Canonical, text
<1>3. CASE text.sig # 0
  <2>1. /\ text.form = "number" /\ Spells(text)
        /\ Assembles(text.sig, text.scale - text.zeros)
        /\ Assembled(text.sig, text.scale - text.zeros, text.neg) = Trim(d)
    BY <1>1, <1>3 DEF Canonical
  <2>2. ParseCore(text).err = "nil" /\ ParseCore(text) = Ok(Trim(d))
    BY <1>3, <2>1, NumberReads
  <2> QED BY <2>1, <2>2 DEF text
<1> QED
  BY <1>2, <1>3

----------------------------------------------------------------------------
(* The string cache.                                                       *)

(* A Decimal of at most two places, brought to hundredths, spells the same *)
(* canonical text.                                                         *)
LEMMA HundredthsText ==
  ASSUME NEW d \in Decimals, d.prec <= 2, d.coef # 0, d.coef * Pow10[2 - d.prec] < Cap
  PROVE  AppendCanonical(NewDecimal(d.coef * Pow10[2 - d.prec], d.neg, 2)) = AppendCanonical(d)
<1> DEFINE w == Pow10[d.prec]
           u == Pow10[2 - d.prec]
           c == d.coef * u
           e == NewDecimal(c, d.neg, 2)
           q == d.coef \div w
           r == d.coef % w
<1>1. /\ w \in Nat \ {0} /\ q \in Nat /\ r \in Nat /\ r < w /\ r <= d.coef
      /\ d.coef \in Nat /\ d.coef = q * w + r
  <2>1. /\ w \in Nat \ {0} /\ q \in Nat /\ r \in Nat /\ r < w
        /\ d.coef \in Nat /\ d.coef = q * w + r
    BY WholeAndFraction
  <2> HIDE DEF w, q, r
  <2>2. q * w \in Nat
    BY <2>1
  <2> QED BY <2>1, <2>2
<1>2. d.prec \in 0..MaxPrec /\ d.neg \in BOOLEAN
  BY DecimalFacts
<1>3. /\ MaxPrec \in Nat /\ MaxPrec >= 2 /\ 2 \in 0..MaxPrec /\ d.prec \in 0..2
      /\ 2 - d.prec \in 0..2*MaxPrec /\ d.prec \in 0..2*MaxPrec /\ d.prec + (2 - d.prec) = 2
  <2>1. MaxPrec \in Nat
    BY PowFacts
  <2>2. MaxPrec >= 2
    BY CacheAssumption
  <2> QED BY <1>2, <2>1, <2>2
<1>4. u \in Nat \ {0} /\ Pow10[2] = w * u
  <2>1. Pow10[d.prec + (2 - d.prec)] = Pow10[d.prec] * Pow10[2 - d.prec]
    BY <1>3, PowFacts
  <2> QED BY <1>3, <2>1, TableAssumption
<1>5. c < Cap
  OBVIOUS
<1> HIDE DEF w, u, q, r
<1>6. c \in Nat /\ c # 0
  BY <1>1, <1>4
<1>7. c \div (w * u) = q /\ c % (w * u) = r * u
  BY <1>1, <1>4, DivScale DEF q, r
<1> HIDE DEF c
<1>8. e = [coef |-> c, neg |-> d.neg, prec |-> 2]
  BY <1>6 DEF NewDecimal, RawDecimal
<1>9. e.coef \div Pow10[e.prec] = q /\ e.coef % Pow10[e.prec] = r * u /\ e.prec = 2 /\ e.neg = d.neg
  BY <1>4, <1>7, <1>8
<1> HIDE DEF e
<1>10. CASE r = 0
  <2>1. r * u = 0
    BY <1>4, <1>10
  <2> DEFINE text == IF q # 0 THEN Number(d.neg, q \div Pow10[TrailingZeros(q)], TrailingZeros(q), 0)
                              ELSE Number(d.neg, 0, 0, 0)
  <2>2. AppendCanonical(e) = text
    BY <1>9, <2>1 DEF AppendCanonical
  <2>3. AppendCanonical(d) = text
    BY <1>10 DEF AppendCanonical, q, r, w
  <2> QED BY <2>2, <2>3 DEF c, e, u
<1>11. CASE r # 0
  <2> DEFINE t == TrailingZeros(r)
             m == r \div Pow10[t]
             s == t + (2 - d.prec)
             ru == r * u
  <2>1. ru \in Nat /\ ru # 0 /\ ru < Cap
    <3>1. r * u <= d.coef * u /\ r * u \in Nat /\ r * u # 0
      BY <1>1, <1>4, <1>11
    <3> QED BY <1>5, <1>6, <3>1, CapFacts DEF c
  <2>2. r < Cap
    <3>1. d.coef < Cap
      BY DecimalFacts
    <3> QED BY <1>1, <3>1, CapFacts
  <2>3. /\ t \in 0..2*MaxPrec /\ Pow10[t] \in Nat \ {0} /\ m \in Nat /\ m % 10 # 0 /\ m # 0
        /\ r = m * Pow10[t]
    BY <1>1, <1>11, <2>2, TrailingZerosFacts
  <2> HIDE DEF t, m
  <2>4. t <= d.prec
    <3>1. d.prec <= t => w <= Pow10[t]
      BY <1>3, <2>3, PowRatio DEF w
    <3>2. Pow10[t] <= r
      <4> DEFINE v == Pow10[t]
      <4>1. v \in Nat /\ r = m * v /\ m >= 1
        BY <2>3
      <4> HIDE DEF v
      <4>2. v <= m * v
        BY <2>3, <4>1
      <4> QED BY <4>1, <4>2 DEF v
    <3>3. ~(d.prec <= t)
      BY <1>1, <2>3, <3>1, <3>2
    <3> QED BY <1>3, <2>3, <3>3
  <2>5. s \in 0..2*MaxPrec /\ 2 - s = d.prec - t
    BY <1>3, <2>3, <2>4
  <2>6. Pow10[s] = Pow10[t] * u
    <3>1. t + (2 - d.prec) <= 2*MaxPrec
      BY <2>5
    <3> QED BY <1>3, <2>3, <3>1, PowFacts DEF u
  <2>7. ru = m * Pow10[s]
    <3> DEFINE v == Pow10[t]
    <3>1. v \in Nat /\ r = m * v /\ Pow10[s] = v * u
      BY <2>3, <2>6
    <3> HIDE DEF v
    <3>2. (m * v) * u = m * (v * u)
      BY <1>4, <2>3, <3>1
    <3> QED BY <3>1, <3>2
  <2> HIDE DEF s, ru
  <2>8. TrailingZeros(ru) = s /\ ru \div Pow10[s] = m
    BY <2>1, <2>3, <2>5, <2>7, TrailingZerosUnique
  <2>9. AppendCanonical(e) = Number(d.neg, q * Pow10[2 - s] + m, 0, 2 - s)
    BY <1>9, <2>1, <2>8 DEF AppendCanonical, ru
  <2>10. AppendCanonical(d) = Number(d.neg, q * Pow10[d.prec - t] + m, 0, d.prec - t)
    BY <1>11 DEF AppendCanonical, q, r, w, t, m
  <2> QED BY <2>5, <2>9, <2>10 DEF e, c, u
<1> QED
  BY <1>10, <1>11

(* The cache holds what rendering the value gives.                         *)
LEMMA CacheIsTransparent ==
  ASSUME NEW d \in Decimals, NEW cached \in BOOLEAN
  PROVE  StringOf(d, cached) = AppendCanonical(d)
<1> DEFINE i == CacheIndex(d)
           u == Pow10[2 - d.prec]
           c == d.coef * u
           top == 2*CacheSpan
<1>1. SUFFICES ASSUME i <= top
               PROVE  StringCache[i] = AppendCanonical(d)
  BY DEF StringOf
<1>2. /\ CacheSpan \in Nat /\ MaxPrec >= 2 /\ CacheSpan * Pow10[2] < Base /\ MaxPrec \in Nat
      /\ Base \in Nat /\ Base >= 4
  BY CacheAssumption, PowFacts, WordAssumption
<1>3. d.coef \in Nat /\ d.coef < Cap /\ d.neg \in BOOLEAN /\ d.prec \in 0..MaxPrec
      /\ (d.coef = 0 => d = Zero /\ d.neg = FALSE /\ d.prec = 0)
  BY DecimalFacts
<1> DEFINE rem == c % Base
<1>4. /\ d.prec <= 2 /\ d.coef <= CacheSpan /\ rem <= CacheSpan
      /\ i = IF d.neg THEN CacheSpan - rem ELSE CacheSpan + rem
  <2>1. i = IF ~OneLimb(d.coef) \/ d.prec > 2 \/ d.coef > CacheSpan THEN top + 1
            ELSE IF rem > CacheSpan THEN top + 1
            ELSE IF d.neg THEN CacheSpan - rem ELSE CacheSpan + rem
    BY DEF CacheIndex
  <2>2. i <= top /\ ~(top + 1 <= top)
    BY <1>1, <1>2
  <2> HIDE DEF i, c, rem, top
  <2>3. d.prec <= 2 /\ d.coef <= CacheSpan
    BY <1>2, <1>3, <2>1, <2>2
  <2>4. rem \in Int
    <3>1. 2 - d.prec \in 0..2*MaxPrec
      BY <1>2, <1>3, <2>3
    <3>2. u \in Nat
      BY <3>1, TableAssumption
    <3> HIDE DEF u
    <3>3. c \in Nat
      BY <1>3, <3>2 DEF c
    <3> QED BY <1>2, <3>3 DEF rem
  <2>5. ~(rem > CacheSpan) /\ i = IF d.neg THEN CacheSpan - rem ELSE CacheSpan + rem
    BY <2>1, <2>2
  <2> QED BY <1>2, <2>3, <2>4, <2>5
<1>5. 2 - d.prec \in 0..2*MaxPrec /\ d.prec \in 0..2 /\ d.prec + (2 - d.prec) = 2
  BY <1>2, <1>3, <1>4
<1>6. u \in Nat \ {0} /\ u <= Pow10[2]
  <2>1. 2 - d.prec <= 2 /\ 2 \in 0..2*MaxPrec
    BY <1>2, <1>5
  <2> QED BY <1>5, <2>1, PowRatio
<1> HIDE DEF u
<1>7. c \in Nat /\ c < Base
  <2> DEFINE h == Pow10[2]
  <2>1. h \in Nat
    <3>1. 2 \in 0..2*MaxPrec
      BY <1>2
    <3> QED BY <3>1, TableAssumption
  <2>2. u <= h /\ CacheSpan * h < Base
    BY <1>2, <1>6
  <2> HIDE DEF h
  <2>3. d.coef * u <= CacheSpan * u
    BY <1>2, <1>3, <1>4, <1>6
  <2>4. CacheSpan * u <= CacheSpan * h
    BY <1>2, <1>6, <2>1, <2>2
  <2>5. d.coef * u \in Nat /\ CacheSpan * u \in Nat /\ CacheSpan * h \in Nat
    BY <1>2, <1>3, <1>6, <2>1
  <2> QED BY <1>2, <2>2, <2>3, <2>4, <2>5
<1> HIDE DEF c
<1>8. rem = c
  BY <1>2, <1>7
<1>9. c <= CacheSpan /\ i = IF d.neg THEN CacheSpan - c ELSE CacheSpan + c
  BY <1>4, <1>8
<1> HIDE DEF i
<1>10. i \in 0..top /\ Abs(i - CacheSpan) = c /\ (i < CacheSpan) = (d.neg /\ c # 0)
  <2>1. CASE d.neg
    BY <1>2, <1>7, <1>9, <2>1 DEF Abs
  <2>2. CASE ~d.neg
    BY <1>2, <1>7, <1>9, <2>2 DEF Abs
  <2> QED BY <2>1, <2>2
<1>11. StringCache[i] = AppendCanonical(NewDecimal(c, d.neg /\ c # 0, 2))
  BY <1>10 DEF StringCache
<1>12. CASE d.coef = 0
  <2>1. c = 0 /\ d = Zero
    BY <1>3, <1>6, <1>12 DEF c
  <2> QED BY <1>11, <2>1 DEF NewDecimal
<1>13. CASE d.coef # 0
  <2>1. c # 0
    BY <1>3, <1>6, <1>13 DEF c
  <2>2. (d.neg /\ c # 0) = d.neg
    BY <1>3, <2>1
  <2>3. c < Cap
    <3>1. \A n \in Nat : n >= 4 => n < n * n /\ n * n \in Nat
      OBVIOUS
    <3> QED BY <1>2, <1>7, <3>1 DEF Cap
  <2>4. AppendCanonical(NewDecimal(c, d.neg, 2)) = AppendCanonical(d)
    BY <1>4, <1>13, <2>3, HundredthsText DEF c, u
  <2> QED BY <1>11, <2>2, <2>4
<1> QED
  BY <1>12, <1>13

----------------------------------------------------------------------------
(* The binary format.                                                      *)

(* A coefficient by its two words.                                         *)
LEMMA TwoWords ==
  /\ \A c \in U128 : /\ c % Base \in U64 /\ c \div Base \in U64
                     /\ c = (c \div Base) * Base + (c % Base)
  /\ \A lo, hi \in U64 : /\ hi * Base + lo \in U128
                         /\ (hi * Base + lo) % Base = lo /\ (hi * Base + lo) \div Base = hi
<1>1. Base \in Nat /\ Base >= 4 /\ Base \in Nat \ {0} /\ Cap \in Nat
  BY WordAssumption, CapFacts
<1>2. ASSUME NEW c \in U128
      PROVE  /\ c % Base \in U64 /\ c \div Base \in U64
             /\ c = (c \div Base) * Base + (c % Base)
  <2>1. c \in Nat /\ c < Base * Base /\ c \in Int
    BY <1>1 DEF U128, Cap
  <2>2. c \div Base \in Nat /\ c \div Base < Base
    BY <1>1, <2>1, DivBelow
  <2>3. c % Base \in 0..(Base - 1) /\ c = Base * (c \div Base) + (c % Base)
    BY <1>1, <2>1, DivMod
  <2> QED BY <1>1, <2>2, <2>3 DEF U64
<1>3. ASSUME NEW lo \in U64, NEW hi \in U64
      PROVE  /\ hi * Base + lo \in U128
             /\ (hi * Base + lo) % Base = lo /\ (hi * Base + lo) \div Base = hi
  <2> DEFINE c == hi * Base + lo
  <2>1. lo \in Nat /\ lo < Base /\ hi \in Nat /\ hi + 1 <= Base /\ lo \in 0..(Base - 1)
    BY <1>1 DEF U64
  <2>2. c \in Int /\ c = Base * hi + lo /\ c >= 0
    BY <1>1, <2>1
  <2>3. c < Cap
    <3>1. (hi + 1) * Base <= Base * Base
      BY <1>1, <2>1
    <3> QED BY <1>1, <2>1, <3>1 DEF Cap
  <2> HIDE DEF c
  <2>4. c % Base = lo /\ c \div Base = hi
    BY <1>1, <2>1, <2>2, DivModUnique
  <2>5. c \in U128
    BY <1>1, <2>2, <2>3 DEF U128
  <2> QED BY <2>4, <2>5 DEF c
<1> QED
  BY <1>2, <1>3

(* What is put is read back, representation by representation.             *)
LEMMA PutBinaryReads ==
  ASSUME NEW d \in Decimals
  PROVE  WellFormed(PutBinary(d)) /\ DecodeBinary(PutBinary(d)) = Ok(d)
<1> DEFINE lo == d.coef % Base
           hi == d.coef \div Base
           sign == IF d.neg THEN {"neg"} ELSE {}
           long == BinMsg(18, sign \cup {"hi"}, d.prec, lo, hi)
           short == BinMsg(10, sign, d.prec, lo, 0)
           msg == PutBinary(d)
<1>1. /\ d.coef \in U128 /\ d.neg \in BOOLEAN /\ d.prec \in 0..MaxPrec
      /\ d = [coef |-> d.coef, neg |-> d.neg, prec |-> d.prec] /\ (d.coef = 0 => d = Zero)
  BY DecimalFacts DEF Decimals
<1>2. lo \in U64 /\ hi \in U64 /\ d.coef = hi * Base + lo
  BY <1>1, TwoWords
<1>3. MaxPrec \in Nat /\ Base \in Nat /\ 0 \in U64 /\ d.coef \in Nat
  BY <1>1, PowFacts, CapFacts, WordAssumption DEF U64, U128
<1>4. d.prec \in Nat /\ ~(d.prec > MaxPrec)
  BY <1>1, <1>3
<1>5. msg = IF hi # 0 THEN long ELSE short
  BY DEF PutBinary
<1>6. NewDecimal(d.coef, d.neg, d.prec) = d
  BY <1>1 DEF NewDecimal, RawDecimal
<1>7. ("neg" \in sign) = d.neg /\ ("neg" \in sign \cup {"hi"}) = d.neg
      /\ sign \subseteq {"neg"} /\ (sign \cup {"hi"}) \ {"neg"} = {"hi"}
  BY <1>1
<1> HIDE DEF lo, hi, sign
<1>8. CASE hi # 0
  <2>1. msg = long
    BY <1>5, <1>8
  <2> HIDE DEF msg
  <2>2. /\ msg.form = "binary" /\ msg.len = 18 /\ msg.flags = sign \cup {"hi"}
        /\ msg.prec = d.prec /\ msg.lo = lo /\ msg.hi = hi
        /\ msg = BinMsg(msg.len, msg.flags, msg.prec, msg.lo, msg.hi)
    BY <2>1 DEF BinMsg
  <2>3. WellFormed(msg)
    BY <1>2, <1>4, <2>2 DEF WellFormed
  <2>4. DecodeBinary(msg) = Ok(NewDecimal(hi * Base + lo, d.neg, d.prec))
    BY <1>4, <1>7, <1>8, <2>2 DEF DecodeBinary
  <2> QED BY <1>2, <1>6, <2>3, <2>4 DEF msg
<1>9. CASE hi = 0
  <2>1. msg = short
    BY <1>5, <1>9
  <2> HIDE DEF msg
  <2>2. /\ msg.form = "binary" /\ msg.len = 10 /\ msg.flags = sign
        /\ msg.prec = d.prec /\ msg.lo = lo /\ msg.hi = 0
        /\ msg = BinMsg(msg.len, msg.flags, msg.prec, msg.lo, msg.hi)
    BY <2>1 DEF BinMsg
  <2>3. WellFormed(msg)
    BY <1>2, <1>3, <1>4, <2>2 DEF WellFormed
  <2>4. DecodeBinary(msg) = Ok(NewDecimal(0 + lo, d.neg, d.prec))
    BY <1>4, <1>7, <2>2 DEF DecodeBinary
  <2>5. 0 + lo = d.coef
    <3>1. lo \in Nat
      BY <1>2, <1>3 DEF U64
    <3> QED BY <1>2, <1>3, <1>9, <3>1
  <2> QED BY <1>6, <2>3, <2>4, <2>5 DEF msg
<1> QED
  BY <1>8, <1>9

(* A message that is accepted is the one this library puts for what it     *)
(* decodes to, or a spelling of zero.                                      *)
LEMMA BinaryReads ==
  ASSUME NEW msg, msg.form = "binary", WellFormed(msg)
  PROVE  /\ Reading(DecodeBinary(msg))
         /\ DecodeBinary(msg).err = "nil" =>
              \/ PutBinary(DecodeBinary(msg).val) = msg
              \/ DecodeBinary(msg).val = Zero
<1> DEFINE neg == "neg" \in msg.flags
           c == (IF msg.len = 18 THEN msg.hi * Base ELSE 0) + msg.lo
           d == NewDecimal(c, neg, msg.prec)
           Refused == \/ msg.len \notin {10, 18} \/ msg.prec > MaxPrec
                      \/ msg.len = 10 /\ ~(msg.flags \subseteq {"neg"})
                      \/ msg.len = 18 /\ (msg.flags \ {"neg"} # {"hi"} \/ msg.hi = 0)
<1>1. /\ msg = BinMsg(msg.len, msg.flags, msg.prec, msg.lo, msg.hi)
      /\ msg.prec \in Nat /\ msg.lo \in U64 /\ msg.hi \in U64
      /\ msg.len = 10 => msg.hi = 0
  BY DEF WellFormed
<1>2. CASE Refused
  <2>1. DecodeBinary(msg) = Fail("InvalidBinaryData")
    BY <1>2 DEF DecodeBinary
  <2> QED BY <2>1 DEF Reading, Fail
<1>3. CASE ~Refused
  <2>1. DecodeBinary(msg) = Ok(d)
    BY <1>3 DEF DecodeBinary
  <2>2. MaxPrec \in Nat /\ Base \in Nat /\ Base >= 4 /\ Cap \in Nat
    BY PowFacts, CapFacts, WordAssumption
  <2>3. msg.prec \in 0..MaxPrec
    BY <1>1, <1>3, <2>2
  <2>4. /\ c = msg.hi * Base + msg.lo /\ c \in U128
        /\ c % Base = msg.lo /\ c \div Base = msg.hi
    <3>1. c = msg.hi * Base + msg.lo
      <4>1. CASE msg.len = 18
        BY <4>1
      <4>2. CASE msg.len # 18
        <5>1. msg.hi = 0 /\ 0 * Base = 0
          BY <1>1, <1>3, <2>2, <4>2
        <5> QED BY <4>2, <5>1
      <4> QED BY <4>1, <4>2
    <3> HIDE DEF c
    <3> QED BY <1>1, <3>1, TwoWords
  <2> HIDE DEF c
  <2>5. c \in Nat /\ c < Cap
    BY <2>2, <2>4 DEF U128
  <2>6. /\ d \in Decimals /\ d.coef = c /\ (c = 0 => d = Zero)
        /\ (c # 0 => d.neg = neg /\ d.prec = msg.prec)
    <3>1. neg \in BOOLEAN
      OBVIOUS
    <3> HIDE DEF neg
    <3> QED BY <2>3, <2>5, <3>1, MakeDecimal
  <2> HIDE DEF d
  <2>7. Reading(DecodeBinary(msg))
    BY <2>1, <2>6 DEF Reading, Ok
  <2>8. ASSUME c # 0 PROVE PutBinary(d) = msg
    <3> DEFINE sign == IF d.neg THEN {"neg"} ELSE {}
    <3>1. /\ d.neg = neg /\ d.prec = msg.prec /\ d.coef % Base = msg.lo
          /\ d.coef \div Base = msg.hi
      BY <2>4, <2>6, <2>8
    <3>2. PutBinary(d) = IF msg.hi # 0 THEN BinMsg(18, sign \cup {"hi"}, msg.prec, msg.lo, msg.hi)
                                       ELSE BinMsg(10, sign, msg.prec, msg.lo, 0)
      BY <3>1 DEF PutBinary
    <3>3. CASE msg.len = 10
      <4>1. msg.hi = 0 /\ msg.flags \subseteq {"neg"}
        BY <1>1, <1>3, <3>3
      <4>2. msg.flags = sign
        BY <3>1, <4>1
      <4> QED BY <1>1, <3>2, <3>3, <4>1, <4>2
    <3>4. CASE msg.len = 18
      <4>1. msg.hi # 0 /\ msg.flags \ {"neg"} = {"hi"}
        BY <1>3, <3>4
      <4>2. msg.flags = sign \cup {"hi"}
        BY <3>1, <4>1
      <4> QED BY <1>1, <3>2, <3>4, <4>1, <4>2
    <3> QED BY <1>3, <3>3, <3>4
  <2>9. DecodeBinary(msg).val = d
    BY <2>1 DEF Ok
  <2> QED BY <2>6, <2>7, <2>8, <2>9
<1> QED
  BY <1>2, <1>3

----------------------------------------------------------------------------
(* The messages a slot sends, and the invariant of the system: whatever is *)
(* on the wire is well formed, and one that has a sender of this library   *)
(* says what the sender held.  TypeOK says nothing of the wire, so it      *)
(* does not follow from itself that the next value decoded is canonical.   *)
Sent(msg, s) ==
  \/ msg \in {MarshalText(s), MarshalJSON(s), Value(s, TRUE), Value(s, FALSE)}
  \/ s.valid /\ msg = PutBinary(s.dec)
IInv ==
  /\ TypeOK
  /\ WellFormed(wire)
  /\ origin # None => Sent(wire, origin)

(* No slot is the mark of a foreign message.                               *)
LEMMA NoneIsNoSlot == None \notin Slots
<1>1. RawDecimal(0, TRUE, 0) \notin Decimals
  BY DEF Decimals, Zero, RawDecimal
<1> QED
  BY <1>1 DEF None, Slot, Slots

(* What a slot sends, as its receivers decode it.                          *)
LEMMA SentReads ==
  ASSUME NEW s \in Slots, NEW msg, Sent(msg, s)
  PROVE  /\ WellFormed(msg)
         /\ s.valid =>
              /\ msg.form = "text" => /\ msg.text # Empty
                                      /\ DecodeText(msg) = Ok(Trim(s.dec))
              /\ msg.form = "json" => /\ msg.shape # "null"
                                      /\ DecodeJSON(msg) = Ok(Trim(s.dec))
              /\ msg.form = "sql" => /\ msg.type = "string"
                                     /\ ParseCore(msg.text) = Ok(Trim(s.dec))
              /\ msg.form = "binary" => DecodeBinary(msg) = Ok(s.dec)
         /\ ~s.valid =>
              /\ msg.form = "text" => msg.text = Empty
              /\ msg.form = "json" => msg.shape = "null"
              /\ msg.form = "sql" => msg.type = "nil"
              /\ msg.form # "binary"
<1> DEFINE d == s.dec
           text == AppendCanonical(d)
<1>1. d \in Decimals /\ s.valid \in BOOLEAN
  BY DEF Slots
<1>2. Spells(text) /\ text.form = "number" /\ ParseCore(text) = Ok(Trim(d)) /\ text # Empty
  <2>1. Spells(text) /\ text.form = "number" /\ ParseCore(text) = Ok(Trim(d))
    BY <1>1, CanonicalReads
  <2>2. Empty.form = "empty"
    BY DEF Empty, NotNumber, Number
  <2> QED BY <2>1, <2>2
<1>3. StringOf(d, TRUE) = text /\ StringOf(d, FALSE) = text
  BY <1>1, CacheIsTransparent
<1>4. Spells(Empty) /\ Spells(Malformed)
  BY DEF Spells, Empty, Malformed, NotNumber, Number
<1> HIDE DEF text
<1>5. CASE s.valid
  <2>1. msg \in {TextMsg(text), JsonMsg("quoted", "plain", text), SqlMsg("string", text)}
          \/ msg = PutBinary(d)
    BY <1>3, <1>5 DEF Sent, MarshalText, MarshalJSON, Value, text
  <2>2. CASE msg = TextMsg(text)
    <3>1. msg.form = "text" /\ msg.text = text
      BY <2>2 DEF TextMsg
    <3> QED BY <1>2, <1>5, <3>1 DEF WellFormed, DecodeText
  <2>3. CASE msg = JsonMsg("quoted", "plain", text)
    <3>1. msg.form = "json" /\ msg.shape = "quoted" /\ msg.text = text
      BY <2>3 DEF JsonMsg
    <3> QED BY <1>2, <1>5, <3>1 DEF WellFormed, DecodeJSON
  <2>4. CASE msg = SqlMsg("string", text)
    <3>1. msg.form = "sql" /\ msg.type = "string" /\ msg.text = text
      BY <2>4 DEF SqlMsg
    <3> QED BY <1>2, <1>5, <3>1 DEF WellFormed, StrictInts, LegacyInts
  <2>5. CASE msg = PutBinary(d)
    <3>1. msg.form = "binary"
      BY <2>5 DEF PutBinary, BinMsg
    <3> QED BY <1>1, <1>5, <2>5, <3>1, PutBinaryReads
  <2> QED BY <2>1, <2>2, <2>3, <2>4, <2>5
<1>6. CASE ~s.valid
  <2>1. msg \in {TextMsg(Empty), JsonMsg("null", "plain", Malformed), SqlMsg("nil", Malformed)}
    BY <1>6 DEF Sent, MarshalText, MarshalJSON, Value
  <2>2. CASE msg = TextMsg(Empty)
    <3>1. msg.form = "text" /\ msg.text = Empty
      BY <2>2 DEF TextMsg
    <3> QED BY <1>4, <1>6, <3>1 DEF WellFormed
  <2>3. CASE msg = JsonMsg("null", "plain", Malformed)
    <3>1. msg.form = "json" /\ msg.shape = "null" /\ msg.text = Malformed
      BY <2>3 DEF JsonMsg
    <3> QED BY <1>4, <1>6, <3>1 DEF WellFormed
  <2>4. CASE msg = SqlMsg("nil", Malformed)
    <3>1. msg.form = "sql" /\ msg.type = "nil" /\ msg.text = Malformed
      BY <2>4 DEF SqlMsg
    <3> QED BY <1>4, <1>6, <3>1 DEF WellFormed, StrictInts, LegacyInts
  <2> QED BY <2>1, <2>2, <2>3, <2>4
<1> QED
  BY <1>1, <1>5, <1>6

(* Every decoder of a well-formed message.                                 *)
LEMMA JsonReads ==
  ASSUME NEW msg, msg.form = "json", WellFormed(msg)
  PROVE  Reading(DecodeJSON(msg))
<1>1. DecodeJSON(msg) \in {Fail("JSONNull"), Fail("InvalidFormat"), ParseCore(msg.text)}
  BY DEF DecodeJSON
<1>2. Reading(ParseCore(msg.text))
  BY TextReads DEF WellFormed
<1> QED
  BY <1>1, <1>2 DEF Reading, Fail

(* A scan answers with a reading; a strict one reads no float.             *)
ScanOf(msg) == IF kind \in Strict THEN ScanStrict(msg) ELSE ScanLegacy(msg)
LEMMA ScanReads ==
  ASSUME NEW msg, msg.form = "sql", WellFormed(msg)
  PROVE  /\ Reading(ScanOf(msg))
         /\ msg.type \in Texts => ScanOf(msg) = ParseCore(msg.text)
         /\ msg.type = "nil" => ScanOf(msg).err # "nil"
         /\ kind \in Strict /\ ScanOf(msg).err = "nil" =>
              msg.type \notin {"float64", "float32"}
<1> DEFINE type == msg.type
           text == msg.text
<1>1. /\ type \in {"float64", "float32"} => IsFloat(text)
      /\ type \in StrictInts => IsInteger(text)
      /\ type \in Texts => Spells(text)
  BY DEF WellFormed, Texts, StrictInts, LegacyInts
<1>2. /\ type \in Texts => Reading(ParseCore(text))
      /\ type \in StrictInts => Reading(Ok(Integer(text)))
      /\ type \in {"float64", "float32"} => Reading(NewFromFloat(text))
  BY <1>1, TextReads, DriverReads
<1>3. \A e : Fail(e).err = e /\ (e \notin {"nil", "NilReceiver"} => Reading(Fail(e)))
  BY DEF Reading, Fail
<1>4. RefuseType(type) \in {Fail("ScanNil"), Fail("ScanType")}
  BY DEF RefuseType
<1>5. ASSUME kind \in Strict
      PROVE  ScanOf(msg) = IF type \in Texts THEN ParseCore(text)
                           ELSE IF type \in StrictInts THEN Ok(Integer(text))
                           ELSE IF type \in {"float64", "float32"} THEN Fail("ScanFloat")
                           ELSE RefuseType(type)
  BY <1>5 DEF ScanOf, ScanStrict, Texts, StrictInts, LegacyInts
<1>6. ASSUME kind \notin Strict
      PROVE  ScanOf(msg) = IF type \in Texts THEN ParseCore(text)
                           ELSE IF type \in LegacyInts THEN Ok(Integer(text))
                           ELSE IF type = "float64" THEN NewFromFloat(text)
                           ELSE RefuseType(type)
  BY <1>6 DEF ScanOf, ScanLegacy, Texts, StrictInts, LegacyInts
<1>7. /\ "nil" \notin Texts \cup StrictInts \cup {"float64", "float32"}
      /\ LegacyInts \subseteq StrictInts
      /\ {"float64", "float32"} \cap (Texts \cup StrictInts) = {}
  BY DEF Texts, StrictInts, LegacyInts
<1>8. CASE kind \in Strict
  BY <1>2, <1>3, <1>4, <1>5, <1>7, <1>8
<1>9. CASE kind \notin Strict
  BY <1>2, <1>3, <1>4, <1>6, <1>7, <1>9
<1> QED
  BY <1>8, <1>9

----------------------------------------------------------------------------
(* What a step on the destination owes: the invariant, the reading of what *)
(* was sent, and no amount of an earlier row.                              *)
Fresh ==
  UNCHANGED <<wire, origin>> /\ last'.err # "nil" =>
    dest' = IF Call /\ last'.op = "Scan" /\ kind \in Nullable THEN Null ELSE dest
Faithful == Call /\ origin # None => Received
Owed == IInv' /\ Faithful /\ Fresh

(* What the slots a call stores are.                                       *)
LEMMA SlotFacts ==
  /\ Null \in Slots /\ ~Null.valid /\ Slot(Zero, TRUE) \in Slots
  /\ \A d \in Decimals : /\ Slot(d, TRUE) \in Slots /\ Slot(d, TRUE).valid
                         /\ Slot(d, TRUE).dec = d
BY Replies DEF Null, Slot, Slots

(* A call that keeps the destination well typed keeps the invariant.       *)
LEMMA FinishKeeps ==
  ASSUME IInv, NEW op, NEW err, NEW slot \in Slots, NEW source,
         kind \notin Nullable => slot.valid, ~slot.valid => slot = Null,
         kind \in Strict => source \notin {"float64", "float32"},
         Finish(op, err, slot, source)
  PROVE  IInv'
<1>1. /\ dest' = slot /\ from' = source /\ kind' = kind /\ wire' = wire /\ origin' = origin
  BY DEF Finish
<1>2. TypeOK'
  BY <1>1 DEF IInv, TypeOK
<1>3. WellFormed(wire)' /\ (origin # None => Sent(wire, origin))'
  BY <1>1 DEF IInv
<1> QED
  BY <1>2, <1>3 DEF IInv

(* A refused call leaves everything but last alone.                        *)
LEMMA Refuses ==
  ASSUME IInv, NEW op, NEW err, Finish(op, err, dest, from), err # "nil",
         origin # None /\ err # "NilReceiver" => ~origin.valid /\ kind \notin Nullable,
         op = "Scan" /\ err # "NilReceiver" => kind \notin Nullable
  PROVE  Owed
<1>1. IInv'
  BY FinishKeeps DEF IInv, TypeOK
<1>2. last'.err = err /\ last'.op = op /\ dest' = dest
  BY DEF Finish
<1>3. Fresh
  BY <1>2 DEF Fresh, Call
<1>4. Faithful
  BY <1>2 DEF Faithful, Call, Received
<1> QED
  BY <1>1, <1>3, <1>4 DEF Owed

(* A reading that succeeds is stored.                                      *)
LEMMA Stores ==
  ASSUME IInv, NEW op, NEW d \in Decimals, NEW source,
         Finish(op, "nil", Slot(d, TRUE), source),
         kind \in Strict => source \notin {"float64", "float32"},
         origin # None => /\ origin.valid
                          /\ d = IF wire.form = "binary" THEN origin.dec ELSE Trim(origin.dec)
  PROVE  Owed
<1>1. IInv'
  <2>1. Slot(d, TRUE) \in Slots /\ Slot(d, TRUE).valid
    BY SlotFacts
  <2> QED BY <2>1, FinishKeeps
<1>2. last'.err = "nil" /\ dest' = Slot(d, TRUE)
  BY DEF Finish
<1> QED
  BY <1>1, <1>2 DEF Owed, Fresh, Faithful, Received

(* A nullable destination is cleared.                                      *)
LEMMA Clears ==
  ASSUME IInv, NEW op, NEW err, kind \in Nullable,
         Finish(op, err, Null, "codec"), err # "NilReceiver", err # "nil" => op = "Scan",
         origin # None => ~origin.valid /\ err = "nil"
  PROVE  Owed
<1>1. IInv'
  <2>1. Null \in Slots
    BY SlotFacts
  <2> QED BY <2>1, FinishKeeps
<1>2. last'.err = err /\ last'.op = op /\ dest' = Null /\ UNCHANGED <<wire, origin>>
  BY DEF Finish
<1>3. Fresh
  BY <1>2 DEF Fresh, Call
<1>4. Faithful
  BY <1>2 DEF Faithful, Received
<1> QED
  BY <1>1, <1>3, <1>4 DEF Owed

(* What the invariant says of a message that has a sender.                 *)
LEMMA WireReads ==
  ASSUME IInv, origin # None
  PROVE  /\ origin \in Slots /\ origin.valid \in BOOLEAN
         /\ origin.valid =>
              /\ wire.form = "text" => /\ wire.text # Empty
                                       /\ DecodeText(wire) = Ok(Trim(origin.dec))
              /\ wire.form = "json" => /\ wire.shape # "null"
                                       /\ DecodeJSON(wire) = Ok(Trim(origin.dec))
              /\ wire.form = "sql" => /\ wire.type = "string"
                                      /\ ParseCore(wire.text) = Ok(Trim(origin.dec))
              /\ wire.form = "binary" => DecodeBinary(wire) = Ok(origin.dec)
         /\ ~origin.valid =>
              /\ wire.form = "text" => wire.text = Empty
              /\ wire.form = "json" => wire.shape = "null"
              /\ wire.form = "sql" => wire.type = "nil"
              /\ wire.form # "binary"
<1>1. origin \in Slots /\ Sent(wire, origin)
  BY DEF IInv, TypeOK
<1>2. origin.valid \in BOOLEAN
  BY <1>1 DEF Slots
<1> QED
  BY <1>1, <1>2, SentReads

(* One lemma per call.                                                     *)
LEMMA NilReceiverOwes ==
  ASSUME IInv, NilReceiver
  PROVE  Owed
<1>1. PICK op : Finish(op, "NilReceiver", dest, from)
  BY DEF NilReceiver
<1> QED
  BY <1>1, Refuses

LEMMA ScanNullOwes ==
  ASSUME IInv, ScanNull
  PROVE  Owed
<1>1. /\ wire.form = "sql" /\ wire.type = "nil" /\ kind \in Nullable
      /\ Finish("Scan", "nil", Null, "codec")
  BY DEF ScanNull
<1>2. origin # None => ~origin.valid
  BY <1>1, WireReads
<1> QED
  BY <1>1, <1>2, Clears

LEMMA ScanOwes ==
  ASSUME IInv, Scan
  PROVE  Owed
<1> DEFINE res == ScanOf(wire)
<1>1. /\ wire.form = "sql" /\ ~(wire.type = "nil" /\ kind \in Nullable)
      /\ IF res.err = "nil" THEN Finish("Scan", "nil", Slot(res.val, TRUE), wire.type)
         ELSE IF kind \in Nullable THEN Finish("Scan", res.err, Null, "codec")
         ELSE Finish("Scan", res.err, dest, from)
  BY DEF Scan, ScanOf
<1>2. /\ Reading(res)
      /\ wire.type = "nil" => res.err # "nil"
      /\ wire.type \in Texts => res = ParseCore(wire.text)
      /\ kind \in Strict /\ res.err = "nil" => wire.type \notin {"float64", "float32"}
  BY <1>1, ScanReads DEF IInv
<1>3. origin # None =>
        IF origin.valid THEN res.err = "nil" /\ res.val = Trim(origin.dec)
                        ELSE res.err # "nil" /\ kind \notin Nullable
  BY <1>1, <1>2, WireReads DEF Texts, Ok
<1> HIDE DEF res
<1>4. CASE res.err = "nil"
  <2>1. res.val \in Decimals /\ Finish("Scan", "nil", Slot(res.val, TRUE), wire.type)
    BY <1>1, <1>2, <1>4 DEF Reading
  <2>2. wire.form # "binary"
    BY <1>1
  <2> QED BY <1>2, <1>3, <1>4, <2>1, <2>2, Stores
<1>5. CASE res.err # "nil" /\ kind \in Nullable
  BY <1>1, <1>2, <1>3, <1>5, Clears DEF Reading
<1>6. CASE res.err # "nil" /\ kind \notin Nullable
  BY <1>1, <1>2, <1>3, <1>6, Refuses DEF Reading
<1> QED
  BY <1>4, <1>5, <1>6

(* The unmarshalers that store what they read or refuse.                   *)
LEMMA UnmarshalOwes ==
  ASSUME IInv, NEW op, op # "Scan", NEW res, Reading(res), Unmarshal(op, res),
         origin # None =>
           IF origin.valid
           THEN res = Ok(IF wire.form = "binary" THEN origin.dec ELSE Trim(origin.dec))
           ELSE res.err # "nil" /\ kind \notin Nullable
  PROVE  Owed
<1>1. CASE res.err = "nil"
  <2>1. res.val \in Decimals /\ Finish(op, "nil", Slot(res.val, TRUE), "codec")
    BY <1>1 DEF Reading, Unmarshal
  <2>2. origin # None =>
          /\ origin.valid
          /\ res.val = IF wire.form = "binary" THEN origin.dec ELSE Trim(origin.dec)
    BY <1>1 DEF Ok
  <2> QED BY <2>1, <2>2, Stores
<1>2. CASE res.err # "nil"
  <2>1. Finish(op, res.err, dest, from)
    BY <1>2 DEF Unmarshal
  <2>2. origin # None => ~origin.valid /\ kind \notin Nullable
    BY <1>2 DEF Ok
  <2> QED BY <1>2, <2>1, <2>2, Refuses DEF Reading
<1> QED
  BY <1>1, <1>2

LEMMA UnmarshalTextOwes ==
  ASSUME IInv, UnmarshalText
  PROVE  Owed
<1>1. CASE kind \in Nullable /\ wire.text = Empty
  <2>1. wire.form = "text" /\ Finish("UnmarshalText", "nil", Null, "codec")
    BY <1>1 DEF UnmarshalText
  <2>2. origin # None => ~origin.valid
    BY <1>1, <2>1, WireReads
  <2> QED BY <1>1, <2>1, <2>2, Clears
<1>2. CASE ~(kind \in Nullable /\ wire.text = Empty)
  <2> DEFINE res == DecodeText(wire)
  <2>1. wire.form = "text" /\ Unmarshal("UnmarshalText", res)
    BY <1>2 DEF UnmarshalText
  <2>2. Reading(res)
    BY <2>1, TextReads DEF IInv, WellFormed, DecodeText
  <2>3. wire.text = Empty => res.err # "nil"
    BY DEF DecodeText, ParseCore, Empty, NotNumber, Number, Fail
  <2>4. origin # None => IF origin.valid THEN res = Ok(Trim(origin.dec))
                         ELSE res.err # "nil" /\ kind \notin Nullable
    BY <1>2, <2>1, <2>3, WireReads
  <2> HIDE DEF res
  <2>5. wire.form # "binary"
    BY <2>1
  <2> QED BY <2>1, <2>2, <2>4, <2>5, UnmarshalOwes
<1> QED
  BY <1>1, <1>2

LEMMA UnmarshalJSONOwes ==
  ASSUME IInv, UnmarshalJSON
  PROVE  Owed
<1>1. CASE kind \in Nullable /\ wire.shape = "null"
  <2>1. wire.form = "json" /\ Finish("UnmarshalJSON", "nil", Null, "codec")
    BY <1>1 DEF UnmarshalJSON
  <2>2. origin # None => ~origin.valid
    BY <1>1, <2>1, WireReads
  <2> QED BY <1>1, <2>1, <2>2, Clears
<1>2. CASE ~(kind \in Nullable /\ wire.shape = "null")
  <2> DEFINE res == DecodeJSON(wire)
  <2>1. wire.form = "json" /\ Unmarshal("UnmarshalJSON", res)
    BY <1>2 DEF UnmarshalJSON
  <2>2. Reading(res)
    BY <2>1, JsonReads DEF IInv
  <2>3. wire.shape = "null" => res.err # "nil"
    BY DEF DecodeJSON, Fail
  <2>4. origin # None => IF origin.valid THEN res = Ok(Trim(origin.dec))
                         ELSE res.err # "nil" /\ kind \notin Nullable
    BY <1>2, <2>1, <2>3, WireReads
  <2> HIDE DEF res
  <2>5. wire.form # "binary"
    BY <2>1
  <2> QED BY <2>1, <2>2, <2>4, <2>5, UnmarshalOwes
<1> QED
  BY <1>1, <1>2

LEMMA UnmarshalBinaryOwes ==
  ASSUME IInv, UnmarshalBinary
  PROVE  Owed
<1> DEFINE res == DecodeBinary(wire)
<1>1. wire.form = "binary" /\ Unmarshal("UnmarshalBinary", res)
  BY DEF UnmarshalBinary
<1>2. Reading(res)
  BY <1>1, BinaryReads DEF IInv
<1>3. origin # None => origin.valid /\ res = Ok(origin.dec)
  BY <1>1, WireReads
<1> HIDE DEF res
<1> QED
  BY <1>1, <1>2, <1>3, UnmarshalOwes

(* Whatever a sender holds is a slot.                                      *)
LEMMA HeldSlots ==
  ASSUME IInv
  PROVE  Held \subseteq Slots
<1>1. \A d \in Values : Slot(d, TRUE) \in Slots
  BY SendersAssumption, SlotFacts
<1> QED
  BY <1>1, SlotFacts DEF Held, IInv, TypeOK

(* A message from a slot keeps the invariant; if the wire looks the same   *)
(* nothing has happened.                                                   *)
LEMMA SendKeeps ==
  ASSUME IInv, NEW s \in Slots, Sent(wire', s), origin' = s,
         UNCHANGED <<kind, dest, from, last>>
  PROVE  IInv' /\ (UNCHANGED <<wire, origin>> => UNCHANGED vars)
<1>1. WellFormed(wire')
  BY SentReads
<1>2. TypeOK'
  BY DEF IInv, TypeOK
<1>3. (origin # None => Sent(wire, origin))'
  OBVIOUS
<1> QED
  BY <1>1, <1>2, <1>3 DEF IInv, vars

(* Every way to send.                                                      *)
LEMMA SendsKeep ==
  ASSUME IInv, SendText \/ SendJSON \/ SendValue \/ SendBinary \/ SendForeign
  PROVE  IInv' /\ (UNCHANGED <<wire, origin>> => UNCHANGED vars)
<1>1. CASE SendText
  <2>1. PICK s \in Held : /\ wire' = MarshalText(s) /\ origin' = s
                          /\ UNCHANGED <<kind, dest, from, last>>
    BY <1>1 DEF SendText, Send
  <2> QED BY <2>1, HeldSlots, SendKeeps DEF Sent
<1>2. CASE SendJSON
  <2>1. PICK s \in Held : /\ wire' = MarshalJSON(s) /\ origin' = s
                          /\ UNCHANGED <<kind, dest, from, last>>
    BY <1>2 DEF SendJSON, Send
  <2> QED BY <2>1, HeldSlots, SendKeeps DEF Sent
<1>3. CASE SendValue
  <2>1. PICK s \in Held, cached \in BOOLEAN :
          /\ wire' = Value(s, cached) /\ origin' = s
          /\ UNCHANGED <<kind, dest, from, last>>
    BY <1>3 DEF SendValue, Send
  <2>2. wire' \in {Value(s, TRUE), Value(s, FALSE)}
    BY <2>1
  <2> QED BY <2>1, <2>2, HeldSlots, SendKeeps DEF Sent
<1>4. CASE SendBinary
  <2>1. PICK s \in Held : /\ s.valid /\ wire' = PutBinary(s.dec) /\ origin' = s
                          /\ UNCHANGED <<kind, dest, from, last>>
    BY <1>4 DEF SendBinary
  <2> QED BY <2>1, HeldSlots, SendKeeps DEF Sent
<1>5. CASE SendForeign
  <2>1. PICK msg \in Foreign : /\ wire' = msg /\ origin' = None
                               /\ UNCHANGED <<kind, dest, from, last>>
    BY <1>5 DEF SendForeign
  <2>2. WellFormed(wire')
    BY <2>1, SendersAssumption
  <2>3. TypeOK'
    BY <2>1 DEF IInv, TypeOK
  <2> QED BY <2>1, <2>2, <2>3 DEF IInv, vars
<1> QED
  BY <1>1, <1>2, <1>3, <1>4, <1>5

(* Every step.                                                             *)
LEMMA StepOwes ==
  ASSUME IInv, [Next]_vars
  PROVE  IInv' /\ ((Faithful /\ Fresh) \/ UNCHANGED vars)
<1>1. CASE SendText \/ SendJSON \/ SendValue \/ SendBinary \/ SendForeign
  <2>1. IInv' /\ (UNCHANGED <<wire, origin>> => UNCHANGED vars)
    BY <1>1, SendsKeep
  <2> QED BY <2>1 DEF Faithful, Fresh, Call
<1>2. CASE NilReceiver
  BY <1>2, NilReceiverOwes DEF Owed
<1>3. CASE ScanNull
  BY <1>3, ScanNullOwes DEF Owed
<1>4. CASE Scan
  BY <1>4, ScanOwes DEF Owed
<1>5. CASE UnmarshalText
  BY <1>5, UnmarshalTextOwes DEF Owed
<1>6. CASE UnmarshalJSON
  BY <1>6, UnmarshalJSONOwes DEF Owed
<1>7. CASE UnmarshalBinary
  BY <1>7, UnmarshalBinaryOwes DEF Owed
<1>8. CASE UNCHANGED vars
  <2>1. kind' = kind /\ dest' = dest /\ from' = from /\ wire' = wire /\ origin' = origin
    BY <1>8 DEF vars
  <2>2. TypeOK'
    BY <2>1 DEF IInv, TypeOK
  <2>3. IInv'
    BY <2>1, <2>2 DEF IInv
  <2> QED BY <1>8, <2>3
<1> QED
  BY <1>1, <1>2, <1>3, <1>4, <1>5, <1>6, <1>7, <1>8 DEF Next

(* A new destination and an empty message.                                 *)
LEMMA IInvInit == Init => IInv
<1> SUFFICES ASSUME Init PROVE IInv
  OBVIOUS
<1>1. TypeOK
  BY SlotFacts DEF Init, TypeOK, NewDest, Nullable, Strict, Null, Slot
<1>2. WellFormed(wire)
  <2>1. wire.form = "text" /\ wire.text = Empty
    BY DEF Init, TextMsg
  <2>2. Spells(Empty)
    BY DEF Spells, Empty, NotNumber, Number
  <2> QED BY <2>1, <2>2 DEF WellFormed
<1> QED
  BY <1>1, <1>2 DEF Init, IInv

(* The wire and the destination stay as described, through any history of  *)
(* messages, calls and errors (codec.go, sql.go).                          *)
THEOREM ReceiversStayInLine == Spec => []IInv
<1>1. IInv /\ [Next]_vars => IInv'
  BY StepOwes
<1> QED
  BY IInvInit, <1>1, PTL DEF Spec

(* A destination holds a canonical Decimal, the zero value when it is not  *)
(* Valid, and nothing a driver delivered as a float if its type is strict. *)
THEOREM DestinationStaysCanonical == Spec => []TypeOK
<1>1. IInv => TypeOK
  BY DEF IInv
<1> QED
  BY ReceiversStayInLine, <1>1, PTL

(* Text, JSON, driver values and binary messages of every type are read    *)
(* back by every type that has the form; NULL is NULL or an error.         *)
THEOREM EveryRoundTrip == Spec => RoundTrips
<1>1. IInv /\ [Next]_vars => [Call /\ origin # None => Received]_vars
  BY StepOwes DEF Faithful
<1> QED
  BY ReceiversStayInLine, <1>1, PTL DEF Spec, RoundTrips

(* A failed Scan leaves NULL in a nullable destination, and no other failed *)
(* call of any decoder changes its destination.                            *)
THEOREM NoAmountGoesStale == Spec => NoStaleAmount
<1>1. IInv /\ [Next]_vars =>
        [UNCHANGED <<wire, origin>> /\ last'.err # "nil" =>
           dest' = IF Call /\ last'.op = "Scan" /\ kind \in Nullable THEN Null ELSE dest]_vars
  BY StepOwes DEF Fresh
<1> QED
  BY ReceiversStayInLine, <1>1, PTL DEF Spec, NoStaleAmount

(* UnmarshalBinary accepts one message per value, but for zero.            *)
THEOREM BinaryAlwaysCanonical == Spec => []BinaryCanonical
<1>1. IInv => BinaryCanonical
  BY BinaryReads DEF IInv, BinaryCanonical
<1> QED
  BY ReceiversStayInLine, <1>1, PTL

(* Rendering through the small-value cache gives what rendering without it *)
(* gives, for every Decimal a destination can hold.                        *)
THEOREM CacheNeverShows == Spec => []CacheTransparent
<1>1. IInv => CacheTransparent
  <2>1. IInv => dest.dec \in Decimals
    BY DEF IInv, TypeOK, Slots
  <2> QED BY <2>1, CacheIsTransparent DEF CacheTransparent
<1> QED
  BY ReceiversStayInLine, <1>1, PTL

----------------------------------------------------------------------------
(* Complete parsing.                                                       *)

(* The coefficient a number sig * 10^e needs, Cap if there is none below.  *)
AtExponent(sig, e) ==
  IF sig = 0 THEN 0
  ELSE IF e > 2*MaxPrec \/ e < -2*MaxPrec THEN Cap
  ELSE IF e >= 0
  THEN IF sig > (Cap - 1) \div Pow10[e] THEN Cap ELSE sig * Pow10[e]
  ELSE IF sig % Pow10[-e] = 0 THEN sig \div Pow10[-e]
  ELSE Cap

(* Without zeros at its end a number needs a nonnegative exponent.         *)
LEMMA AtExponentFits ==
  ASSUME NEW sig \in Nat, sig % 10 # 0, NEW e \in Int
  PROVE  LET Fits == e >= 0 /\ e <= 2*MaxPrec /\ sig * Pow10[e] < Cap
         IN  /\ (AtExponent(sig, e) < Cap) <=> Fits
             /\ Fits => AtExponent(sig, e) = sig * Pow10[e]
<1> DEFINE Fits == e >= 0 /\ e <= 2*MaxPrec /\ sig * Pow10[e] < Cap
<1>1. MaxPrec \in Nat /\ Cap \in Nat /\ Cap >= 16 /\ sig # 0 /\ ~(Cap < Cap)
  BY PowFacts, CapFacts
<1>2. CASE e > 2*MaxPrec \/ e < -2*MaxPrec
  <2>1. AtExponent(sig, e) = Cap
    BY <1>1, <1>2 DEF AtExponent
  <2>2. ~Fits
    BY <1>1, <1>2
  <2> QED BY <1>1, <2>1, <2>2
<1>3. CASE e >= 0 /\ e <= 2*MaxPrec
  <2> DEFINE w == Pow10[e]
             top == Cap - 1
             at == AtExponent(sig, e)
  <2>1. w \in Nat \ {0}
    <3>1. e \in 0..2*MaxPrec
      BY <1>1, <1>3
    <3> QED BY <3>1, TableAssumption
  <2>2. top \in Nat
    BY <1>1
  <2>3. ~(e > 2*MaxPrec \/ e < -2*MaxPrec)
    BY <1>1, <1>3
  <2>4. at = IF sig > top \div w THEN Cap ELSE sig * w
    BY <1>1, <1>3, <2>3 DEF AtExponent
  <2> HIDE DEF w, top, at
  <2>5. top \div w \in Nat /\ ((top \div w < sig) <=> (top < w * sig))
    BY <2>1, <2>2, DivBelow
  <2>6. sig * w \in Nat /\ w * sig = sig * w
    BY <2>1
  <2>7. (sig > top \div w) <=> ~(sig * w < Cap)
    BY <1>1, <2>5, <2>6 DEF top
  <2>8. ((at < Cap) <=> (sig * w < Cap)) /\ (sig * w < Cap => at = sig * w)
    BY <1>1, <2>4, <2>7
  <2> QED BY <1>3, <2>8 DEF at, w
<1>4. CASE e < 0 /\ e >= -2*MaxPrec
  <2> DEFINE k == -e
             j == k - 1
             w == Pow10[k]
  <2>1. j \in 0..(2*MaxPrec - 1) /\ j + 1 = k /\ k \in 0..2*MaxPrec
    BY <1>1, <1>4
  <2> HIDE DEF k
  <2>2. Pow10[j] \in Nat \ {0} /\ w = Pow10[j] * 10
    BY <2>1, PowStep
  <2>3. sig % w # 0
    <3> DEFINE v == Pow10[j]
               h == sig \div w
               hv == h * v
    <3>1. w \in Nat \ {0} /\ v \in Nat \ {0} /\ w = v * 10 /\ sig \in Int
      BY <2>2
    <3> HIDE DEF v, w
    <3>2. h \in Int /\ sig = w * h + (sig % w)
      BY <3>1, DivMod
    <3> HIDE DEF h
    <3>3. hv \in Int /\ w * h = hv * 10
      BY <3>1, <3>2
    <3> HIDE DEF hv
    <3>4. sig % w = 0 => sig = hv * 10
      BY <3>2, <3>3
    <3> QED BY <3>3, <3>4
  <2>4. AtExponent(sig, e) = Cap
    <3>1. ~(e >= 0) /\ ~(e > 2*MaxPrec \/ e < -2*MaxPrec)
      BY <1>1, <1>4
    <3> QED BY <1>1, <2>3, <3>1 DEF AtExponent, k
  <2> QED BY <1>1, <1>4, <2>4
<1> QED
  BY <1>1, <1>2, <1>3, <1>4

(* A number assembles exactly when some precision holds it, and then at    *)
(* the least one.                                                          *)
LEMMA AssemblesLeast ==
  ASSUME NEW sig \in Nat, sig % 10 # 0, NEW prec \in Int, NEW neg \in BOOLEAN
  PROVE  LET Hits(p) == AtExponent(sig, p - prec) < Cap
             d == Assembled(sig, prec, neg)
         IN  /\ Assembles(sig, prec) <=> \E p \in 0..MaxPrec : Hits(p)
             /\ Assembles(sig, prec) =>
                  /\ d.prec \in 0..MaxPrec
                  /\ d = NewDecimal(AtExponent(sig, d.prec - prec), neg, d.prec)
                  /\ \A p \in 0..(d.prec - 1) : ~Hits(p)
<1> DEFINE Hits(p) == AtExponent(sig, p - prec) < Cap
           d == Assembled(sig, prec, neg)
           least == IF prec >= 0 THEN prec ELSE 0
<1>1. MaxPrec \in Nat /\ Cap \in Nat /\ sig # 0
  BY PowFacts, CapFacts
<1>2. \A p \in Int : Hits(p) <=> /\ p - prec >= 0 /\ p - prec <= 2*MaxPrec
                                 /\ sig * Pow10[p - prec] < Cap
  <2> TAKE p \in Int
  <2> DEFINE e == p - prec
  <2>1. e \in Int
    OBVIOUS
  <2> HIDE DEF e
  <2>2. (AtExponent(sig, e) < Cap) <=> (e >= 0 /\ e <= 2*MaxPrec /\ sig * Pow10[e] < Cap)
    BY <2>1, AtExponentFits
  <2> QED BY <2>2 DEF e
<1>3. ASSUME Assembles(sig, prec)
      PROVE  /\ least \in 0..MaxPrec /\ Hits(least) /\ d.prec = least
             /\ d = NewDecimal(AtExponent(sig, least - prec), neg, least)
             /\ \A p \in 0..(least - 1) : ~Hits(p)
  <2> DEFINE e == least - prec
             c == sig * Pow10[e]
  <2>1. least \in 0..MaxPrec /\ e \in 0..2*MaxPrec /\ e \in Int /\ c < Cap
    <3>1. CASE prec >= 0
      <4>1. e = 0 /\ least = prec /\ prec <= MaxPrec /\ sig < Cap
        BY <1>3, <3>1 DEF Assembles
      <4>2. c = sig
        <5>1. Pow10[e] = 1
          BY <4>1, PowFacts
        <5> QED BY <5>1
      <4> QED BY <1>1, <3>1, <4>1, <4>2
    <3>2. CASE prec < 0
      <4>1. e = -prec /\ least = 0
        BY <3>2
      <4>2. -prec <= 2*MaxPrec /\ sig * Pow10[-prec] < Cap
        BY <1>3, <3>2 DEF Assembles
      <4>3. c < Cap
        BY <4>1, <4>2
      <4> QED BY <1>1, <3>2, <4>1, <4>2, <4>3
    <3> QED BY <3>1, <3>2
  <2>2. AtExponent(sig, e) = c /\ AtExponent(sig, e) < Cap
    <3>1. e >= 0 /\ e <= 2*MaxPrec /\ sig * Pow10[e] < Cap /\ e \in Int
      BY <1>1, <2>1
    <3> HIDE DEF e
    <3> QED BY <3>1, AtExponentFits
  <2>3. d = NewDecimal(c, neg, least)
    <3>1. CASE prec >= 0
      <4>1. e = 0 /\ least = prec
        BY <3>1
      <4>2. c = sig
        <5>1. Pow10[e] = 1
          BY <4>1, PowFacts
        <5> QED BY <5>1
      <4> QED BY <3>1, <4>1, <4>2 DEF Assembled
    <3>2. CASE prec < 0
      BY <3>2 DEF Assembled
    <3> QED BY <3>1, <3>2
  <2>4. c # 0
    <3> DEFINE w == Pow10[e]
    <3>1. w \in Nat \ {0}
      BY <2>1, TableAssumption
    <3> HIDE DEF w
    <3>2. sig * w # 0
      BY <1>1, <3>1
    <3> QED BY <3>2 DEF w
  <2>5. d.prec = least
    BY <2>3, <2>4 DEF NewDecimal, RawDecimal
  <2>6. ASSUME NEW p \in 0..(least - 1)
        PROVE  ~Hits(p)
    <3>1. p \in Int /\ ~(p - prec >= 0)
      BY <2>1, <2>6
    <3> QED BY <1>2, <3>1
  <2> QED BY <2>1, <2>2, <2>3, <2>5, <2>6
<1>4. ASSUME NEW p \in 0..MaxPrec, Hits(p)
      PROVE  Assembles(sig, prec)
  <2> DEFINE e == p - prec
             w == Pow10[e]
  <2>1. e \in 0..2*MaxPrec /\ sig * w < Cap
    <3>1. p \in Int
      BY <1>1
    <3> QED BY <1>1, <1>2, <1>4, <3>1
  <2>2. w \in Nat \ {0}
    BY <2>1, TableAssumption
  <2>3. prec <= MaxPrec
    BY <1>1, <2>1
  <2>4. sig < Cap
    <3> HIDE DEF w
    <3>1. sig <= sig * w /\ sig * w \in Nat
      BY <2>2
    <3> QED BY <1>1, <2>1, <3>1
  <2>5. ASSUME prec < 0 PROVE -prec <= 2*MaxPrec /\ sig * Pow10[-prec] < Cap
    <3> DEFINE v == Pow10[-prec]
    <3>1. -prec \in 0..2*MaxPrec /\ -prec <= e
      BY <1>1, <2>1, <2>5
    <3>2. v \in Nat \ {0} /\ v <= w
      BY <2>1, <3>1, PowRatio
    <3> HIDE DEF v, w
    <3>3. sig * v <= sig * w /\ sig * v \in Nat /\ sig * w \in Nat
      BY <2>2, <3>2
    <3> QED BY <1>1, <2>1, <3>1, <3>3 DEF v
  <2> QED BY <2>3, <2>4, <2>5 DEF Assembles
<1>5. Assembles(sig, prec) <=> \E p \in 0..MaxPrec : Hits(p)
  BY <1>3, <1>4
<1>6. Assembles(sig, prec) =>
        /\ d.prec \in 0..MaxPrec
        /\ d = NewDecimal(AtExponent(sig, d.prec - prec), neg, d.prec)
        /\ \A p \in 0..(d.prec - 1) : ~Hits(p)
  BY <1>3
<1> QED
  BY <1>5, <1>6

(* Strict parsing accepts a number exactly when some Decimal equals it,    *)
(* and answers with that Decimal at the least precision that holds it.     *)
THEOREM ParsingAlwaysComplete == Spec => []ParseComplete
<1> DEFINE text == wire.text
           sig == text.sig
           neg == text.neg
           prec == text.scale - text.zeros
           res == ParseCore(text)
           Hits(p) == AtExponent(sig, p - prec) < Cap
<1>1. ASSUME IInv, wire.form = "text", text.form = "number"
      PROVE  /\ res.err = "nil" <=> \E p \in 0..MaxPrec : Hits(p)
             /\ res.err = "nil" =>
                  /\ res.val = NewDecimal(AtExponent(sig, res.val.prec - prec), neg, res.val.prec)
                  /\ \A p \in 0..(res.val.prec - 1) : ~Hits(p)
  <2>1. Spells(text)
    BY <1>1 DEF IInv, WellFormed
  <2>2. sig \in Nat /\ prec \in Int /\ neg \in BOOLEAN /\ (sig # 0 => sig % 10 # 0)
    BY <2>1 DEF Spells
  <2>3. /\ sig = 0 => res = Ok(Zero)
        /\ sig # 0 => /\ (res.err = "nil") <=> Assembles(sig, prec)
                      /\ res.err = "nil" => res = Ok(Assembled(sig, prec, neg))
    BY <1>1, <2>1, NumberReads
  <2> HIDE DEF res, sig, prec, neg
  <2>4. CASE sig = 0
    <3>1. res.err = "nil" /\ res.val = Zero /\ Zero.prec = 0
      BY <2>3, <2>4 DEF Ok, Zero
    <3>2. \A e : AtExponent(sig, e) = 0
      BY <2>4 DEF AtExponent
    <3>3. 0 \in 0..MaxPrec /\ 0 < Cap
      BY PowFacts, CapFacts
    <3>4. NewDecimal(0, neg, 0) = Zero
      BY DEF NewDecimal
    <3> QED BY <3>1, <3>2, <3>3, <3>4
  <2>5. CASE sig # 0
    <3> DEFINE d == Assembled(sig, prec, neg)
    <3>1. /\ Assembles(sig, prec) <=> \E p \in 0..MaxPrec : Hits(p)
          /\ Assembles(sig, prec) =>
               /\ d = NewDecimal(AtExponent(sig, d.prec - prec), neg, d.prec)
               /\ \A p \in 0..(d.prec - 1) : ~Hits(p)
      BY <2>2, <2>5, AssemblesLeast
    <3> HIDE DEF d
    <3>2. /\ (res.err = "nil") <=> Assembles(sig, prec)
          /\ res.err = "nil" => res.val = d
      BY <2>3, <2>5 DEF Ok, d
    <3> QED BY <3>1, <3>2
  <2> QED BY <2>4, <2>5
<1>2. IInv => ParseComplete
  <2> SUFFICES ASSUME IInv, wire.form = "text", text.form = "number"
               PROVE  ParseComplete
    BY DEF ParseComplete
  <2> DEFINE At(p) == AtExponent(sig, p + text.zeros - text.scale)
  <2>1. Spells(text)
    BY DEF IInv, WellFormed
  <2>2. \A p \in Int : At(p) = AtExponent(sig, p - prec)
    <3>1. \A p \in Int : p + text.zeros - text.scale = p - prec
      BY <2>1 DEF Spells
    <3> QED BY <3>1
  <2>3. res.err = "nil" => res.val.prec \in Int
    <3>1. Reading(res)
      BY <2>1, TextReads
    <3> QED BY <3>1 DEF Reading, Decimals
  <2> HIDE DEF res, At
  <2>4. /\ res.err = "nil" <=> \E p \in 0..MaxPrec : At(p) < Cap
        /\ res.err = "nil" =>
             /\ res.val = NewDecimal(At(res.val.prec), neg, res.val.prec)
             /\ \A p \in 0..(res.val.prec - 1) : ~(At(p) < Cap)
    BY <1>1, <2>2, <2>3
  <2> QED BY <2>4 DEF ParseComplete, AtExponent, At, res
<1> QED
  BY ReceiversStayInLine, <1>2, PTL
=============================================================================
