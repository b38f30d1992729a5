------------------------------- MODULE Parser -------------------------------
(***************************************************************************)
(* How parse.go reads a literal: the short loop, the one-limb window, the  *)
(* two-limb plain path and the short scientific tail each decide for       *)
(* themselves and hand over to the general parsers what they decline.      *)
(* Strict parsing is shown to give what Text says of the number spelled,   *)
(* truncating parsing the value cut off after MaxPrec places.              *)
(*                                                                         *)
(* A literal is what the scanners see: an optional sign, leading zeros,    *)
(* the rest of the integer run, a point and a fraction run, then the end,  *)
(* an exponent or a byte that belongs to none of these.                    *)
(***************************************************************************)
EXTENDS Text, SequencesExt

CONSTANTS
  MaxParseLen,  \* bytes accepted: 200
  ShortCut,     \* fewer bytes than this take the short loop: 16
  Literals      \* the literals checked

(* No digits of the short loop wrap a word or exceed MaxPrec places.       *)
ASSUME ParserAssumption ==
  /\ ShortCut \in 2..(MaxPrec + 1) /\ MaxParseLen \in Nat \ {0}

VARIABLES
  lit, trunc,         \* the call: a literal, and whether excess is cut off
  pc,                 \* the path in force
  rest,               \* digits of the current run not yet folded
  coef, frac,         \* the coefficient so far and the places in it
  dropped, dropNZ,    \* digits past 128 bits, and the first nonzero one
  exp,                \* the exponent read
  out                 \* the answer
vars == <<lit, trunc, pc, rest, coef, frac, dropped, dropNZ, exp, out>>

Literal(sign, zeros, int, dot, fraction, tail, expSign, expDigits, junk) ==
  [sign |-> sign, zeros |-> zeros, int |-> int, dot |-> dot, frac |-> fraction,
   tail |-> tail, expSign |-> expSign, exp |-> expDigits, junk |-> junk]

(* What the scanners can have seen: a fraction only behind a point, digits  *)
(* and a sign of an exponent only in one, bytes of no literal at the end of *)
(* what is junk and of nothing that ends plainly.                           *)
IsLiteral(l) ==
  /\ l.sign \in {"", "-", "+"} /\ l.zeros \in Nat /\ l.dot \in BOOLEAN
  /\ l.int \in Seq(0..9) /\ l.frac \in Seq(0..9) /\ l.exp \in Seq(0..9)
  /\ l.tail \in {"end", "exp", "junk"} /\ l.expSign \in {"", "-", "+"} /\ l.junk \in Nat
  /\ ~l.dot => l.frac = <<>>
  /\ l.tail # "exp" => l.expSign = "" /\ l.exp = <<>>
  /\ l.tail = "end" <=> l.tail # "exp" /\ l.junk = 0
ASSUME LiteralsAssumption == \A l \in Literals : IsLiteral(l)

Zeros(n) == [i \in 1..n |-> 0]
IntRun(l) == Zeros(l.zeros) \o l.int
NoInt(l) == l.zeros = 0 /\ l.int = <<>>
One(cond) == IF cond THEN 1 ELSE 0
PointLen(l) == IF l.dot THEN 1 + Len(l.frac) ELSE 0
TailLen(l) == l.junk + IF l.tail = "exp" THEN 1 + One(l.expSign # "") + Len(l.exp) ELSE 0
Remaining(l) == Len(l.int) + PointLen(l) + TailLen(l)
Bytes(l) == One(l.sign # "") + l.zeros + Remaining(l)
IsNeg(l) == l.sign = "-"
EndsPlain(l) == l.tail = "end"

(* The number a run of digits denotes.                                     *)
DigitsVal(s) ==
  LET val[i \in 0..Len(s)] == IF i = 0 THEN 0 ELSE 10 * val[i - 1] + s[i]
  IN  val[Len(s)]

(* A run is folded in chunks that fill one limb, each with one multiply.   *)
Chunk(s) == SubSeq(s, 1, Smaller(Len(s), MaxPrec))
Beyond(s) == SubSeq(s, Len(Chunk(s)) + 1, Len(s))
Fold(c, digits) ==
  LET prod == Mul128by64(c, Pow10[Len(digits)])
      sum == Add128(prod.val, DigitsVal(digits))
  IN  [val |-> sum.val, over |-> prod.overflow # 0 \/ sum.carry # 0]

(* Trailing zeros of the fraction move into the precision.                 *)
Trimmed(c, prec) ==
  LET cut == CHOOSE t \in 0..prec :
               c % Pow10[t] = 0 /\ (t = prec \/ c % Pow10[t + 1] # 0)
  IN  Ok(NewDecimal(c \div Pow10[cut], IsNeg(lit), prec - cut))

(* The exponent, or that it is malformed.  It stops growing once it is     *)
(* past a bound beyond which only its sign matters.                        *)
(* Fault: the digits after the point are left out of that bound.           *)
ExpCapShort == 2*MaxPrec + 1
ExpCap == MaxParseLen + 2*MaxPrec + 1
BadExponent(l) == l.tail = "junk" \/ (l.tail = "exp" /\ (l.exp = <<>> \/ l.junk > 0))
ExpOf(l) ==
  LET mag[i \in 0..Len(l.exp)] ==
        IF i = 0 THEN 0
        ELSE LET m == mag[i - 1] IN IF m <= ExpCap THEN 10 * m + l.exp[i] ELSE m
  IN  IF l.expSign = "-" THEN -mag[Len(l.exp)] ELSE mag[Len(l.exp)]

----------------------------------------------------------------------------
Pending == Fail("pending")
Init ==
  /\ lit \in Literals /\ trunc \in BOOLEAN
  /\ pc = "core" /\ rest = <<>> /\ coef = 0 /\ frac = 0
  /\ dropped = 0 /\ dropNZ = 0 /\ exp = 0 /\ out = Pending

Return(res) ==
  /\ pc' = "done" /\ out' = res
  /\ UNCHANGED <<lit, trunc, rest, coef, frac, dropped, dropNZ, exp>>
Go(path) ==
  /\ pc' = path
  /\ UNCHANGED <<lit, trunc, rest, coef, frac, dropped, dropNZ, exp, out>>
(* The general parsers start over behind the sign.                         *)
General ==
  /\ pc' = IF trunc THEN "accumInt" ELSE "exact"
  /\ rest' = IntRun(lit) /\ coef' = 0 /\ frac' = 0
  /\ UNCHANGED <<lit, trunc, dropped, dropNZ, exp, out>>

(* parseCore: length, bare sign, then a path by the bytes that remain.     *)
CoreRefuse ==
  /\ pc = "core"
  /\ \/ Bytes(lit) = 0 /\ Return(Fail("EmptyString"))
     \/ Bytes(lit) > MaxParseLen /\ Return(Fail("MaxStrLen"))
     \/ Bytes(lit) = 1 /\ lit.sign # "" /\ Return(Fail("InvalidFormat"))
CoreDispatch ==
  /\ pc = "core"
  /\ Bytes(lit) \in 1..MaxParseLen /\ ~(Bytes(lit) = 1 /\ lit.sign # "")
  /\ Go(IF Remaining(lit) < ShortCut THEN "short"
        ELSE IF Remaining(lit) <= MaxPrec + 1 THEN "window" ELSE "long")

(* The short loop.  A point needs a digit before it and a byte after it.   *)
OneLimbVal(l) == DigitsVal(l.int \o l.frac) % Base
ShortPoint ==
  /\ pc = "short" /\ lit.dot
  /\ NoInt(lit) \/ (lit.frac = <<>> /\ TailLen(lit) = 0)
  /\ Return(Fail("InvalidFormat"))
ShortGoesOn == pc = "short" /\ (lit.dot => ~NoInt(lit) /\ (lit.frac # <<>> \/ TailLen(lit) > 0))
ShortPlain ==
  /\ ShortGoesOn /\ EndsPlain(lit)
  /\ Return(Trimmed(OneLimbVal(lit), Len(lit.frac)))
ShortScientific ==
  /\ ShortGoesOn /\ lit.tail = "exp" /\ ~trunc
  /\ IF NoInt(lit) \/ (lit.dot /\ lit.frac = <<>>)
     THEN Return(Fail("InvalidFormat"))
     ELSE /\ pc' = "shortExp" /\ coef' = OneLimbVal(lit) /\ frac' = Len(lit.frac)
          /\ UNCHANGED <<lit, trunc, rest, dropped, dropNZ, exp, out>>
ShortDecline ==
  /\ ShortGoesOn /\ (lit.tail = "junk" \/ (lit.tail = "exp" /\ trunc))
  /\ General

(* Precision of a coefficient without trailing zeros, or its scaling up.   *)
Canonical(c, effPrec) ==
  LET scaled == ScaleUpExact(c, -effPrec)
  IN  IF effPrec > MaxPrec THEN Fail("PrecOutOfRange")
      ELSE IF effPrec >= 0 THEN Ok(NewDecimal(c, IsNeg(lit), effPrec))
      ELSE IF scaled.err # "nil" THEN Fail(scaled.err)
      ELSE Ok(NewDecimal(scaled.val, IsNeg(lit), 0))
ParseShortScientific ==
  /\ pc = "shortExp"
  /\ LET trail == TrailingZeros(coef)
     IN  IF BadExponent(lit) THEN Return(Fail("InvalidFormat"))
         ELSE IF coef = 0 THEN Return(Ok(Zero))
         ELSE Return(Canonical(coef \div Pow10[trail], frac - ExpOf(lit) - trail))

(* parseWindow: at most MaxPrec digits around a point, or MaxPrec + 1      *)
(* without one, whose wrapped value still determines the number.           *)
(* Fault: the value is taken as if it had not wrapped.                     *)
WindowIntegerWrapped ==
  /\ pc = "window" /\ ~lit.dot /\ EndsPlain(lit)
  /\ Return(Ok(NewDecimal(OneLimbVal(lit), IsNeg(lit), 0)))

WindowInteger ==
  /\ pc = "window" /\ ~lit.dot /\ EndsPlain(lit)
  /\ LET lo == OneLimbVal(lit)
         lead == Mul128by64(Head(lit.int), Pow10[MaxPrec]).val
         tail == (lo - Head(lit.int) * Pow10[MaxPrec]) % Base
     IN  Return(Ok(NewDecimal(IF Remaining(lit) = MaxPrec + 1
                              THEN Add128(lead, tail).val ELSE lo, IsNeg(lit), 0)))
WindowFraction ==
  /\ pc = "window" /\ lit.dot /\ EndsPlain(lit)
  /\ lit.frac # <<>> /\ ~NoInt(lit)
  /\ Return(Trimmed(OneLimbVal(lit), Len(lit.frac)))
WindowDecline ==
  /\ pc = "window"
  /\ ~EndsPlain(lit) \/ (lit.dot /\ (lit.frac = <<>> \/ NoInt(lit)))
  /\ General

(* parseLongPlain: a plain literal of up to 2*MaxPrec + 1 digits; an       *)
(* overflow, too, is left for the general parser to confirm.               *)
LongDeclines(l) ==
  \/ ~EndsPlain(l)
  \/ l.dot /\ (l.frac = <<>> \/ Len(l.frac) > MaxPrec)
  \/ Len(l.int) > 2*MaxPrec + 1
  \/ l.dot /\ Len(l.int) + Len(l.frac) > 2*MaxPrec + 1 /\ Last(l.frac) = 0
LongPlain ==
  /\ pc = "long"
  /\ IF LongDeclines(lit) THEN General
     ELSE /\ pc' = "longInt" /\ rest' = lit.int /\ coef' = 0
          /\ UNCHANGED <<lit, trunc, frac, dropped, dropNZ, exp, out>>
FoldNext(onOverflow) ==
  LET grown == Fold(coef, Chunk(rest))
  IN  IF grown.over THEN onOverflow
      ELSE /\ coef' = grown.val /\ rest' = Beyond(rest)
           /\ UNCHANGED <<lit, trunc, pc, frac, dropped, dropNZ, exp, out>>
LongFold ==
  /\ pc = "longInt" /\ rest # <<>>
  /\ FoldNext(General)
(* Fault: the long path decides on overflow itself, zeros at the end or not. *)
LongFinishDecides ==
  /\ pc = "longInt" /\ rest = <<>>
  /\ LET grown == Fold(coef, lit.frac)
     IN  IF ~lit.dot THEN Return(Ok(NewDecimal(coef, IsNeg(lit), 0)))
         ELSE IF grown.over THEN Return(Fail("Overflow"))
         ELSE Return(Trimmed(grown.val, Len(lit.frac)))
LongFinish ==
  /\ pc = "longInt" /\ rest = <<>>
  /\ LET grown == Fold(coef, lit.frac)
     IN  IF ~lit.dot THEN Return(Ok(NewDecimal(coef, IsNeg(lit), 0)))
         ELSE IF grown.over THEN General
         ELSE Return(Trimmed(grown.val, Len(lit.frac)))

----------------------------------------------------------------------------
(* parseGeneralExact: grammar first, then the mantissa without the zeros   *)
(* at its end, and only then the ranges.                                   *)
Ungrammatical(l) == NoInt(l) \/ (l.dot /\ l.frac = <<>>) \/ BadExponent(l)
Mantissa(l) == IntRun(l) \o l.frac
EndZeros(s) == Len(s) - Max({0} \cup {i \in 1..Len(s) : s[i] # 0})
Kept(l) == SubSeq(Mantissa(l), 1, Len(Mantissa(l)) - EndZeros(Mantissa(l)))
ExactGrammar ==
  /\ pc = "exact"
  /\ IF Ungrammatical(lit) THEN Return(Fail("InvalidFormat"))
     ELSE IF Kept(lit) = <<>> THEN Return(Ok(Zero))
     ELSE /\ pc' = "exactInt" /\ coef' = 0 /\ exp' = ExpOf(lit)
          /\ rest' = SubSeq(Kept(lit), 1, Smaller(Len(Kept(lit)), Len(IntRun(lit))))
          /\ UNCHANGED <<lit, trunc, frac, dropped, dropNZ, out>>
FoldExactDigits ==
  /\ pc \in {"exactInt", "exactFrac"} /\ rest # <<>>
  /\ FoldNext(Return(Fail("Overflow")))
ExactFraction ==
  /\ pc = "exactInt" /\ rest = <<>>
  /\ pc' = "exactFrac" /\ rest' = SubSeq(Kept(lit), Len(IntRun(lit)) + 1, Len(Kept(lit)))
  /\ UNCHANGED <<lit, trunc, coef, frac, dropped, dropNZ, exp, out>>
ExactFinish ==
  /\ pc = "exactFrac" /\ rest = <<>>
  /\ Return(Canonical(coef, Len(lit.frac) - exp - EndZeros(Mantissa(lit))))

----------------------------------------------------------------------------
(* parseGeneral, truncating: accumRun keeps the digits that fit 128 bits   *)
(* and of the others only their number and the first that is not zero.     *)
Accumulating == pc \in {"accumInt", "accumFrac"} /\ rest # <<>>
Drop(digits) ==
  LET nz == {i \in 1..Len(digits) : digits[i] # 0}
  IN  /\ dropped' = dropped + Len(digits)
      /\ dropNZ' = IF dropNZ = 0 /\ nz # {} THEN dropped + Min(nz) ELSE dropNZ
(* The longest prefix of a chunk that still fits.                          *)
Fitting(digits) ==
  Max({k \in 0..Len(digits) : ~Fold(coef, SubSeq(digits, 1, k)).over})
AccumChunk ==
  /\ Accumulating /\ dropped = 0 /\ FoldNext(FALSE)
AccumReplay ==
  /\ Accumulating /\ dropped = 0 /\ Fold(coef, Chunk(rest)).over
  /\ LET fit == Fitting(Chunk(rest))
     IN  /\ coef' = Fold(coef, SubSeq(rest, 1, fit)).val
         /\ Drop(SubSeq(rest, fit + 1, Len(Chunk(rest))))
  /\ rest' = Beyond(rest)
  /\ UNCHANGED <<lit, trunc, pc, frac, exp, out>>
(* Fault: the index stays where the accumulator filled up.                 *)
AccumSaturatedStuck ==
  /\ Accumulating /\ dropped > 0
  /\ UNCHANGED vars
AccumSaturated ==
  /\ Accumulating /\ dropped > 0
  /\ Drop(rest) /\ rest' = <<>>
  /\ UNCHANGED <<lit, trunc, pc, coef, frac, exp, out>>

Exponent ==
  /\ IF BadExponent(lit) THEN Return(Fail("InvalidFormat"))
     ELSE /\ pc' = "drop" /\ exp' = ExpOf(lit) /\ frac' = Len(lit.frac)
          /\ UNCHANGED <<lit, trunc, rest, coef, dropped, dropNZ, out>>
AccumPoint ==
  /\ pc = "accumInt" /\ rest = <<>>
  /\ IF NoInt(lit) \/ (lit.dot /\ lit.frac = <<>>) THEN Return(Fail("InvalidFormat"))
     ELSE IF ~lit.dot THEN Exponent
     ELSE /\ pc' = "accumFrac" /\ rest' = lit.frac
          /\ UNCHANGED <<lit, trunc, coef, frac, dropped, dropNZ, exp, out>>
AccumExponent ==
  /\ pc = "accumFrac" /\ rest = <<>> /\ Exponent

(* The dropped digits that stand at or above the last place kept must all  *)
(* be zero, and no more than precision can take up.                        *)
(* Fault: the first nonzero digit may stand in the last place kept.        *)
KeepsDroppedLast ==
  LET shift == dropped - (frac - exp - MaxPrec)
  IN  shift > 0 /\ (shift > MaxPrec \/ (dropNZ # 0 /\ dropNZ < shift))
KeepsDropped ==
  LET shift == dropped - (frac - exp - MaxPrec)
  IN  shift > 0 /\ (shift > MaxPrec \/ (dropNZ # 0 /\ dropNZ <= shift))
DropTail ==
  /\ pc = "drop"
  /\ IF dropped > 0 /\ KeepsDropped THEN Return(Fail("Overflow"))
     ELSE /\ pc' = "scale" /\ frac' = frac - dropped
          /\ UNCHANGED <<lit, trunc, rest, coef, dropped, dropNZ, exp, out>>

EffPrec == frac - exp
TruncScaleUp ==
  /\ pc = "scale" /\ EffPrec < 0
  /\ LET scaled == ScaleUpExact(coef, -EffPrec)
     IN  Return(IF coef = 0 THEN Ok(Zero)
                ELSE IF scaled.err # "nil" THEN Fail(scaled.err)
                ELSE Trimmed(scaled.val, 0))
TruncInRange ==
  /\ pc = "scale" /\ EffPrec \in 0..MaxPrec
  /\ Return(Trimmed(coef, EffPrec))
TruncExcess ==
  /\ pc = "scale" /\ EffPrec > MaxPrec
  /\ LET excess == EffPrec - MaxPrec
         first == IF excess > MaxPrec THEN coef \div Pow10[MaxPrec] ELSE coef
         more == IF excess > MaxPrec THEN excess - MaxPrec ELSE excess
     IN  Return(IF excess > 2*MaxPrec THEN Ok(Zero)
                ELSE Trimmed(first \div Pow10[more], MaxPrec))

Next ==
  \/ CoreRefuse \/ CoreDispatch
  \/ ShortPoint \/ ShortPlain \/ ShortScientific \/ ShortDecline \/ ParseShortScientific
  \/ WindowInteger \/ WindowFraction \/ WindowDecline
  \/ LongPlain \/ LongFold \/ LongFinish
  \/ ExactGrammar \/ FoldExactDigits \/ ExactFraction \/ ExactFinish
  \/ AccumChunk \/ AccumReplay \/ AccumSaturated \/ AccumPoint \/ AccumExponent
  \/ DropTail \/ TruncScaleUp \/ TruncInRange \/ TruncExcess
Spec == Init /\ [][Next]_vars /\ WF_vars(Next)

----------------------------------------------------------------------------
Done == pc = "done"
Exp10(l) == (IF l.expSign = "-" THEN -1 ELSE 1) * DigitsVal(l.exp)
GrammarErr(l) ==
  IF Bytes(l) = 0 THEN "EmptyString" ELSE IF Bytes(l) > MaxParseLen THEN "MaxStrLen"
  ELSE IF Ungrammatical(l) THEN "InvalidFormat" ELSE "nil"

(* The number a literal spells, with the exponent as it is written and a   *)
(* significand of too many digits standing for any that exceeds 128 bits.  *)
Significant(l) ==
  LET kept == Kept(l)
      first == Min({Len(kept) + 1} \cup {i \in 1..Len(kept) : kept[i] # 0})
  IN  SubSeq(kept, first, Len(kept))
Spelled(l) ==
  CASE GrammarErr(l) = "EmptyString" -> Empty
    [] GrammarErr(l) = "MaxStrLen" -> TooLong
    [] GrammarErr(l) = "InvalidFormat" -> Malformed
    [] OTHER -> Number(IsNeg(l),
                       IF Len(Significant(l)) > 2*MaxPrec + 1 THEN Cap
                       ELSE DigitsVal(Significant(l)),
                       IF Kept(l) = <<>> THEN 0 ELSE EndZeros(Mantissa(l)),
                       Len(l.frac) - Exp10(l))

(* Every path of the strict parser, with its own overflow and precision    *)
(* tests, answers what Text says of the number the literal spells:         *)
(* parseCore, parseWindow, parseLongPlain and the general parsers agree    *)
(* (parse.go:246-262, "every error and truncation decision stays in        *)
(* exactly one place").                                                    *)
StrictIsText == Done /\ ~trunc => out = ParseCore(Spelled(lit))

(* The places a literal has, and its digits down to the last place kept.   *)
CutOff(l) ==
  LET places == Len(Significant(l)) + EndZeros(Mantissa(l)) - Len(l.frac) + Exp10(l) + MaxPrec
  IN  [i \in 1..places |-> IF i <= Len(Significant(l)) THEN Significant(l)[i] ELSE 0]

(* Truncating parsing gives the number cut off after MaxPrec places in     *)
(* canonical form, or overflows exactly when that does not fit; digits     *)
(* dropped past 128 bits are never missed (parse.go:644, NewFromStringTrunc).*)
TruncCutsOff ==
  LET cut == CutOff(lit)
      trim == Smaller(EndZeros(cut), MaxPrec)
      shown == SubSeq(cut, 1, Len(cut) - trim)
      fits == Len(shown) <= 2*MaxPrec + 1 /\ DigitsVal(shown) < Cap
  IN  Done /\ trunc =>
        out = IF GrammarErr(lit) # "nil" THEN Fail(GrammarErr(lit))
              ELSE IF Significant(lit) = <<>> \/ EndZeros(cut) = Len(cut) THEN Ok(Zero)
              ELSE IF fits THEN Ok(NewDecimal(DigitsVal(shown), IsNeg(lit), MaxPrec - trim))
              ELSE Fail("Overflow")

(* Every literal is answered: no path hands over for ever (parse.go:683).  *)
Terminates == <>Done
=============================================================================
