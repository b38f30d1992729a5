----------------------------- MODULE Aggregate -----------------------------
(***************************************************************************)
(* Sum, Avg, AvgExact and AvgRound of arith.go as one call that runs over  *)
(* its arguments: first two 128-bit subtotals while the terms share one    *)
(* precision (accumulateAggregateAdaptive), then, from the first term that *)
(* differs or whose addition carries, two 256-bit totals aligned to the    *)
(* greatest precision seen (aggregateFinishWide).  AvgExact and AvgRound   *)
(* scan the precisions first and use wide totals from the start.           *)
(* Positive and negative terms are kept apart until the end.               *)
(***************************************************************************)
EXTENDS Reference

CONSTANTS
  Inputs,       \* the Decimals a caller passes
  MaxTerms,     \* bound on the number of arguments: MaxInt + 1 in the code
  Ops,          \* the operations called
  Places,       \* the precisions asked of AvgRound
  CallModes     \* the rounding modes asked of AvgRound

(* The bound in aggregateAccum's comment: at most 2^63 terms, each below   *)
(* 10^19 * 2^128 when aligned, stay below 2^255.                           *)
ASSUME TermsAssumption ==
  /\ Inputs \subseteq Decimals
  /\ MaxTerms \in Nat /\ MaxTerms >= 1 /\ MaxTerms * Pow10[MaxPrec] < Cap
(* A requested precision is an unsigned byte.                              *)
ASSUME PlacesAssumption == Places \subseteq Nat

VARIABLES
  op, args, places, mode,   \* the call: first and rest together are args
  pc,                       \* the phase the call is in
  i,                        \* the next argument
  prec, pos, neg,           \* the common precision and the two totals
  res                       \* the answer, Pending until there is one

call == <<op, args, places, mode>>
vars == <<call, pc, i, prec, pos, neg, res>>

Pending == [val |-> Zero, err |-> "pending"]
Phases == {"entry", "skip", "narrow", "wide", "aligned", "done"}
Count == Len(args)
Term == args[i]

Init ==
  /\ op \in Ops
  /\ args \in UNION {[1..n -> Inputs] : n \in 1..MaxTerms}
  /\ places \in IF op = "AvgRound" THEN Places ELSE {0}
  /\ mode \in IF op = "AvgRound" THEN CallModes ELSE {"TowardZero"}
  /\ pc = "entry" /\ i = 1
  /\ prec = 0 /\ pos = 0 /\ neg = 0
  /\ res = Pending

(* Fault: the answer is set but the call goes on.                          *)
AnswerFallsThrough(r) == res' = r /\ UNCHANGED <<call, pc, i, prec, pos, neg>>
Answer(r) == /\ res' = r /\ pc' = "done"
             /\ UNCHANGED <<call, i, prec, pos, neg>>
GoTo(phase) == /\ pc' = phase
               /\ UNCHANGED <<call, i, prec, pos, neg, res>>

(* Skip an argument that is zero: it only moves the index.                 *)
Pass == i' = i + 1 /\ UNCHANGED <<call, pc, prec, pos, neg, res>>

----------------------------------------------------------------------------
(* Entry of Sum and Avg: two arguments go through Add.                     *)
PairSum ==
  /\ pc = "entry" /\ op = "Sum" /\ Count = 2
  /\ Answer(Add(args[1], args[2]))

PairAvg ==
  /\ pc = "entry" /\ op = "Avg" /\ Count = 2
  /\ LET total == Add(args[1], args[2])
     IN  IF total.err = "nil" THEN Answer(Div(total.val, NewFromUint64(Count)))
                              ELSE GoTo("skip")

EnterAdaptive ==
  /\ pc = "entry" /\ op \in {"Sum", "Avg"} /\ Count # 2
  /\ GoTo("skip")

(* Leading zeros are dropped, the last argument never is.                  *)
SkipZero == pc = "skip" /\ Term.coef = 0 /\ i < Count /\ Pass

LoadFirst ==
  /\ pc = "skip" /\ (Term.coef # 0 \/ i = Count)
  /\ prec' = Term.prec
  /\ IF Term.neg THEN neg' = Term.coef /\ pos' = pos
                 ELSE pos' = Term.coef /\ neg' = neg
  /\ i' = i + 1 /\ pc' = "narrow"
  /\ UNCHANGED <<call, res>>

----------------------------------------------------------------------------
(* accumulateAggregateAdaptive: add into a 128-bit subtotal; a carry takes *)
(* the addition back, so that the term can be added again while wide.      *)
NarrowZero == pc = "narrow" /\ i <= Count /\ Term.coef = 0 /\ Pass

(* Fault: the handoff adopts the precision of the term that differs.       *)
HandoffPrecEarly ==
  /\ pc = "narrow" /\ i <= Count /\ Term.coef # 0 /\ Term.prec # prec
  /\ prec' = Term.prec /\ pc' = "wide"
  /\ UNCHANGED <<call, i, pos, neg, res>>

HandoffPrec ==
  /\ pc = "narrow" /\ i <= Count /\ Term.coef # 0 /\ Term.prec # prec
  /\ GoTo("wide")

Subtotal == IF Term.neg THEN neg ELSE pos
SetSubtotal(u) == IF Term.neg THEN neg' = u /\ pos' = pos
                              ELSE pos' = u /\ neg' = neg

(* Fault: the addition that carried is not taken back.                     *)
NarrowAddKept ==
  /\ pc = "narrow" /\ i <= Count /\ Term.coef # 0 /\ Term.prec = prec
  /\ LET sum == Add128(Subtotal, Term.coef)
     IN  /\ SetSubtotal(sum.val)
         /\ IF sum.carry = 0 THEN i' = i + 1 /\ pc' = "narrow" ELSE i' = i /\ pc' = "wide"
  /\ UNCHANGED <<call, prec, res>>

NarrowAdd ==
  /\ pc = "narrow" /\ i <= Count /\ Term.coef # 0 /\ Term.prec = prec
  /\ LET sum == Add128(Subtotal, Term.coef)
     IN  IF sum.carry = 0
         THEN SetSubtotal(sum.val) /\ i' = i + 1 /\ pc' = "narrow"
         ELSE SetSubtotal(Sub128(sum.val, Term.coef).val) /\ i' = i /\ pc' = "wide"
  /\ UNCHANGED <<call, prec, res>>

(* signedMagnitude: |pos - neg| and its sign.                              *)
Magnitude == Abs(pos - neg)
IsNegative == pos < neg

NarrowDone ==
  /\ pc = "narrow" /\ i > Count
  /\ LET total == NewDecimal(Magnitude, IsNegative, prec)
     IN  Answer(IF op = "Sum" THEN Ok(total) ELSE Div(total, NewFromUint64(Count)))

----------------------------------------------------------------------------
(* aggregateFinishWide: a finer term first lifts both totals.              *)
WideZero == pc \in {"wide", "aligned"} /\ i <= Count /\ Term.coef = 0 /\ Pass

(* Fault: a finer term lifts the totals by its whole precision.            *)
WideAddOverlifted ==
  /\ pc = "wide" /\ i <= Count /\ Term.coef # 0
  /\ LET finer == Larger(Term.prec, prec)
         Lift(u) == IF finer = prec THEN u ELSE Mul256(u, Pow10[finer])
         term == Term.coef * Pow10[finer - Term.prec]
     IN  /\ prec' = finer
         /\ pos' = IF Term.neg THEN Lift(pos) ELSE Add256(Lift(pos), term)
         /\ neg' = IF Term.neg THEN Add256(Lift(neg), term) ELSE Lift(neg)
  /\ i' = i + 1
  /\ UNCHANGED <<call, pc, res>>

WideAdd ==
  /\ pc = "wide" /\ i <= Count /\ Term.coef # 0
  /\ LET finer == Larger(Term.prec, prec)
         Lift(u) == IF finer = prec THEN u ELSE Mul256(u, Pow10[finer - prec])
         term == Term.coef * Pow10[finer - Term.prec]
     IN  /\ prec' = finer
         /\ pos' = IF Term.neg THEN Lift(pos) ELSE Add256(Lift(pos), term)
         /\ neg' = IF Term.neg THEN Add256(Lift(neg), term) ELSE Lift(neg)
  /\ i' = i + 1
  /\ UNCHANGED <<call, pc, res>>

(* accumulateAggregate: the greatest precision first, then aligned sums.   *)
Prescan ==
  /\ pc = "entry"
  /\ op = "AvgExact" \/ (op = "AvgRound" /\ places <= MaxPrec /\ mode \in Modes)
  /\ prec' = CHOOSE p \in 0..MaxPrec : /\ \E j \in 1..Count : args[j].prec = p
                                       /\ \A j \in 1..Count : args[j].prec <= p
  /\ pc' = "aligned"
  /\ UNCHANGED <<call, i, pos, neg, res>>

AlignedAdd ==
  /\ pc = "aligned" /\ i <= Count /\ Term.coef # 0
  /\ SetSubtotal(Add256(Subtotal, Term.coef * Pow10[prec - Term.prec]))
  /\ i' = i + 1
  /\ UNCHANGED <<call, pc, prec, res>>

WideSumDone ==
  /\ pc = "wide" /\ i > Count /\ op = "Sum"
  /\ Answer(IF ZeroUpper(Magnitude) THEN Ok(NewDecimal(Magnitude, IsNegative, prec))
                                    ELSE Fail("Overflow"))

----------------------------------------------------------------------------
(* aggregateAverageAt: the mean total/count at p fractional digits, from   *)
(* the one wide division base = total \div count, with the exact fraction  *)
(* num/den that is left over.                                              *)
(* Fault: below the totals' precision the remainder of the division by the *)
(* count is forgotten.                                                     *)
AverageAtForgets(base, baseRem, p) ==
  IF p >= prec
  THEN LET num == baseRem * Pow10[p - prec]
       IN  [q |-> Add256(Mul256(base, Pow10[p - prec]), num \div Count),
            num |-> num % Count, den |-> Count]
  ELSE LET scale == Pow10[prec - p]
       IN  [q |-> base \div scale, num |-> Count * (base % scale), den |-> Count * scale]

AverageAt(base, baseRem, p) ==
  IF p >= prec
  THEN LET scale == Pow10[p - prec]
           num == baseRem * scale
       IN  [q |-> Add256(Mul256(base, scale), num \div Count),
            num |-> num % Count, den |-> Count]
  ELSE LET scale == Pow10[prec - p]
       IN  [q |-> base \div scale,
            num |-> Count * (base % scale) + baseRem, den |-> Count * scale]

MeanAt(p) == AverageAt(Magnitude \div Count, Magnitude % Count, p)

(* Fault: below the limit only precision 0 is tried.                       *)
GreatestFitHasty(limit) ==
  LET Fits(p) == ZeroUpper(MeanAt(p).q)
  IN  IF Fits(limit) THEN limit ELSE IF Fits(0) THEN 0 ELSE -1

(* aggregateGreatestFit: the greatest precision up to limit whose          *)
(* coefficient fits, or -1; hi is unsigned, so mid = 0 must leave the loop. *)
GreatestFit(limit) ==
  LET Fits(p) == ZeroUpper(MeanAt(p).q)
      Bounds(lo, hi, best) == [lo |-> lo, hi |-> hi, best |-> best]
      search[s \in [lo : 0..MaxPrec, hi : 0..(MaxPrec - 1), best : -1..MaxPrec]] ==
        LET mid == (s.lo + s.hi) \div 2
        IN  IF s.lo > s.hi THEN s.best
            ELSE IF Fits(mid) THEN search[Bounds(mid + 1, s.hi, mid)]
            ELSE IF mid = 0 THEN s.best
            ELSE search[Bounds(s.lo, mid - 1, s.best)]
  IN  IF Fits(limit) THEN limit
      ELSE IF limit = 0 THEN -1
      ELSE search[Bounds(0, limit - 1, -1)]

WideAvgDone ==
  /\ pc = "wide" /\ i > Count /\ op = "Avg"
  /\ LET p == GreatestFit(DefaultPrec)
     IN  Answer(IF p = -1 THEN Fail("Overflow") ELSE Ok(NewDecimal(MeanAt(p).q, IsNegative, p)))

AvgExactDone ==
  /\ pc = "aligned" /\ i > Count /\ op = "AvgExact"
  /\ LET p == GreatestFit(MaxPrec)
         mean == MeanAt(p)
     IN  Answer(IF p = -1 THEN Fail("Overflow")
                ELSE IF mean.num = 0 THEN Ok(NewDecimal(mean.q, IsNegative, p))
                ELSE IF mean.q = 0 THEN Fail("Underflow")
                ELSE Fail("Inexact"))

AvgRoundRefused ==
  /\ pc = "entry" /\ op = "AvgRound" /\ (places > MaxPrec \/ mode \notin Modes)
  /\ Answer(Fail(IF places > MaxPrec THEN "PrecOutOfRange" ELSE "InvalidRoundingMode"))

AvgRoundDone ==
  /\ pc = "aligned" /\ i > Count /\ op = "AvgRound"
  /\ LET mean == MeanAt(places)
         rounded == RoundQuotient(mean.q, mean.num # 0, CmpDouble128(mean.num, mean.den),
                                  IsNegative, mode)
     IN  Answer(IF ~ZeroUpper(mean.q) THEN Fail("Overflow")
                ELSE IF rounded.err # "nil" THEN Fail(rounded.err)
                ELSE Ok(NewDecimal(rounded.val, IsNegative, places)))

(* The call has returned; nothing more happens.                            *)
Returned == pc = "done" /\ UNCHANGED vars

Step ==
  \/ PairSum \/ PairAvg \/ EnterAdaptive
  \/ SkipZero \/ LoadFirst
  \/ NarrowZero \/ HandoffPrec \/ NarrowAdd \/ NarrowDone
  \/ WideZero \/ WideAdd \/ WideSumDone \/ WideAvgDone
  \/ Prescan \/ AlignedAdd \/ AvgExactDone \/ AvgRoundRefused \/ AvgRoundDone
Next == Step \/ Returned

Spec == Init /\ [][Next]_vars

----------------------------------------------------------------------------
(* Type invariant: the totals are 128-bit until the call goes wide and     *)
(* 256-bit afterwards, and there is no answer before the call returns.     *)
TypeOK ==
  /\ op \in Ops /\ places \in Places \cup {0}
  /\ args \in Seq(Decimals) /\ Count \in 1..MaxTerms
  /\ pc \in Phases /\ i \in 1..(Count + 1)
  /\ prec \in 0..MaxPrec
  /\ pos \in U256 /\ neg \in U256
  /\ pc \in {"entry", "skip", "narrow"} => pos \in U128 /\ neg \in U128
  /\ pc # "done" => res = Pending

(* No total ever comes near its width: after n terms each is below         *)
(* n * 2^128 * 10^prec, which the caller's bound on n keeps below 2^255    *)
(* (the proof obligation in aggregateAccum's comment, on which every       *)
(* dropped carry of aggregateAdd192 and aggregateMul256by64 rests).        *)
NoWrap ==
  /\ pos <= (i - 1) * ((Cap - 1) * Pow10[prec])
  /\ neg <= (i - 1) * ((Cap - 1) * Pow10[prec])

(* The precision of the totals is the greatest precision of the terms they *)
(* hold: no term was ever added at a precision below its own.              *)
PrecCovers ==
  /\ pc \in {"skip", "narrow", "wide"} => \A j \in 1..(i - 1) : args[j].prec <= prec
  /\ pc \in {"narrow", "wide", "aligned"} => \E j \in 1..Count : args[j].prec = prec
  /\ pc = "aligned" => \A j \in 1..Count : args[j].prec <= prec

(* Sum implements the abstract exact summation: each step adds one         *)
(* argument to the exact total or changes nothing, whichever mixture of    *)
(* narrow, taken-back and aligned additions the arguments lead through.    *)
Exact128 == INSTANCE ExactSum WITH
              total <- (pos - neg) * Pow10[MaxPrec - prec],
              res <- IF op = "Sum" THEN res ELSE Pending
SumIsExact == Exact128!Spec

(* The exact total of the arguments, in units of 10^-MaxPrec, and the      *)
(* denominator that makes it their mean.                                   *)
ExactTotal ==
  LET sum[n \in 0..Count] == IF n = 0 THEN 0 ELSE sum[n - 1] + Scaled(args[n])
  IN  sum[Count]
MeanDen == Count * Pow10[MaxPrec]

(* Avg truncates the exact mean at the greatest precision up to            *)
(* DefaultPrec whose coefficient fits, through Add and Div, through narrow *)
(* subtotals and Div, or from the wide total; it never fails, although the *)
(* sum itself may not be representable.                                    *)
AvgTruncatesMean ==
  op = "Avg" /\ pc = "done" =>
    LET Quotient(p) == (Abs(ExactTotal) * Pow10[p]) \div MeanDen
        Fits(p) == Quotient(p) < Cap
    IN  /\ res.err = "nil"
        /\ \E p \in 0..DefaultPrec :
             /\ Fits(p) /\ \A q \in (p + 1)..DefaultPrec : ~Fits(q)
             /\ res.val = NewDecimal(Quotient(p), ExactTotal < 0, p)

(* AvgExact returns the mean when it is a Decimal, at the greatest         *)
(* precision that fits, and otherwise says why it is none.  AvgRound       *)
(* rounds the exact mean once, straight to the requested precision, from   *)
(* the remainder the wide division left.                                   *)
AvgExactOrRounded ==
  pc = "done" =>
    /\ op = "AvgExact" =>
         /\ Classified(Abs(ExactTotal), MeanDen, ExactTotal < 0, res.val, res.err)
         /\ res.err = "nil" /\ res.val # Zero /\ res.val.prec < MaxPrec => res.val.coef * 10 >= Cap
    /\ op = "AvgRound" =>
         IF places > MaxPrec \/ mode \notin Modes
         THEN res = Fail(IF places > MaxPrec THEN "PrecOutOfRange" ELSE "InvalidRoundingMode")
         ELSE RoundsOnce(Abs(ExactTotal) * Pow10[places], MeanDen, ExactTotal < 0,
                         places, mode, res.val, res.err)
=============================================================================
