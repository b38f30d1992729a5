--------------------------- MODULE AggregateProofs ---------------------------
(***************************************************************************)
(* Theorems about Aggregate for every word size, every greatest precision  *)
(* and every number of arguments the width argument of arith.go allows:    *)
(* the totals never wrap, the precision covers every term added, and Sum   *)
(* implements the exact summation ExactSum.                                *)
(***************************************************************************)
EXTENDS Aggregate, ArithProofs

----------------------------------------------------------------------------
(* The arithmetic of the width argument.                                   *)
LEMMA BoundBelowWide ==
  ASSUME NEW n \in 0..MaxTerms, NEW q \in 0..MaxPrec
  PROVE  n * ((Cap - 1) * Pow10[q]) \in Nat /\ n * ((Cap - 1) * Pow10[q]) < Wide
<1>1. Pow10[q] \in Nat /\ Pow10[MaxPrec] \in Nat /\ Pow10[q] <= Pow10[MaxPrec]
  BY PowSplit, PowFacts
<1>2. n * Pow10[q] <= MaxTerms * Pow10[MaxPrec]
  BY <1>1, TermsAssumption
<1>3. n * Pow10[q] \in Nat /\ n * Pow10[q] <= Cap
  BY <1>1, <1>2, TermsAssumption, CapFacts
<1>4. n * ((Cap - 1) * Pow10[q]) = (Cap - 1) * (n * Pow10[q])
  BY <1>1, CapFacts
<1>5. (Cap - 1) * (n * Pow10[q]) <= (Cap - 1) * Cap
  BY <1>3, CapFacts
<1>6. (Cap - 1) * Cap < Cap * Cap
  BY CapFacts
<1> QED
  BY <1>1, <1>3, <1>4, <1>5, <1>6, CapFacts

(* Lifting a total to a finer precision is exact: nothing wraps.           *)
LEMMA LiftExact ==
  ASSUME NEW n \in 0..MaxTerms, NEW p \in 0..MaxPrec, NEW q \in 0..MaxPrec, p <= q,
         NEW u \in Nat, u <= n * ((Cap - 1) * Pow10[p])
  PROVE  /\ u * Pow10[q - p] \in Nat
         /\ u * Pow10[q - p] <= n * ((Cap - 1) * Pow10[q])
         /\ Mul256(u, Pow10[q - p]) = u * Pow10[q - p]
<1> DEFINE s == Pow10[q - p]
<1>1. s \in Nat /\ Pow10[p] \in Nat /\ Pow10[q] = Pow10[p] * s
  BY PowSplit
<1>2. (n * ((Cap - 1) * Pow10[p])) * s = n * ((Cap - 1) * Pow10[q])
  BY <1>1, CapFacts
<1>3. u * s <= (n * ((Cap - 1) * Pow10[p])) * s
  BY <1>1, CapFacts
<1>4. u * s \in Nat /\ u * s < Wide
  BY <1>1, <1>2, <1>3, BoundBelowWide, CapFacts
<1> QED
  BY <1>2, <1>3, <1>4, CapFacts DEF Mul256

(* A term aligned to a finer precision.                                    *)
LEMMA TermBound ==
  ASSUME NEW c \in 0..(Cap - 1), NEW p \in 0..MaxPrec, NEW q \in 0..MaxPrec, p <= q
  PROVE  /\ c * Pow10[q - p] \in Nat
         /\ c * Pow10[q - p] <= (Cap - 1) * Pow10[q]
<1>1. Pow10[q - p] \in Nat /\ Pow10[q] \in Nat /\ Pow10[q - p] <= Pow10[q]
  BY PowSplit
<1>2. c * Pow10[q - p] <= (Cap - 1) * Pow10[q - p]
  BY <1>1, CapFacts
<1>3. (Cap - 1) * Pow10[q - p] <= (Cap - 1) * Pow10[q]
  BY <1>1, CapFacts
<1> QED
  BY <1>1, <1>2, <1>3, CapFacts

(* Adding the bounded term numbered m to the bounded total of the terms    *)
(* before it does not wrap.                                                *)
LEMMA AddExact ==
  ASSUME NEW m \in 1..MaxTerms, NEW q \in 0..MaxPrec,
         NEW u \in Nat, u <= (m - 1) * ((Cap - 1) * Pow10[q]),
         NEW t \in Nat, t <= (Cap - 1) * Pow10[q]
  PROVE  /\ Add256(u, t) = u + t
         /\ u + t \in Nat
         /\ u + t <= m * ((Cap - 1) * Pow10[q])
         /\ u <= m * ((Cap - 1) * Pow10[q])
<1> DEFINE B == (Cap - 1) * Pow10[q]
<1>1. Pow10[q] \in Nat /\ B \in Nat
  BY PowSplit, CapFacts
<1>2. m \in Nat /\ m \in 0..MaxTerms
  BY TermsAssumption
<1>3. m * B < Wide
  BY <1>2, BoundBelowWide
<1>4. u + t <= m * B /\ u <= m * B /\ m * B \in Nat
  <2> HIDE DEF B
  <2>1. (m - 1) * B + B = m * B /\ m * B \in Nat
    BY <1>1, <1>2
  <2> QED
    BY <1>1, <1>2, <2>1 DEF B
<1>5. Add256(u, t) = u + t
  <2> HIDE DEF B
  <2> QED
    BY <1>3, <1>4, CapFacts DEF Add256
<1> QED
  BY <1>4, <1>5

----------------------------------------------------------------------------
(* The inductive invariant.  To the type, the width bound and the covering *)
(* precision it adds what a phase has not touched yet: both totals are     *)
(* zero until the first term is loaded, and the skipped terms are zeros.   *)
Totals ==
  /\ prec \in 0..MaxPrec /\ pos \in Nat /\ neg \in Nat
  /\ pc \in {"entry", "skip"} => pos = 0 /\ neg = 0 /\ prec = 0
  /\ pc = "narrow" => pos \in U128 /\ neg \in U128
Cursor ==
  /\ pc \in Phases /\ i \in 1..(Count + 1)
  /\ pc = "entry" => i = 1
  /\ pc = "skip" => i <= Count /\ \A j \in 1..(i - 1) : args[j] = Zero
CallOK ==
  /\ op \in Ops /\ places \in Places \cup {0}
  /\ args \in Seq(Inputs) /\ Count \in 1..MaxTerms
IInv ==
  /\ CallOK /\ Cursor /\ Totals /\ NoWrap /\ PrecCovers
  /\ pc # "done" => res = Pending

(* A call starts with no totals and nothing added.                         *)
LEMMA InitIInv == Init => IInv
<1> SUFFICES ASSUME Init PROVE IInv
  OBVIOUS
<1> USE DEF Init
<1>1. CallOK
  <2>1. PICK n \in 1..MaxTerms : args \in [1..n -> Inputs]
    OBVIOUS
  <2>2. n \in Nat /\ n \in 1..MaxTerms
    BY TermsAssumption
  <2>3. args \in Seq(Inputs) /\ Len(args) = n
    BY <2>1, <2>2
  <2> QED
    BY <2>2, <2>3 DEF CallOK, Count
<1>2. Cursor
  BY <1>1, TermsAssumption DEF Cursor, CallOK, Phases, Count
<1>3. Totals
  BY PowFacts DEF Totals
<1>4. NoWrap
  BY PowFacts, CapFacts DEF NoWrap
<1>5. PrecCovers
  BY DEF PrecCovers
<1> QED
  BY <1>1, <1>2, <1>3, <1>4, <1>5 DEF IInv

(* What a term in front of the index is.                                   *)
LEMMA TermFacts ==
  ASSUME IInv, i <= Count
  PROVE  /\ Term \in Decimals /\ Term.coef \in 0..(Cap - 1) /\ Term.neg \in BOOLEAN
         /\ Term.prec \in 0..MaxPrec /\ (Term.coef = 0 => Term = Zero)
         /\ i \in Nat /\ i \in 1..Count /\ i - 1 \in 0..(MaxTerms - 1) /\ i + 1 \in 1..(Count + 1)
<1>1. i \in 1..Len(args) /\ args \in Seq(Inputs) /\ Len(args) \in 1..MaxTerms
  BY DEF IInv, Cursor, CallOK, Count
<1>2. args[i] \in Decimals
  BY <1>1, TermsAssumption
<1> QED
  BY <1>1, <1>2, TermsAssumption DEF Term, Decimals, U128, Count

(* The arguments have a greatest precision, and only one.                  *)
LEMMA GreatestPrecExists ==
  ASSUME CallOK
  PROVE  \E p \in 0..MaxPrec : /\ \E j \in 1..Count : args[j].prec = p
                               /\ \A j \in 1..Count : args[j].prec <= p
<1> DEFINE precs == {args[j].prec : j \in 1..Count}
<1>1. Count \in Nat /\ Count >= 1 /\ \A j \in 1..Count : args[j] \in Decimals
  BY TermsAssumption DEF CallOK, Count
<1>2. \A j \in 1..Count : args[j].prec \in 0..MaxPrec
  BY <1>1 DEF Decimals
<1>3. precs \in SUBSET Nat /\ precs # {} /\ \A p \in precs : p <= MaxPrec
  <2>1. \A p \in precs : p \in Nat /\ p <= MaxPrec
    BY <1>2, PowFacts
  <2>2. args[1].prec \in precs
    BY <1>1
  <2> QED
    BY <2>1, <2>2
<1>4. MaxPrec \in Nat
  BY PowFacts
<1>5. \E p \in precs : \A q \in precs : q <= p
  <2> HIDE DEF precs
  <2> QED
    BY <1>3, <1>4, GreatestNatural
<1> QED
  BY <1>2, <1>5

(* Every step of a call keeps the invariant, one case per action.          *)
LEMMA NextIInv == IInv /\ [Next]_vars => IInv'
<1> SUFFICES ASSUME IInv, [Next]_vars PROVE IInv'
  OBVIOUS
<1> USE DEF Count, Term
<1>1. ASSUME UNCHANGED <<call, i, prec, pos, neg>>, pc' = "done" PROVE IInv'
  <2>1. CallOK' /\ Cursor'
    BY <1>1 DEF IInv, CallOK, Cursor, call, Phases
  <2>2. Totals' /\ NoWrap' /\ PrecCovers'
    BY <1>1 DEF IInv, Totals, NoWrap, PrecCovers
  <2> QED
    BY <1>1, <2>1, <2>2 DEF IInv
<1>2. CASE PairSum \/ WideSumDone \/ WideAvgDone \/ AvgExactDone \/ AvgRoundDone
           \/ AvgRoundRefused \/ NarrowDone
  BY <1>1, <1>2 DEF PairSum, WideSumDone, WideAvgDone, AvgExactDone, AvgRoundDone,
     AvgRoundRefused, NarrowDone, Answer
<1>3. ASSUME pc = "entry", GoTo("skip") PROVE IInv'
  <2>1. CallOK' /\ Cursor'
    BY <1>3 DEF GoTo, IInv, CallOK, Cursor, call, Phases
  <2>2. Totals' /\ NoWrap' /\ PrecCovers'
    BY <1>3, <2>1 DEF GoTo, IInv, CallOK, Cursor, Totals, NoWrap, PrecCovers, call
  <2> QED
    BY <1>3, <2>1, <2>2 DEF GoTo, IInv
<1>4. CASE PairAvg
  BY <1>1, <1>3, <1>4 DEF PairAvg, Answer
<1>5. CASE EnterAdaptive
  BY <1>3, <1>5 DEF EnterAdaptive
<1>6. CASE SkipZero
  <2>1. Term = Zero /\ i \in Nat /\ i + 1 \in 1..Count
    BY <1>6, TermFacts DEF SkipZero, IInv, Cursor, CallOK
  <2>2. CallOK' /\ Totals'
    BY <1>6 DEF SkipZero, Pass, IInv, CallOK, Totals, call
  <2>3. \A j \in 1..i : args[j] = Zero
    BY <1>6, <2>1 DEF SkipZero, IInv, Cursor, CallOK
  <2>4. Cursor'
    BY <1>6, <2>1, <2>3 DEF SkipZero, Pass, IInv, Cursor, CallOK, call
  <2>5. NoWrap'
    BY <1>6, <2>1, CapFacts, PowFacts DEF SkipZero, Pass, IInv, Totals, NoWrap
  <2>6. PrecCovers'
    <3>1. prec = 0 /\ pc' = "skip" /\ i' = i + 1 /\ args' = args /\ prec' = prec
      BY <1>6 DEF SkipZero, Pass, IInv, Totals, call
    <3>2. \A j \in 1..i : args[j].prec = 0
      BY <2>3 DEF Zero
    <3>3. i' - 1 = i /\ prec' = 0
      BY <2>1, <3>1
    <3>4. \A j \in 1..(i' - 1) : args'[j].prec <= prec'
      BY <3>1, <3>2, <3>3
    <3> QED
      BY <3>1, <3>4 DEF PrecCovers
  <2> QED
    BY <1>6, <2>2, <2>4, <2>5, <2>6 DEF SkipZero, Pass, IInv
<1>7. CASE LoadFirst
  <2>1. i \in Nat /\ i \in 1..Count /\ i + 1 \in 1..(Count + 1)
        /\ i - 1 \in 0..(MaxTerms - 1)
    BY <1>7, TermFacts DEF LoadFirst, IInv, Cursor, CallOK
  <2>2. /\ Term.coef \in 0..(Cap - 1) /\ Term.prec \in 0..MaxPrec
        /\ pos = 0 /\ neg = 0 /\ prec = 0 /\ i <= Count
    BY <1>7, TermFacts DEF LoadFirst, IInv, Cursor, Totals
  <2>3. /\ prec' = Term.prec /\ pos' \in {0, Term.coef} /\ neg' \in {0, Term.coef}
        /\ i' = i + 1 /\ pc' = "narrow" /\ UNCHANGED <<call, res>>
    BY <1>7, <2>2 DEF LoadFirst
  <2>4. CallOK' /\ Cursor' /\ Totals'
    BY <2>1, <2>2, <2>3, CapFacts DEF IInv, CallOK, Cursor, Totals, call, U128, Phases
  <2>5. Term.coef <= (Cap - 1) * Pow10[prec'] /\ (Cap - 1) * Pow10[prec'] \in Nat
    <3>1. Pow10[prec'] \in Nat /\ Pow10[prec'] >= 1
      BY <2>2, <2>3, PowFacts
    <3>2. \A k \in Nat : k >= 1 => (Cap - 1) * k \in Nat /\ Cap - 1 <= (Cap - 1) * k
      BY CapFacts
    <3> QED
      BY <2>2, <3>1, <3>2, CapFacts
  <2>6. \A n \in Nat : n <= i * n
    BY <2>1
  <2>7. pos' <= i * ((Cap - 1) * Pow10[prec']) /\ neg' <= i * ((Cap - 1) * Pow10[prec'])
    <3> DEFINE B == (Cap - 1) * Pow10[prec']
    <3>1. B \in Nat /\ Term.coef <= B /\ B <= i * B /\ i * B \in Nat
      BY <2>1, <2>5, <2>6
    <3>2. \A c \in {0, Term.coef} : c <= i * B
      <4> HIDE DEF B
      <4> QED
        BY <2>2, <3>1
    <3> QED
      BY <2>3, <3>2
  <2>8. NoWrap'
    BY <2>1, <2>3, <2>7 DEF NoWrap
  <2>9. PrecCovers'
    <3>1. \A j \in 1..(i - 1) : args[j].prec <= Term.prec
      BY <1>7, <2>1, <2>2 DEF LoadFirst, IInv, Cursor, Zero
    <3>2. \A j \in 1..i : args[j].prec <= Term.prec
      BY <2>1, <2>2, <3>1
    <3> QED
      BY <2>1, <2>2, <2>3, <3>2 DEF PrecCovers, call
  <2> QED
    BY <1>7, <2>3, <2>4, <2>8, <2>9 DEF IInv, LoadFirst
<1>8. CASE NarrowZero \/ WideZero
  <2>1. /\ i \in Nat /\ i \in 1..Count /\ i + 1 \in 1..(Count + 1) /\ Term = Zero
        /\ i' = i + 1 /\ pc \in {"narrow", "wide", "aligned"}
        /\ UNCHANGED <<call, pc, prec, pos, neg, res>>
    BY <1>8, TermFacts DEF NarrowZero, WideZero, Pass
  <2>2. CallOK' /\ Cursor' /\ Totals'
    BY <2>1 DEF IInv, CallOK, Cursor, Totals, call
  <2>3. NoWrap'
    <3>1. Pow10[prec] \in Nat /\ (Cap - 1) * Pow10[prec] \in Nat
      BY PowFacts, CapFacts DEF IInv, Totals
    <3>2. \A n \in Nat : (i - 1) * n <= i * n
      BY <2>1
    <3>3. (i - 1) * ((Cap - 1) * Pow10[prec]) <= i * ((Cap - 1) * Pow10[prec])
      BY <3>1, <3>2
    <3>4. (i - 1) * ((Cap - 1) * Pow10[prec]) \in Int /\ i * ((Cap - 1) * Pow10[prec]) \in Int
      BY <3>1, <2>1
    <3> QED
      BY <2>1, <3>3, <3>4 DEF NoWrap, IInv, Totals
  <2>4. PrecCovers'
    BY <2>1, PowFacts DEF IInv, PrecCovers, Totals, Zero, call
  <2> QED
    BY <2>1, <2>2, <2>3, <2>4 DEF IInv
<1>9. CASE HandoffPrec
  BY <1>9 DEF HandoffPrec, GoTo, call, Phases, IInv, CallOK, Cursor, Totals, NoWrap, PrecCovers
<1>10. CASE NarrowAdd
  <2>1. /\ Term.coef \in 0..(Cap - 1) /\ Term.prec = prec /\ Term.neg \in BOOLEAN
        /\ i \in Nat /\ i \in 1..Count /\ i + 1 \in 1..(Count + 1) /\ i - 1 \in 0..(MaxTerms - 1)
        /\ pc = "narrow" /\ UNCHANGED <<call, prec, res>>
    BY <1>10, TermFacts DEF NarrowAdd
  <2>2. pos \in 0..(Cap - 1) /\ neg \in 0..(Cap - 1) /\ prec \in 0..MaxPrec
    BY <2>1 DEF IInv, Totals, U128
  <2>3. Pow10[prec] \in Nat /\ (Cap - 1) * Pow10[prec] \in Nat
        /\ Term.coef <= (Cap - 1) * Pow10[prec]
    <3>1. Pow10[prec] \in Nat /\ Pow10[prec] >= 1
      BY <2>2, PowFacts
    <3>2. \A k \in Nat : k >= 1 => (Cap - 1) * k \in Nat /\ Cap - 1 <= (Cap - 1) * k
      BY CapFacts
    <3> QED
      BY <2>1, <3>1, <3>2, CapFacts
  <2>4. CASE Subtotal + Term.coef < Cap
    <3>1. /\ SetSubtotal(Subtotal + Term.coef) /\ i' = i + 1 /\ pc' = "narrow"
      BY <1>10, <2>4 DEF NarrowAdd, Add128
    <3>2. CallOK' /\ Cursor' /\ Totals'
      BY <2>1, <2>2, <2>4, <3>1, CapFacts
         DEF IInv, CallOK, Cursor, Totals, SetSubtotal, Subtotal, U128, Phases, call
    <3>3. NoWrap'
      <4> DEFINE B == (Cap - 1) * Pow10[prec]
      <4>1. \A n \in Nat : i * n = (i - 1) * n + n /\ (i - 1) * n \in Nat
        BY <2>1
      <4>2. B \in Nat /\ Term.coef <= B /\ pos <= (i - 1) * B /\ neg <= (i - 1) * B
        BY <2>3 DEF IInv, NoWrap
      <4>3. i * B = (i - 1) * B + B /\ (i - 1) * B \in Nat
        BY <4>1, <4>2
      <4>4. pos' <= i * B /\ neg' <= i * B
        <5> HIDE DEF B
        <5> QED
          BY <2>1, <2>2, <3>1, <4>2, <4>3 DEF SetSubtotal, Subtotal
      <4> QED
        BY <2>1, <3>1, <4>4 DEF NoWrap
    <3>4. PrecCovers'
      BY <2>1, <2>2, <3>1 DEF IInv, PrecCovers, call
    <3> QED
      BY <2>1, <3>1, <3>2, <3>3, <3>4 DEF IInv
  <2>5. CASE ~(Subtotal + Term.coef < Cap)
    <3>1. SetSubtotal(Sub128(Subtotal + Term.coef - Cap, Term.coef).val)
          /\ i' = i /\ pc' = "wide"
      BY <1>10, <2>5 DEF NarrowAdd, Add128
    <3>2. Sub128(Subtotal + Term.coef - Cap, Term.coef).val = Subtotal
      BY <2>1, <2>2, CapFacts DEF Sub128, Subtotal
    <3>3. UNCHANGED <<call, i, prec, pos, neg, res>>
      BY <2>1, <3>1, <3>2 DEF SetSubtotal, Subtotal
    <3> QED
      BY <2>1, <3>1, <3>3 DEF call, Phases, IInv, CallOK, Cursor, Totals, NoWrap, PrecCovers
  <2> QED
    BY <2>4, <2>5
<1>11. CASE WideAdd
  <2> DEFINE finer == Larger(Term.prec, prec)
             n == i - 1
             Bound(q) == (Cap - 1) * Pow10[q]
             term == Term.coef * Pow10[finer - Term.prec]
             Lift(u) == IF finer = prec THEN u ELSE Mul256(u, Pow10[finer - prec])
  <2>1. /\ Term.coef \in 0..(Cap - 1) /\ Term.neg \in BOOLEAN /\ Term.prec \in 0..MaxPrec
        /\ i \in Nat /\ i \in 1..Count /\ i + 1 \in 1..(Count + 1) /\ n \in 0..(MaxTerms - 1)
        /\ pc = "wide" /\ UNCHANGED <<call, pc, res>> /\ i' = i + 1 /\ prec' = finer
    BY <1>11, TermFacts DEF WideAdd
  <2>2. prec \in 0..MaxPrec /\ pos \in Nat /\ neg \in Nat
    BY DEF IInv, Totals
  <2>3. finer \in 0..MaxPrec /\ Term.prec <= finer /\ prec <= finer
    BY <2>1, <2>2 DEF Larger
  <2>4. term \in Nat /\ term <= Bound(finer)
    BY <2>1, <2>3, TermBound
  <2>5. ASSUME NEW u \in Nat, u <= n * Bound(prec)
        PROVE  Lift(u) \in Nat /\ Lift(u) <= n * Bound(finer)
    <3>1. n \in 0..MaxTerms
      BY <2>1, TermsAssumption
    <3> QED
      BY <2>2, <2>3, <2>5, <3>1, LiftExact
  <2>6. ASSUME NEW u \in Nat, u <= n * Bound(finer)
        PROVE  /\ Add256(u, term) \in Nat /\ Add256(u, term) <= i * Bound(finer)
               /\ u <= i * Bound(finer)
    <3>1. i \in 1..MaxTerms /\ n = i - 1
      BY <2>1, TermsAssumption
    <3> HIDE DEF term, finer
    <3> QED
      BY <2>3, <2>4, <2>6, <3>1, AddExact
  <2>7. pos <= n * Bound(prec) /\ neg <= n * Bound(prec)
    BY DEF IInv, NoWrap
  <2>8. /\ pos' \in Nat /\ pos' <= i * Bound(finer)
        /\ neg' \in Nat /\ neg' <= i * Bound(finer)
    <3>1. pos' = IF Term.neg THEN Lift(pos) ELSE Add256(Lift(pos), term)
      BY <1>11 DEF WideAdd
    <3>2. neg' = IF Term.neg THEN Add256(Lift(neg), term) ELSE Lift(neg)
      BY <1>11 DEF WideAdd
    <3> HIDE DEF Lift, term, Bound, finer, n
    <3> QED
      BY <2>1, <2>2, <2>5, <2>6, <2>7, <3>1, <3>2
  <2>9. CallOK' /\ Cursor' /\ Totals'
    BY <2>1, <2>3, <2>8 DEF IInv, CallOK, Cursor, Totals, call
  <2>10. NoWrap'
    BY <2>1, <2>8 DEF NoWrap
  <2>11. PrecCovers'
    <3>1. \A j \in 1..i : args[j].prec <= finer
      <4>1. \A j \in 1..(i - 1) : args[j].prec <= prec /\ args[j].prec \in Nat
        <5>1. \A j \in 1..(i - 1) : args[j] \in Decimals
          BY <2>1, TermsAssumption DEF IInv, CallOK
        <5> QED
          BY <2>1, <5>1 DEF IInv, PrecCovers, Decimals
      <4> HIDE DEF finer
      <4> QED
        BY <2>1, <2>2, <2>3, <4>1
    <3>2. \E j \in 1..Count : args[j].prec = finer
      BY <2>1, <2>2 DEF IInv, PrecCovers, Larger
    <3>3. i' - 1 = i /\ args' = args /\ pc' = "wide" /\ prec' = finer
      BY <2>1 DEF call
    <3> HIDE DEF finer
    <3> QED
      BY <3>1, <3>2, <3>3 DEF PrecCovers
  <2> QED
    BY <2>1, <2>9, <2>10, <2>11 DEF IInv
<1>12. CASE Prescan
  <2> DEFINE Greatest(p) == /\ \E j \in 1..Count : args[j].prec = p
                            /\ \A j \in 1..Count : args[j].prec <= p
  <2>1. \E p \in 0..MaxPrec : Greatest(p)
    BY GreatestPrecExists DEF IInv
  <2>2. prec' \in 0..MaxPrec /\ Greatest(prec')
    <3>1. prec' = CHOOSE p \in 0..MaxPrec : Greatest(p)
      BY <1>12 DEF Prescan
    <3> HIDE DEF Greatest
    <3> QED
      BY <2>1, <3>1
  <2>3. pc = "entry" /\ pc' = "aligned" /\ UNCHANGED <<call, i, pos, neg, res>>
    BY <1>12 DEF Prescan
  <2>4. i = 1 /\ pos = 0 /\ neg = 0
    BY <2>3 DEF IInv, Cursor, Totals
  <2>5. CallOK' /\ Cursor' /\ Totals' /\ PrecCovers'
    BY <2>2, <2>3, <2>4 DEF IInv, CallOK, Cursor, Totals, PrecCovers, call, Phases
  <2>6. NoWrap'
    BY <2>2, <2>3, <2>4, PowFacts, CapFacts DEF NoWrap
  <2> QED
    BY <2>3, <2>5, <2>6 DEF IInv
<1>13. CASE AlignedAdd
  <2> DEFINE n == i - 1
             B == (Cap - 1) * Pow10[prec]
             term == Term.coef * Pow10[prec - Term.prec]
  <2>1. /\ Term.coef \in 0..(Cap - 1) /\ Term.neg \in BOOLEAN /\ Term.prec \in 0..MaxPrec
        /\ i \in Nat /\ i \in 1..Count /\ i + 1 \in 1..(Count + 1) /\ n \in 0..(MaxTerms - 1)
        /\ pc = "aligned" /\ UNCHANGED <<call, pc, prec, res>> /\ i' = i + 1
    BY <1>13, TermFacts DEF AlignedAdd
  <2>2. prec \in 0..MaxPrec /\ pos \in Nat /\ neg \in Nat /\ Term.prec <= prec
    BY <2>1 DEF IInv, Totals, PrecCovers
  <2>3. term \in Nat /\ term <= B
    BY <2>1, <2>2, TermBound
  <2>4. ASSUME NEW u \in Nat, u <= n * B
        PROVE  Add256(u, term) \in Nat /\ Add256(u, term) <= i * B /\ u <= i * B
    <3>1. i \in 1..MaxTerms /\ n = i - 1
      BY <2>1, TermsAssumption
    <3> HIDE DEF term
    <3> QED
      BY <2>2, <2>3, <2>4, <3>1, AddExact
  <2>5. pos <= n * B /\ neg <= n * B
    BY DEF IInv, NoWrap
  <2>6. /\ pos' \in Nat /\ pos' <= i * B
        /\ neg' \in Nat /\ neg' <= i * B
    <3>1. SetSubtotal(Add256(Subtotal, term))
      BY <1>13 DEF AlignedAdd
    <3> HIDE DEF term, B, n
    <3> QED
      BY <2>1, <2>2, <2>4, <2>5, <3>1 DEF SetSubtotal, Subtotal
  <2>7. CallOK' /\ Cursor' /\ Totals' /\ PrecCovers'
    BY <2>1, <2>2, <2>6 DEF IInv, CallOK, Cursor, Totals, PrecCovers, call
  <2>8. NoWrap'
    BY <2>1, <2>6 DEF NoWrap
  <2> QED
    BY <2>1, <2>7, <2>8 DEF IInv
<1>14. CASE UNCHANGED vars
  <2>1. CallOK' /\ Cursor' /\ Totals'
    BY <1>14 DEF vars, call, IInv, CallOK, Cursor, Totals
  <2>2. NoWrap' /\ PrecCovers'
    BY <1>14 DEF vars, call, IInv, NoWrap, PrecCovers
  <2> QED
    BY <1>14, <2>1, <2>2 DEF vars, IInv
<1> QED
  BY <1>2, <1>4, <1>5, <1>6, <1>7, <1>8, <1>9, <1>10, <1>11, <1>12, <1>13, <1>14
     DEF Next, Step, Returned

(* Every call keeps the inductive invariant.                               *)
LEMMA Inductive == Spec => []IInv
  BY InitIInv, NextIInv, PTL DEF Spec

(* The invariant's typing part is the type invariant.                      *)
LEMMA IInvTypeOK == IInv => TypeOK
<1> SUFFICES ASSUME IInv PROVE TypeOK
  OBVIOUS
<1>1. args \in Seq(Decimals)
  BY TermsAssumption DEF IInv, CallOK
<1>2. pos \in U256 /\ neg \in U256
  <2>1. i - 1 \in 0..MaxTerms /\ prec \in 0..MaxPrec /\ pos \in Nat /\ neg \in Nat
    BY TermsAssumption DEF IInv, CallOK, Cursor, Totals, Count
  <2>2. (i - 1) * ((Cap - 1) * Pow10[prec]) < Wide
        /\ (i - 1) * ((Cap - 1) * Pow10[prec]) \in Nat
    BY <2>1, BoundBelowWide
  <2>3. pos < Wide /\ neg < Wide
    BY <2>1, <2>2, CapFacts DEF IInv, NoWrap
  <2> QED
    BY <2>1, <2>3, CapFacts DEF U256
<1>3. pc \in {"entry", "skip", "narrow"} => pos \in U128 /\ neg \in U128
  BY CapFacts DEF IInv, Totals, U128
<1> QED
  BY <1>1, <1>2, <1>3 DEF IInv, CallOK, Cursor, Totals, TypeOK

(* Type correctness of Sum, Avg, AvgExact and AvgRound: in particular the  *)
(* totals stay within 256 bits for every legal number of arguments.        *)
THEOREM AggregateTypeOK == Spec => []TypeOK
<1>1. IInv => TypeOK
  BY IInvTypeOK
<1> QED
  BY <1>1, Inductive, PTL

(* The width argument of aggregateAccum's comment: after n terms each      *)
(* total is at most n * (2^128 - 1) * 10^prec, so that the carries which   *)
(* aggregateAdd192 and aggregateMul256by64 drop are always zero.           *)
THEOREM TotalsNeverWrap == Spec => []NoWrap
<1>1. IInv => NoWrap
  BY DEF IInv
<1> QED
  BY <1>1, Inductive, PTL

(* No term is ever added at a precision below its own, and the precision   *)
(* of the totals is always that of some argument.                          *)
THEOREM PrecisionCovers == Spec => []PrecCovers
<1>1. IInv => PrecCovers
  BY DEF IInv
<1> QED
  BY <1>1, Inductive, PTL
----------------------------------------------------------------------------
(* Sum implements the exact summation of ExactSum: the mapped total moves  *)
(* by exactly one argument or not at all, through every mixture of narrow, *)
(* taken-back, lifted and aligned additions, and the answer is the         *)
(* abstract one.                                                           *)


(* The abstract module's copies of the shared definitions are the shared   *)
(* definitions.                                                            *)
LEMMA SameDecimals == Exact128!Decimals = Decimals
  BY DEF Exact128!Decimals, Decimals, Exact128!U128, U128, Exact128!Cap, Cap,
     Exact128!Zero, Zero
(* The abstract module's operators are those of the detailed one.          *)
LEMMA SameScaled == \A d : Exact128!Scaled(d) = Scaled(d)
  BY DEF Exact128!Scaled, Scaled, Exact128!Signed, Signed
(* A call without an answer looks the same in both.                        *)
LEMMA SamePending == Exact128!Pending = Pending
  BY DEF Exact128!Pending, Pending, Exact128!Zero, Zero
(* The abstract answer is the SumOf of the lemmas about Add.               *)
LEMMA SameAnswer == \A n, p : Exact128!SumAnswer(n, p) = SumOf(n, p)
  BY DEF Exact128!SumAnswer, SumOf, Exact128!Abs, Abs, Exact128!Cap, Cap, Exact128!Fail, Fail,
     Exact128!Ok, Ok, Exact128!NewDecimal, NewDecimal, Exact128!RawDecimal, RawDecimal,
     Exact128!Zero, Zero

Total == (pos - neg) * Pow10[MaxPrec - prec]
SumRes == IF op = "Sum" THEN res ELSE Pending

(* Initial states of Sum map to initial states of the exact summation.     *)
LEMMA SumInit == Init => Exact128!Init
<1> SUFFICES ASSUME Init PROVE Exact128!Init
  OBVIOUS
<1>1. CallOK
  BY InitIInv DEF IInv
<1>2. args \in Seq(Decimals) /\ args # <<>>
  BY <1>1, TermsAssumption DEF CallOK, Count
<1>3. Total = 0
  <2>1. Pow10[MaxPrec - 0] \in Nat
    BY PowFacts
  <2> QED
    BY <2>1 DEF Init, Total
<1> QED
  BY <1>2, <1>3, SameDecimals, SamePending DEF Init, Exact128!Init, Total, SumRes

----------------------------------------------------------------------------
(* The three ways a step looks from the abstract side.                     *)
LEMMA StutterStep ==
  ASSUME UNCHANGED <<args, i>>, Total' = Total, SumRes' = SumRes
  PROVE  [Exact128!Next]_(Exact128!vars)
  BY DEF Exact128!vars, Total, SumRes

(* Consuming a term abstractly: the total grows by its exact value.        *)
LEMMA ConsumeStep ==
  ASSUME IInv, i <= Count, pc # "done", pc' # "done", UNCHANGED <<args, op, res>>, i' = i + 1,
         Total' = Total + Scaled(Term)
  PROVE  [Exact128!Next]_(Exact128!vars)
<1>1. SumRes = Pending /\ SumRes' = Pending
  BY DEF IInv, SumRes
<1>2. Total' = Total + Exact128!Scaled(args[i])
  BY SameScaled DEF Term
<1>3. Exact128!Consume
  BY <1>1, <1>2, SamePending DEF Exact128!Consume, Total, SumRes, Count
<1> QED
  BY <1>3 DEF Exact128!Next

(* The greatest precision of the terms is the one the totals have.         *)
LEMMA GreatestPrecIs ==
  ASSUME NEW p \in 0..MaxPrec, IInv, \E j \in 1..Count : args[j].prec = p,
         \A j \in 1..Count : args[j].prec <= p
  PROVE  Exact128!GreatestPrec(args) = p
<1> DEFINE G(q) == /\ \E j \in 1..Len(args) : args[j].prec = q
                   /\ \A j \in 1..Len(args) : args[j].prec <= q
<1>1. G(p)
  BY DEF Count
<1>2. ASSUME NEW q \in 0..MaxPrec, G(q) PROVE q = p
  <2>1. p <= q /\ q <= p
    BY <1>1, <1>2
  <2> QED
    BY <2>1, PowFacts
<1>3. Exact128!GreatestPrec(args) = CHOOSE q \in 0..MaxPrec : G(q)
  BY DEF Exact128!GreatestPrec
<1> HIDE DEF G
<1> QED
  BY <1>1, <1>2, <1>3

(* After the last argument the answer is that of the exact total.          *)
LEMMA AnswerStep ==
  ASSUME IInv, pc \in {"narrow", "wide"}, i > Count, op = "Sum",
         UNCHANGED <<call, i, prec, pos, neg>>, res' = Exactly(pos - neg, prec)
  PROVE  [Exact128!Next]_(Exact128!vars)
<1>1. i = Count + 1 /\ Count \in Nat
  BY DEF IInv, Cursor, CallOK, Count
<1>2. prec \in 0..MaxPrec /\ pos - neg \in Int
  BY DEF IInv, Totals
<1>3. Exact128!GreatestPrec(args) = prec
  <2>1. \A j \in 1..Count : args[j].prec <= prec
    BY <1>1 DEF IInv, PrecCovers
  <2>2. \E j \in 1..Count : args[j].prec = prec
    BY DEF IInv, PrecCovers
  <2> QED
    BY <1>2, <2>1, <2>2, GreatestPrecIs
<1>4. res' = SumOf(Total, prec)
  BY <1>2, SumOfExactly DEF Total
<1>5. SumRes = Pending /\ SumRes' = res' /\ Total' = Total /\ args' = args
  BY DEF IInv, SumRes, Total, call
<1>6. Exact128!Answer
  BY <1>1, <1>3, <1>4, <1>5, SameAnswer, SamePending
     DEF Exact128!Answer, Total, SumRes, Count
<1> QED
  BY <1>6 DEF Exact128!Next

----------------------------------------------------------------------------
(* Adding a term at precision q to totals that have been lifted to q.      *)
LEMMA TotalStep ==
  ASSUME NEW q \in 0..MaxPrec, IInv, i <= Count, prec <= q, Term.prec <= q, prec' = q,
         pos' - neg' = (pos - neg) * Pow10[q - prec]
                         + WithSign(Term.coef * Pow10[q - Term.prec], Term.neg)
  PROVE  Total' = Total + Scaled(Term)
<1> DEFINE t == WithSign(Term.coef * Pow10[q - Term.prec], Term.neg)
           L == Pow10[q - prec]
           S == Pow10[MaxPrec - q]
<1>1. Term \in Decimals /\ prec \in 0..MaxPrec /\ pos \in Nat /\ neg \in Nat
  BY TermFacts DEF IInv, Totals
<1>2. t \in Int /\ Scaled(Term) = t * S
  BY <1>1, ScaledSplit
<1>3. L \in Nat /\ S \in Nat
  <2>1. L \in Nat
    BY <1>1, PowSplit
  <2>2. MaxPrec \in 0..MaxPrec /\ q <= MaxPrec
    BY PowFacts
  <2> QED
    BY <2>1, <2>2, PowSplit
<1>4. Pow10[MaxPrec - prec] = L * S
  <2>1. /\ q - prec \in 0..2*MaxPrec /\ MaxPrec - q \in 0..2*MaxPrec
        /\ (q - prec) + (MaxPrec - q) = MaxPrec - prec /\ MaxPrec - prec <= 2*MaxPrec
    BY <1>1, PowFacts
  <2> QED
    BY <2>1, PowFacts
<1>5. Total' = ((pos - neg) * L + t) * S
  BY DEF Total
<1>6. Total = (pos - neg) * (L * S)
  BY <1>4 DEF Total
<1>7. \A n, l, s, u \in Int : (n * l + u) * s = n * (l * s) + u * s
  OBVIOUS
<1> HIDE DEF t, L, S
<1> QED
  BY <1>1, <1>2, <1>3, <1>5, <1>6, <1>7

(* The same when the precision stays: the totals move by the aligned term. *)
LEMMA TotalStepHere ==
  ASSUME IInv, i <= Count, Term.prec <= prec, prec' = prec,
         pos' - neg' = (pos - neg) + WithSign(Term.coef * Pow10[prec - Term.prec], Term.neg)
  PROVE  Total' = Total + Scaled(Term)
<1>1. prec \in 0..MaxPrec /\ pos \in Nat /\ neg \in Nat
  BY DEF IInv, Totals
<1>2. Pow10[prec - prec] = 1 /\ (pos - neg) * 1 = pos - neg
  BY <1>1, PowFacts
<1> QED
  BY <1>1, <1>2, TotalStep

(* Skipping a zero consumes a term of value 0.                             *)
LEMMA NoTerm == ASSUME IInv, i <= Count, Term.coef = 0, UNCHANGED <<pos, neg, prec>>
                PROVE  Total' = Total + Scaled(Term)
<1>1. Term = Zero /\ prec \in 0..MaxPrec /\ pos \in Nat /\ neg \in Nat
  BY TermFacts DEF IInv, Totals
<1>2. Scaled(Term) = 0
  <2>1. Pow10[MaxPrec - 0] \in Nat
    BY PowFacts
  <2> QED
    BY <1>1, <2>1 DEF Scaled, Signed, Zero
<1>3. Total' = Total /\ Total \in Int
  <2>1. Pow10[MaxPrec - prec] \in Nat
    BY <1>1, PowFacts
  <2> QED
    BY <1>1, <2>1 DEF Total
<1> QED
  BY <1>2, <1>3

(* A narrow addition consumes a term, or is taken back and changes nothing. *)
LEMMA NarrowAddStep == IInv /\ NarrowAdd => [Exact128!Next]_(Exact128!vars)
<1> SUFFICES ASSUME IInv, NarrowAdd PROVE [Exact128!Next]_(Exact128!vars)
  OBVIOUS
<1>1. /\ Term.coef \in 0..(Cap - 1) /\ Term.prec = prec /\ Term.neg \in BOOLEAN
      /\ pc = "narrow" /\ i <= Count /\ UNCHANGED <<call, prec, res>>
  BY TermFacts DEF NarrowAdd
<1>2. pos \in 0..(Cap - 1) /\ neg \in 0..(Cap - 1) /\ prec \in 0..MaxPrec
  BY <1>1 DEF IInv, Totals, U128
<1>3. CASE Subtotal + Term.coef < Cap
  <2>1. SetSubtotal(Subtotal + Term.coef) /\ i' = i + 1 /\ pc' = "narrow"
    BY <1>3 DEF NarrowAdd, Add128
  <2>2. Term.coef * Pow10[prec - Term.prec] = Term.coef
    BY <1>1, <1>2, PowFacts
  <2>3. pos' - neg' = (pos - neg) + WithSign(Term.coef, Term.neg)
    BY <1>1, <1>2, <2>1 DEF SetSubtotal, Subtotal, WithSign
  <2>4. Total' = Total + Scaled(Term)
    BY <1>1, <1>2, <2>2, <2>3, TotalStepHere
  <2> QED
    BY <1>1, <2>1, <2>4, ConsumeStep DEF call
<1>4. CASE ~(Subtotal + Term.coef < Cap)
  <2>1. SetSubtotal(Sub128(Subtotal + Term.coef - Cap, Term.coef).val) /\ i' = i
    BY <1>4 DEF NarrowAdd, Add128
  <2>2. Sub128(Subtotal + Term.coef - Cap, Term.coef).val = Subtotal
    BY <1>1, <1>2, CapFacts DEF Sub128, Subtotal
  <2>3. UNCHANGED <<call, i, prec, pos, neg, res>>
    BY <1>1, <2>1, <2>2 DEF SetSubtotal, Subtotal
  <2> QED
    BY <2>3, StutterStep DEF Total, SumRes, call
<1> QED
  BY <1>3, <1>4

(* Lifting the totals and adding a finer or coarser term consumes it.      *)
LEMMA WideAddStep == IInv /\ WideAdd => [Exact128!Next]_(Exact128!vars)
<1> SUFFICES ASSUME IInv, WideAdd PROVE [Exact128!Next]_(Exact128!vars)
  OBVIOUS
<1> DEFINE finer == Larger(Term.prec, prec)
           n == i - 1
           Bound(q) == (Cap - 1) * Pow10[q]
           L == Pow10[finer - prec]
           term == Term.coef * Pow10[finer - Term.prec]
           Lift(u) == IF finer = prec THEN u ELSE Mul256(u, Pow10[finer - prec])
<1>1. /\ Term.coef \in 0..(Cap - 1) /\ Term.neg \in BOOLEAN /\ Term.prec \in 0..MaxPrec
      /\ n \in 0..(MaxTerms - 1) /\ i <= Count
      /\ pc = "wide" /\ UNCHANGED <<call, pc, res>> /\ i' = i + 1 /\ prec' = finer
  BY TermFacts DEF WideAdd
<1>2. prec \in 0..MaxPrec /\ pos \in Nat /\ neg \in Nat
  BY DEF IInv, Totals
<1>3. finer \in 0..MaxPrec /\ Term.prec <= finer /\ prec <= finer
  BY <1>1, <1>2 DEF Larger
<1>4. term \in Nat /\ term <= Bound(finer)
  BY <1>1, <1>3, TermBound
<1>5. ASSUME NEW u \in Nat, u <= n * Bound(prec)
      PROVE  Lift(u) = u * L /\ u * L \in Nat /\ Add256(Lift(u), term) = u * L + term
  <2>1. n \in 0..MaxTerms
    BY <1>1, TermsAssumption
  <2>2. u * L \in Nat /\ u * L <= n * Bound(finer) /\ Mul256(u, L) = u * L
    BY <1>2, <1>3, <1>5, <2>1, LiftExact
  <2>3. finer = prec => u * L = u
    BY <1>2, PowFacts
  <2>4. Lift(u) = u * L
    BY <2>2, <2>3
  <2>5. Add256(u * L, term) = u * L + term
    <3>1. n = i - 1
      OBVIOUS
    <3>2. i \in 1..MaxTerms
      BY <1>1, TermFacts, TermsAssumption
    <3> HIDE DEF term, finer, L
    <3> QED
      BY <1>3, <1>4, <2>2, <3>1, <3>2, AddExact
  <2> QED
    BY <2>2, <2>4, <2>5
<1>6. pos <= n * Bound(prec) /\ neg <= n * Bound(prec)
  BY DEF IInv, NoWrap
<1>7. pos' - neg' = (pos - neg) * L + WithSign(term, Term.neg)
  <2>1. pos' = IF Term.neg THEN Lift(pos) ELSE Add256(Lift(pos), term)
    BY DEF WideAdd
  <2>2. neg' = IF Term.neg THEN Add256(Lift(neg), term) ELSE Lift(neg)
    BY DEF WideAdd
  <2>3. L \in Nat
    <3> HIDE DEF finer
    <3> QED
      BY <1>2, <1>3, PowSplit
  <2>4. pos * L - neg * L = (pos - neg) * L
    <3> HIDE DEF L
    <3> QED
      BY <1>2, <2>3
  <2> HIDE DEF Lift, L, term, Bound, finer, n
  <2>5. /\ pos' = IF Term.neg THEN pos * L ELSE pos * L + term
        /\ neg' = IF Term.neg THEN neg * L + term ELSE neg * L
    BY <1>2, <1>5, <1>6, <2>1, <2>2
  <2>6. pos * L \in Nat /\ neg * L \in Nat
    BY <1>2, <2>3
  <2> QED
    BY <1>1, <1>4, <2>4, <2>5, <2>6 DEF WithSign
<1>8. Total' = Total + Scaled(Term)
  <2> HIDE DEF finer
  <2> QED
    BY <1>1, <1>3, <1>7, TotalStep
<1> QED
  BY <1>1, <1>8, ConsumeStep DEF call

(* Adding to pre-aligned totals consumes the term.                         *)
LEMMA AlignedAddStep == IInv /\ AlignedAdd => [Exact128!Next]_(Exact128!vars)
<1> SUFFICES ASSUME IInv, AlignedAdd PROVE [Exact128!Next]_(Exact128!vars)
  OBVIOUS
<1> DEFINE term == Term.coef * Pow10[prec - Term.prec]
<1>1. /\ Term.coef \in 0..(Cap - 1) /\ Term.neg \in BOOLEAN /\ Term.prec \in 0..MaxPrec
      /\ i - 1 \in 0..(MaxTerms - 1) /\ i \in 1..Count /\ i <= Count
      /\ pc = "aligned" /\ UNCHANGED <<call, pc, prec, res>> /\ i' = i + 1
  BY TermFacts DEF AlignedAdd
<1>2. prec \in 0..MaxPrec /\ pos \in Nat /\ neg \in Nat /\ Term.prec <= prec
  BY <1>1 DEF IInv, Totals, PrecCovers, Term
<1>3. term \in Nat /\ term <= (Cap - 1) * Pow10[prec]
  BY <1>1, <1>2, TermBound
<1>4. Add256(pos, term) = pos + term /\ Add256(neg, term) = neg + term
  <2>1. i \in 1..MaxTerms
    BY <1>1, TermsAssumption
  <2>2. pos <= (i - 1) * ((Cap - 1) * Pow10[prec]) /\ neg <= (i - 1) * ((Cap - 1) * Pow10[prec])
    BY DEF IInv, NoWrap
  <2> HIDE DEF term
  <2> QED
    BY <1>2, <1>3, <2>1, <2>2, AddExact
<1>5. pos' - neg' = (pos - neg) + WithSign(term, Term.neg)
  <2>1. SetSubtotal(Add256(Subtotal, term))
    BY DEF AlignedAdd
  <2> HIDE DEF term
  <2> QED
    BY <1>1, <1>2, <1>3, <1>4, <2>1 DEF SetSubtotal, Subtotal, WithSign
<1>6. Total' = Total + Scaled(Term)
  BY <1>1, <1>2, <1>5, TotalStepHere
<1> QED
  BY <1>1, <1>6, ConsumeStep DEF call

(* Loading the first kept term consumes it.                                *)
LEMMA LoadFirstStep == IInv /\ LoadFirst => [Exact128!Next]_(Exact128!vars)
<1> SUFFICES ASSUME IInv, LoadFirst PROVE [Exact128!Next]_(Exact128!vars)
  OBVIOUS
<1>1. pos = 0 /\ neg = 0 /\ prec = 0 /\ pc = "skip" /\ i <= Count
  BY DEF LoadFirst, IInv, Totals, Cursor
<1>2. Term.coef \in Nat /\ Term.neg \in BOOLEAN /\ Term.prec \in 0..MaxPrec
  BY <1>1, TermFacts, CapFacts
<1>3. /\ prec' = Term.prec /\ pos' - neg' = WithSign(Term.coef, Term.neg)
      /\ UNCHANGED <<call, res>> /\ i' = i + 1 /\ pc' = "narrow"
  BY <1>1, <1>2 DEF LoadFirst, WithSign
<1>4. Total' = Total + Scaled(Term)
  <2>1. Term.coef * Pow10[Term.prec - Term.prec] = Term.coef
    BY <1>2, PowFacts
  <2>2. 0 <= Term.prec /\ Term.prec <= Term.prec /\ Pow10[Term.prec - prec] \in Nat
    BY <1>1, <1>2, PowFacts
  <2>3. WithSign(Term.coef, Term.neg) \in Int
    BY <1>2 DEF WithSign
  <2>4. pos' - neg' = (pos - neg) * Pow10[Term.prec - prec]
                        + WithSign(Term.coef * Pow10[Term.prec - Term.prec], Term.neg)
    BY <1>1, <1>3, <2>1, <2>2, <2>3
  <2> QED
    BY <1>1, <1>2, <1>3, <2>2, <2>4, TotalStep
<1> QED
  BY <1>1, <1>3, <1>4, ConsumeStep DEF call

(* Two arguments are answered through Add.                                 *)
LEMMA PairSumStep == IInv /\ PairSum => [Exact128!Next]_(Exact128!vars)
<1> SUFFICES ASSUME IInv, PairSum PROVE [Exact128!Next]_(Exact128!vars)
  OBVIOUS
<1> DEFINE f == Larger(args[1].prec, args[2].prec)
<1>1. /\ op = "Sum" /\ Count = 2 /\ i = 1 /\ SumRes = Pending
      /\ args[1] \in Decimals /\ args[2] \in Decimals
      /\ res' = Add(args[1], args[2]) /\ UNCHANGED <<call, i, prec, pos, neg>>
  BY TermsAssumption DEF PairSum, Answer, IInv, CallOK, Cursor, SumRes, Count
<1>2. f \in 0..MaxPrec /\ Exact128!GreatestPrec(args) = f
  <2>1. args[1].prec \in 0..MaxPrec /\ args[2].prec \in 0..MaxPrec
    BY <1>1, DecimalFacts
  <2>2. /\ f \in 0..MaxPrec /\ \E j \in 1..Count : args[j].prec = f
        /\ \A j \in 1..Count : args[j].prec <= f
    BY <1>1, <2>1 DEF Larger
  <2> HIDE DEF f
  <2> QED
    BY <2>2, GreatestPrecIs
<1>3. res' = SumOf(Scaled(args[1]) + Scaled(args[2]), f)
  BY <1>1, AddIsExact
<1>4. SumRes' = res' /\ Total' = Total
  BY <1>1 DEF SumRes, Total, call
<1>5. Exact128!AnswerPair
  BY <1>1, <1>2, <1>3, <1>4, SameAnswer, SamePending, SameScaled
     DEF Exact128!AnswerPair, Total, SumRes, Count, call
<1> QED
  BY <1>5 DEF Exact128!Next

(* The narrow and the wide ending give the exact answer.                   *)
LEMMA SumDoneStep == IInv /\ (NarrowDone \/ WideSumDone) => [Exact128!Next]_(Exact128!vars)
<1> SUFFICES ASSUME IInv, NarrowDone \/ WideSumDone PROVE [Exact128!Next]_(Exact128!vars)
  OBVIOUS
<1>1. UNCHANGED <<call, i, prec, pos, neg>> /\ i > Count /\ pc \in {"narrow", "wide"}
  BY DEF NarrowDone, WideSumDone, Answer
<1>2. pos \in Nat /\ neg \in Nat /\ Magnitude = Abs(pos - neg) /\ IsNegative = (pos - neg < 0)
  BY DEF IInv, Totals, Magnitude, IsNegative
<1>3. CASE op = "Sum"
  <2>1. CASE NarrowDone
    <3>1. Abs(pos - neg) < Cap /\ Abs(pos - neg) \in Nat
      BY <2>1, CapFacts DEF NarrowDone, IInv, Totals, U128, Abs
    <3>2. res' = Ok(NewDecimal(Magnitude, IsNegative, prec))
      BY <1>3, <2>1 DEF NarrowDone, Answer
    <3>3. res' = Exactly(pos - neg, prec)
      BY <1>2, <3>1, <3>2, CapFacts DEF Exactly
    <3> QED
      BY <1>1, <1>3, <3>3, AnswerStep
  <2>2. CASE WideSumDone
    <3>1. Abs(pos - neg) \in Nat
      BY <1>2 DEF Abs
    <3>2. res' = IF Magnitude < Cap THEN Ok(NewDecimal(Magnitude, IsNegative, prec))
                                    ELSE Fail("Overflow")
      BY <2>2 DEF WideSumDone, Answer, ZeroUpper
    <3>3. res' = Exactly(pos - neg, prec)
      BY <1>2, <3>1, <3>2, CapFacts DEF Exactly
    <3> QED
      BY <1>1, <1>3, <3>3, AnswerStep
  <2> QED
    BY <2>1, <2>2
<1>4. CASE op # "Sum"
  BY <1>1, <1>4, StutterStep DEF call, Total, SumRes
<1> QED
  BY <1>3, <1>4

(* Every step of the call is a step of the exact summation, or none.       *)
LEMMA SumNext == IInv /\ [Next]_vars => [Exact128!Next]_(Exact128!vars)
<1> SUFFICES ASSUME IInv, [Next]_vars PROVE [Exact128!Next]_(Exact128!vars)
  OBVIOUS
<1>1. CASE SkipZero \/ NarrowZero \/ WideZero
  <2>1. /\ i <= Count /\ Term.coef = 0 /\ i' = i + 1 /\ pc # "done" /\ pc' # "done"
        /\ UNCHANGED <<call, prec, pos, neg, res>>
    BY <1>1, TermsAssumption DEF SkipZero, NarrowZero, WideZero, Pass, IInv, Cursor, CallOK, Count
  <2>2. Total' = Total + Scaled(Term)
    BY <2>1, NoTerm
  <2> QED
    BY <2>1, <2>2, ConsumeStep DEF call
<1>2. ASSUME UNCHANGED <<call, i, prec, pos, neg, res>> PROVE [Exact128!Next]_(Exact128!vars)
  BY <1>2, StutterStep DEF call, Total, SumRes
<1>3. ASSUME op # "Sum", UNCHANGED <<call, i, prec, pos, neg>>
      PROVE  [Exact128!Next]_(Exact128!vars)
  BY <1>3, StutterStep DEF call, Total, SumRes
<1>4. CASE EnterAdaptive \/ HandoffPrec
  BY <1>2, <1>4 DEF EnterAdaptive, HandoffPrec, GoTo
<1>5. CASE PairAvg
  BY <1>2, <1>3, <1>5 DEF PairAvg, GoTo, Answer
<1>6. CASE WideAvgDone \/ AvgExactDone \/ AvgRoundRefused \/ AvgRoundDone
  BY <1>3, <1>6 DEF WideAvgDone, AvgExactDone, AvgRoundRefused, AvgRoundDone, Answer
<1>7. CASE Prescan
  <2>1. pos = 0 /\ neg = 0 /\ prec \in 0..MaxPrec /\ UNCHANGED <<call, i, pos, neg, res>>
    BY <1>7 DEF Prescan, IInv, Totals
  <2>2. prec' \in 0..MaxPrec
    BY <1>7, NextIInv DEF IInv, Totals
  <2>3. Total = 0 /\ Total' = 0
    <3>1. Pow10[MaxPrec - prec] \in Nat /\ Pow10[MaxPrec - prec'] \in Nat
      BY <2>1, <2>2, PowFacts
    <3> QED
      BY <2>1, <3>1 DEF Total
  <2> QED
    BY <2>1, <2>3, StutterStep DEF call, SumRes
<1>8. CASE UNCHANGED vars
  BY <1>2, <1>8 DEF vars
<1> QED
  BY <1>1, <1>4, <1>5, <1>6, <1>7, <1>8, LoadFirstStep, NarrowAddStep, WideAddStep,
     AlignedAddStep, PairSumStep, SumDoneStep
     DEF Next, Step, Returned

(* Sum's contract: whatever the order, the precisions and the signs of its *)
(* arguments, the accumulator holds their exact total after each of them,  *)
(* and the answer is that total at the greatest precision, or ErrOverflow  *)
(* exactly when its coefficient does not fit 128 bits.                     *)
THEOREM SumImplementsExactSum == Spec => SumIsExact
<1>1. Init => Exact128!Init
  BY SumInit
<1>2. IInv /\ [Next]_vars => [Exact128!Next]_(Exact128!vars)
  BY SumNext
<1> QED
  BY <1>1, <1>2, Inductive, PTL DEF Spec, SumIsExact, Exact128!Spec

----------------------------------------------------------------------------
(* The means.  ExactTotal is a recursive function over the arguments; the  *)
(* lemmas give it its equation, and the refinement above makes the totals  *)
(* equal to it at every step.                                              *)
SumBody(f) == [n \in 0..Count |-> IF n = 0 THEN 0 ELSE f[n - 1] + Scaled(args[n])]
PartialSum == CHOOSE f : f = SumBody(f)

(* There is such a function, and its values are integers.                  *)
LEMMA PartialSums ==
  ASSUME CallOK
  PROVE  /\ ExactTotal = PartialSum[Count]
         /\ PartialSum[0] = 0
         /\ \A n \in 1..Count : PartialSum[n] = PartialSum[n - 1] + Scaled(args[n])
         /\ \A n \in 0..Count : PartialSum[n] \in Int
<1> DEFINE Upto(n, f) == [k \in 0..n |-> IF k = 0 THEN 0 ELSE f[k - 1] + Scaled(args[k])]
           Missing == {n \in 0..Count : ~ \E f : f = Upto(n, f)}
<1>1. Count \in Nat /\ Count >= 1
  BY TermsAssumption DEF CallOK
<1>2. Missing = {}
  <2> SUFFICES ASSUME Missing # {} PROVE FALSE
    OBVIOUS
  <2>1. Missing \in SUBSET Nat
    BY <1>1
  <2>2. PICK n \in Missing : \A k \in Missing : n <= k
    <3> HIDE DEF Missing
    <3> QED BY <2>1, LeastNatural
  <2>3. n \in 0..Count /\ n \in Nat
    BY <1>1
  <2>4. CASE n = 0
    <3>1. [k \in 0..0 |-> 0] = Upto(0, [k \in 0..0 |-> 0])
      OBVIOUS
    <3> HIDE DEF Upto
    <3> QED BY <2>4, <3>1
  <2>5. CASE n # 0
    <3>1. n - 1 \in 0..Count /\ n - 1 \notin Missing
      <4> HIDE DEF Missing
      <4> QED BY <1>1, <2>2, <2>3, <2>5
    <3>2. PICK h : h = Upto(n - 1, h)
      <4> HIDE DEF Upto
      <4> QED BY <3>1
    <3> DEFINE g == [k \in 0..n |-> IF k = n THEN h[n - 1] + Scaled(args[n]) ELSE h[k]]
    <3>3. \A k \in 0..n : g[k] = IF k = 0 THEN 0 ELSE g[k - 1] + Scaled(args[k])
      <4> TAKE k \in 0..n
      <4>1. CASE k = n
        <5>1. k - 1 \in 0..n /\ k - 1 # n
          BY <2>3, <2>5, <4>1
        <5> QED BY <2>5, <4>1, <5>1
      <4>2. CASE k # n
        <5>1. k \in 0..(n - 1) /\ (k # 0 => k - 1 \in 0..n /\ k - 1 # n)
          BY <2>3, <2>5, <4>2
        <5>2. h[k] = IF k = 0 THEN 0 ELSE h[k - 1] + Scaled(args[k])
          BY <3>2, <5>1
        <5> QED BY <4>2, <5>1, <5>2
      <4> QED BY <4>1, <4>2
    <3>4. g = Upto(n, g)
      <4>1. g = [k \in 0..n |-> g[k]]
        OBVIOUS
      <4> HIDE DEF g
      <4> QED BY <3>3, <4>1
    <3> HIDE DEF Upto, g
    <3> QED BY <3>4
  <2> QED BY <2>4, <2>5
<1>3. \A n \in 0..Count : PartialSum[n] = IF n = 0 THEN 0 ELSE PartialSum[n - 1] + Scaled(args[n])
  <2>1. \E f : f = SumBody(f)
    <3>1. \A f : Upto(Count, f) = SumBody(f)
      BY DEF SumBody
    <3>2. Count \in 0..Count /\ Count \notin Missing
      BY <1>1, <1>2
    <3>3. \E f : f = Upto(Count, f)
      BY <3>2
    <3> HIDE DEF Upto
    <3> QED BY <3>1, <3>3
  <2>2. PartialSum = SumBody(PartialSum)
    BY <2>1 DEF PartialSum
  <2> DEFINE f == PartialSum
  <2> HIDE DEF f
  <2>3. f = SumBody(f)
    BY <2>2 DEF f
  <2>4. \A n \in 0..Count : f[n] = IF n = 0 THEN 0 ELSE f[n - 1] + Scaled(args[n])
    BY <2>3 DEF SumBody
  <2> QED BY <2>4 DEF f
<1>4. ExactTotal = PartialSum[Count]
  BY DEF ExactTotal, PartialSum, SumBody
<1>5. \A n \in 1..Count : Scaled(args[n]) \in Int
  <2> TAKE n \in 1..Count
  <2>1. args[n] \in Decimals
    BY TermsAssumption DEF CallOK, Count
  <2> QED BY <2>1, ScaledInt
<1>6. \A n \in 0..Count : PartialSum[n] \in Int
  <2> DEFINE Bad == {n \in 0..Count : PartialSum[n] \notin Int}
  <2> SUFFICES ASSUME Bad # {} PROVE FALSE
    OBVIOUS
  <2>1. Bad \in SUBSET Nat
    BY <1>1
  <2>2. PICK n \in Bad : \A k \in Bad : n <= k
    <3> HIDE DEF Bad
    <3> QED BY <2>1, LeastNatural
  <2>3. n \in 0..Count /\ n # 0
    BY <1>1, <1>3
  <2>4. n - 1 \in 0..Count /\ n \in 1..Count /\ n - 1 \notin Bad
    <3> HIDE DEF Bad
    <3> QED BY <1>1, <2>2, <2>3
  <2> QED BY <1>3, <1>5, <2>3, <2>4
<1>7. PartialSum[0] = 0 /\ \A n \in 1..Count : n # 0 /\ n \in 0..Count
  BY <1>1, <1>3
<1> QED
  BY <1>3, <1>4, <1>6, <1>7

(* The totals hold the exact sum of the arguments before the index.        *)
HoldsPartial == Total = PartialSum[i - 1]
LEMMA InitHolds == Init => HoldsPartial
<1> SUFFICES ASSUME Init PROVE HoldsPartial
  OBVIOUS
<1>1. CallOK /\ i - 1 = 0
  BY InitIInv DEF IInv, Init
<1>2. Total = 0
  <2>1. Pow10[MaxPrec - 0] \in Nat
    BY PowFacts
  <2> QED BY <2>1 DEF Init, Total
<1> QED
  BY <1>1, <1>2, PartialSums DEF HoldsPartial

LEMMA NextHolds == IInv /\ HoldsPartial /\ [Next]_vars => HoldsPartial'
<1> SUFFICES ASSUME IInv, HoldsPartial, [Next]_vars PROVE HoldsPartial'
  OBVIOUS
<1>1. [Exact128!Next]_(Exact128!vars)
  BY SumNext
<1>2. CallOK /\ i \in 1..(Count + 1) /\ Count \in Nat
  BY TermsAssumption DEF IInv, Cursor, CallOK
<1>3. args' = args
  BY <1>1 DEF Exact128!Next, Exact128!vars, Exact128!Consume, Exact128!Answer, Exact128!AnswerPair
<1>4. PartialSum' = PartialSum
  BY <1>3 DEF PartialSum, SumBody, Count
<1>5. CASE Exact128!Consume
  <2>1. i <= Count /\ i' = i + 1 /\ Total' = Total + Scaled(args[i])
    BY <1>5, SameScaled DEF Exact128!Consume, Total, Count
  <2>2. i \in 1..Count /\ i' - 1 = i
    BY <1>2, <2>1
  <2>3. PartialSum[i] = PartialSum[i - 1] + Scaled(args[i])
    BY <1>2, <2>2, PartialSums
  <2> QED
    BY <1>4, <2>1, <2>2, <2>3 DEF HoldsPartial
<1>6. CASE Exact128!Answer \/ Exact128!AnswerPair \/ UNCHANGED Exact128!vars
  <2>1. Total' = Total /\ i' = i
    BY <1>6 DEF Exact128!Answer, Exact128!AnswerPair, Exact128!vars, Total
  <2> QED
    BY <1>4, <2>1 DEF HoldsPartial
<1> QED
  BY <1>1, <1>5, <1>6 DEF Exact128!Next

----------------------------------------------------------------------------
(* The mean at a precision p is M * 10^p over n * 10^prec: a common factor *)
(* turns that into the fraction of the exact total over MeanDen.           *)
LEMMA MeanFraction ==
  ASSUME NEW M \in Nat, NEW f \in 0..MaxPrec, NEW n \in Nat \ {0}, NEW p \in 0..MaxPrec,
         NEW t, t = M * Pow10[MaxPrec - f]
  PROVE  /\ t \in Nat /\ n * Pow10[f] \in Nat \ {0} /\ M * Pow10[p] \in Nat
         /\ Pow10[MaxPrec - f] \in Nat \ {0} /\ n * Pow10[MaxPrec] \in Nat \ {0}
         /\ n * Pow10[MaxPrec] = (n * Pow10[f]) * Pow10[MaxPrec - f]
         /\ t * Pow10[p] = (M * Pow10[p]) * Pow10[MaxPrec - f]
         /\ (t * Pow10[p]) \div (n * Pow10[MaxPrec]) = (M * Pow10[p]) \div (n * Pow10[f])
<1> DEFINE s == Pow10[MaxPrec - f]
           a == Pow10[p]
           b == Pow10[f]
<1>1. MaxPrec \in 0..MaxPrec /\ f <= MaxPrec
  BY PowFacts
<1>2. s \in Nat \ {0} /\ b \in Nat \ {0} /\ Pow10[MaxPrec] = b * s
  <2>1. s \in Nat /\ s >= 1 /\ b \in Nat /\ b >= 1 /\ Pow10[MaxPrec] = b * s
    BY <1>1, PowSplit
  <2> HIDE DEF s, b
  <2> QED BY <2>1
<1>3. a \in Nat
  BY PowFacts, <1>1
<1> DEFINE x == M * a
           y == n * b
<1>4. x \in Nat /\ y \in Nat \ {0} /\ t \in Nat
  <2> HIDE DEF s, a, b
  <2> QED BY <1>2, <1>3 DEF s
<1>5. n * Pow10[MaxPrec] = y * s /\ t * a = x * s /\ n * Pow10[MaxPrec] \in Nat \ {0}
  <2> HIDE DEF s, a, b
  <2>1. n * (b * s) = (n * b) * s /\ (M * s) * a = (M * a) * s
    BY <1>2, <1>3
  <2>2. (n * b) * s \in Nat \ {0}
    BY <1>2
  <2> QED BY <1>2, <2>1, <2>2 DEF s
<1>6. (x * s) \div (y * s) = x \div y
  <2> HIDE DEF x, y, s
  <2> QED BY <1>2, <1>4, DivScale
<1> QED
  BY <1>2, <1>3, <1>4, <1>5, <1>6

(* A mean's integer part fits: it is at most the greatest coefficient.     *)
LEMMA MeanBounded ==
  ASSUME NEW M \in Nat, NEW f \in 0..MaxPrec, NEW n \in Nat \ {0},
         M <= n * ((Cap - 1) * Pow10[f]), NEW p \in 0..MaxPrec
  PROVE  /\ (M * Pow10[p]) \div (n * Pow10[f]) <= (Cap - 1) * Pow10[p]
         /\ (M * Pow10[p]) \div (n * Pow10[f]) \in Nat
         /\ (Cap - 1) * Pow10[p] < Wide /\ (Cap - 1) * Pow10[p] \in Nat
<1> DEFINE a == Pow10[p]
           b == Pow10[f]
           top == (Cap - 1) * a
<1>1. a \in Nat \ {0} /\ b \in Nat \ {0} /\ a < Cap
  BY PowFacts, PowBounds
<1>2. Cap \in Nat /\ Cap >= 16 /\ Wide = Cap * Cap
  BY CapFacts
<1>3. top \in Nat /\ top < Wide
  <2> HIDE DEF a
  <2>1. (Cap - 1) * a <= (Cap - 1) * Cap /\ (Cap - 1) * a \in Nat
    BY <1>1, <1>2
  <2>2. (Cap - 1) * Cap < Cap * Cap /\ (Cap - 1) * Cap \in Nat /\ Cap * Cap \in Nat
    BY <1>2
  <2> QED BY <1>2, <2>1, <2>2
<1>4. M * a \in Nat /\ n * b \in Nat \ {0}
  <2> HIDE DEF a, b
  <2> QED BY <1>1
<1>5. M * a <= (n * b) * top
  <2> HIDE DEF a, b
  <2>1. M * a <= (n * ((Cap - 1) * b)) * a
    <3> DEFINE c == n * ((Cap - 1) * b)
    <3>1. M <= c
      BY DEF b
    <3>2. c \in Nat
      BY <1>1, <1>2
    <3> HIDE DEF c
    <3>3. M * a <= c * a
      BY <1>1, <3>1, <3>2
    <3> QED BY <3>3 DEF c
  <2>2. (n * ((Cap - 1) * b)) * a = (n * b) * ((Cap - 1) * a)
    BY <1>1, <1>2
  <2> QED BY <2>1, <2>2
<1> DEFINE x == M * a
           y == n * b
           q == x \div y
<1>6. q \in Nat /\ q <= top
  <2> HIDE DEF x, y, top
  <2>1. /\ q \in Nat /\ \A c \in Nat : (q < c) <=> (x < y * c)
    BY <1>4, DivBelow DEF x, y
  <2>2. ~(x < y * (top + 1))  \/ q < top + 1
    BY <1>3, <2>1
  <2>3. x < y * (top + 1)
    <3>1. y * (top + 1) = y * top + y /\ y * top \in Nat /\ y \in Nat /\ y >= 1 /\ x \in Nat
      BY <1>3, <1>4 DEF x, y
    <3> QED BY <1>5, <3>1 DEF x, y
  <2> QED BY <1>3, <2>1, <2>2, <2>3
<1> QED
  BY <1>3, <1>6

(* aggregateAverageAt divides that fraction: its quotient is exact and     *)
(* wraps nowhere, and the fraction it leaves is zero, or compares with a   *)
(* half, when and as the exact remainder does.                             *)
MeanOf(m, num, den) ==
  /\ m.q = num \div den
  /\ (m.num # 0) = (num % den # 0)
  /\ CmpDouble128(m.num, m.den) = Sign3(2 * (num % den) - den)

LEMMA MeanOfScales ==
  ASSUME NEW num \in Nat, NEW den \in Nat \ {0}, NEW s \in Nat \ {0}, NEW m, MeanOf(m, num, den)
  PROVE  MeanOf(m, num * s, den * s)
<1>1. "TowardZero" \in Modes /\ FALSE \in BOOLEAN
  BY DEF Modes
<1> QED
  BY <1>1, RoundingScales DEF MeanOf

(* What the average step hands on, when it divides num by den as             *)
(* [q |-> num \div den, num |-> num % den, den |-> den].                     *)
LEMMA PlainMean ==
  ASSUME NEW num \in Nat, NEW den \in 1..(Cap - 1), NEW m, m.q = num \div den,
         m.num = num % den, m.den = den
  PROVE  MeanOf(m, num, den)
<1>1. den \in Nat \ {0}
  BY CapFacts
<1>2. num % den \in 0..(den - 1)
  BY <1>1, DivMod
<1> DEFINE r == num % den
<1> HIDE DEF r
<1>3. CmpDouble128(r, den) = Sign3(2 * r - den)
  BY <1>2, HalfComparisons DEF r
<1> QED
  BY <1>3 DEF MeanOf, r

LEMMA MeanAtExact ==
  ASSUME IInv, Magnitude <= Count * ((Cap - 1) * Pow10[prec]), Magnitude \in Nat, NEW p \in 0..MaxPrec
  PROVE  MeanOf(MeanAt(p), Magnitude * Pow10[p], Count * Pow10[prec])
<1> DEFINE M == Magnitude
           n == Count
           base == M \div n
           rem == M % n
<1>1. prec \in 0..MaxPrec /\ n \in Nat \ {0} /\ n \in 1..MaxTerms /\ M \in Nat /\ MaxPrec \in Nat
  BY TermsAssumption, PowFacts DEF IInv, Totals, CallOK
<1>2. base \in Nat /\ rem \in Nat /\ rem < n /\ M = n * base + rem
  <2> HIDE DEF M, n
  <2>1. base \in Nat /\ rem \in Nat /\ rem < n
    BY <1>1, DivBelow
  <2>2. M \in Int
    BY <1>1
  <2>3. M = n * base + rem
    BY <1>1, <2>2, DivMod
  <2> QED BY <2>1, <2>3
<1>3. MeanAt(p) = AverageAt(base, rem, p)
  BY DEF MeanAt
<1>4. ASSUME NEW k \in 0..MaxPrec
      PROVE  n * Pow10[k] \in 1..(Cap - 1)
  <2>1. Pow10[k] \in Nat \ {0} /\ Pow10[MaxPrec] \in Nat /\ Pow10[k] <= Pow10[MaxPrec]
    <3>1. MaxPrec \in 0..MaxPrec /\ k <= MaxPrec
      BY <1>1
    <3>2. Pow10[k] \in Nat /\ Pow10[k] >= 1 /\ Pow10[MaxPrec] \in Nat /\ Pow10[k] <= Pow10[MaxPrec]
      BY <3>1, PowSplit
    <3> QED BY <3>2
  <2> DEFINE a == Pow10[k]
             b == Pow10[MaxPrec]
  <2>2. MaxTerms * b < Cap /\ MaxTerms \in Nat /\ n <= MaxTerms
    BY <1>1, TermsAssumption
  <2> HIDE DEF a, b, n
  <2>3. a \in Nat \ {0} /\ b \in Nat /\ a <= b /\ n \in Nat \ {0}
    BY <1>1, <2>1 DEF a, b
  <2>4. n * a <= MaxTerms * b /\ n * a \in Nat /\ n * a >= 1 /\ MaxTerms * b \in Nat
    BY <2>2, <2>3
  <2>5. n * a \in 1..(Cap - 1)
    <3> DEFINE x == n * a
               y == MaxTerms * b
    <3>1. x \in Nat /\ x >= 1 /\ x <= y /\ y \in Nat /\ y < Cap
      BY <2>2, <2>4
    <3> HIDE DEF x, y
    <3>2. x \in 1..(Cap - 1)
      BY <3>1, CapFacts
    <3> QED BY <3>2 DEF x
  <2> QED BY <2>5 DEF a
<1> DEFINE D == n * Pow10[prec]
<1>5. CASE p >= prec
  <2> DEFINE s == Pow10[p - prec]
             t == Pow10[prec]
             num == M * s
             m == MeanAt(p)
  <2>1. s \in Nat \ {0} /\ t \in Nat \ {0} /\ Pow10[p] = t * s
    <3>1. s \in Nat /\ s >= 1 /\ t \in Nat /\ t >= 1 /\ Pow10[p] = t * s
      BY <1>1, <1>5, PowSplit
    <3> HIDE DEF s, t
    <3> QED BY <3>1
  <2>2. m = [q |-> Add256(Mul256(base, s), (rem * s) \div n), num |-> (rem * s) % n, den |-> n]
    BY <1>3, <1>5 DEF AverageAt
  <2>3. num \in Nat /\ rem * s \in Nat /\ base * s \in Nat /\ num = n * (base * s) + rem * s
    <3> HIDE DEF M, n, base, rem, s
    <3>1. (n * base + rem) * s = n * (base * s) + rem * s
      BY <1>1, <1>2, <2>1
    <3> QED BY <1>1, <1>2, <2>1, <3>1
  <2> DEFINE u == (rem * s) \div n
             v == (rem * s) % n
             w == base * s
  <2>4. u \in Nat /\ v \in 0..(n - 1) /\ rem * s = n * u + v
    <3> DEFINE z == rem * s
    <3>1. z \in Nat /\ z \in Int
      BY <2>3
    <3> HIDE DEF z, n
    <3>2. z \div n \in Nat /\ z % n \in 0..(n - 1)
      BY <1>1, <3>1, DivBelow, DivMod
    <3>3. z = n * (z \div n) + (z % n)
      BY <1>1, <3>1, DivMod
    <3> QED BY <3>2, <3>3 DEF z
  <2>5. num \div n = w + u /\ num % n = v
    <3> HIDE DEF M, n, base, rem, s, u, v
    <3>1. num = n * (w + u) + v /\ w + u \in Int /\ w \in Nat
      <4>1. n * (w + u) = n * w + n * u
        BY <1>1, <2>3, <2>4
      <4> QED BY <1>1, <2>3, <2>4, <4>1
    <3> HIDE DEF num, w
    <3> QED BY <1>1, <2>3, <2>4, <3>1, DivModUnique DEF num
  <2>6. num \div n = (M * Pow10[p]) \div D /\ M * Pow10[p] = num * t /\ D = n * t
    <3> HIDE DEF M, n, s, t
    <3>1. M * (t * s) = (M * s) * t
      BY <1>1, <2>1
    <3>2. ((M * s) * t) \div (n * t) = (M * s) \div n
      <4> DEFINE x == M * s
      <4> HIDE DEF x
      <4> QED BY <1>1, <2>1, <2>3, DivScale DEF x
    <3> QED BY <2>1, <3>1, <3>2 DEF t
  <2>7. w + u \in Nat /\ w + u < Wide
    <3>1. /\ (M * Pow10[p]) \div (n * Pow10[prec]) <= (Cap - 1) * Pow10[p]
          /\ (Cap - 1) * Pow10[p] < Wide /\ (Cap - 1) * Pow10[p] \in Nat
      BY <1>1, MeanBounded
    <3>2. w + u \in Nat
      <4> HIDE DEF w, u
      <4> QED BY <2>3, <2>4 DEF w
    <3> DEFINE top == (Cap - 1) * Pow10[p]
    <3> HIDE DEF w, u, top, M, n, num
    <3>3. w + u <= top
      BY <2>5, <2>6, <3>1 DEF top
    <3> QED BY <3>1, <3>2, <3>3, CapFacts DEF top
  <2>8. Add256(Mul256(base, s), u) = w + u
    <3>1. w \in Nat /\ w < Wide /\ Wide \in Nat
      <4> HIDE DEF w, u
      <4> QED BY <2>3, <2>4, <2>7, CapFacts DEF w
    <3>2. Mul256(base, s) = w
      <4>1. Mul256(base, s) = w % Wide
        BY DEF Mul256
      <4> HIDE DEF w
      <4> QED BY <3>1, <4>1
    <3> HIDE DEF w, u
    <3> QED BY <2>7, <3>1, <3>2 DEF Add256
  <2>9. MeanOf(m, num, n)
    <3>1. m.q = num \div n /\ m.num = num % n /\ m.den = n
      BY <2>2, <2>5, <2>8
    <3>2. n \in 1..(Cap - 1)
      <4>1. Pow10[0] = 1 /\ 0 \in 0..MaxPrec
        BY <1>1, PowFacts
      <4>2. n * 1 = n
        BY <1>1
      <4> QED BY <1>4, <4>1, <4>2
    <3> HIDE DEF m, num, n
    <3> QED BY <2>3, <3>1, <3>2, PlainMean DEF num
  <2>10. MeanOf(m, num * t, n * t)
    <3> HIDE DEF m, num, n, t
    <3> QED BY <1>1, <2>1, <2>3, <2>9, MeanOfScales DEF num, t
  <2> QED BY <2>6, <2>10
<1>6. CASE p < prec
  <2> DEFINE s == Pow10[prec - p]
             t == Pow10[p]
             den == n * s
             m == MeanAt(p)
  <2>1. s \in Nat \ {0} /\ t \in Nat \ {0} /\ Pow10[prec] = t * s /\ prec - p \in 0..MaxPrec
    <3>1. s \in Nat /\ s >= 1 /\ t \in Nat /\ t >= 1 /\ Pow10[prec] = t * s /\ prec - p \in 0..MaxPrec
      BY <1>1, <1>6, PowSplit
    <3> HIDE DEF s, t
    <3> QED BY <3>1
  <2>2. m = [q |-> base \div s, num |-> n * (base % s) + rem, den |-> den]
    <3>1. ~(p >= prec)
      BY <1>1, <1>6
    <3> QED BY <1>3, <3>1 DEF AverageAt
  <2>3. den \in 1..(Cap - 1)
    BY <1>4, <2>1
  <2>4. M \div den = base \div s /\ M % den = n * (base % s) + rem
    <3> HIDE DEF M, n, s
    <3>1. (M \div n) \div s = M \div (n * s) /\ M % (n * s) = ((M \div n) % s) * n + (M % n)
      BY <1>1, <2>1, DivDiv
    <3>2. ((M \div n) % s) * n = n * ((M \div n) % s)
      <4> DEFINE k == (M \div n) % s
      <4>1. k \in Int
        <5>0. base \in Int
          BY <1>2
        <5>1. base % s \in 0..(s - 1)
          BY <2>1, <5>0, DivMod
        <5> QED BY <2>1, <5>1
      <4> HIDE DEF k
      <4>2. n \in Int
        BY <1>1
      <4>3. k * n = n * k
        BY <4>1, <4>2
      <4> QED BY <4>3 DEF k
    <3> QED BY <3>1, <3>2
  <2>5. MeanOf(m, M, den)
    <3>1. m.q = M \div den /\ m.num = M % den /\ m.den = den
      BY <2>2, <2>4
    <3> HIDE DEF m, M, den
    <3> QED BY <1>1, <2>3, <3>1, PlainMean DEF M
  <2>6. MeanOf(m, M * t, den * t)
    <3>1. den \in Nat \ {0}
      BY <2>3, CapFacts
    <3> HIDE DEF m, M, den, t
    <3> QED BY <1>1, <2>1, <2>5, <3>1, MeanOfScales DEF M, t
  <2>7. den * t = D
    <3> HIDE DEF n, s, t
    <3>1. (n * s) * t = n * (t * s)
      BY <1>1, <2>1
    <3> QED BY <2>1, <3>1
  <2> QED BY <2>6, <2>7
<1>7. p \in Nat /\ prec \in Nat
  BY <1>1
<1> QED
  BY <1>5, <1>6, <1>7

(* When every argument has been consumed, the totals are the exact total   *)
(* of the arguments, and every mean is taken from it.                      *)
FittingMeans == {p \in 0..MaxPrec : MeanAt(p).q < Cap}
LEMMA MeansOfTheTotal ==
  ASSUME IInv, HoldsPartial, i > Count
  PROVE  /\ ExactTotal \in Int /\ Magnitude \in Nat /\ prec \in 0..MaxPrec /\ Count \in Nat \ {0}
         /\ Magnitude <= Count * ((Cap - 1) * Pow10[prec])
         /\ Abs(ExactTotal) = Magnitude * Pow10[MaxPrec - prec]
         /\ IsNegative = (ExactTotal < 0) /\ IsNegative \in BOOLEAN
         /\ MeanDen \in Nat \ {0}
         /\ \A p \in 0..MaxPrec : /\ Abs(ExactTotal) * Pow10[p] \in Nat
                                  /\ MeanOf(MeanAt(p), Abs(ExactTotal) * Pow10[p], MeanDen)
                                  /\ MeanAt(p).q \in Nat
         /\ Abs(ExactTotal) <= (Cap - 1) * MeanDen /\ Abs(ExactTotal) \in Nat
<1> DEFINE M == Magnitude
           n == Count
           s == Pow10[MaxPrec - prec]
           T == ExactTotal
           B == (Cap - 1) * Pow10[prec]
<1>1. /\ i - 1 = n /\ n \in Nat \ {0} /\ prec \in 0..MaxPrec /\ pos \in Nat /\ neg \in Nat
      /\ CallOK /\ MaxPrec \in Nat /\ MaxPrec \in 0..MaxPrec
  BY TermsAssumption, PowFacts DEF IInv, Cursor, CallOK, Totals
<1>2. T = (pos - neg) * s
  BY <1>1, PartialSums DEF HoldsPartial, Total
<1>3. s \in Nat \ {0} /\ Pow10[prec] \in Nat \ {0} /\ Pow10[MaxPrec] = Pow10[prec] * s
  <2>1. /\ s \in Nat /\ s >= 1 /\ Pow10[prec] \in Nat /\ Pow10[prec] >= 1
        /\ Pow10[MaxPrec] = Pow10[prec] * s
    BY <1>1, PowSplit
  <2> HIDE DEF s
  <2> QED BY <2>1
<1>4. M \in Nat /\ M <= n * B /\ B \in Nat /\ n * B \in Nat
  <2>1. B \in Nat
    BY <1>3, CapFacts
  <2>2. pos <= n * B /\ neg <= n * B
    BY <1>1 DEF IInv, NoWrap
  <2>3. M = Abs(pos - neg)
    BY DEF Magnitude
  <2> HIDE DEF M, B, n
  <2>4. n * B \in Nat
    BY <1>1, <2>1
  <2> QED BY <1>1, <2>1, <2>2, <2>3, <2>4 DEF Abs
<1>5. Abs(T) = M * s /\ T \in Int /\ (T < 0) = (pos < neg) /\ Abs(T) \in Nat
  <2> DEFINE k == pos - neg
  <2>1. k \in Int /\ M = Abs(k) /\ (k < 0) = (pos < neg) /\ T = k * s
    BY <1>1, <1>2 DEF Magnitude
  <2> HIDE DEF k, s, T, M
  <2>2. k * s \in Int /\ (k * s < 0) = (k < 0)
    BY <1>3, <2>1
  <2>3. k < 0 => -(k * s) = (-k) * s
    BY <1>3, <2>1
  <2>4. Abs(k * s) = Abs(k) * s
    BY <2>1, <2>2, <2>3 DEF Abs
  <2>5. Abs(k * s) \in Nat
    BY <2>2 DEF Abs
  <2> QED BY <2>1, <2>2, <2>4, <2>5
<1>6. MeanDen = n * Pow10[MaxPrec]
  BY DEF MeanDen
<1>7. ASSUME NEW p \in 0..MaxPrec
      PROVE  /\ Abs(T) * Pow10[p] \in Nat /\ MeanOf(MeanAt(p), Abs(T) * Pow10[p], MeanDen)
             /\ MeanAt(p).q \in Nat
  <2> DEFINE m == MeanAt(p)
             x == M * Pow10[p]
             y == n * Pow10[prec]
  <2>1. MeanOf(m, x, y)
    BY <1>1, <1>4, MeanAtExact
  <2>2. /\ y \in Nat \ {0} /\ x \in Nat /\ MeanDen = y * s /\ Abs(T) * Pow10[p] = x * s
    <3> DEFINE t == Abs(T)
    <3>1. t = M * Pow10[MaxPrec - prec]
      BY <1>5
    <3>2. M \in Nat /\ n \in Nat \ {0} /\ prec \in 0..MaxPrec
      BY <1>1, <1>4
    <3> HIDE DEF t, M, n
    <3>3. /\ n * Pow10[prec] \in Nat \ {0} /\ M * Pow10[p] \in Nat
          /\ n * Pow10[MaxPrec] = (n * Pow10[prec]) * Pow10[MaxPrec - prec]
          /\ t * Pow10[p] = (M * Pow10[p]) * Pow10[MaxPrec - prec]
      BY <3>1, <3>2, MeanFraction
    <3> QED BY <1>6, <3>3 DEF t
  <2>3. MeanOf(m, x * s, y * s)
    <3> HIDE DEF m, x, y, s
    <3> QED BY <1>3, <2>1, <2>2, MeanOfScales DEF s
  <2>4. m.q \in Nat
    <3>1. x \div y \in Nat
      <4> HIDE DEF x, y
      <4> QED BY <2>2, DivBelow DEF x, y
    <3> QED BY <2>1, <3>1 DEF MeanOf
  <2>5. x * s \in Nat
    <3> HIDE DEF x, s
    <3> QED BY <1>3, <2>2 DEF x, s
  <2> HIDE DEF x, y, s, m
  <2> QED BY <2>2, <2>3, <2>4, <2>5 DEF m
<1>8. MeanDen \in Nat \ {0} /\ Abs(T) <= (Cap - 1) * MeanDen
  <2> DEFINE d == Pow10[prec]
  <2>1. MeanDen = n * (d * s) /\ Abs(T) = M * s /\ M <= n * ((Cap - 1) * d)
    BY <1>3, <1>4, <1>5, <1>6
  <2> HIDE DEF d, s, M, n, T
  <2>2. n * (d * s) \in Nat \ {0}
    <3>1. n \in Nat \ {0} /\ d \in Nat \ {0} /\ s \in Nat \ {0}
      BY <1>1, <1>3 DEF d
    <3>2. d * s \in Nat \ {0}
      BY <3>1
    <3> QED BY <3>1, <3>2
  <2> DEFINE c == n * ((Cap - 1) * d)
  <2>3. c \in Nat /\ c * s = (Cap - 1) * (n * (d * s))
    <3>1. n \in Nat /\ d \in Nat /\ s \in Nat /\ Cap - 1 \in Nat
      BY <1>1, <1>3, CapFacts DEF d
    <3> QED BY <3>1
  <2>4. M <= c
    BY <2>1
  <2> HIDE DEF c
  <2>5. M * s <= c * s
    BY <1>3, <1>4, <2>3, <2>4
  <2> QED BY <2>1, <2>2, <2>3, <2>5
<1> QED
  BY <1>1, <1>4, <1>5, <1>7, <1>8 DEF IsNegative

(* A mean fits at precision 0, as the arguments do, and where it fits it   *)
(* fits with fewer digits.                                                 *)
LEMMA FittingMeansDown ==
  ASSUME IInv, HoldsPartial, i > Count
  PROVE  /\ 0 \in FittingMeans /\ FittingMeans \in SUBSET (0..MaxPrec)
         /\ \A p \in FittingMeans : \A q \in 0..MaxPrec : q <= p => q \in FittingMeans
         /\ \A p \in 0..MaxPrec : (p \in FittingMeans) <=> (Abs(ExactTotal) * Pow10[p] < MeanDen * Cap)
<1> DEFINE num == Abs(ExactTotal)
           den == MeanDen
<1>1. /\ num \in Nat /\ den \in Nat \ {0} /\ num <= (Cap - 1) * den
      /\ \A p \in 0..MaxPrec : num * Pow10[p] \in Nat /\ MeanAt(p).q = (num * Pow10[p]) \div den
  BY MeansOfTheTotal DEF MeanOf
<1>2. Cap \in Nat /\ Cap >= 16 /\ MaxPrec \in Nat /\ Pow10[0] = 1
  BY CapFacts, PowFacts
<1> HIDE DEF num, den
<1>3. ASSUME NEW p \in 0..MaxPrec
      PROVE  (p \in FittingMeans) <=> (num * Pow10[p] < den * Cap)
  <2> DEFINE x == num * Pow10[p]
  <2>1. x \in Nat /\ MeanAt(p).q = x \div den
    BY <1>1
  <2> HIDE DEF x
  <2>2. (x \div den < Cap) <=> (x < den * Cap)
    BY <1>1, <1>2, <2>1, DivBelow
  <2> QED BY <2>1, <2>2 DEF FittingMeans, x
<1>4. 0 \in FittingMeans
  <2>1. num * Pow10[0] = num /\ 0 \in 0..MaxPrec
    BY <1>1, <1>2
  <2>2. (Cap - 1) * den = den * Cap - den /\ den * Cap \in Nat
    BY <1>1, <1>2
  <2>3. num < den * Cap
    <3> DEFINE x == den * Cap
    <3> HIDE DEF x
    <3> QED BY <1>1, <2>2 DEF x
  <2> QED BY <1>3, <2>1, <2>3
<1>5. ASSUME NEW p \in FittingMeans, NEW q \in 0..MaxPrec, q <= p
      PROVE  q \in FittingMeans
  <2>1. p \in 0..MaxPrec
    BY DEF FittingMeans
  <2> DEFINE a == Pow10[q]
             b == Pow10[p]
  <2>2. a \in Nat /\ b \in Nat /\ a <= b
    BY <1>5, <2>1, PowSplit
  <2>3. num * b < den * Cap
    BY <1>3, <2>1
  <2> HIDE DEF a, b
  <2>4. num * a <= num * b /\ num * a \in Nat /\ num * b \in Nat /\ den * Cap \in Nat
    BY <1>1, <1>2, <2>2
  <2>5. num * a < den * Cap
    <3> DEFINE x == den * Cap
               y == num * a
               z == num * b
    <3> HIDE DEF x, y, z
    <3> QED BY <2>3, <2>4 DEF x, y, z
  <2> QED BY <1>3, <2>5 DEF a
<1> QED
  BY <1>3, <1>4, <1>5 DEF FittingMeans, num, den

----------------------------------------------------------------------------
(* The binary search of aggregateGreatestFit, over the set F of precisions *)
(* that fit, which holds 0; its bounds are unsigned.                       *)
FitStates == [lo : 0..MaxPrec, hi : 0..(MaxPrec - 1), best : -1..MaxPrec]
Fitting(F, f) ==
  [s \in FitStates |->
     IF s.lo > s.hi THEN s.best
     ELSE IF Middle(s) \in F THEN f[Bounds(Middle(s) + 1, s.hi, Middle(s))]
     ELSE IF Middle(s) = 0 THEN s.best
     ELSE f[Bounds(s.lo, Middle(s) - 1, s.best)]]

(* The search stops at the greatest member of F below the limit.           *)
LEMMA FitSearch ==
  ASSUME NEW F \in SUBSET (0..MaxPrec), 0 \in F,
         \A p \in F : \A q \in 0..MaxPrec : q <= p => q \in F,
         NEW limit \in 1..MaxPrec, limit \notin F,
         NEW f, f = CHOOSE g : g = Fitting(F, g)
  PROVE  /\ f[Bounds(0, limit - 1, -1)] \in 0..(limit - 1)
         /\ \A p \in 0..MaxPrec : p \in F <=> p <= f[Bounds(0, limit - 1, -1)]
<1> DEFINE X == FitStates
           Stop == {s \in X : s.lo > s.hi \/ (Middle(s) \notin F /\ Middle(s) = 0)}
           ends == [s \in X |-> s.best]
           nxt == [s \in X |-> IF Middle(s) \in F THEN Bounds(Middle(s) + 1, s.hi, Middle(s))
                               ELSE Bounds(s.lo, Middle(s) - 1, s.best)]
           m == [s \in X |-> IF s.lo > s.hi THEN 0 ELSE s.hi - s.lo + 1]
           Inv == {s \in X : /\ s.best = s.lo - 1 /\ s.lo <= s.hi + 1 /\ s.hi < limit
                             /\ \A p \in 0..MaxPrec : (p < s.lo => p \in F) /\ (p > s.hi => p \notin F)}
           Post == {b \in 0..(limit - 1) : \A p \in 0..MaxPrec : p \in F <=> p <= b}
           start == Bounds(0, limit - 1, -1)
<1>1. MaxPrec \in Nat /\ MaxPrec >= 1 /\ limit \in 1..MaxPrec /\ 0 \in 0..MaxPrec
  BY PowFacts
<1>2. \A s \in X : /\ s.lo \in 0..MaxPrec /\ s.hi \in 0..(MaxPrec - 1) /\ s.best \in -1..MaxPrec
                   /\ s.lo \in Int /\ s.hi \in Int /\ s.best \in Int /\ s \in SearchStates
  BY <1>1 DEF FitStates, SearchStates
<1>3. \A s \in X : s \notin Stop =>
        /\ s.lo <= s.hi /\ Middle(s) \in s.lo..s.hi /\ Middle(s) \in 0..(MaxPrec - 1) /\ Middle(s) \in Int
        /\ (Middle(s) \notin F => Middle(s) # 0)
  BY <1>2, MiddleBetween
<1>4. \A s \in X : s \notin Stop => nxt[s] \in X /\ m[nxt[s]] < m[s]
  <2> TAKE s \in X
  <2> HAVE s \notin Stop
  <2> DEFINE mid == Middle(s)
             up == Bounds(mid + 1, s.hi, mid)
             down == Bounds(s.lo, mid - 1, s.best)
  <2>1. s.lo <= s.hi /\ mid \in s.lo..s.hi /\ mid \in 0..(MaxPrec - 1) /\ mid \in Int
        /\ (mid \notin F => mid # 0)
    BY <1>3
  <2>2. m[s] = s.hi - s.lo + 1
    BY <1>2, <2>1
  <2>3. CASE mid \in F
    <3>1. nxt[s] = up
      BY <2>3
    <3> HIDE DEF mid
    <3>2. up \in X
      BY <1>1, <1>2, <2>1 DEF FitStates, Bounds
    <3>3. m[up] < m[s]
      BY <1>2, <2>1, <2>2, <3>2 DEF Bounds
    <3> HIDE DEF up, m, nxt
    <3> QED BY <3>1, <3>2, <3>3
  <2>4. CASE mid \notin F
    <3>1. nxt[s] = down
      BY <2>4
    <3> HIDE DEF mid
    <3>2. down \in X
      BY <1>1, <1>2, <2>1, <2>4 DEF FitStates, Bounds
    <3>3. m[down] < m[s]
      BY <1>2, <2>1, <2>2, <3>2 DEF Bounds
    <3> HIDE DEF down, m, nxt
    <3> QED BY <3>1, <3>2, <3>3
  <2> QED BY <2>3, <2>4
<1>5. Decreases(X, Stop, nxt, m)
  <2>1. m \in [X -> Nat]
    BY <1>2
  <2> HIDE DEF m, nxt, Stop
  <2> QED BY <1>4, <2>1 DEF Decreases
<1>6. \A g : LoopBody(X, Stop, ends, nxt, g) = Fitting(F, g)
  BY DEF LoopBody, Fitting
<1>7. f = LoopBody(X, Stop, ends, nxt, f)
  <2>1. \E g : g = LoopBody(X, Stop, ends, nxt, g)
    <3> HIDE DEF X, Stop, ends, nxt, m
    <3> QED BY <1>5, LoopDefined
  <2>2. \E g : g = Fitting(F, g)
    <3> HIDE DEF X, Stop, ends, nxt
    <3> QED BY <1>6, <2>1
  <2>3. f = Fitting(F, f)
    BY <2>2
  <2> HIDE DEF X, Stop, ends, nxt
  <2> QED BY <1>6, <2>3
<1>8. \A s \in Inv : s \in Stop => ends[s] \in Post
  <2> TAKE s \in Inv
  <2> HAVE s \in Stop
  <2>1. /\ s \in X /\ s.lo > s.hi /\ s.best = s.lo - 1 /\ s.lo <= s.hi + 1 /\ s.hi < limit
        /\ \A p \in 0..MaxPrec : (p < s.lo => p \in F) /\ (p > s.hi => p \notin F)
    OBVIOUS
  <2>2. s.best = s.hi /\ s.lo = s.hi + 1 /\ s.best \in 0..(limit - 1)
    BY <1>1, <1>2, <2>1
  <2> QED BY <1>1, <1>2, <2>1, <2>2
<1>9. \A s \in Inv : s \notin Stop => nxt[s] \in Inv
  <2> TAKE s \in Inv
  <2> HAVE s \notin Stop
  <2> DEFINE mid == Middle(s)
             up == Bounds(mid + 1, s.hi, mid)
             down == Bounds(s.lo, mid - 1, s.best)
  <2>1. /\ s \in X /\ s.best = s.lo - 1 /\ s.hi < limit
        /\ \A p \in 0..MaxPrec : (p < s.lo => p \in F) /\ (p > s.hi => p \notin F)
    OBVIOUS
  <2>2. s.lo <= s.hi /\ mid \in s.lo..s.hi /\ mid \in 0..(MaxPrec - 1) /\ mid \in Int
    BY <1>3, <2>1
  <2>3. nxt[s] \in X
    <3> HIDE DEF nxt, X
    <3> QED BY <1>4, <2>1
  <2> HIDE DEF mid
  <2>4. CASE mid \in F
    <3>1. nxt[s] = up /\ up.lo = mid + 1 /\ up.hi = s.hi /\ up.best = mid
      BY <2>1, <2>4 DEF mid, Bounds
    <3>2. \A p \in 0..MaxPrec : (p < mid + 1 => p \in F) /\ (p > s.hi => p \notin F)
      BY <1>1, <2>1, <2>2, <2>4
    <3> HIDE DEF nxt, up
    <3>3. up \in X /\ up.best = up.lo - 1 /\ up.lo <= up.hi + 1 /\ up.hi < limit
      BY <1>2, <2>1, <2>2, <2>3, <3>1
    <3> QED BY <3>1, <3>2, <3>3
  <2>5. CASE mid \notin F
    <3>1. nxt[s] = down /\ down.lo = s.lo /\ down.hi = mid - 1 /\ down.best = s.best
      BY <2>1, <2>5 DEF mid, Bounds
    <3>2. \A p \in 0..MaxPrec : (p < s.lo => p \in F) /\ (p > mid - 1 => p \notin F)
      BY <1>1, <2>1, <2>2, <2>5
    <3> HIDE DEF nxt, down
    <3>3. down \in X /\ down.best = down.lo - 1 /\ down.lo <= down.hi + 1 /\ down.hi < limit
      BY <1>1, <1>2, <2>1, <2>2, <2>3, <3>1
    <3> QED BY <3>1, <3>2, <3>3
  <2> QED BY <2>4, <2>5
<1>10. start \in Inv
  <2>1. start.lo = 0 /\ start.hi = limit - 1 /\ start.best = -1
    BY DEF Bounds
  <2>2. start \in X
    BY <1>1 DEF FitStates, Bounds
  <2>3. \A p \in 0..MaxPrec : p > limit - 1 => p \notin F
    BY <1>1
  <2> HIDE DEF start
  <2> QED BY <1>1, <2>1, <2>2, <2>3
<1>11. f[start] \in Post
  <2>1. Carries(X, Stop, ends, nxt, Inv, Post)
    <3>1. Inv \subseteq X
      OBVIOUS
    <3> HIDE DEF Inv, Post, Stop, ends, nxt, X
    <3> QED BY <1>8, <1>9, <3>1 DEF Carries
  <2>2. \A s \in Inv : f[s] \in Post
    <3> HIDE DEF Inv, Post, Stop, ends, nxt, m, X
    <3> QED BY <1>5, <1>7, <2>1, LoopAnswers
  <2> HIDE DEF start, Inv, Post
  <2> QED BY <1>10, <2>2
<1> QED
  BY <1>11

(* aggregateGreatestFit finds the greatest precision up to its limit.      *)
LEMMA GreatestFitFinds ==
  ASSUME IInv, HoldsPartial, i > Count, NEW limit \in 0..MaxPrec
  PROVE  /\ GreatestFit(limit) \in 0..limit /\ GreatestFit(limit) \in FittingMeans
         /\ \A p \in 0..limit : p > GreatestFit(limit) => p \notin FittingMeans
<1> DEFINE F == FittingMeans
           f == CHOOSE g : g = Fitting(F, g)
           start == Bounds(0, limit - 1, -1)
           best == IF limit \in F THEN limit ELSE IF limit = 0 THEN -1 ELSE f[start]
<1>1. /\ 0 \in F /\ F \in SUBSET (0..MaxPrec) /\ MaxPrec \in Nat
      /\ \A p \in F : \A q \in 0..MaxPrec : q <= p => q \in F
  BY FittingMeansDown, PowFacts
<1>2. GreatestFit(limit) = best
  <2>1. \A p \in 0..MaxPrec : ZeroUpper(MeanAt(p).q) <=> p \in F
    BY DEF ZeroUpper, FittingMeans
  <2> DEFINE Body(g) == [s \in FitStates |->
               IF s.lo > s.hi THEN s.best
               ELSE IF ZeroUpper(MeanAt(Middle(s)).q) THEN g[Bounds(Middle(s) + 1, s.hi, Middle(s))]
               ELSE IF Middle(s) = 0 THEN s.best
               ELSE g[Bounds(s.lo, Middle(s) - 1, s.best)]]
             search == CHOOSE g : g = Body(g)
  <2>2. GreatestFit(limit) = IF ZeroUpper(MeanAt(limit).q) THEN limit
                             ELSE IF limit = 0 THEN -1 ELSE search[start]
    BY DEF GreatestFit, FitStates, Bounds, Middle
  <2>3. \A g : Body(g) = Fitting(F, g)
    <3> TAKE g
    <3>1. \A s \in FitStates : ~(s.lo > s.hi) => (ZeroUpper(MeanAt(Middle(s)).q) <=> Middle(s) \in F)
      <4> TAKE s \in FitStates
      <4> HAVE ~(s.lo > s.hi)
      <4>1. s \in SearchStates /\ s.lo <= s.hi
        <5>1. s.lo \in 0..MaxPrec /\ s.hi \in 0..(MaxPrec - 1)
          BY DEF FitStates
        <5> QED BY <1>1, <5>1 DEF FitStates, SearchStates
      <4>2. Middle(s) \in 0..MaxPrec
        BY <1>1, <4>1, MiddleBetween
      <4> QED BY <2>1, <4>2
    <3> HIDE DEF F
    <3> QED BY <3>1 DEF Fitting
  <2>4. search = f
    <3> HIDE DEF Body, F
    <3> QED BY <2>3
  <2> HIDE DEF search, f, start, F
  <2> QED BY <2>1, <2>2, <2>4
<1>3. best \in 0..limit /\ best \in F /\ \A p \in 0..limit : p > best => p \notin F
  <2>1. CASE limit \in F
    <3> HIDE DEF F, f, start
    <3> QED BY <1>1, <2>1
  <2>2. CASE limit \notin F
    <3>1. limit \in 1..MaxPrec
      <4> HIDE DEF F
      <4> QED BY <1>1, <2>2
    <3>2. f[start] \in 0..(limit - 1) /\ \A p \in 0..MaxPrec : p \in F <=> p <= f[start]
      <4> HIDE DEF F
      <4> QED BY <1>1, <2>2, <3>1, FitSearch
    <3>3. best = f[start]
      <4> HIDE DEF F, f, start
      <4> QED BY <1>1, <2>2, <3>1
    <3> HIDE DEF F, f, start, best
    <3> QED BY <1>1, <3>1, <3>2, <3>3
  <2> QED BY <2>1, <2>2
<1> QED
  BY <1>2, <1>3

----------------------------------------------------------------------------
(* t/(n * 10^MaxPrec) truncated at the greatest precision that fits.       *)
TruncatesMean(r, t, n) ==
  LET Quotient(p) == (Abs(t) * Pow10[p]) \div (n * Pow10[MaxPrec])
  IN  /\ r.err = "nil"
      /\ \E p \in 0..DefaultPrec :
           /\ Quotient(p) < Cap
           /\ \A q \in (p + 1)..DefaultPrec : ~(Quotient(q) < Cap)
           /\ r.val = NewDecimal(Quotient(p), t < 0, p)

(* Div by the number of terms truncates the mean of an exact sum.          *)
LEMMA DivMean ==
  ASSUME NEW M \in Nat, M < Cap, NEW f \in 0..MaxPrec, NEW n \in Nat \ {0}, n < Cap,
         NEW t \in Int, Abs(t) = M * Pow10[MaxPrec - f]
  PROVE  TruncatesMean(Div(NewDecimal(M, t < 0, f), NewFromUint64(n)), t, n)
<1> DEFINE d == NewDecimal(M, t < 0, f)
           e == NewFromUint64(n)
           Q(p) == (Abs(t) * Pow10[p]) \div (n * Pow10[MaxPrec])
           r == Div(d, e)
<1>1. /\ DefaultPrec \in Nat /\ DefaultPrec <= MaxPrec /\ MaxPrec \in Nat /\ Cap \in Nat /\ Cap >= 16
      /\ 0 \in 0..MaxPrec /\ (t < 0) \in BOOLEAN /\ Pow10[0] = 1
  BY DefaultPrecAssumption, PowFacts, CapFacts
<1>2. /\ e \in Decimals /\ e.coef = n /\ e.prec = 0 /\ e.neg = FALSE
  BY <1>1, MakeDecimal DEF NewFromUint64
<1>3. d \in Decimals /\ d.coef = M /\ (M = 0 => d = Zero) /\ (M # 0 => d.neg = (t < 0) /\ d.prec = f)
  <2> DEFINE neg0 == t < 0
  <2>1. neg0 \in BOOLEAN /\ M \in 0..(Cap - 1)
    BY <1>1
  <2> HIDE DEF neg0
  <2>2. LET z == NewDecimal(M, neg0, f)
        IN  z \in Decimals /\ z.coef = M /\ (M = 0 => z = Zero) /\ (M # 0 => z.neg = neg0 /\ z.prec = f)
    BY <2>1, MakeDecimal
  <2> QED BY <2>2 DEF neg0
<1>4. ASSUME NEW p \in 0..DefaultPrec
      PROVE  Q(p) = (M * Pow10[p]) \div (n * Pow10[f]) /\ p \in 0..MaxPrec
  <2> DEFINE u == Abs(t)
  <2>1. u = M * Pow10[MaxPrec - f] /\ p \in 0..MaxPrec
    BY <1>1
  <2> HIDE DEF u
  <2>2. (u * Pow10[p]) \div (n * Pow10[MaxPrec]) = (M * Pow10[p]) \div (n * Pow10[f])
    BY <2>1, MeanFraction
  <2> QED BY <2>1, <2>2 DEF u
<1>5. Q(0) < Cap /\ \A p \in 0..DefaultPrec : Q(p) \in Int
  <2>1. M <= n * ((Cap - 1) * Pow10[f])
    <3> DEFINE b == Pow10[f]
    <3>1. b \in Nat \ {0}
      BY PowFacts
    <3> HIDE DEF b
    <3>2. Cap - 1 <= (Cap - 1) * b /\ (Cap - 1) * b \in Nat
      BY <1>1, <3>1
    <3> DEFINE c == (Cap - 1) * b
    <3> HIDE DEF c
    <3>3. c <= n * c /\ n * c \in Nat
      BY <3>2 DEF c
    <3> QED BY <1>1, <3>2, <3>3 DEF c, b
  <2>2. \A p \in 0..MaxPrec : /\ (M * Pow10[p]) \div (n * Pow10[f]) <= (Cap - 1) * Pow10[p]
                              /\ (M * Pow10[p]) \div (n * Pow10[f]) \in Nat
    BY <2>1, MeanBounded
  <2>3. 0 \in 0..DefaultPrec
    BY <1>1
  <2>4. (Cap - 1) * Pow10[0] = Cap - 1
    BY <1>1
  <2>5. Q(0) <= Cap - 1 /\ Q(0) \in Nat
    <3>1. (M * Pow10[0]) \div (n * Pow10[f]) <= Cap - 1 /\ (M * Pow10[0]) \div (n * Pow10[f]) \in Nat
      BY <1>1, <2>2, <2>4
    <3>2. Q(0) = (M * Pow10[0]) \div (n * Pow10[f])
      BY <1>4, <2>3
    <3> HIDE DEF Q
    <3> QED BY <3>1, <3>2
  <2>6. \A p \in 0..DefaultPrec : Q(p) \in Nat
    <3> TAKE p \in 0..DefaultPrec
    <3>1. p \in 0..MaxPrec /\ Q(p) = (M * Pow10[p]) \div (n * Pow10[f])
      BY <1>4
    <3> HIDE DEF Q
    <3> QED BY <2>2, <3>1
  <2> HIDE DEF Q
  <2> QED BY <1>1, <2>5, <2>6
<1>6. TruncatesMean(r, t, n) <=>
        /\ r.err = "nil"
        /\ \E p \in 0..DefaultPrec : /\ Q(p) < Cap
                                     /\ \A q \in (p + 1)..DefaultPrec : ~(Q(q) < Cap)
                                     /\ r.val = NewDecimal(Q(p), t < 0, p)
  BY DEF TruncatesMean
<1>7. CASE M = 0
  <2>1. r = Ok(Zero)
    BY <1>2, <1>3, <1>7 DEF Div
  <2>2. DefaultPrec \in 0..DefaultPrec /\ Q(DefaultPrec) = 0
    <3>1. DefaultPrec \in 0..DefaultPrec
      BY <1>1
    <3>2. Q(DefaultPrec) = (M * Pow10[DefaultPrec]) \div (n * Pow10[f])
      BY <1>4, <3>1
    <3> DEFINE y == n * Pow10[f]
    <3>3. y \in Nat \ {0} /\ M * Pow10[DefaultPrec] = 0
      <4>1. Pow10[f] \in Nat \ {0} /\ Pow10[DefaultPrec] \in Nat
        BY <1>1, PowFacts
      <4> QED BY <1>7, <4>1
    <3> HIDE DEF y, Q
    <3>4. 0 \div y = 0
      BY <3>3
    <3> QED BY <3>1, <3>2, <3>3, <3>4 DEF y
  <2>3. NewDecimal(0, t < 0, DefaultPrec) = Zero
    BY DEF NewDecimal
  <2>4. \A q \in (DefaultPrec + 1)..DefaultPrec : FALSE
    BY <1>1
  <2>5. r.err = "nil" /\ r.val = NewDecimal(Q(DefaultPrec), t < 0, DefaultPrec)
    <3> HIDE DEF Q, r
    <3> QED BY <2>1, <2>2, <2>3 DEF Ok
  <2>6. TruncatesMean(r, t, n)
    <3> HIDE DEF Q, r
    <3> QED BY <1>1, <1>6, <2>2, <2>4, <2>5
  <2> QED BY <2>6
<1>8. CASE M # 0
  <2> DEFINE G(p) == (d.coef * Pow10[p + e.prec]) \div (e.coef * Pow10[d.prec])
             fitting == {p \in 0..DefaultPrec : G(p) < Cap}
  <2>1. GreatestQuotient(r, d, e)
    BY <1>2, <1>3, <1>8, DivIsGreatest
  <2>2. ASSUME NEW p \in 0..DefaultPrec
        PROVE  G(p) = Q(p)
    <3>1. p + e.prec = p
      BY <1>1, <1>2
    <3> HIDE DEF Q, d, e
    <3> QED BY <1>2, <1>3, <1>4, <1>8, <3>1
  <2>3. /\ IF fitting = {} THEN r.err = "Overflow"
           ELSE \E p \in fitting : /\ \A q \in fitting : q <= p
                                   /\ r.err = "nil"
                                   /\ r.val = NewDecimal(G(p), d.neg # e.neg, p)
    BY <2>1 DEF GreatestQuotient
  <2>4. (d.neg # e.neg) = (t < 0)
    BY <1>1, <1>2, <1>3, <1>8
  <2>5. fitting = {p \in 0..DefaultPrec : Q(p) < Cap}
    <3> HIDE DEF G, Q
    <3> QED BY <2>2
  <2>6. 0 \in fitting
    <3> HIDE DEF G, Q, fitting
    <3> QED BY <1>1, <1>5, <2>5
  <2> HIDE DEF G, Q, fitting, r, d, e
  <2>7. PICK p \in fitting : /\ \A q \in fitting : q <= p
                             /\ r.err = "nil" /\ r.val = NewDecimal(G(p), t < 0, p)
    BY <2>3, <2>4, <2>6
  <2>8. p \in 0..DefaultPrec /\ Q(p) < Cap /\ G(p) = Q(p)
    BY <2>2, <2>5
  <2>9. \A q \in (p + 1)..DefaultPrec : ~(Q(q) < Cap)
    <3> TAKE q \in (p + 1)..DefaultPrec
    <3>1. q \in 0..DefaultPrec /\ ~(q <= p)
      BY <1>1, <2>8
    <3> QED BY <2>5, <2>7, <3>1
  <2>10. TruncatesMean(r, t, n)
    BY <1>6, <2>7, <2>8, <2>9
  <2> QED BY <2>10 DEF r, d, e
<1> QED
  BY <1>7, <1>8

(* Two Decimals whose exact sum has a Decimal: what Add returns.           *)
LEMMA AddedExactly ==
  ASSUME NEW d \in Decimals, NEW e \in Decimals, Add(d, e).err = "nil"
  PROVE  LET t == Scaled(d) + Scaled(e)
             f == Larger(d.prec, e.prec)
         IN  \E M \in Nat : /\ M < Cap /\ f \in 0..MaxPrec /\ t \in Int
                            /\ Abs(t) = M * Pow10[MaxPrec - f]
                            /\ Add(d, e).val = NewDecimal(M, t < 0, f)
<1> DEFINE t == Scaled(d) + Scaled(e)
           f == Larger(d.prec, e.prec)
           s == Pow10[MaxPrec - f]
           a == WithSign(d.coef * Pow10[f - d.prec], d.neg)
           b == WithSign(e.coef * Pow10[f - e.prec], e.neg)
           n == a + b
<1>1. /\ d.prec \in 0..MaxPrec /\ e.prec \in 0..MaxPrec /\ MaxPrec \in Nat
  BY DecimalFacts, PowFacts
<1>2. f \in 0..MaxPrec /\ d.prec <= f /\ e.prec <= f
  BY <1>1 DEF Larger
<1>3. a \in Int /\ b \in Int /\ Scaled(d) = a * s /\ Scaled(e) = b * s
  <2> HIDE DEF f
  <2> QED BY <1>2, ScaledSplit
<1>4. s \in Nat \ {0}
  <2>1. MaxPrec \in 0..MaxPrec /\ f <= MaxPrec
    BY <1>1, <1>2
  <2>2. s \in Nat /\ s >= 1
    <3> HIDE DEF f
    <3> QED BY <1>2, <2>1, PowSplit
  <2> HIDE DEF s
  <2> QED BY <2>2
<1>5. t = n * s /\ n \in Int
  <2> HIDE DEF a, b, s
  <2> QED BY <1>3, <1>4
<1>6. Add(d, e) = Exactly(n, f)
  <2>1. Add(d, e) = SumOf(t, f)
    BY AddIsExact
  <2> HIDE DEF t, n, f
  <2> QED BY <1>2, <1>5, <2>1, SumOfExactly
<1> HIDE DEF n, s, f, t
<1>7. Abs(t) = Abs(n) * s /\ (t < 0) = (n < 0) /\ Abs(n) \in Nat /\ t \in Int
  <2>1. n * s \in Int /\ (n * s < 0) = (n < 0)
    BY <1>4, <1>5
  <2>2. n < 0 => -(n * s) = (-n) * s
    BY <1>4, <1>5
  <2> QED BY <1>5, <2>1, <2>2 DEF Abs
<1>8. Abs(n) < Cap /\ Add(d, e).val = NewDecimal(Abs(n), n < 0, f)
  BY <1>6, <1>7, CapFacts DEF Exactly, Fail, Ok
<1> QED
  BY <1>2, <1>7, <1>8 DEF s, f, t

----------------------------------------------------------------------------
(* The invariant of the means: the totals hold what PartialSum says, each  *)
(* phase belongs to its operations, and an answer is what was promised.    *)
Routed ==
  /\ pc \in {"skip", "narrow", "wide"} => op \in {"Sum", "Avg"}
  /\ pc = "aligned" /\ op = "AvgRound" => places \in 0..MaxPrec /\ mode \in Modes
MInv == IInv /\ HoldsPartial /\ Routed /\ AvgTruncatesMean /\ AvgExactOrRounded

(* What the two properties ask of an answer r to the current call.         *)
MeanReply(r) ==
  /\ op = "Avg" => TruncatesMean(r, ExactTotal, Count)
  /\ op = "AvgExact" => ExactReply(r, Abs(ExactTotal), MeanDen, ExactTotal < 0, MaxPrec)
  /\ op = "AvgRound" =>
       IF places > MaxPrec \/ mode \notin Modes
       THEN r = Fail(IF places > MaxPrec THEN "PrecOutOfRange" ELSE "InvalidRoundingMode")
       ELSE RoundsOnce(Abs(ExactTotal) * Pow10[places], MeanDen, ExactTotal < 0,
                       places, mode, r.val, r.err)

LEMMA AnswerMeans ==
  ASSUME UNCHANGED call, MeanReply(res')
  PROVE  AvgTruncatesMean' /\ AvgExactOrRounded'
<1>1. /\ op' = op /\ args' = args /\ places' = places /\ mode' = mode
  BY DEF call
<1>2. Count' = Count /\ ExactTotal' = ExactTotal /\ MeanDen' = MeanDen
  <2>1. Count' = Count
    BY <1>1 DEF Count
  <2> QED BY <1>1, <2>1 DEF ExactTotal, MeanDen, Scaled
<1>3. AvgTruncatesMean'
  BY <1>1, <1>2 DEF AvgTruncatesMean, MeanReply, TruncatesMean, MeanDen
<1>4. AvgExactOrRounded'
  <2> DEFINE t == ExactTotal
             den == MeanDen
             r == res'
             Exactness == /\ Classified(Abs(t), den, t < 0, r.val, r.err)
                          /\ r.err = "nil" /\ r.val # Zero /\ r.val.prec < MaxPrec => r.val.coef * 10 >= Cap
             Once == IF places > MaxPrec \/ mode \notin Modes
                     THEN r = Fail(IF places > MaxPrec THEN "PrecOutOfRange" ELSE "InvalidRoundingMode")
                     ELSE RoundsOnce(Abs(t) * Pow10[places], den, t < 0, places, mode, r.val, r.err)
  <2>1. op = "AvgExact" => Exactness
    <3>1. op = "AvgExact" => ExactReply(r, Abs(t), den, t < 0, MaxPrec)
      BY DEF MeanReply
    <3> HIDE DEF t, den, r
    <3> QED BY <3>1 DEF ExactReply
  <2>2. op = "AvgRound" => Once
    BY DEF MeanReply
  <2>3. AvgExactOrRounded' = (pc' = "done" => (op' = "AvgExact" => Exactness) /\ (op' = "AvgRound" => Once))
    BY <1>1, <1>2 DEF AvgExactOrRounded
  <2> HIDE DEF Exactness, Once
  <2> QED BY <1>1, <2>1, <2>2, <2>3
<1> QED
  BY <1>3, <1>4

(* The mean of two arguments whose sum is a Decimal.                       *)
LEMMA PairMean ==
  ASSUME IInv, PairAvg, Add(args[1], args[2]).err = "nil"
  PROVE  MeanReply(Div(Add(args[1], args[2]).val, NewFromUint64(Count)))
<1> DEFINE d == args[1]
           e == args[2]
           f == Larger(d.prec, e.prec)
<1>1. /\ op = "Avg" /\ Count = 2 /\ CallOK
  BY DEF PairAvg, IInv
<1>2. d \in Decimals /\ e \in Decimals /\ Count \in Nat \ {0} /\ Count < Cap
  <2>1. args \in Seq(Inputs) /\ Len(args) = 2 /\ Count \in 1..MaxTerms
    BY <1>1 DEF CallOK, Count
  <2>2. d \in Inputs /\ e \in Inputs
    <3>1. \A j \in 1..Len(args) : args[j] \in Inputs
      BY <2>1
    <3>2. 1 \in 1..Len(args) /\ 2 \in 1..Len(args)
      BY <2>1
    <3> QED BY <3>1, <3>2
  <2>3. MaxTerms < Cap
    <3> DEFINE s == Pow10[MaxPrec]
    <3>1. s \in Nat \ {0} /\ MaxTerms \in Nat /\ MaxTerms * s < Cap /\ Cap \in Nat
      BY PowFacts, CapFacts, TermsAssumption
    <3> HIDE DEF s
    <3>2. MaxTerms <= MaxTerms * s /\ MaxTerms * s \in Nat
      BY <3>1
    <3> QED BY <3>1, <3>2
  <2> QED BY <1>1, <2>1, <2>2, <2>3, TermsAssumption, CapFacts
<1>3. ExactTotal = Scaled(d) + Scaled(e)
  <2>1. /\ ExactTotal = PartialSum[2] /\ PartialSum[0] = 0 /\ 1 \in 1..Count /\ 2 \in 1..Count
        /\ \A n \in 1..Count : PartialSum[n] = PartialSum[n - 1] + Scaled(args[n])
    BY <1>1, PartialSums
  <2>2. PartialSum[1] = PartialSum[1 - 1] + Scaled(d) /\ PartialSum[2] = PartialSum[2 - 1] + Scaled(e)
    BY <2>1
  <2>3. 1 - 1 = 0 /\ 2 - 1 = 1
    OBVIOUS
  <2>4. 1 \in 0..Count /\ PartialSum[1] \in Int
    BY <1>1, PartialSums
  <2>5. Scaled(d) \in Int
    BY <1>2, ScaledInt
  <2> QED BY <2>1, <2>2, <2>3, <2>4, <2>5
<1> HIDE DEF d, e
<1>4. Add(d, e).err = "nil"
  BY DEF d, e
<1>5. PICK M \in Nat : /\ M < Cap /\ f \in 0..MaxPrec /\ Scaled(d) + Scaled(e) \in Int
                       /\ Abs(Scaled(d) + Scaled(e)) = M * Pow10[MaxPrec - f]
                       /\ Add(d, e).val = NewDecimal(M, Scaled(d) + Scaled(e) < 0, f)
  BY <1>2, <1>4, AddedExactly
<1> HIDE DEF f
<1>6. /\ ExactTotal \in Int /\ Abs(ExactTotal) = M * Pow10[MaxPrec - f]
      /\ Add(d, e).val = NewDecimal(M, ExactTotal < 0, f)
  BY <1>3, <1>5
<1>7. TruncatesMean(Div(NewDecimal(M, ExactTotal < 0, f), NewFromUint64(Count)), ExactTotal, Count)
  <2> DEFINE t == ExactTotal
             n == Count
  <2>1. t \in Int /\ Abs(t) = M * Pow10[MaxPrec - f] /\ n \in Nat \ {0} /\ n < Cap
    BY <1>2, <1>6
  <2> HIDE DEF t, n
  <2>2. TruncatesMean(Div(NewDecimal(M, t < 0, f), NewFromUint64(n)), t, n)
    BY <1>5, <2>1, DivMean
  <2> QED BY <2>2 DEF t, n
<1> QED
  BY <1>1, <1>6, <1>7 DEF MeanReply, d, e

(* The mean of arguments that all went into the 128-bit subtotals.         *)
LEMMA NarrowMean ==
  ASSUME IInv, HoldsPartial, Routed, NarrowDone
  PROVE  MeanReply(res')
<1>1. /\ pc = "narrow" /\ i > Count /\ op \in {"Sum", "Avg"}
  BY DEF NarrowDone, Routed
<1>2. CASE op = "Sum"
  BY <1>2 DEF MeanReply
<1>3. CASE op = "Avg"
  <2> DEFINE t == ExactTotal
             n == Count
             M == Magnitude
  <2>1. res' = Div(NewDecimal(M, IsNegative, prec), NewFromUint64(n))
    BY <1>3 DEF NarrowDone, Answer
  <2>2. /\ t \in Int /\ M \in Nat /\ prec \in 0..MaxPrec /\ n \in Nat \ {0}
        /\ Abs(t) = M * Pow10[MaxPrec - prec] /\ IsNegative = (t < 0)
    BY <1>1, MeansOfTheTotal
  <2>3. M < Cap
    <3>1. pos \in 0..(Cap - 1) /\ neg \in 0..(Cap - 1)
      BY <1>1 DEF IInv, Totals, U128
    <3> QED BY <3>1, CapFacts DEF Magnitude, Abs
  <2>4. n < Cap
    <3>1. n \in 1..MaxTerms
      BY DEF IInv, CallOK
    <3> DEFINE s == Pow10[MaxPrec]
    <3>2. s \in Nat \ {0} /\ MaxTerms \in Nat /\ MaxTerms * s < Cap /\ Cap \in Nat
      BY PowFacts, CapFacts, TermsAssumption
    <3> HIDE DEF s
    <3>3. MaxTerms <= MaxTerms * s /\ MaxTerms * s \in Nat
      BY <3>2
    <3> QED BY <3>1, <3>2, <3>3
  <2>5. TruncatesMean(res', t, n)
    <3> HIDE DEF t, n, M
    <3>1. TruncatesMean(Div(NewDecimal(M, t < 0, prec), NewFromUint64(n)), t, n)
      BY <2>2, <2>3, <2>4, DivMean
    <3> QED BY <2>1, <2>2, <3>1
  <2> QED BY <1>3, <2>5 DEF MeanReply
<1> QED
  BY <1>1, <1>2, <1>3

(* The mean from the wide total, at the greatest precision that fits.      *)
LEMMA WideMean ==
  ASSUME IInv, HoldsPartial, WideAvgDone
  PROVE  MeanReply(res')
<1> DEFINE t == ExactTotal
           p == GreatestFit(DefaultPrec)
           Q(k) == (Abs(t) * Pow10[k]) \div (Count * Pow10[MaxPrec])
<1>1. i > Count /\ op = "Avg" /\ DefaultPrec \in 0..MaxPrec /\ MaxPrec \in Nat
  BY DefaultPrecAssumption, PowFacts DEF WideAvgDone
<1>2. /\ p \in 0..DefaultPrec /\ p \in FittingMeans
      /\ \A k \in 0..DefaultPrec : k > p => k \notin FittingMeans
  BY <1>1, GreatestFitFinds
<1>3. \A k \in 0..DefaultPrec : /\ k \in 0..MaxPrec /\ MeanAt(k).q = Q(k)
                                /\ k \in FittingMeans <=> Q(k) < Cap
  <2> TAKE k \in 0..DefaultPrec
  <2>1. k \in 0..MaxPrec
    BY <1>1
  <2>2. MeanOf(MeanAt(k), Abs(t) * Pow10[k], MeanDen)
    BY <1>1, <2>1, MeansOfTheTotal
  <2>3. MeanAt(k).q = Q(k)
    BY <2>2 DEF MeanOf, MeanDen
  <2> HIDE DEF Q
  <2> QED BY <2>1, <2>3 DEF FittingMeans
<1>4. IsNegative = (t < 0)
  BY <1>1, MeansOfTheTotal
<1>5. res' = IF p = -1 THEN Fail("Overflow") ELSE Ok(NewDecimal(MeanAt(p).q, IsNegative, p))
  BY DEF WideAvgDone, Answer
<1>6. TruncatesMean(res', t, Count) <=>
        /\ res'.err = "nil"
        /\ \E k \in 0..DefaultPrec : /\ Q(k) < Cap
                                     /\ \A j \in (k + 1)..DefaultPrec : ~(Q(j) < Cap)
                                     /\ res'.val = NewDecimal(Q(k), t < 0, k)
  BY DEF TruncatesMean
<1> HIDE DEF t, p, Q
<1>7. res'.err = "nil" /\ res'.val = NewDecimal(Q(p), t < 0, p) /\ Q(p) < Cap
  <2>1. p # -1
    BY <1>1, <1>2
  <2> QED BY <1>2, <1>3, <1>4, <1>5, <2>1 DEF Ok
<1>8. \A j \in (p + 1)..DefaultPrec : ~(Q(j) < Cap)
  <2> TAKE j \in (p + 1)..DefaultPrec
  <2>1. j \in 0..DefaultPrec /\ j > p
    BY <1>1, <1>2
  <2> QED BY <1>2, <1>3, <2>1
<1>9. TruncatesMean(res', t, Count)
  BY <1>2, <1>6, <1>7, <1>8
<1> QED
  BY <1>1, <1>9 DEF MeanReply, t

(* AvgExact answers like DivExact of the total by the count: a mean is     *)
(* never above the largest coefficient, so it is never out of range.       *)
LEMMA ExactMean ==
  ASSUME IInv, HoldsPartial, AvgExactDone
  PROVE  MeanReply(res')
<1> DEFINE T == Abs(ExactTotal)
           den == MeanDen
           p == GreatestFit(MaxPrec)
           n == T * Pow10[p]
           mean == MeanAt(p)
           below == ExactTotal < 0
           r == IF mean.num = 0 THEN Ok(NewDecimal(mean.q, below, p))
                ELSE IF mean.q = 0 THEN Fail("Underflow") ELSE Fail("Inexact")
<1>1. i > Count /\ op = "AvgExact" /\ MaxPrec \in 0..MaxPrec /\ MaxPrec \in Nat /\ 0 \in 0..MaxPrec
  BY PowFacts DEF AvgExactDone
<1>2. /\ p \in 0..MaxPrec /\ p \in FittingMeans
      /\ \A k \in 0..MaxPrec : k > p => k \notin FittingMeans
  BY <1>1, GreatestFitFinds
<1>3. /\ T \in Nat /\ den \in Nat \ {0} /\ IsNegative = below /\ below \in BOOLEAN
      /\ T <= (Cap - 1) * den
      /\ MeanOf(mean, n, den) /\ n \in Nat
  BY <1>1, <1>2, MeansOfTheTotal
<1>4. res' = r
  <2>1. res' = IF p = -1 THEN Fail("Overflow")
               ELSE IF mean.num = 0 THEN Ok(NewDecimal(mean.q, IsNegative, p))
               ELSE IF mean.q = 0 THEN Fail("Underflow") ELSE Fail("Inexact")
    BY DEF AvgExactDone, Answer
  <2>2. p # -1
    <3> HIDE DEF p
    <3> QED BY <1>1, <1>2
  <2> HIDE DEF p, mean, below
  <2> QED BY <1>3, <2>1, <2>2
<1>5. \A k \in 0..MaxPrec : (k \in FittingMeans) <=> (T * Pow10[k] < den * Cap)
  BY <1>1, FittingMeansDown
<1>6. mean.q = n \div den /\ (mean.num # 0) = (n % den # 0) /\ mean.q < Cap
  BY <1>2, <1>3 DEF MeanOf, FittingMeans
<1> HIDE DEF T, den, p, mean, below
<1>7. CASE T = 0
  <2>1. n = 0
    <3>1. Pow10[p] \in Nat
      BY <1>2, PowFacts
    <3> QED BY <1>7, <3>1
  <2> HIDE DEF n
  <2>2. n \div den = 0 /\ n % den = 0
    BY <1>3, <2>1
  <2>3. r = Ok(Zero)
    BY <1>6, <2>2 DEF NewDecimal
  <2>4. ExactReply(r, T, den, below, MaxPrec)
    BY <1>3, <1>7, <2>3, ZeroExact
  <2> HIDE DEF r
  <2> QED BY <1>1, <1>4, <2>4 DEF MeanReply, T, den, below
<1>8. CASE T # 0
  <2> DEFINE q == n \div den
             rem == (n % den # 0)
  <2>1. ~(rem /\ p = 0 /\ q = MaxCoef)
    <3> SUFFICES ASSUME rem, p = 0, q = MaxCoef PROVE FALSE
      OBVIOUS
    <3>1. n = T
      <4>1. Pow10[0] = 1
        BY PowFacts
      <4> QED BY <1>3, <4>1
    <3>2. T \div den = Cap - 1 /\ T % den # 0
      BY <3>1 DEF MaxCoef
    <3>3. T \in Int /\ den \in Nat \ {0} /\ Cap \in Nat
      BY <1>3, CapFacts
    <3> HIDE DEF n, q, rem
    <3>4. T = den * (T \div den) + (T % den) /\ T % den \in 0..(den - 1) /\ T \div den \in Int
      BY <3>3, DivMod
    <3>5. T = den * (Cap - 1) + (T % den)
      BY <3>2, <3>4
    <3>6. den * (Cap - 1) = (Cap - 1) * den /\ (Cap - 1) * den \in Int
      BY <3>3
    <3> QED BY <1>3, <3>2, <3>3, <3>4, <3>5, <3>6
  <2>2. r = FinishDivExact(q, rem, p, below)
    <3>1. mean.q = q /\ (mean.num = 0) = ~rem
      BY <1>6
    <3> HIDE DEF q, rem, n
    <3> QED BY <2>1, <3>1 DEF FinishDivExact
  <2>3. \A k \in 0..MaxPrec : k > p => T * Pow10[k] >= den * Cap
    <3> TAKE k \in 0..MaxPrec
    <3> HAVE k > p
    <3>1. ~(T * Pow10[k] < den * Cap)
      BY <1>2, <1>5
    <3>2. T * Pow10[k] \in Nat /\ den * Cap \in Nat
      <4>1. Pow10[k] \in Nat
        BY PowFacts
      <4> QED BY <1>3, <4>1, CapFacts
    <3> DEFINE x == T * Pow10[k]
               y == den * Cap
    <3> HIDE DEF x, y
    <3>3. ~(x < y) /\ x \in Nat /\ y \in Nat
      BY <3>1, <3>2 DEF x, y
    <3> QED BY <3>3 DEF x, y
  <2>4. q < Cap /\ T \in Nat \ {0}
    BY <1>3, <1>6, <1>8
  <2>5. ExactReply(r, T, den, below, MaxPrec)
    <3> DEFINE rr == r
    <3> HIDE DEF rr
    <3>1. rr = FinishDivExact(q, rem, p, below)
      BY <2>2 DEF rr
    <3>2. q = n \div den /\ rem = (n % den # 0) /\ n = T * Pow10[p]
      OBVIOUS
    <3> HIDE DEF q, rem, n, r
    <3>3. ExactReply(rr, T, den, below, MaxPrec)
      BY <1>2, <1>3, <2>3, <2>4, <3>1, <3>2, FinishAnswers
    <3> QED BY <3>3 DEF rr
  <2> HIDE DEF r
  <2> QED BY <1>1, <1>4, <2>5 DEF MeanReply, T, den, below
<1> QED
  BY <1>7, <1>8

(* AvgRound rounds once from the quotient and the remainder of the mean.   *)
LEMMA RoundMean ==
  ASSUME IInv, HoldsPartial, Routed, AvgRoundDone
  PROVE  MeanReply(res')
<1> DEFINE num == Abs(ExactTotal) * Pow10[places]
           den == MeanDen
           mean == MeanAt(places)
           below == ExactTotal < 0
           quot == [fits |-> ZeroUpper(mean.q), q |-> mean.q, rem |-> (mean.num # 0),
                    half |-> CmpDouble128(mean.num, mean.den)]
<1>1. /\ i > Count /\ op = "AvgRound" /\ pc = "aligned" /\ places \in 0..MaxPrec /\ mode \in Modes
  BY DEF AvgRoundDone, Routed
<1>2. /\ num \in Nat /\ den \in Nat \ {0} /\ IsNegative = below /\ below \in BOOLEAN
      /\ MeanOf(mean, num, den) /\ mean.q \in Nat
  BY <1>1, MeansOfTheTotal
<1>3. res' = FinishRound(quot, IsNegative, places, mode)
  BY DEF AvgRoundDone, Answer, FinishRound
<1>4. IsQuotient(quot, num, den)
  <2> HIDE DEF mean, num, den
  <2>1. /\ quot.fits = (mean.q < Cap) /\ quot.q = mean.q /\ quot.rem = (mean.num # 0)
        /\ quot.half = CmpDouble128(mean.num, mean.den)
    BY DEF ZeroUpper
  <2>2. /\ mean.q = num \div den /\ (mean.num # 0) = (num % den # 0)
        /\ CmpDouble128(mean.num, mean.den) = Sign3(2 * (num % den) - den)
    BY <1>2 DEF MeanOf
  <2>3. mean.q < Cap \/ mean.q >= Cap
    BY <1>2, CapFacts
  <2> HIDE DEF quot
  <2>4. quot.fits \in BOOLEAN /\ (quot.fits <=> mean.q < Cap)
    <3> DEFINE b == mean.q < Cap
    <3>1. b \in BOOLEAN /\ quot.fits = b
      BY <2>1
    <3> HIDE DEF b
    <3>2. quot.fits \in BOOLEAN /\ (quot.fits <=> b)
      BY <3>1, Zenon
    <3> QED BY <3>2 DEF b
  <2>5. quot.rem = (num % den # 0)
    BY <2>1, <2>2
  <2>6. quot.half = Sign3(2 * (num % den) - den) /\ quot.q = num \div den
    BY <2>1, <2>2
  <2>7. quot.fits => num \div den < Cap
    BY <2>2, <2>4
  <2>8. ~quot.fits => num \div den >= Cap
    BY <2>2, <2>3, <2>4
  <2> QED BY <2>4, <2>5, <2>6, <2>7, <2>8 DEF IsQuotient
<1>5. RoundedReply(res', num, den, below, places, mode)
  <2> HIDE DEF quot, num, den, below, mean
  <2> QED BY <1>1, <1>2, <1>3, <1>4, FinishRoundOnce
<1>6. ~(places > MaxPrec)
  BY <1>1, PowFacts
<1> QED
  BY <1>1, <1>5, <1>6 DEF MeanReply, RoundedReply

(* The phases are entered by the operations they belong to.                *)
LEMMA NextRouted == IInv /\ Routed /\ [Next]_vars => Routed'
<1> SUFFICES ASSUME IInv, Routed, [Next]_vars PROVE Routed'
  OBVIOUS
<1> USE DEF Routed, call
<1>1. CASE UNCHANGED vars
  BY <1>1 DEF vars
<1>2. CASE PairSum \/ PairAvg
  BY <1>2 DEF PairSum, PairAvg, Answer, GoTo
<1>3. CASE EnterAdaptive
  BY <1>3 DEF EnterAdaptive, GoTo
<1>4. CASE SkipZero \/ NarrowZero \/ WideZero
  BY <1>4 DEF SkipZero, NarrowZero, WideZero, Pass
<1>5. CASE LoadFirst
  BY <1>5 DEF LoadFirst
<1>6. CASE HandoffPrec \/ NarrowAdd
  BY <1>6 DEF HandoffPrec, NarrowAdd, GoTo
<1>7. CASE WideAdd \/ AlignedAdd
  BY <1>7 DEF WideAdd, AlignedAdd
<1>8. CASE Prescan
  <2>1. op = "AvgRound" => places <= MaxPrec /\ mode \in Modes
    BY <1>8 DEF Prescan
  <2>2. places \in Nat /\ MaxPrec \in Nat
    BY PlacesAssumption, PowFacts DEF IInv, CallOK
  <2>3. pc' = "aligned" /\ UNCHANGED call
    BY <1>8 DEF Prescan
  <2> QED BY <2>1, <2>2, <2>3
<1>9. CASE NarrowDone \/ WideSumDone \/ WideAvgDone \/ AvgExactDone \/ AvgRoundRefused \/ AvgRoundDone
  BY <1>9 DEF NarrowDone, WideSumDone, WideAvgDone, AvgExactDone, AvgRoundRefused, AvgRoundDone, Answer
<1>10. CASE Returned
  BY <1>10 DEF Returned, vars
<1> QED
  BY <1>1, <1>2, <1>3, <1>4, <1>5, <1>6, <1>7, <1>8, <1>9, <1>10 DEF Next, Step

(* Every step keeps what was answered, or answers what was promised.       *)
LEMMA NextMeans ==
  IInv /\ HoldsPartial /\ Routed /\ AvgTruncatesMean /\ AvgExactOrRounded /\ [Next]_vars
    => AvgTruncatesMean' /\ AvgExactOrRounded'
<1> SUFFICES ASSUME IInv, HoldsPartial, Routed, AvgTruncatesMean, AvgExactOrRounded, [Next]_vars
             PROVE  AvgTruncatesMean' /\ AvgExactOrRounded'
  OBVIOUS
<1>1. ASSUME UNCHANGED vars PROVE AvgTruncatesMean' /\ AvgExactOrRounded'
  <2>1. /\ op' = op /\ args' = args /\ places' = places /\ mode' = mode /\ pc' = pc /\ res' = res
    BY <1>1 DEF vars, call
  <2>2. Count' = Count /\ ExactTotal' = ExactTotal /\ MeanDen' = MeanDen
    <3>1. Count' = Count
      BY <2>1 DEF Count
    <3> QED BY <2>1, <3>1 DEF ExactTotal, MeanDen, Scaled
  <2> QED BY <2>1, <2>2 DEF AvgTruncatesMean, AvgExactOrRounded
<1>2. ASSUME pc' # "done" PROVE AvgTruncatesMean' /\ AvgExactOrRounded'
  BY <1>2 DEF AvgTruncatesMean, AvgExactOrRounded
<1>3. ASSUME UNCHANGED call, MeanReply(res') PROVE AvgTruncatesMean' /\ AvgExactOrRounded'
  BY <1>3, AnswerMeans
<1>4. CASE PairSum
  BY <1>3, <1>4 DEF PairSum, Answer, MeanReply
<1>5. CASE PairAvg
  <2>1. CASE Add(args[1], args[2]).err = "nil"
    <3>1. res' = Div(Add(args[1], args[2]).val, NewFromUint64(Count)) /\ UNCHANGED call
      BY <1>5, <2>1 DEF PairAvg, Answer
    <3> QED BY <1>3, <1>5, <2>1, <3>1, PairMean
  <2>2. CASE Add(args[1], args[2]).err # "nil"
    BY <1>2, <1>5, <2>2 DEF PairAvg, GoTo
  <2> QED BY <2>1, <2>2
<1>6. CASE EnterAdaptive \/ HandoffPrec
  BY <1>2, <1>6 DEF EnterAdaptive, HandoffPrec, GoTo
<1>7. CASE SkipZero \/ NarrowZero \/ WideZero
  BY <1>2, <1>7 DEF SkipZero, NarrowZero, WideZero, Pass
<1>8. CASE LoadFirst \/ NarrowAdd \/ WideAdd \/ Prescan \/ AlignedAdd
  BY <1>2, <1>8 DEF LoadFirst, NarrowAdd, WideAdd, Prescan, AlignedAdd
<1>9. CASE NarrowDone
  <2>1. UNCHANGED call
    BY <1>9 DEF NarrowDone, Answer
  <2> QED BY <1>3, <1>9, <2>1, NarrowMean
<1>10. CASE WideSumDone
  BY <1>3, <1>10 DEF WideSumDone, Answer, MeanReply
<1>11. CASE WideAvgDone
  <2>1. UNCHANGED call
    BY <1>11 DEF WideAvgDone, Answer
  <2> QED BY <1>3, <1>11, <2>1, WideMean
<1>12. CASE AvgExactDone
  <2>1. UNCHANGED call
    BY <1>12 DEF AvgExactDone, Answer
  <2> QED BY <1>3, <1>12, <2>1, ExactMean
<1>13. CASE AvgRoundDone
  <2>1. UNCHANGED call
    BY <1>13 DEF AvgRoundDone, Answer
  <2> QED BY <1>3, <1>13, <2>1, RoundMean
<1>14. CASE AvgRoundRefused
  BY <1>3, <1>14 DEF AvgRoundRefused, Answer, MeanReply
<1>15. CASE Returned
  BY <1>1, <1>15 DEF Returned
<1> QED
  BY <1>1, <1>4, <1>5, <1>6, <1>7, <1>8, <1>9, <1>10, <1>11, <1>12, <1>13, <1>14, <1>15
     DEF Next, Step

LEMMA MeansInductive == Spec => []MInv
<1>1. Init => MInv
  <2>1. Init => Routed /\ AvgTruncatesMean /\ AvgExactOrRounded
    BY DEF Init, Routed, AvgTruncatesMean, AvgExactOrRounded
  <2> QED BY <2>1, InitIInv, InitHolds DEF MInv
<1>2. MInv /\ [Next]_vars => MInv'
  BY NextIInv, NextHolds, NextRouted, NextMeans DEF MInv
<1> QED
  BY <1>1, <1>2, PTL DEF Spec

(* Avg is the exact mean truncated at the greatest precision that fits, on *)
(* its way through Add and Div, through the 128-bit subtotals and through  *)
(* the wide total: it never fails, and it never rounds twice.              *)
THEOREM AvgAlwaysTruncatesMean == Spec => []AvgTruncatesMean
<1>1. MInv => AvgTruncatesMean
  BY DEF MInv
<1> QED
  BY <1>1, MeansInductive, PTL

(* AvgExact returns the exact mean or says why there is none, and AvgRound *)
(* rounds the exact mean once, from one wide division by the count.        *)
THEOREM MeansAlwaysExactOrRounded == Spec => []AvgExactOrRounded
<1>1. MInv => AvgExactOrRounded
  BY DEF MInv
<1> QED
  BY <1>1, MeansInductive, PTL
=============================================================================
