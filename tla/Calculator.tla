----------------------------- MODULE Calculator -----------------------------
(***************************************************************************)
(* A client that keeps one Decimal and feeds it to the library's           *)
(* operations, one call after the other, each result becoming the next     *)
(* left operand.  Every call is an action; out remembers the request and   *)
(* the answer, and the properties compare the answer with exact rational   *)
(* arithmetic: each says what the documentation of the method promises.    *)
(***************************************************************************)
EXTENDS MulDiv, Reference

CONSTANTS
  Ops,          \* the operations the client calls
  Starts,       \* the first values of the accumulator
  Operands,     \* the right operands of each operation
  Wholes,       \* the divisors of MulDivRound, the third arguments of Min and Max
  Places,       \* the requested precisions, also one that is out of range
  Ints, Exps,   \* the arguments of New and NewFromInt
  CallModes,    \* the rounding modes passed, also one that is invalid
  MaxCalls      \* bound on the length of a client's history

(* The operations that take a right operand.                               *)
OperandOps == {"Add", "Sub", "Mul", "Div", "QuoRem", "Mod", "MulExact", "DivExact",
               "CopySign", "NewFromHiLo", "Cmp", "Min", "Max",
               "MulRound", "DivRound", "MulDivRound"}

(* Clients hold Decimals and pass Go integers of the types of the methods. *)
ASSUME CallAssumption ==
  /\ Starts \subseteq Decimals /\ Wholes \subseteq Decimals
  /\ \A op \in Ops \cap OperandOps : Operands[op] \subseteq Decimals
  /\ Places \subseteq Nat /\ Ints \subseteq Int64 /\ Exps \subseteq Int

VARIABLES acc, out, calls
vars == <<acc, out, calls>>

NoCall == [op |-> "none", d |-> Zero, e |-> Zero, f |-> Zero, places |-> 0,
           mode |-> "TowardZero", int |-> 0, exp |-> 0,
           val |-> Zero, rem |-> Zero, ans |-> 0, err |-> "nil"]

Init == acc \in Starts /\ out = NoCall /\ calls = 0

MayCall(op) == op \in Ops /\ calls < MaxCalls

(* The accumulator takes the value of a successful call.                   *)
Return(request, val, rem, err) ==
  /\ calls' = calls + 1
  /\ acc' = IF err = "nil" THEN val ELSE acc
  /\ out' = [request EXCEPT !.d = acc, !.val = val, !.rem = rem, !.err = err]

Binary(op, Fun(_, _)) ==
  MayCall(op) /\ \E e \in Operands[op] :
    LET res == Fun(acc, e)
    IN  Return([NoCall EXCEPT !.op = op, !.e = e], res.val, Zero, res.err)
Unary(op, d) == MayCall(op) /\ Return([NoCall EXCEPT !.op = op], d, Zero, "nil")

AddCall == Binary("Add", Add)
SubCall == Binary("Sub", Sub)
MulCall == Binary("Mul", Mul)
DivCall == Binary("Div", Div)
MulExactCall == Binary("MulExact", MulExact)
DivExactCall == Binary("DivExact", DivExact)
ModCall == Binary("Mod", Mod)
CopySignCall == LET Copy(d, e) == Ok(CopySign(d, e)) IN Binary("CopySign", Copy)
NegCall == Unary("Neg", Neg(acc))
AbsCall == Unary("Abs", AbsValue(acc))
TrimCall == Unary("Trim", Trim(acc))

QuoRemCall ==
  MayCall("QuoRem") /\ \E e \in Operands["QuoRem"] :
    LET qr == QuoRem(acc, e)
    IN  Return([NoCall EXCEPT !.op = "QuoRem", !.e = e], qr.quo, qr.rem, qr.err)

(* The constructors replace the accumulator.                                *)
NewCall ==
  MayCall("New") /\ \E v \in Ints, exp \in Exps :
    LET res == New(v, exp)
    IN  Return([NoCall EXCEPT !.op = "New", !.int = v, !.exp = exp], res.val, Zero, res.err)
NewFromIntCall ==
  MayCall("NewFromInt") /\ \E v \in Ints :
    Return([NoCall EXCEPT !.op = "NewFromInt", !.int = v], NewFromInt(v), Zero, "nil")
NewFromHiLoCall ==
  MayCall("NewFromHiLo") /\ \E e \in Operands["NewFromHiLo"], places \in Places :
    LET res == NewFromHiLo(e.neg, e.coef \div Base, e.coef % Base, places)
    IN  Return([NoCall EXCEPT !.op = "NewFromHiLo", !.e = e, !.places = places],
               res.val, Zero, res.err)

(* Questions leave the accumulator as it is.                               *)
Question(request, ans, err) ==
  /\ calls' = calls + 1 /\ UNCHANGED acc
  /\ out' = [request EXCEPT !.d = acc, !.ans = ans, !.err = err]
CmpCall ==
  MayCall("Cmp") /\ \E e \in Operands["Cmp"] :
    Question([NoCall EXCEPT !.op = "Cmp", !.e = e], Cmp(acc, e), "nil")
IntPartCall ==
  MayCall("IntPart") /\ LET res == IntPart(acc)
                       IN  Question([NoCall EXCEPT !.op = "IntPart"], res.int, res.err)

(* Min and Max of three arguments, the accumulator in any position.        *)
ExtremeCall(op, Fun(_)) ==
  MayCall(op) /\ \E e \in Operands[op], f \in Wholes :
    Return([NoCall EXCEPT !.op = op, !.e = e, !.f = f], Fun(<<e, acc, f>>), Zero, "nil")
MinCall == ExtremeCall("Min", MinOf)
MaxCall == ExtremeCall("Max", MaxOf)

RoundRequest(op, e, f, places, mode) ==
  [NoCall EXCEPT !.op = op, !.e = e, !.f = f, !.places = places, !.mode = mode]

MulRoundCall ==
  MayCall("MulRound") /\ \E e \in Operands["MulRound"], places \in Places, mode \in CallModes :
    LET res == MulRound(acc, e, places, mode)
    IN  Return(RoundRequest("MulRound", e, Zero, places, mode), res.val, Zero, res.err)
DivRoundCall ==
  MayCall("DivRound") /\ \E e \in Operands["DivRound"], places \in Places, mode \in CallModes :
    LET res == DivRound(acc, e, places, mode)
    IN  Return(RoundRequest("DivRound", e, Zero, places, mode), res.val, Zero, res.err)
MulDivRoundCall ==
  MayCall("MulDivRound") /\
  \E e \in Operands["MulDivRound"], f \in Wholes, places \in Places, mode \in CallModes :
    LET res == MulDivRound(acc, e, f, places, mode)
    IN  Return(RoundRequest("MulDivRound", e, f, places, mode), res.val, Zero, res.err)

(* round.go by the mode each method rounds with.                           *)
RoundBy(mode, d, places) ==
  CASE mode = "ToNearestAway" -> Round(d, places)
    [] mode = "ToNearestEven" -> RoundBank(d, places)
    [] mode = "AwayFromZero" -> RoundUp(d, places)
    [] mode = "TowardZero" -> RoundDown(d, places)
    [] mode = "TowardPositive" -> RoundCeil(d, places)
    [] mode = "TowardNegative" -> RoundFloor(d, places)

Rounded(op, places, mode, res) ==
  Return(RoundRequest(op, Zero, Zero, places, mode), res.val, Zero, res.err)

RoundToCall == MayCall("Round") /\ \E places \in Places, mode \in Modes :
  Rounded("Round", places, mode, Ok(RoundBy(mode, acc, places)))
FloorCall == MayCall("Floor") /\ Rounded("Floor", 0, "TowardNegative", Ok(Floor(acc)))
CeilCall == MayCall("Ceil") /\ Rounded("Ceil", 0, "TowardPositive", Ok(Ceil(acc)))
TruncateCall == MayCall("Truncate") /\ \E places \in Places :
  Rounded("Truncate", places, "TowardZero", Ok(Truncate(acc, places)))
RescaleCall == MayCall("Rescale") /\ \E places \in Places :
  Rounded("Rescale", places, "ToNearestEven", Rescale(acc, places))

Next ==
  \/ NewCall \/ NewFromIntCall \/ NewFromHiLoCall
  \/ CmpCall \/ IntPartCall \/ MinCall \/ MaxCall
  \/ AddCall \/ SubCall \/ MulCall \/ DivCall \/ QuoRemCall \/ ModCall
  \/ MulExactCall \/ DivExactCall
  \/ CopySignCall \/ NegCall \/ AbsCall \/ TrimCall
  \/ MulRoundCall \/ DivRoundCall \/ MulDivRoundCall
  \/ RoundToCall \/ FloorCall \/ CeilCall \/ TruncateCall \/ RescaleCall

Spec == Init /\ [][Next]_vars

----------------------------------------------------------------------------
(* Type invariant: every value the client ever holds is a Decimal, with    *)
(* the one zero decimal.go's INVARIANT allows: no operation leaves a       *)
(* signed zero, a zero with a precision, or a precision above MaxPrec.     *)
TypeOK ==
  /\ acc \in Decimals
  /\ out.val \in Decimals /\ out.rem \in Decimals
  /\ out.err \in Errors

(* Add and Sub (arith.go) return the exact sum or difference at the larger *)
(* of the two precisions, and ErrOverflow exactly when its coefficient     *)
(* does not fit, whichever of the aligned and unaligned paths runs.        *)
AddSubExact ==
  out.op \in {"Add", "Sub"} =>
    LET exact == IF out.op = "Add" THEN Scaled(out.d) + Scaled(out.e)
                                   ELSE Scaled(out.d) - Scaled(out.e)
        prec == Larger(out.d.prec, out.e.prec)
        mag == Abs(exact) \div Pow10[MaxPrec - prec]
    IN  IF mag >= Cap THEN out.err = "Overflow"
        ELSE out.err = "nil" /\ out.val = NewDecimal(mag, exact < 0, prec)

(* Mul truncates the exact product at DefaultPrec, and overflows exactly   *)
(* when the truncated coefficient does not fit, also where the divisor     *)
(* 10^k needs two passes.                                                  *)
MulTruncates ==
  out.op = "Mul" =>
    LET pSum == out.d.prec + out.e.prec
        mag == (out.d.coef * out.e.coef) \div Pow10[Larger(pSum - DefaultPrec, 0)]
    IN  IF mag >= Cap THEN out.err = "Overflow"
        ELSE /\ out.err = "nil"
             /\ out.val = NewDecimal(mag, out.d.neg # out.e.neg, Smaller(pSum, DefaultPrec))

(* Div truncates at the LARGEST precision up to DefaultPrec whose          *)
(* coefficient fits, although it finds that precision from a bit-length    *)
(* estimate and one probe; it overflows only when no precision fits.       *)
DivGreatestPrec ==
  out.op = "Div" /\ out.e.coef # 0 /\ out.d.coef # 0 =>
    LET Quotient(p) == (out.d.coef * Pow10[p + out.e.prec])
                          \div (out.e.coef * Pow10[out.d.prec])
        fitting == {p \in 0..DefaultPrec : Quotient(p) < Cap}
    IN  IF fitting = {} THEN out.err = "Overflow"
        ELSE \E p \in fitting :
               /\ \A q \in fitting : q <= p
               /\ out.err = "nil"
               /\ out.val = NewDecimal(Quotient(p), out.d.neg # out.e.neg, p)

(* The bit-length estimate Div descends to, once DefaultPrec is known not   *)
(* to fit, is conservative by at most one digit, which is what a single     *)
(* probe can recover, and is itself a fit unless nothing is.                *)
EstimateTight ==
  LET At(p) == DivCoefAt(out.d, out.e, p)
      estimate == DivEstimate(out.d, out.e)
  IN  out.op = "Div" /\ out.e.coef # 0 /\ out.d.coef # 0 /\ ~At(DefaultPrec).ok =>
        /\ At(estimate).ok \/ estimate = 0
        /\ \A p \in (estimate + 2)..DefaultPrec : ~At(p).ok

(* QuoRem: d = q*e + r with an integral q, |r| < |e|, r signed like d, at  *)
(* the larger precision; ErrOverflow only when q does not fit.  Mod is the *)
(* same remainder under the same errors.                                   *)
IsRemainder(r) ==
  /\ Abs(Scaled(r)) < Abs(Scaled(out.e))
  /\ r # Zero => r.neg = out.d.neg /\ r.prec = Larger(out.d.prec, out.e.prec)
QuoRemIdentity ==
  out.op \in {"QuoRem", "Mod"} /\ out.e.coef # 0 =>
    IF Abs(Scaled(out.d)) \div Abs(Scaled(out.e)) >= Cap
    THEN out.err = "Overflow"
    ELSE /\ out.err = "nil"
         /\ out.op = "Mod" => /\ IsRemainder(out.val)
                              /\ (Scaled(out.d) - Scaled(out.val)) % Abs(Scaled(out.e)) = 0
         /\ out.op = "QuoRem" =>
              /\ out.val.prec = 0 /\ IsRemainder(out.rem)
              /\ Signed(out.val) * Scaled(out.e) + Scaled(out.rem) = Scaled(out.d)

(* Whatever is built or converted is exact, or the error says why it       *)
(* cannot be.  MulExact and DivExact succeed exactly when a Decimal equal  *)
(* to the exact result exists; otherwise the magnitude is too large (which *)
(* takes precedence), below the least quantum, or inexact.                 *)
ExactProduct ==
  /\ out.op = "MulExact" =>
       Classified(out.d.coef * out.e.coef, Pow10[out.d.prec + out.e.prec],
                  out.d.neg # out.e.neg, out.val, out.err)
  /\ out.op = "DivExact" /\ out.e.coef # 0 =>
       Classified(out.d.coef * Pow10[out.e.prec], out.e.coef * Pow10[out.d.prec],
                  out.d.neg # out.e.neg, out.val, out.err)
(* New denotes int * 10^exp, with trailing zeros buying back digits below  *)
(* 10^-MaxPrec; the least integer has a magnitude no Int64 has.  A power   *)
(* above 10^2*MaxPrec is itself too large for any coefficient.             *)
ExactInteger ==
  out.op \in {"New", "NewFromInt"} /\ out.int # 0 =>
    LET places == IF out.exp < 0 THEN Smaller(-out.exp, MaxPrec) ELSE 0
        up == Larger(out.exp, 0)
        down == Larger(-out.exp - places, 0)
        num == Abs(out.int) * Pow10[up]
    IN  IF up > 2*MaxPrec THEN out.err = "Overflow"
        ELSE IF down > 2*MaxPrec \/ num % Pow10[down] # 0 THEN out.err = "PrecOutOfRange"
        ELSE IF num \div Pow10[down] >= Cap THEN out.err = "Overflow"
        ELSE out.err = "nil" /\ out.val = NewDecimal(num \div Pow10[down], out.int < 0, places)
(* IntPart truncates to an Int64, whose negative end reaches further.      *)
ExactIntPart ==
  out.op = "IntPart" =>
    LET mag == Abs(Scaled(out.d)) \div Pow10[MaxPrec]
        int == IF out.d.neg THEN -mag ELSE mag
    IN  IF int \in Int64 THEN out.err = "nil" /\ out.ans = int
                         ELSE out.err = "IntPartOverflow"
ExactOrReason == ExactProduct /\ ExactInteger /\ ExactIntPart

(* Which of the exact representations: MulExact keeps the natural          *)
(* precision, lowered only as far as it must be; DivExact the greatest     *)
(* precision that fits.                                                    *)
ExactPrecision ==
  out.op \in {"MulExact", "DivExact"} /\ out.err = "nil" /\ out.val # Zero =>
    LET limit == IF out.op = "DivExact" THEN MaxPrec
                 ELSE Smaller(out.d.prec + out.e.prec, MaxPrec)
    IN  out.val.prec <= limit /\ (out.val.prec < limit => out.val.coef * 10 >= Cap)

(* MulRound, DivRound and MulDivRound round the exact result once: none of *)
(* the in-place, two-pass or split-remainder paths rounds an intermediate, *)
(* and ErrOverflow means the rounded coefficient does not fit.  Validation *)
(* comes first, places before mode before a zero divisor.                  *)
RoundedOnce ==
  LET args == RoundArgsError(out.places, out.mode,
                CASE out.op = "DivRound" -> out.e.coef
                  [] out.op = "MulDivRound" -> out.f.coef
                  [] OTHER -> 1)
      Meets(num, den, neg) ==
        IF args # "nil" THEN out.err = args /\ out.val = Zero
        ELSE RoundsOnce(num, den, neg, out.places, out.mode, out.val, out.err)
  IN  CASE out.op = "MulRound" ->
             Meets(out.d.coef * out.e.coef * Pow10[out.places],
                   Pow10[out.d.prec + out.e.prec], out.d.neg # out.e.neg)
        [] out.op = "DivRound" ->
             Meets(out.d.coef * Pow10[out.places + out.e.prec],
                   out.e.coef * Pow10[out.d.prec], out.d.neg # out.e.neg)
        [] out.op = "MulDivRound" ->
             Meets(out.d.coef * out.e.coef * Pow10[out.places + out.f.prec],
                   out.f.coef * Pow10[out.d.prec + out.e.prec],
                   (out.d.neg # out.e.neg) # out.f.neg)
        [] OTHER -> TRUE

(* The methods of round.go and a lowering Rescale round the value they are *)
(* given once in their mode and never fail: the increment cannot push the  *)
(* quotient past 128 bits.  With enough places the methods return their    *)
(* receiver unchanged; Rescale appends zeros, to exactly the precision it  *)
(* was asked for, and fails with ErrOverflow precisely when the longer     *)
(* coefficient is 2^128 or more, with ErrPrecOutOfRange precisely when     *)
(* that precision is past MaxPrec (rescale.go:40, crosscheck_test.go:352). *)
RoundFamily ==
  LET Answers(res) == out.val = res.val /\ out.err = res.err
      raised == out.d.coef * Pow10[out.places - out.d.prec]
  IN  out.op \in {"Round", "Floor", "Ceil", "Truncate", "Rescale"} =>
        IF out.places < out.d.prec
        THEN /\ out.err = "nil"
             /\ RoundsOnce(out.d.coef, Pow10[out.d.prec - out.places], out.d.neg,
                           out.places, out.mode, out.val, out.err)
        ELSE Answers(IF out.op # "Rescale" THEN Ok(out.d)
                     ELSE IF out.places > MaxPrec THEN Fail("PrecOutOfRange")
                     ELSE IF raised >= Cap THEN Fail("Overflow")
                     ELSE Ok(NewDecimal(raised, out.d.neg, out.places)))

(* The relation of MulDivRound to the legacy chain d.Mul(e).Div(f), rounded *)
(* to places (muldiv.go, as TestMulDivRoundLegacyChain restricts it to      *)
(* places below DefaultPrec): when the product keeps all its digits and Div *)
(* keeps DefaultPrec of them, the two agree in ToNearestAway and TowardZero; *)
(* in the other modes they differ only where the truncated quotient lost    *)
(* something and landed on a tie or on a multiple of 10^-places.            *)
LegacyQuotient == Div(Mul(out.d, out.e).val, out.f)
LegacyChainApplies ==
  /\ out.op = "MulDivRound" /\ out.err = "nil"
  /\ out.d.prec + out.e.prec <= DefaultPrec /\ Mul(out.d, out.e).err = "nil"
  /\ LegacyQuotient.err = "nil"
  /\ LegacyQuotient.val.prec = DefaultPrec \/ LegacyQuotient.val = Zero
LegacyChainAgrees ==
  LegacyChainApplies /\ out.places < DefaultPrec =>
    LET q == LegacyQuotient.val
        unit == Pow10[DefaultPrec - out.places]
        lost == (out.d.coef * out.e.coef * Pow10[DefaultPrec + out.f.prec])
                   % (out.f.coef * Pow10[out.d.prec + out.e.prec])
    IN  \/ RoundBy(out.mode, q, out.places) = out.val
        \/ /\ out.mode \notin {"ToNearestAway", "TowardZero"}
           /\ lost # 0
           /\ q.coef % unit = IF out.mode = "ToNearestEven" THEN unit \div 2 ELSE 0

(* The same relation as muldiv.go's comment states it, with no bound on     *)
(* places: rounding the chain to DefaultPrec places or more is no rounding. *)
LegacyChainAsDocumented ==
  LegacyChainApplies /\ out.mode \in {"ToNearestAway", "TowardZero"} =>
    Scaled(RoundBy(out.mode, LegacyQuotient.val, out.places)) = Scaled(out.val)

(* Cmp orders two Decimals by exact value, although it compares sign       *)
(* classes before precisions and 192-bit widenings; what it calls equal    *)
(* trims to one representation and nothing else does; Min and Max return a *)
(* least or greatest argument, the FIRST of those numerically equal.       *)
FirstExtreme ==
  LET s == <<out.e, out.d, out.f>>
      Before(x, y) == IF out.op = "Min" THEN Scaled(x) < Scaled(y)
                                        ELSE Scaled(x) > Scaled(y)
  IN  \E j \in 1..3 : /\ s[j] = out.val
                      /\ \A k \in 1..3 : ~Before(s[k], s[j])
                      /\ \A k \in 1..(j - 1) : Before(s[j], s[k])
OrderIsExact ==
  /\ out.op = "Cmp" => /\ out.ans = Sign3(Scaled(out.d) - Scaled(out.e))
                      /\ out.ans = 0 <=> Trim(out.d) = Trim(out.e)
  /\ out.op = "Trim" => Scaled(out.val) = Scaled(out.d)
  /\ out.op \in {"Min", "Max"} => FirstExtreme
=============================================================================
