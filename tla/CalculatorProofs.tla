-------------------------- MODULE CalculatorProofs --------------------------
(***************************************************************************)
(* The invariants of Calculator, for every word size, every precision and  *)
(* every client: whatever sequence of calls a client makes, each value it  *)
(* holds is a Decimal and each answer it got is the one the documentation  *)
(* of the method promises.                                                 *)
(***************************************************************************)
EXTENDS Calculator, ArithProofs

(* A call with its answer.                                                 *)
Outcomes ==
  [op : Ops \cup {"none"}, d : Decimals, e : Decimals, f : Decimals, places : Nat,
   mode : Modes \cup CallModes, int : Int64, exp : Int,
   val : Decimals, rem : Decimals, ans : Int, err : Errors]

(* The answer that out remembers is the operation's answer to the request  *)
(* that out remembers.                                                     *)
Result(res) == out.val = res.val /\ out.err = res.err
AnsweredArith ==
  /\ out.op = "Add" => Result(Add(out.d, out.e))
  /\ out.op = "Sub" => Result(Sub(out.d, out.e))
  /\ out.op = "Mul" => Result(Mul(out.d, out.e))
  /\ out.op = "Div" => Result(Div(out.d, out.e))
  /\ out.op = "Mod" => Result(Mod(out.d, out.e))
  /\ out.op = "QuoRem" => LET qr == QuoRem(out.d, out.e)
                          IN  out.val = qr.quo /\ out.rem = qr.rem /\ out.err = qr.err
  /\ out.op = "MulExact" => Result(MulExact(out.d, out.e))
  /\ out.op = "DivExact" => Result(DivExact(out.d, out.e))
AnsweredOrder ==
  /\ out.op = "New" => Result(New(out.int, out.exp))
  /\ out.op = "NewFromInt" => Result(Ok(NewFromInt(out.int))) /\ out.exp = 0
  /\ out.op = "Cmp" => out.ans = Cmp(out.d, out.e)
  /\ out.op = "IntPart" => out.ans = IntPart(out.d).int /\ out.err = IntPart(out.d).err
  /\ out.op = "Min" => out.val = MinOf(<<out.e, out.d, out.f>>)
  /\ out.op = "Max" => out.val = MaxOf(<<out.e, out.d, out.f>>)
  /\ out.op = "Trim" => out.val = Trim(out.d)
AnsweredRounding ==
  /\ out.op = "MulRound" => Result(MulRound(out.d, out.e, out.places, out.mode))
  /\ out.op = "DivRound" => Result(DivRound(out.d, out.e, out.places, out.mode))
  /\ out.op = "MulDivRound" => Result(MulDivRound(out.d, out.e, out.f, out.places, out.mode))
  /\ out.op = "Round" => out.mode \in Modes /\ Result(Ok(RoundBy(out.mode, out.d, out.places)))
  /\ out.op = "Floor" => /\ out.mode = "TowardNegative" /\ out.places = 0
                         /\ Result(Ok(Floor(out.d)))
  /\ out.op = "Ceil" => /\ out.mode = "TowardPositive" /\ out.places = 0
                        /\ Result(Ok(Ceil(out.d)))
  /\ out.op = "Truncate" => out.mode = "TowardZero" /\ Result(Ok(Truncate(out.d, out.places)))
  /\ out.op = "Rescale" => out.mode = "ToNearestEven" /\ Result(Rescale(out.d, out.places))

(* The inductive invariant.                                                *)
IInv ==
  /\ acc \in Decimals /\ out \in Outcomes
  /\ AnsweredArith /\ AnsweredOrder /\ AnsweredRounding

(* A request with its operands, before it is answered.                     *)
LEMMA EmptyOutcome ==
  /\ NoCall \in Outcomes /\ NoCall.op = "none"
  /\ NoCall.places = 0 /\ NoCall.exp = 0 /\ NoCall.int = 0
<1>1. Zero \in Decimals /\ 0 \in Int64 /\ "TowardZero" \in Modes /\ "nil" \in Errors
  BY WordAssumption, Replies DEF Int64, Modes, Errors
<1> QED
  BY <1>1 DEF NoCall, Outcomes

(* What an answered call leaves in the client's hands.                     *)
LEMMA Returned ==
  ASSUME NEW request \in Outcomes, acc \in Decimals,
         NEW val \in Decimals, NEW rem \in Decimals, NEW err \in Errors,
         Return(request, val, rem, err)
  PROVE  /\ acc' \in Decimals /\ out' \in Outcomes
         /\ out'.op = request.op /\ out'.d = acc /\ out'.e = request.e /\ out'.f = request.f
         /\ out'.places = request.places /\ out'.mode = request.mode
         /\ out'.int = request.int /\ out'.exp = request.exp
         /\ out'.val = val /\ out'.rem = rem /\ out'.err = err
<1>1. acc' \in Decimals
  BY DEF Return
<1>2. out' = [request EXCEPT !.d = acc, !.val = val, !.rem = rem, !.err = err]
  BY DEF Return
<1> QED
  BY <1>1, <1>2 DEF Outcomes

(* What a question leaves.                                                 *)
LEMMA Questioned ==
  ASSUME NEW request \in Outcomes, acc \in Decimals, NEW ans \in Int, NEW err \in Errors,
         Question(request, ans, err)
  PROVE  /\ acc' \in Decimals /\ out' \in Outcomes
         /\ out'.op = request.op /\ out'.d = acc /\ out'.e = request.e
         /\ out'.ans = ans /\ out'.err = err
<1>1. acc' \in Decimals /\ out' = [request EXCEPT !.d = acc, !.ans = ans, !.err = err]
  BY DEF Question
<1> QED
  BY <1>1 DEF Outcomes

(* The calls by the request they make: an operand, two, or none.           *)
LEMMA OperandTyped ==
  ASSUME NEW op \in OperandOps, MayCall(op), NEW e \in Operands[op]
  PROVE  op \in Ops /\ e \in Decimals
BY CallAssumption DEF MayCall

LEMMA BinaryRequest ==
  ASSUME NEW op \in Ops, NEW e \in Decimals
  PROVE  LET request == [NoCall EXCEPT !.op = op, !.e = e]
         IN  request \in Outcomes /\ request.op = op /\ request.e = e
BY EmptyOutcome DEF Outcomes

LEMMA UnaryRequest ==
  ASSUME NEW op \in Ops
  PROVE  [NoCall EXCEPT !.op = op] \in Outcomes /\ [NoCall EXCEPT !.op = op].op = op
BY EmptyOutcome DEF Outcomes

LEMMA RoundingRequest ==
  ASSUME NEW op \in Ops, NEW e \in Decimals, NEW f \in Decimals, NEW places \in Nat,
         NEW mode \in Modes \cup CallModes
  PROVE  LET request == RoundRequest(op, e, f, places, mode)
         IN  /\ request \in Outcomes /\ request.op = op /\ request.e = e /\ request.f = f
             /\ request.places = places /\ request.mode = mode
BY EmptyOutcome DEF Outcomes, RoundRequest

----------------------------------------------------------------------------
(* A step that answers the call of op on acc and e with res.               *)
Gives(op, e, res) ==
  /\ acc' \in Decimals /\ out' \in Outcomes
  /\ out'.op = op /\ out'.d = acc /\ out'.e = e
  /\ out'.val = res.val /\ out'.err = res.err

LEMMA BinaryGives ==
  ASSUME IInv, NEW op \in Ops, NEW e \in Decimals, NEW res, IsReply(res),
         Return([NoCall EXCEPT !.op = op, !.e = e], res.val, Zero, res.err)
  PROVE  Gives(op, e, res)
<1> DEFINE request == [NoCall EXCEPT !.op = op, !.e = e]
<1>1. request \in Outcomes /\ request.op = op /\ request.e = e
  BY BinaryRequest
<1>2. Return(request, res.val, Zero, res.err) /\ acc \in Decimals
  BY DEF IInv
<1>3. res.val \in Decimals /\ res.err \in Errors /\ Zero \in Decimals
  BY Replies DEF IsReply
<1> HIDE DEF request
<1> QED
  BY <1>1, <1>2, <1>3, Returned DEF Gives

(* Every call keeps the invariant: the arithmetic operations.              *)
LEMMA ArithmeticKeeps ==
  ASSUME IInv,
         AddCall \/ SubCall \/ MulCall \/ DivCall \/ ModCall \/ MulExactCall \/ DivExactCall
  PROVE  IInv'
<1>1. CASE AddCall
  <2>1. PICK e \in Operands["Add"] :
          Return([NoCall EXCEPT !.op = "Add", !.e = e], Add(acc, e).val, Zero, Add(acc, e).err)
    BY <1>1 DEF AddCall, Binary
  <2>2. "Add" \in Ops /\ e \in Decimals /\ acc \in Decimals
    BY <1>1, OperandTyped DEF AddCall, Binary, OperandOps, IInv
  <2>3. IsReply(Add(acc, e))
    BY <2>2, AddSubTyped
  <2>4. Gives("Add", e, Add(acc, e))
    BY <2>1, <2>2, <2>3, BinaryGives
  <2> QED
    BY <2>4 DEF Gives, IInv, AnsweredArith, AnsweredOrder, AnsweredRounding, Result
<1>2. CASE SubCall
  <2>1. PICK e \in Operands["Sub"] :
          Return([NoCall EXCEPT !.op = "Sub", !.e = e], Sub(acc, e).val, Zero, Sub(acc, e).err)
    BY <1>2 DEF SubCall, Binary
  <2>2. "Sub" \in Ops /\ e \in Decimals /\ acc \in Decimals
    BY <1>2, OperandTyped DEF SubCall, Binary, OperandOps, IInv
  <2>3. IsReply(Sub(acc, e))
    BY <2>2, AddSubTyped
  <2>4. Gives("Sub", e, Sub(acc, e))
    BY <2>1, <2>2, <2>3, BinaryGives
  <2> QED
    BY <2>4 DEF Gives, IInv, AnsweredArith, AnsweredOrder, AnsweredRounding, Result
<1>3. CASE MulCall
  <2>1. PICK e \in Operands["Mul"] :
          Return([NoCall EXCEPT !.op = "Mul", !.e = e], Mul(acc, e).val, Zero, Mul(acc, e).err)
    BY <1>3 DEF MulCall, Binary
  <2>2. "Mul" \in Ops /\ e \in Decimals /\ acc \in Decimals
    BY <1>3, OperandTyped DEF MulCall, Binary, OperandOps, IInv
  <2>3. IsReply(Mul(acc, e))
    BY <2>2, MulIsTruncated
  <2>4. Gives("Mul", e, Mul(acc, e))
    BY <2>1, <2>2, <2>3, BinaryGives
  <2> QED
    BY <2>4 DEF Gives, IInv, AnsweredArith, AnsweredOrder, AnsweredRounding, Result
<1>4. CASE DivCall
  <2>1. PICK e \in Operands["Div"] :
          Return([NoCall EXCEPT !.op = "Div", !.e = e], Div(acc, e).val, Zero, Div(acc, e).err)
    BY <1>4 DEF DivCall, Binary
  <2>2. "Div" \in Ops /\ e \in Decimals /\ acc \in Decimals
    BY <1>4, OperandTyped DEF DivCall, Binary, OperandOps, IInv
  <2>3. IsReply(Div(acc, e))
    BY <2>2, DivIsGreatest
  <2>4. Gives("Div", e, Div(acc, e))
    BY <2>1, <2>2, <2>3, BinaryGives
  <2> QED
    BY <2>4 DEF Gives, IInv, AnsweredArith, AnsweredOrder, AnsweredRounding, Result
<1>5. CASE ModCall
  <2>1. PICK e \in Operands["Mod"] :
          Return([NoCall EXCEPT !.op = "Mod", !.e = e], Mod(acc, e).val, Zero, Mod(acc, e).err)
    BY <1>5 DEF ModCall, Binary
  <2>2. "Mod" \in Ops /\ e \in Decimals /\ acc \in Decimals
    BY <1>5, OperandTyped DEF ModCall, Binary, OperandOps, IInv
  <2>3. IsReply(Mod(acc, e))
    BY <2>2, QuoRemTyped
  <2>4. Gives("Mod", e, Mod(acc, e))
    BY <2>1, <2>2, <2>3, BinaryGives
  <2> QED
    BY <2>4 DEF Gives, IInv, AnsweredArith, AnsweredOrder, AnsweredRounding, Result
<1>6. CASE MulExactCall
  <2>1. PICK e \in Operands["MulExact"] :
          Return([NoCall EXCEPT !.op = "MulExact", !.e = e], MulExact(acc, e).val, Zero, MulExact(acc, e).err)
    BY <1>6 DEF MulExactCall, Binary
  <2>2. "MulExact" \in Ops /\ e \in Decimals /\ acc \in Decimals
    BY <1>6, OperandTyped DEF MulExactCall, Binary, OperandOps, IInv
  <2>3. IsReply(MulExact(acc, e))
    BY <2>2, MulExactIsExact DEF ExactReply
  <2>4. Gives("MulExact", e, MulExact(acc, e))
    BY <2>1, <2>2, <2>3, BinaryGives
  <2> QED
    BY <2>4 DEF Gives, IInv, AnsweredArith, AnsweredOrder, AnsweredRounding, Result
<1>7. CASE DivExactCall
  <2>1. PICK e \in Operands["DivExact"] :
          Return([NoCall EXCEPT !.op = "DivExact", !.e = e], DivExact(acc, e).val, Zero, DivExact(acc, e).err)
    BY <1>7 DEF DivExactCall, Binary
  <2>2. "DivExact" \in Ops /\ e \in Decimals /\ acc \in Decimals
    BY <1>7, OperandTyped DEF DivExactCall, Binary, OperandOps, IInv
  <2>3. IsReply(DivExact(acc, e))
    BY <2>2, DivExactIsExact
  <2>4. Gives("DivExact", e, DivExact(acc, e))
    BY <2>1, <2>2, <2>3, BinaryGives
  <2> QED
    BY <2>4 DEF Gives, IInv, AnsweredArith, AnsweredOrder, AnsweredRounding, Result
<1> QED
  BY <1>1, <1>2, <1>3, <1>4, <1>5, <1>6, <1>7

LEMMA UnaryGives ==
  ASSUME IInv, NEW op \in Ops, NEW val \in Decimals,
         Return([NoCall EXCEPT !.op = op], val, Zero, "nil")
  PROVE  Gives(op, out'.e, Ok(val))
<1> DEFINE request == [NoCall EXCEPT !.op = op]
<1>1. request \in Outcomes /\ request.op = op
  BY UnaryRequest
<1>2. Return(request, val, Zero, "nil") /\ acc \in Decimals /\ "nil" \in Errors /\ Zero \in Decimals
  BY Replies DEF IInv, Errors
<1> HIDE DEF request
<1>3. /\ acc' \in Decimals /\ out' \in Outcomes
      /\ out'.op = op /\ out'.d = acc /\ out'.val = val /\ out'.err = "nil"
  BY <1>1, <1>2, Returned
<1> QED
  BY <1>3 DEF Gives, Ok

LEMMA SignKeeps ==
  ASSUME IInv, CopySignCall \/ NegCall \/ AbsCall \/ TrimCall
  PROVE  IInv'
<1> DEFINE Copy(d, e) == Ok(CopySign(d, e))
<1>1. CASE CopySignCall
  <2>1. PICK e \in Operands["CopySign"] :
          Return([NoCall EXCEPT !.op = "CopySign", !.e = e],
                 Copy(acc, e).val, Zero, Copy(acc, e).err)
    BY <1>1 DEF CopySignCall, Binary
  <2>2. "CopySign" \in Ops /\ e \in Decimals /\ acc \in Decimals
    BY <1>1, OperandTyped DEF CopySignCall, Binary, OperandOps, IInv
  <2>3. IsReply(Copy(acc, e))
    BY <2>2, SignsTyped, Replies
  <2> HIDE DEF Copy
  <2>4. Gives("CopySign", e, Copy(acc, e))
    BY <2>1, <2>2, <2>3, BinaryGives
  <2> QED
    BY <2>4 DEF Gives, IInv, AnsweredArith, AnsweredOrder, AnsweredRounding, Result
<1>2. CASE NegCall
  <2>1. "Neg" \in Ops /\ acc \in Decimals /\ Neg(acc) \in Decimals
    BY <1>2, SignsTyped DEF NegCall, Unary, MayCall, IInv
  <2>2. Gives("Neg", out'.e, Ok(Neg(acc)))
    BY <1>2, <2>1, UnaryGives DEF NegCall, Unary
  <2> QED
    BY <2>2 DEF Gives, IInv, AnsweredArith, AnsweredOrder, AnsweredRounding, Result, Ok
<1>3. CASE AbsCall
  <2>1. "Abs" \in Ops /\ acc \in Decimals /\ AbsValue(acc) \in Decimals
    BY <1>3, SignsTyped DEF AbsCall, Unary, MayCall, IInv
  <2>2. Gives("Abs", out'.e, Ok(AbsValue(acc)))
    BY <1>3, <2>1, UnaryGives DEF AbsCall, Unary
  <2> QED
    BY <2>2 DEF Gives, IInv, AnsweredArith, AnsweredOrder, AnsweredRounding, Result, Ok
<1>4. CASE TrimCall
  <2>1. "Trim" \in Ops /\ acc \in Decimals /\ Trim(acc) \in Decimals
    BY <1>4, TrimReduces DEF TrimCall, Unary, MayCall, IInv
  <2>2. Gives("Trim", out'.e, Ok(Trim(acc)))
    BY <1>4, <2>1, UnaryGives DEF TrimCall, Unary
  <2> QED
    BY <2>2 DEF Gives, IInv, AnsweredArith, AnsweredOrder, AnsweredRounding, Result, Ok
<1> QED
  BY <1>1, <1>2, <1>3, <1>4

LEMMA QuoRemKeeps ==
  ASSUME IInv, QuoRemCall
  PROVE  IInv'
<1>1. PICK e \in Operands["QuoRem"] :
        LET qr == QuoRem(acc, e)
        IN  Return([NoCall EXCEPT !.op = "QuoRem", !.e = e], qr.quo, qr.rem, qr.err)
  BY DEF QuoRemCall
<1> DEFINE request == [NoCall EXCEPT !.op = "QuoRem", !.e = e]
           qr == QuoRem(acc, e)
<1>2. "QuoRem" \in Ops /\ e \in Decimals /\ acc \in Decimals
  BY OperandTyped DEF QuoRemCall, OperandOps, IInv
<1>3. request \in Outcomes /\ request.op = "QuoRem" /\ request.e = e
  BY <1>2, BinaryRequest
<1>4. qr.quo \in Decimals /\ qr.rem \in Decimals /\ qr.err \in Errors
  BY <1>2, QuoRemTyped
<1>5. Return(request, qr.quo, qr.rem, qr.err)
  BY <1>1
<1> HIDE DEF request, qr
<1>6. /\ acc' \in Decimals /\ out' \in Outcomes
      /\ out'.op = "QuoRem" /\ out'.d = acc /\ out'.e = e
      /\ out'.val = qr.quo /\ out'.rem = qr.rem /\ out'.err = qr.err
  BY <1>2, <1>3, <1>4, <1>5, Returned
<1> QED
  BY <1>6 DEF qr, IInv, AnsweredArith, AnsweredOrder, AnsweredRounding

(* The constructors.                                                       *)
LEMMA NewTyped ==
  ASSUME NEW v \in Int64, NEW exp \in Int
  PROVE  IsReply(New(v, exp))
<1>1. CASE v = 0
  <2>1. New(v, exp) = Ok(Zero)
    BY <1>1 DEF New
  <2> QED
    BY <2>1, Replies
<1>2. CASE v # 0
  BY <1>2, NewIsExact DEF IntegerReply
<1> QED
  BY <1>1, <1>2

LEMMA HiLoTyped ==
  ASSUME NEW e \in Decimals, NEW places \in Nat
  PROVE  IsReply(NewFromHiLo(e.neg, e.coef \div Base, e.coef % Base, places))
<1> DEFINE c == e.coef
           hi == c \div Base
           lo == c % Base
<1>1. e.coef \in Nat /\ e.coef < Cap /\ e.neg \in BOOLEAN
  BY DecimalFacts
<1>2. hi * Base + lo = e.coef
  <2>1. c \in Nat /\ c \in Int /\ Base \in Nat \ {0}
    BY <1>1, WordAssumption
  <2>2. /\ c \div Base \in Int /\ c % Base \in 0..(Base - 1)
        /\ c = Base * (c \div Base) + (c % Base)
    <3> HIDE DEF c
    <3> QED BY <2>1, DivMod
  <2>3. hi \in Int /\ lo \in Int /\ c = Base * hi + lo
    <3> HIDE DEF c
    <3> QED BY <2>1, <2>2
  <2> HIDE DEF hi, lo, c
  <2>4. hi * Base + lo = c
    BY <2>1, <2>3
  <2> QED BY <2>4 DEF c
<1> HIDE DEF hi, lo
<1>3. CASE places > MaxPrec
  <2>1. NewFromHiLo(e.neg, hi, lo, places) = Fail("PrecOutOfRange")
    BY <1>3 DEF NewFromHiLo
  <2>2. IsReply(Fail("PrecOutOfRange"))
    BY Replies DEF Errors
  <2> QED BY <2>1, <2>2 DEF hi, lo
<1>4. CASE ~(places > MaxPrec)
  <2>1. NewFromHiLo(e.neg, hi, lo, places) = Ok(NewDecimal(e.coef, e.neg, places))
    BY <1>2, <1>4 DEF NewFromHiLo
  <2>2. places \in 0..MaxPrec
    BY <1>4, PowFacts
  <2>3. IsReply(Ok(NewDecimal(e.coef, e.neg, places)))
    BY <1>1, <2>2, MakeDecimal
  <2> QED BY <2>1, <2>3 DEF hi, lo
<1> QED
  BY <1>3, <1>4

LEMMA ConstructorKeeps ==
  ASSUME IInv, NewCall \/ NewFromIntCall \/ NewFromHiLoCall
  PROVE  IInv'
<1> acc \in Decimals
  BY DEF IInv
<1>1. CASE NewCall
  <2>1. PICK v \in Ints, exp \in Exps :
          LET res == New(v, exp)
          IN  Return([NoCall EXCEPT !.op = "New", !.int = v, !.exp = exp],
                     res.val, Zero, res.err)
    BY <1>1 DEF NewCall
  <2> DEFINE request == [NoCall EXCEPT !.op = "New", !.int = v, !.exp = exp]
             res == New(v, exp)
  <2>2. "New" \in Ops /\ v \in Int64 /\ exp \in Int
    BY <1>1, CallAssumption DEF NewCall, MayCall
  <2>3. request \in Outcomes /\ request.op = "New" /\ request.int = v /\ request.exp = exp
    BY <2>2, EmptyOutcome DEF Outcomes
  <2>4. res.val \in Decimals /\ res.err \in Errors /\ Zero \in Decimals
    BY <2>2, NewTyped, Replies DEF IsReply
  <2>5. Return(request, res.val, Zero, res.err)
    BY <2>1
  <2> HIDE DEF request, res
  <2>6. /\ acc' \in Decimals /\ out' \in Outcomes
        /\ out'.op = "New" /\ out'.int = v /\ out'.exp = exp
        /\ out'.val = res.val /\ out'.err = res.err
    BY <2>3, <2>4, <2>5, Returned
  <2> QED
    BY <2>6 DEF IInv, AnsweredArith, AnsweredOrder, AnsweredRounding, Result, res
<1>2. CASE NewFromIntCall
  <2>1. PICK v \in Ints :
          Return([NoCall EXCEPT !.op = "NewFromInt", !.int = v], NewFromInt(v), Zero, "nil")
    BY <1>2 DEF NewFromIntCall
  <2> DEFINE request == [NoCall EXCEPT !.op = "NewFromInt", !.int = v]
             val == NewFromInt(v)
  <2>2. "NewFromInt" \in Ops /\ v \in Int64
    BY <1>2, CallAssumption DEF NewFromIntCall, MayCall
  <2>3. /\ request \in Outcomes /\ request.op = "NewFromInt"
        /\ request.int = v /\ request.exp = 0
    BY <2>2, EmptyOutcome DEF Outcomes
  <2>4. val \in Decimals /\ "nil" \in Errors /\ Zero \in Decimals
    <3>1. 0 \in 0..MaxPrec
      BY PowFacts
    <3> QED
      BY <2>2, <3>1, IntegerFacts, MakeDecimal, Replies DEF Errors, NewFromInt
  <2>5. Return(request, val, Zero, "nil")
    BY <2>1
  <2> HIDE DEF request, val
  <2>6. /\ acc' \in Decimals /\ out' \in Outcomes
        /\ out'.op = "NewFromInt" /\ out'.int = v /\ out'.exp = 0
        /\ out'.val = val /\ out'.err = "nil"
    BY <2>3, <2>4, <2>5, Returned
  <2> QED
    BY <2>6 DEF IInv, AnsweredArith, AnsweredOrder, AnsweredRounding, Result, Ok, val
<1>3. CASE NewFromHiLoCall
  <2>1. PICK e \in Operands["NewFromHiLo"], places \in Places :
          LET res == NewFromHiLo(e.neg, e.coef \div Base, e.coef % Base, places)
          IN  Return([NoCall EXCEPT !.op = "NewFromHiLo", !.e = e, !.places = places],
                     res.val, Zero, res.err)
    BY <1>3 DEF NewFromHiLoCall
  <2> DEFINE request == [NoCall EXCEPT !.op = "NewFromHiLo", !.e = e, !.places = places]
             res == NewFromHiLo(e.neg, e.coef \div Base, e.coef % Base, places)
  <2>2. "NewFromHiLo" \in Ops /\ e \in Decimals
    BY <1>3, OperandTyped DEF NewFromHiLoCall, OperandOps
  <2>3. places \in Nat
    BY CallAssumption
  <2>4. request \in Outcomes /\ request.op = "NewFromHiLo"
    BY <2>2, <2>3, EmptyOutcome DEF Outcomes
  <2>5. res.val \in Decimals /\ res.err \in Errors /\ Zero \in Decimals
    BY <2>2, <2>3, HiLoTyped, Replies DEF IsReply
  <2>6. Return(request, res.val, Zero, res.err)
    BY <2>1
  <2> HIDE DEF request, res
  <2>7. acc' \in Decimals /\ out' \in Outcomes /\ out'.op = "NewFromHiLo"
    BY <2>4, <2>5, <2>6, Returned
  <2> QED
    BY <2>7 DEF IInv, AnsweredArith, AnsweredOrder, AnsweredRounding, Result
<1> QED
  BY <1>1, <1>2, <1>3

(* The questions, and the extremes of three.                               *)
LEMMA ExtremeTyped ==
  ASSUME NEW x \in Decimals, NEW y \in Decimals, NEW z \in Decimals
  PROVE  MinOf(<<x, y, z>>) \in Decimals /\ MaxOf(<<x, y, z>>) \in Decimals
BY MinMaxUnfold DEF Fold3

LEMMA IntPartTyped ==
  ASSUME NEW d \in Decimals
  PROVE  IntPart(d).int \in Int /\ IntPart(d).err \in Errors
<1> DEFINE c == d.coef
           t == Pow10[d.prec]
           q == c \div t
<1>1. c \in Int /\ t \in Nat \ {0}
  <2>1. c \in Nat /\ d.prec \in 0..MaxPrec
    BY DecimalFacts
  <2>2. d.prec \in 0..2*MaxPrec
    BY <2>1, PowFacts
  <2> QED BY <2>1, <2>2, PowFacts
<1>2. q \in Int
  <2> HIDE DEF c, t
  <2> QED BY <1>1, DivMod
<1> HIDE DEF q
<1>3. IntPart(d) = [int |-> 0, err |-> "IntPartOverflow"]
        \/ IntPart(d) = [int |-> IF d.neg THEN -q ELSE q, err |-> "nil"]
  BY DEF IntPart, q
<1> QED
  BY <1>2, <1>3 DEF Errors

LEMMA QuestionKeeps ==
  ASSUME IInv, CmpCall \/ IntPartCall
  PROVE  IInv'
<1> acc \in Decimals
  BY DEF IInv
<1>1. CASE CmpCall
  <2>1. PICK e \in Operands["Cmp"] :
          Question([NoCall EXCEPT !.op = "Cmp", !.e = e], Cmp(acc, e), "nil")
    BY <1>1 DEF CmpCall
  <2> DEFINE request == [NoCall EXCEPT !.op = "Cmp", !.e = e]
             ans == Cmp(acc, e)
  <2>2. "Cmp" \in Ops /\ e \in Decimals
    BY <1>1, OperandTyped DEF CmpCall, OperandOps
  <2>3. request \in Outcomes /\ request.op = "Cmp" /\ request.e = e
    BY <2>2, BinaryRequest
  <2>4. ans \in Int /\ "nil" \in Errors
    BY <2>2, CmpIsExact DEF Sign3, Errors
  <2>5. Question(request, ans, "nil")
    BY <2>1
  <2> HIDE DEF request, ans
  <2>6. /\ acc' \in Decimals /\ out' \in Outcomes
        /\ out'.op = "Cmp" /\ out'.d = acc /\ out'.e = e /\ out'.ans = ans
    BY <2>3, <2>4, <2>5, Questioned
  <2> QED
    BY <2>6 DEF IInv, AnsweredArith, AnsweredOrder, AnsweredRounding, Result, ans
<1>2. CASE IntPartCall
  <2>1. LET res == IntPart(acc)
        IN  Question([NoCall EXCEPT !.op = "IntPart"], res.int, res.err)
    BY <1>2 DEF IntPartCall
  <2> DEFINE request == [NoCall EXCEPT !.op = "IntPart"]
             res == IntPart(acc)
  <2>2. "IntPart" \in Ops
    BY <1>2 DEF IntPartCall, MayCall
  <2>3. request \in Outcomes /\ request.op = "IntPart"
    BY <2>2, UnaryRequest
  <2>4. res.int \in Int /\ res.err \in Errors
    BY IntPartTyped
  <2>5. Question(request, res.int, res.err)
    BY <2>1
  <2> HIDE DEF request, res
  <2>6. /\ acc' \in Decimals /\ out' \in Outcomes
        /\ out'.op = "IntPart" /\ out'.d = acc /\ out'.ans = res.int /\ out'.err = res.err
    BY <2>3, <2>4, <2>5, Questioned
  <2> QED
    BY <2>6 DEF IInv, AnsweredArith, AnsweredOrder, AnsweredRounding, Result, res
<1> QED
  BY <1>1, <1>2

LEMMA ExtremeKeeps ==
  ASSUME IInv, MinCall \/ MaxCall
  PROVE  IInv'
<1> acc \in Decimals
  BY DEF IInv
<1>1. CASE MinCall
  <2>1. PICK e \in Operands["Min"], f \in Wholes :
          Return([NoCall EXCEPT !.op = "Min", !.e = e, !.f = f], MinOf(<<e, acc, f>>), Zero, "nil")
    BY <1>1 DEF MinCall, ExtremeCall
  <2> DEFINE request == [NoCall EXCEPT !.op = "Min", !.e = e, !.f = f]
             val == MinOf(<<e, acc, f>>)
  <2>2. "Min" \in Ops /\ e \in Decimals /\ f \in Decimals
    BY <1>1, OperandTyped, CallAssumption DEF MinCall, ExtremeCall, OperandOps
  <2>3. request \in Outcomes /\ request.op = "Min" /\ request.e = e /\ request.f = f
    BY <2>2, EmptyOutcome DEF Outcomes
  <2>4. val \in Decimals /\ "nil" \in Errors /\ Zero \in Decimals
    BY <2>2, ExtremeTyped, Replies DEF Errors
  <2>5. Return(request, val, Zero, "nil")
    BY <2>1
  <2> HIDE DEF request, val
  <2>6. /\ acc' \in Decimals /\ out' \in Outcomes
        /\ out'.op = "Min" /\ out'.d = acc /\ out'.e = e /\ out'.f = f /\ out'.val = val
    BY <2>3, <2>4, <2>5, Returned
  <2> QED
    BY <2>6 DEF IInv, AnsweredArith, AnsweredOrder, AnsweredRounding, Result, val
<1>2. CASE MaxCall
  <2>1. PICK e \in Operands["Max"], f \in Wholes :
          Return([NoCall EXCEPT !.op = "Max", !.e = e, !.f = f], MaxOf(<<e, acc, f>>), Zero, "nil")
    BY <1>2 DEF MaxCall, ExtremeCall
  <2> DEFINE request == [NoCall EXCEPT !.op = "Max", !.e = e, !.f = f]
             val == MaxOf(<<e, acc, f>>)
  <2>2. "Max" \in Ops /\ e \in Decimals /\ f \in Decimals
    BY <1>2, OperandTyped, CallAssumption DEF MaxCall, ExtremeCall, OperandOps
  <2>3. request \in Outcomes /\ request.op = "Max" /\ request.e = e /\ request.f = f
    BY <2>2, EmptyOutcome DEF Outcomes
  <2>4. val \in Decimals /\ "nil" \in Errors /\ Zero \in Decimals
    BY <2>2, ExtremeTyped, Replies DEF Errors
  <2>5. Return(request, val, Zero, "nil")
    BY <2>1
  <2> HIDE DEF request, val
  <2>6. /\ acc' \in Decimals /\ out' \in Outcomes
        /\ out'.op = "Max" /\ out'.d = acc /\ out'.e = e /\ out'.f = f /\ out'.val = val
    BY <2>3, <2>4, <2>5, Returned
  <2> QED
    BY <2>6 DEF IInv, AnsweredArith, AnsweredOrder, AnsweredRounding, Result, val
<1> QED
  BY <1>1, <1>2

(* The rounding operations.                                                *)
GivesRounding(op, e, f, places, mode, res) ==
  /\ acc' \in Decimals /\ out' \in Outcomes
  /\ out'.op = op /\ out'.d = acc /\ out'.e = e /\ out'.f = f
  /\ out'.places = places /\ out'.mode = mode
  /\ out'.val = res.val /\ out'.err = res.err

LEMMA RoundingGives ==
  ASSUME IInv, NEW op \in Ops, NEW e \in Decimals, NEW f \in Decimals, NEW places \in Nat,
         NEW mode \in Modes \cup CallModes, NEW res, IsReply(res),
         Return(RoundRequest(op, e, f, places, mode), res.val, Zero, res.err)
  PROVE  GivesRounding(op, e, f, places, mode, res)
<1> DEFINE request == RoundRequest(op, e, f, places, mode)
<1>1. /\ request \in Outcomes /\ request.op = op /\ request.e = e /\ request.f = f
      /\ request.places = places /\ request.mode = mode
  BY RoundingRequest
<1>2. Return(request, res.val, Zero, res.err) /\ acc \in Decimals
  BY DEF IInv
<1>3. res.val \in Decimals /\ res.err \in Errors /\ Zero \in Decimals
  BY Replies DEF IsReply
<1> HIDE DEF request
<1> QED
  BY <1>1, <1>2, <1>3, Returned DEF GivesRounding

LEMMA ExplicitRoundingKeeps ==
  ASSUME IInv, MulRoundCall \/ DivRoundCall \/ MulDivRoundCall
  PROVE  IInv'
<1> acc \in Decimals /\ Zero \in Decimals
  BY Replies DEF IInv
<1>1. CASE MulRoundCall
  <2>1. PICK e \in Operands["MulRound"], places \in Places, mode \in CallModes :
          LET res == MulRound(acc, e, places, mode)
          IN  Return(RoundRequest("MulRound", e, Zero, places, mode), res.val, Zero, res.err)
    BY <1>1 DEF MulRoundCall
  <2>2. "MulRound" \in Ops /\ e \in Decimals /\ Zero \in Decimals /\ places \in Nat
        /\ mode \in Modes \cup CallModes
    BY <1>1, OperandTyped, CallAssumption DEF MulRoundCall, OperandOps
  <2>3. IsReply(MulRound(acc, e, places, mode))
    BY <2>2, MulRoundOnce DEF MeetsRequest
  <2>4. GivesRounding("MulRound", e, Zero, places, mode, MulRound(acc, e, places, mode))
    BY <2>1, <2>2, <2>3, RoundingGives
  <2> QED
    BY <2>4 DEF GivesRounding, IInv, AnsweredArith, AnsweredOrder, AnsweredRounding, Result
<1>2. CASE DivRoundCall
  <2>1. PICK e \in Operands["DivRound"], places \in Places, mode \in CallModes :
          LET res == DivRound(acc, e, places, mode)
          IN  Return(RoundRequest("DivRound", e, Zero, places, mode), res.val, Zero, res.err)
    BY <1>2 DEF DivRoundCall
  <2>2. "DivRound" \in Ops /\ e \in Decimals /\ Zero \in Decimals /\ places \in Nat
        /\ mode \in Modes \cup CallModes
    BY <1>2, OperandTyped, CallAssumption DEF DivRoundCall, OperandOps
  <2>3. IsReply(DivRound(acc, e, places, mode))
    BY <2>2, DivRoundOnce DEF MeetsRequest
  <2>4. GivesRounding("DivRound", e, Zero, places, mode, DivRound(acc, e, places, mode))
    BY <2>1, <2>2, <2>3, RoundingGives
  <2> QED
    BY <2>4 DEF GivesRounding, IInv, AnsweredArith, AnsweredOrder, AnsweredRounding, Result
<1>3. CASE MulDivRoundCall
  <2>1. PICK e \in Operands["MulDivRound"], f \in Wholes, places \in Places, mode \in CallModes :
          LET res == MulDivRound(acc, e, f, places, mode)
          IN  Return(RoundRequest("MulDivRound", e, f, places, mode), res.val, Zero, res.err)
    BY <1>3 DEF MulDivRoundCall
  <2>2. "MulDivRound" \in Ops /\ e \in Decimals /\ f \in Decimals /\ places \in Nat
        /\ mode \in Modes \cup CallModes
    BY <1>3, OperandTyped, CallAssumption DEF MulDivRoundCall, OperandOps
  <2>3. IsReply(MulDivRound(acc, e, f, places, mode))
    BY <2>2, MulDivRoundOnce DEF MeetsRequest
  <2>4. GivesRounding("MulDivRound", e, f, places, mode, MulDivRound(acc, e, f, places, mode))
    BY <2>1, <2>2, <2>3, RoundingGives
  <2> QED
    BY <2>4 DEF GivesRounding, IInv, AnsweredArith, AnsweredOrder, AnsweredRounding, Result
<1> QED
  BY <1>1, <1>2, <1>3

(* The methods that round their receiver.                                  *)
LEMMA RoundByReceiver ==
  ASSUME NEW d \in Decimals, NEW places \in Nat, NEW mode \in Modes
  PROVE  RoundsReceiver(Ok(RoundBy(mode, d, places)), d, places, mode)
BY FamilyRoundsOnce DEF RoundBy, Modes

LEMMA ReceiverReply ==
  ASSUME NEW d \in Decimals, NEW places, NEW mode, NEW res, RoundsReceiver(res, d, places, mode)
  PROVE  IsReply(res)
BY Replies DEF RoundsReceiver, RoundedReply

LEMMA FamilyKeeps ==
  ASSUME IInv, RoundToCall \/ FloorCall \/ CeilCall \/ TruncateCall \/ RescaleCall
  PROVE  IInv'
<1> acc \in Decimals /\ Zero \in Decimals /\ 0 \in Nat
    /\ "TowardZero" \in Modes /\ "ToNearestEven" \in Modes
    /\ "TowardPositive" \in Modes /\ "TowardNegative" \in Modes
  BY Replies DEF IInv, Modes
<1>1. CASE RoundToCall
  <2>1. PICK places \in Places, mode \in Modes :
          LET res == Ok(RoundBy(mode, acc, places))
          IN  Return(RoundRequest("Round", Zero, Zero, places, mode), res.val, Zero, res.err)
    BY <1>1 DEF RoundToCall, Rounded
  <2>2. "Round" \in Ops /\ places \in Nat /\ mode \in Modes \cup CallModes
    BY <1>1, CallAssumption DEF RoundToCall, MayCall
  <2>3. IsReply(Ok(RoundBy(mode, acc, places)))
    BY <2>2, RoundByReceiver, ReceiverReply
  <2>4. GivesRounding("Round", Zero, Zero, places, mode, Ok(RoundBy(mode, acc, places)))
    BY <2>1, <2>2, <2>3, RoundingGives
  <2> QED
    BY <2>4 DEF GivesRounding, IInv, AnsweredArith, AnsweredOrder, AnsweredRounding, Result
<1>2. CASE FloorCall
  <2>1. LET res == Ok(Floor(acc))
        IN  Return(RoundRequest("Floor", Zero, Zero, 0, "TowardNegative"), res.val, Zero, res.err)
    BY <1>2 DEF FloorCall, Rounded
  <2>2. "Floor" \in Ops /\ "TowardNegative" \in Modes \cup CallModes
    BY <1>2 DEF FloorCall, MayCall
  <2>3. IsReply(Ok(Floor(acc)))
    BY FamilyRoundsOnce, ReceiverReply
  <2>4. GivesRounding("Floor", Zero, Zero, 0, "TowardNegative", Ok(Floor(acc)))
    BY <2>1, <2>2, <2>3, RoundingGives
  <2> QED
    BY <2>4 DEF GivesRounding, IInv, AnsweredArith, AnsweredOrder, AnsweredRounding, Result
<1>3. CASE CeilCall
  <2>1. LET res == Ok(Ceil(acc))
        IN  Return(RoundRequest("Ceil", Zero, Zero, 0, "TowardPositive"), res.val, Zero, res.err)
    BY <1>3 DEF CeilCall, Rounded
  <2>2. "Ceil" \in Ops /\ "TowardPositive" \in Modes \cup CallModes
    BY <1>3 DEF CeilCall, MayCall
  <2>3. IsReply(Ok(Ceil(acc)))
    BY FamilyRoundsOnce, ReceiverReply
  <2>4. GivesRounding("Ceil", Zero, Zero, 0, "TowardPositive", Ok(Ceil(acc)))
    BY <2>1, <2>2, <2>3, RoundingGives
  <2> QED
    BY <2>4 DEF GivesRounding, IInv, AnsweredArith, AnsweredOrder, AnsweredRounding, Result
<1>4. CASE TruncateCall
  <2>1. PICK places \in Places :
          LET res == Ok(Truncate(acc, places))
          IN  Return(RoundRequest("Truncate", Zero, Zero, places, "TowardZero"), res.val, Zero, res.err)
    BY <1>4 DEF TruncateCall, Rounded
  <2>2. "Truncate" \in Ops /\ places \in Nat /\ "TowardZero" \in Modes \cup CallModes
    BY <1>4, CallAssumption DEF TruncateCall, MayCall
  <2>3. IsReply(Ok(Truncate(acc, places)))
    BY <2>2, FamilyRoundsOnce, ReceiverReply
  <2>4. GivesRounding("Truncate", Zero, Zero, places, "TowardZero", Ok(Truncate(acc, places)))
    BY <2>1, <2>2, <2>3, RoundingGives
  <2> QED
    BY <2>4 DEF GivesRounding, IInv, AnsweredArith, AnsweredOrder, AnsweredRounding, Result
<1>5. CASE RescaleCall
  <2>1. PICK places \in Places :
          LET res == Rescale(acc, places)
          IN  Return(RoundRequest("Rescale", Zero, Zero, places, "ToNearestEven"), res.val, Zero, res.err)
    BY <1>5 DEF RescaleCall, Rounded
  <2>2. "Rescale" \in Ops /\ places \in Nat /\ "ToNearestEven" \in Modes \cup CallModes
    BY <1>5, CallAssumption DEF RescaleCall, MayCall
  <2>3. IsReply(Rescale(acc, places))
    BY <2>2, RescaleRounds
  <2>4. GivesRounding("Rescale", Zero, Zero, places, "ToNearestEven", Rescale(acc, places))
    BY <2>1, <2>2, <2>3, RoundingGives
  <2> QED
    BY <2>4 DEF GivesRounding, IInv, AnsweredArith, AnsweredOrder, AnsweredRounding, Result
<1> QED
  BY <1>1, <1>2, <1>3, <1>4, <1>5

(* IInv is inductive.                                                      *)
LEMMA IInvInit == Init => IInv
BY EmptyOutcome, CallAssumption
   DEF Init, IInv, AnsweredArith, AnsweredOrder, AnsweredRounding

LEMMA IInvNext == IInv /\ [Next]_vars => IInv'
<1> SUFFICES ASSUME IInv, [Next]_vars
             PROVE  IInv'
  OBVIOUS
<1>1. CASE Next
  BY <1>1, ArithmeticKeeps, SignKeeps, QuoRemKeeps, ConstructorKeeps, QuestionKeeps,
     ExtremeKeeps, ExplicitRoundingKeeps, FamilyKeeps DEF Next
<1>2. CASE UNCHANGED vars
  BY <1>2 DEF vars, IInv, AnsweredArith, AnsweredOrder, AnsweredRounding, Result
<1> QED
  BY <1>1, <1>2

(* Whatever the client has called, out is the answer to the request that   *)
(* out remembers, and all values it holds are Decimals.                    *)
THEOREM AnswersAreTheOperations == Spec => []IInv
<1>1. Init => IInv
  BY IInvInit
<1>2. IInv /\ [Next]_vars => IInv'
  BY IInvNext
<1> QED
  BY <1>1, <1>2, PTL DEF Spec

----------------------------------------------------------------------------
(* decimal.go's INVARIANT, through every history of calls: each value the  *)
(* client holds is a Decimal with the one representation of zero, and each *)
(* error is one of the package's.                                          *)
THEOREM ClientHoldsDecimals == Spec => []TypeOK
<1>1. IInv => TypeOK
  BY DEF IInv, Outcomes, TypeOK
<1> QED
  BY <1>1, AnswersAreTheOperations, PTL

(* What it is to answer with an exact total.                               *)
LEMMA SumAnswered ==
  ASSUME NEW total \in Int, NEW prec \in 0..MaxPrec, NEW val, NEW err,
         val = SumOf(total, prec).val, err = SumOf(total, prec).err
  PROVE  LET mag == Abs(total) \div Pow10[MaxPrec - prec]
         IN  IF mag >= Cap THEN err = "Overflow"
             ELSE err = "nil" /\ val = NewDecimal(mag, total < 0, prec)
BY DEF SumOf, Ok, Fail

(* Add and Sub always answered the exact sum or difference, or ErrOverflow *)
(* exactly where its coefficient does not fit.                             *)
THEOREM AddSubAlwaysExact == Spec => []AddSubExact
<1>1. IInv => AddSubExact
  <2> SUFFICES ASSUME IInv, out.op \in {"Add", "Sub"}
               PROVE  AddSubExact
    BY DEF AddSubExact
  <2> DEFINE prec == Larger(out.d.prec, out.e.prec)
  <2>1. out.d \in Decimals /\ out.e \in Decimals
    BY DEF IInv, Outcomes
  <2>2. prec \in 0..MaxPrec
    BY <2>1, DecimalFacts, LargerPrec
  <2>3. Scaled(out.d) \in Int /\ Scaled(out.e) \in Int
    BY <2>1, ScaledInt
  <2>4. CASE out.op = "Add"
    <3> DEFINE total == Scaled(out.d) + Scaled(out.e)
    <3>1. out.val = Add(out.d, out.e).val /\ out.err = Add(out.d, out.e).err
      BY <2>4 DEF IInv, AnsweredArith, Result
    <3>2. Add(out.d, out.e) = SumOf(total, prec)
      BY <2>1, AddIsExact
    <3>3. total \in Int
      BY <2>3
    <3>4. LET mag == Abs(total) \div Pow10[MaxPrec - prec]
          IN  IF mag >= Cap THEN out.err = "Overflow"
              ELSE out.err = "nil" /\ out.val = NewDecimal(mag, total < 0, prec)
      <4> HIDE DEF total, prec
      <4> QED BY <2>2, <3>1, <3>2, <3>3, SumAnswered
    <3> QED
      BY <2>4, <3>4 DEF AddSubExact
  <2>5. CASE out.op = "Sub"
    <3> DEFINE total == Scaled(out.d) - Scaled(out.e)
    <3>1. out.val = Sub(out.d, out.e).val /\ out.err = Sub(out.d, out.e).err
      BY <2>5 DEF IInv, AnsweredArith, Result
    <3>2. Sub(out.d, out.e) = SumOf(total, prec)
      BY <2>1, SubIsExact
    <3>3. total \in Int
      BY <2>3
    <3>4. LET mag == Abs(total) \div Pow10[MaxPrec - prec]
          IN  IF mag >= Cap THEN out.err = "Overflow"
              ELSE out.err = "nil" /\ out.val = NewDecimal(mag, total < 0, prec)
      <4> HIDE DEF total, prec
      <4> QED BY <2>2, <3>1, <3>2, <3>3, SumAnswered
    <3> QED
      BY <2>5, <3>4 DEF AddSubExact
  <2> QED
    BY <2>4, <2>5
<1> QED
  BY <1>1, AnswersAreTheOperations, PTL

(* Mul always answered the truncation of the exact product at DefaultPrec, *)
(* or ErrOverflow exactly where that does not fit.                         *)
THEOREM MulAlwaysTruncates == Spec => []MulTruncates
<1>1. IInv => MulTruncates
  <2> SUFFICES ASSUME IInv, out.op = "Mul"
               PROVE  MulTruncates
    BY DEF MulTruncates
  <2>1. out.d \in Decimals /\ out.e \in Decimals
    BY DEF IInv, Outcomes
  <2>2. out.val = MulTruncated(out.d, out.e).val /\ out.err = MulTruncated(out.d, out.e).err
    BY <2>1, MulIsTruncated DEF IInv, AnsweredArith, Result
  <2> QED
    BY <2>2 DEF MulTruncates, MulTruncated, Ok, Fail
<1> QED
  BY <1>1, AnswersAreTheOperations, PTL

(* Div always answered at the greatest precision up to DefaultPrec whose   *)
(* coefficient fits.                                                       *)
THEOREM DivAlwaysGreatest == Spec => []DivGreatestPrec
<1>1. IInv => DivGreatestPrec
  <2> SUFFICES ASSUME IInv, out.op = "Div", out.e.coef # 0, out.d.coef # 0
               PROVE  DivGreatestPrec
    BY DEF DivGreatestPrec
  <2>1. out.d \in Decimals /\ out.e \in Decimals
    BY DEF IInv, Outcomes
  <2>2. out.val = Div(out.d, out.e).val /\ out.err = Div(out.d, out.e).err
    BY DEF IInv, AnsweredArith, Result
  <2>3. GreatestQuotient(Div(out.d, out.e), out.d, out.e)
    BY <2>1, DivIsGreatest
  <2> QED
    BY <2>2, <2>3 DEF DivGreatestPrec, GreatestQuotient
<1> QED
  BY <1>1, AnswersAreTheOperations, PTL

(* The bit-length estimate of Div was never more than one digit low, and   *)
(* always a fit where anything fits.                                       *)
THEOREM EstimateAlwaysTight == Spec => []EstimateTight
<1>1. IInv => EstimateTight
  <2> SUFFICES ASSUME IInv, out.op = "Div", out.e.coef # 0, out.d.coef # 0
               PROVE  EstimateTight
    BY DEF EstimateTight
  <2>1. out.d \in Decimals /\ out.e \in Decimals
    BY DEF IInv, Outcomes
  <2> QED
    BY <2>1, EstimateIsTight DEF EstimateTight
<1> QED
  BY <1>1, AnswersAreTheOperations, PTL

(* QuoRem and Mod always answered an integral quotient and the remainder   *)
(* with the sign of the receiver, or ErrOverflow exactly where the         *)
(* quotient does not fit.                                                  *)
THEOREM QuoRemAlwaysIdentity == Spec => []QuoRemIdentity
<1>1. IInv => QuoRemIdentity
  <2> SUFFICES ASSUME IInv, out.op \in {"QuoRem", "Mod"}, out.e.coef # 0
               PROVE  QuoRemIdentity
    BY DEF QuoRemIdentity
  <2> DEFINE qr == QuoRem(out.d, out.e)
             a == Scaled(out.d)
             b == Scaled(out.e)
  <2>1. out.d \in Decimals /\ out.e \in Decimals
    BY DEF IInv, Outcomes
  <2>2. IF Abs(a) \div Abs(b) >= Cap
        THEN qr.err = "Overflow"
        ELSE /\ qr.err = "nil" /\ qr.quo.prec = 0 /\ Abs(Scaled(qr.rem)) < Abs(b)
             /\ qr.rem # Zero => qr.rem.neg = out.d.neg
                                 /\ qr.rem.prec = Larger(out.d.prec, out.e.prec)
             /\ Signed(qr.quo) * b + Scaled(qr.rem) = a
             /\ (a - Scaled(qr.rem)) % Abs(b) = 0
    BY <2>1, QuoRemIsExact
  <2>3. CASE out.op = "QuoRem"
    <3>1. out.val = qr.quo /\ out.rem = qr.rem /\ out.err = qr.err
      BY <2>3 DEF IInv, AnsweredArith
    <3> HIDE DEF qr
    <3> QED
      BY <2>2, <2>3, <3>1 DEF QuoRemIdentity, IsRemainder
  <2>4. CASE out.op = "Mod"
    <3>1. out.val = qr.rem /\ out.err = qr.err
      BY <2>1, <2>4, QuoRemTyped DEF IInv, AnsweredArith, Result
    <3> HIDE DEF qr
    <3> QED
      BY <2>2, <2>4, <3>1 DEF QuoRemIdentity, IsRemainder
  <2> QED
    BY <2>3, <2>4
<1> QED
  BY <1>1, AnswersAreTheOperations, PTL

(* NewFromInt is New with the exponent 0.                                  *)
LEMMA WholeIsExact ==
  ASSUME NEW v \in Int64
  PROVE  IntegerReply(Ok(NewFromInt(v)), v, 0)
<1> DEFINE m == Abs(v)
<1>1. m \in Nat /\ m < Cap /\ (v < 0) \in BOOLEAN
  BY IntegerFacts
<1>2. MaxPrec \in Nat /\ Pow10[0] = 1 /\ 0 \in 0..MaxPrec
  BY PowFacts
<1> DEFINE res == Ok(NewDecimal(m, v < 0, 0))
<1>3. Ok(NewFromInt(v)) = res
  BY DEF NewFromInt
<1>4. IsReply(res) /\ res.err = "nil" /\ res.val = NewDecimal(m, v < 0, 0)
  <2> HIDE DEF m
  <2> QED BY <1>1, <1>2, MakeDecimal DEF Ok
<1>5. (m * 1) % 1 = 0 /\ (m * 1) \div 1 = m
  <2> HIDE DEF m
  <2> QED BY <1>1
<1> HIDE DEF m, res
<1>6. IntegerReply(res, v, 0)
  <2> DEFINE places == IF 0 < 0 THEN Smaller(-0, MaxPrec) ELSE 0
  <2>1. places = 0 /\ Larger(0, 0) = 0 /\ Larger(-0 - places, 0) = 0
    BY DEF Larger
  <2>2. ~(0 > 2*MaxPrec) /\ ~(m >= Cap)
    BY <1>1, <1>2, CapFacts
  <2> HIDE DEF places
  <2>3. /\ IsReply(res)
        /\ IF 0 > 2*MaxPrec THEN res.err = "Overflow"
           ELSE IF 0 > 2*MaxPrec \/ (m * 1) % 1 # 0 THEN res.err = "PrecOutOfRange"
           ELSE IF (m * 1) \div 1 >= Cap THEN res.err = "Overflow"
           ELSE res.err = "nil" /\ res.val = NewDecimal((m * 1) \div 1, v < 0, 0)
    BY <1>4, <1>5, <2>2
  <2> QED
    BY <1>2, <2>1, <2>3 DEF IntegerReply, m, places
<1> QED
  BY <1>3, <1>6

(* What MulExact and DivExact returned was always the exact result, and    *)
(* where they refused, the reason is the one that applies; the same for    *)
(* New, NewFromInt and IntPart.                                            *)
THEOREM AlwaysExactOrReason == Spec => []ExactOrReason
<1>1. IInv => ExactOrReason
  <2> SUFFICES ASSUME IInv
               PROVE  ExactOrReason
    OBVIOUS
  <2>1. out.d \in Decimals /\ out.e \in Decimals /\ out.int \in Int64 /\ out.exp \in Int
    BY DEF IInv, Outcomes
  <2>2. ExactProduct
    <3>1. CASE out.op = "MulExact"
      <4>1. out.val = MulExact(out.d, out.e).val /\ out.err = MulExact(out.d, out.e).err
        BY <3>1 DEF IInv, AnsweredArith, Result
      <4> QED
        BY <2>1, <3>1, <4>1, MulExactIsExact DEF ExactProduct, ExactReply
    <3>2. CASE out.op = "DivExact"
      <4>1. out.val = DivExact(out.d, out.e).val /\ out.err = DivExact(out.d, out.e).err
        BY <3>2 DEF IInv, AnsweredArith, Result
      <4> QED
        BY <2>1, <3>2, <4>1, DivExactIsExact DEF ExactProduct, ExactReply
    <3> QED
      BY <3>1, <3>2 DEF ExactProduct
  <2>3. ExactInteger
    <3>1. CASE out.op = "New" /\ out.int # 0
      <4>1. out.val = New(out.int, out.exp).val /\ out.err = New(out.int, out.exp).err
        BY <3>1 DEF IInv, AnsweredOrder, Result
      <4>2. IntegerReply(New(out.int, out.exp), out.int, out.exp)
        BY <2>1, <3>1, NewIsExact
      <4> QED
        BY <4>1, <4>2 DEF ExactInteger, IntegerReply
    <3>2. CASE out.op = "NewFromInt"
      <4>1. /\ out.val = Ok(NewFromInt(out.int)).val /\ out.err = Ok(NewFromInt(out.int)).err
            /\ out.exp = 0
        BY <3>2 DEF IInv, AnsweredOrder, Result
      <4>2. IntegerReply(Ok(NewFromInt(out.int)), out.int, out.exp)
        BY <2>1, <4>1, WholeIsExact
      <4> QED
        BY <4>1, <4>2 DEF ExactInteger, IntegerReply
    <3> QED
      BY <3>1, <3>2 DEF ExactInteger
  <2>4. ExactIntPart
    <3> SUFFICES ASSUME out.op = "IntPart"
                 PROVE  ExactIntPart
      BY DEF ExactIntPart
    <3>1. out.ans = IntPart(out.d).int /\ out.err = IntPart(out.d).err
      BY DEF IInv, AnsweredOrder
    <3> QED
      BY <2>1, <3>1, IntPartIsExact DEF ExactIntPart
  <2> QED
    BY <2>2, <2>3, <2>4 DEF ExactOrReason
<1> QED
  BY <1>1, AnswersAreTheOperations, PTL

(* MulExact always kept the natural precision unless the coefficient would *)
(* not have fitted with one more digit; DivExact the greatest that fits.   *)
THEOREM AlwaysExactPrecision == Spec => []ExactPrecision
<1>1. IInv => ExactPrecision
  <2> SUFFICES ASSUME IInv, out.op \in {"MulExact", "DivExact"}, out.err = "nil", out.val # Zero
               PROVE  ExactPrecision
    BY DEF ExactPrecision
  <2>1. out.d \in Decimals /\ out.e \in Decimals
    BY DEF IInv, Outcomes
  <2>2. CASE out.op = "MulExact"
    <3>1. out.val = MulExact(out.d, out.e).val /\ out.err = MulExact(out.d, out.e).err
      BY <2>2 DEF IInv, AnsweredArith, Result
    <3> QED
      BY <2>1, <2>2, <3>1, MulExactIsExact DEF ExactPrecision, ExactReply
  <2>3. CASE out.op = "DivExact"
    <3>1. out.val = DivExact(out.d, out.e).val /\ out.err = DivExact(out.d, out.e).err
      BY <2>3 DEF IInv, AnsweredArith, Result
    <3>2. out.e.coef # 0
      BY <2>1, <3>1, DivExactIsExact
    <3> QED
      BY <2>1, <2>3, <3>1, <3>2, DivExactIsExact DEF ExactPrecision, ExactReply
  <2> QED
    BY <2>2, <2>3
<1> QED
  BY <1>1, AnswersAreTheOperations, PTL

(* Whatever was asked of MulRound, DivRound and MulDivRound, the answer is *)
(* the exact result rounded once, ErrOverflow exactly where the rounded    *)
(* coefficient does not fit, and the first of the argument errors.         *)
THEOREM AlwaysRoundedOnce == Spec => []RoundedOnce
<1>1. IInv => RoundedOnce
  <2> SUFFICES ASSUME IInv
               PROVE  RoundedOnce
    OBVIOUS
  <2>1. out.d \in Decimals /\ out.e \in Decimals /\ out.f \in Decimals /\ out.places \in Nat
    BY DEF IInv, Outcomes
  <2>2. CASE out.op = "MulRound"
    <3>1. /\ out.val = MulRound(out.d, out.e, out.places, out.mode).val
          /\ out.err = MulRound(out.d, out.e, out.places, out.mode).err
      BY <2>2 DEF IInv, AnsweredRounding, Result
    <3>2. MeetsRequest(MulRound(out.d, out.e, out.places, out.mode),
                       RoundArgsError(out.places, out.mode, 1),
                       out.d.coef * out.e.coef * Pow10[out.places], Pow10[out.d.prec + out.e.prec],
                       out.d.neg # out.e.neg, out.places, out.mode)
      BY <2>1, MulRoundOnce
    <3> QED
      BY <2>2, <3>1, <3>2 DEF RoundedOnce, MeetsRequest
  <2>3. CASE out.op = "DivRound"
    <3>1. /\ out.val = DivRound(out.d, out.e, out.places, out.mode).val
          /\ out.err = DivRound(out.d, out.e, out.places, out.mode).err
      BY <2>3 DEF IInv, AnsweredRounding, Result
    <3>2. MeetsRequest(DivRound(out.d, out.e, out.places, out.mode),
                       RoundArgsError(out.places, out.mode, out.e.coef),
                       out.d.coef * Pow10[out.places + out.e.prec],
                       out.e.coef * Pow10[out.d.prec],
                       out.d.neg # out.e.neg, out.places, out.mode)
      BY <2>1, DivRoundOnce
    <3> QED
      BY <2>3, <3>1, <3>2 DEF RoundedOnce, MeetsRequest
  <2>4. CASE out.op = "MulDivRound"
    <3>1. /\ out.val = MulDivRound(out.d, out.e, out.f, out.places, out.mode).val
          /\ out.err = MulDivRound(out.d, out.e, out.f, out.places, out.mode).err
      BY <2>4 DEF IInv, AnsweredRounding, Result
    <3>2. MeetsRequest(MulDivRound(out.d, out.e, out.f, out.places, out.mode),
                       RoundArgsError(out.places, out.mode, out.f.coef),
                       out.d.coef * out.e.coef * Pow10[out.places + out.f.prec],
                       out.f.coef * Pow10[out.d.prec + out.e.prec],
                       (out.d.neg # out.e.neg) # out.f.neg, out.places, out.mode)
      BY <2>1, MulDivRoundOnce
    <3> QED
      BY <2>4, <3>1, <3>2 DEF RoundedOnce, MeetsRequest
  <2>5. CASE out.op \notin {"MulRound", "DivRound", "MulDivRound"}
    BY <2>5 DEF RoundedOnce
  <2> QED
    BY <2>2, <2>3, <2>4, <2>5
<1> QED
  BY <1>1, AnswersAreTheOperations, PTL

(* The methods that round their receiver, and a lowering Rescale, always   *)
(* rounded it once in their mode and never failed; with enough places the  *)
(* methods returned it, and Rescale gave it the requested precision or     *)
(* said which of the two, coefficient or precision, does not fit.          *)
THEOREM FamilyAlwaysRounds == Spec => []RoundFamily
<1>1. IInv => RoundFamily
  <2> SUFFICES ASSUME IInv, out.op \in {"Round", "Floor", "Ceil", "Truncate", "Rescale"}
               PROVE  RoundFamily
    BY DEF RoundFamily
  <2>1. out.d \in Decimals /\ out.places \in Nat /\ out.d.prec \in Nat
    <3>1. out.d \in Decimals /\ out.places \in Nat
      BY DEF IInv, Outcomes
    <3>2. out.d.prec \in 0..MaxPrec /\ MaxPrec \in Nat
      BY <3>1, DecimalFacts, PowFacts
    <3> QED
      BY <3>1, <3>2
  <2>2. ASSUME NEW val, RoundsReceiver(Ok(val), out.d, out.places, out.mode),
               out.val = Ok(val).val, out.err = Ok(val).err, out.op # "Rescale"
        PROVE  RoundFamily
    <3>1. out.err = "nil"
      BY <2>2 DEF Ok
    <3>2. CASE out.places < out.d.prec
      <4>1. ~(out.places >= out.d.prec)
        BY <2>1, <3>2
      <4> QED
        BY <2>2, <3>1, <3>2, <4>1 DEF RoundsReceiver, RoundedReply, RoundFamily
    <3>3. CASE ~(out.places < out.d.prec)
      <4>1. out.places >= out.d.prec
        BY <2>1, <3>3
      <4>2. Ok(val) = Ok(out.d)
        BY <2>2, <4>1 DEF RoundsReceiver
      <4> QED
        BY <2>2, <3>3, <4>2 DEF RoundFamily
    <3> QED
      BY <3>2, <3>3
  <2>3. CASE out.op = "Round"
    <3>1. /\ out.mode \in Modes
          /\ out.val = Ok(RoundBy(out.mode, out.d, out.places)).val
          /\ out.err = Ok(RoundBy(out.mode, out.d, out.places)).err
      BY <2>3 DEF IInv, AnsweredRounding, Result
    <3> QED
      BY <2>1, <2>2, <2>3, <3>1, RoundByReceiver
  <2>4. CASE out.op = "Floor"
    <3>1. /\ out.mode = "TowardNegative" /\ out.places = 0
          /\ out.val = Ok(Floor(out.d)).val /\ out.err = Ok(Floor(out.d)).err
      BY <2>4 DEF IInv, AnsweredRounding, Result
    <3> QED
      BY <2>1, <2>2, <2>4, <3>1, FamilyRoundsOnce
  <2>5. CASE out.op = "Ceil"
    <3>1. /\ out.mode = "TowardPositive" /\ out.places = 0
          /\ out.val = Ok(Ceil(out.d)).val /\ out.err = Ok(Ceil(out.d)).err
      BY <2>5 DEF IInv, AnsweredRounding, Result
    <3> QED
      BY <2>1, <2>2, <2>5, <3>1, FamilyRoundsOnce
  <2>6. CASE out.op = "Truncate"
    <3>1. /\ out.mode = "TowardZero"
          /\ out.val = Ok(Truncate(out.d, out.places)).val
          /\ out.err = Ok(Truncate(out.d, out.places)).err
      BY <2>6 DEF IInv, AnsweredRounding, Result
    <3> QED
      BY <2>1, <2>2, <2>6, <3>1, FamilyRoundsOnce
  <2>7. CASE out.op = "Rescale"
    <3>1. /\ out.mode = "ToNearestEven"
          /\ out.val = Rescale(out.d, out.places).val /\ out.err = Rescale(out.d, out.places).err
      BY <2>7 DEF IInv, AnsweredRounding, Result
    <3>2. CASE out.places < out.d.prec
      BY <2>1, <3>1, <3>2, RescaleRounds DEF RoundFamily, RoundedReply
    <3>3. CASE ~(out.places < out.d.prec)
      <4>1. Rescale(out.d, out.places) = Rescaled(out.d, out.places)
        BY <2>1, <3>3, RescaleRounds
      <4> QED
        BY <2>7, <3>1, <3>3, <4>1 DEF RoundFamily, Rescaled
    <3> QED
      BY <3>2, <3>3
  <2> QED
    BY <2>3, <2>4, <2>5, <2>6, <2>7
<1> QED
  BY <1>1, AnswersAreTheOperations, PTL

(* The comparisons order by exact value, and folding them over three       *)
(* arguments picks the first least one.                                    *)
LEMMA CmpOrders ==
  ASSUME NEW x \in Decimals, NEW y \in Decimals
  PROVE  /\ (Cmp(x, y) < 0) <=> (Scaled(x) < Scaled(y))
         /\ (Cmp(x, y) > 0) <=> (Scaled(x) > Scaled(y))
<1>1. Scaled(x) \in Int /\ Scaled(y) \in Int /\ Cmp(x, y) = Sign3(Scaled(x) - Scaled(y))
  BY ScaledInt, CmpIsExact
<1> QED
  BY <1>1 DEF Sign3

LEMMA FirstOfThree ==
  ASSUME NEW x, NEW y, NEW z, NEW sx \in Int, NEW sy \in Int, NEW sz \in Int, NEW val,
         val = IF sz < (IF sy < sx THEN sy ELSE sx) THEN z ELSE IF sy < sx THEN y ELSE x
  PROVE  LET s == <<x, y, z>>
             key == <<sx, sy, sz>>
         IN  \E j \in 1..3 : /\ s[j] = val
                             /\ \A k \in 1..3 : ~(key[k] < key[j])
                             /\ \A k \in 1..(j - 1) : key[j] < key[k]
<1> DEFINE s == <<x, y, z>>
           key == <<sx, sy, sz>>
           First(j) == /\ s[j] = val
                       /\ \A k \in 1..3 : ~(key[k] < key[j])
                       /\ \A k \in 1..(j - 1) : key[j] < key[k]
<1> SUFFICES \E j \in 1..3 : First(j)
  OBVIOUS
<1>1. CASE sz < (IF sy < sx THEN sy ELSE sx)
  <2>1. First(3)
    BY <1>1
  <2> QED BY <2>1
<1>2. CASE ~(sz < (IF sy < sx THEN sy ELSE sx)) /\ sy < sx
  <2>1. First(2)
    BY <1>2
  <2> HIDE DEF First
  <2> QED BY <2>1
<1>3. CASE ~(sz < (IF sy < sx THEN sy ELSE sx)) /\ ~(sy < sx)
  <2>1. First(1)
    BY <1>3
  <2> QED BY <2>1
<1> HIDE DEF First
<1> QED
  BY <1>1, <1>2, <1>3

(* Cmp, Trim, Min and Max always followed one order, that of the exact     *)
(* values: equal means equal after trimming, and of several least or       *)
(* greatest arguments the first was returned.                              *)
THEOREM OrderAlwaysExact == Spec => []OrderIsExact
<1>1. IInv => OrderIsExact
  <2> SUFFICES ASSUME IInv
               PROVE  OrderIsExact
    OBVIOUS
  <2>1. out.d \in Decimals /\ out.e \in Decimals /\ out.f \in Decimals
    BY DEF IInv, Outcomes
  <2>2. out.op = "Cmp" => /\ out.ans = Sign3(Scaled(out.d) - Scaled(out.e))
                          /\ (out.ans = 0) <=> (Trim(out.d) = Trim(out.e))
    BY <2>1, CmpIsExact, TrimEqual DEF IInv, AnsweredOrder
  <2>3. out.op = "Trim" => Scaled(out.val) = Scaled(out.d)
    BY <2>1, TrimReduces DEF IInv, AnsweredOrder
  <2>4. out.op \in {"Min", "Max"} => FirstExtreme
    <3> DEFINE x == out.e
               y == out.d
               z == out.f
               s == <<x, y, z>>
    <3>1. Scaled(x) \in Int /\ Scaled(y) \in Int /\ Scaled(z) \in Int
      BY <2>1, ScaledInt
    <3>2. CASE out.op = "Min"
      <4> DEFINE key == <<Scaled(x), Scaled(y), Scaled(z)>>
                 two == IF Scaled(y) < Scaled(x) THEN y ELSE x
      <4>1. out.val = IF Cmp(z, IF Cmp(y, x) < 0 THEN y ELSE x) < 0 THEN z
                      ELSE IF Cmp(y, x) < 0 THEN y ELSE x
        BY <3>2, MinMaxUnfold DEF IInv, AnsweredOrder, Fold3
      <4>2. (Cmp(y, x) < 0) <=> (Scaled(y) < Scaled(x))
        BY <2>1, CmpOrders
      <4>3. two \in Decimals
        BY <2>1
      <4>4. (Cmp(z, two) < 0) <=> (Scaled(z) < Scaled(two))
        BY <2>1, <4>3, CmpOrders
      <4>5. Scaled(two) = IF Scaled(y) < Scaled(x) THEN Scaled(y) ELSE Scaled(x)
        OBVIOUS
      <4>6. out.val = IF Scaled(z) < (IF Scaled(y) < Scaled(x) THEN Scaled(y) ELSE Scaled(x))
                      THEN z ELSE IF Scaled(y) < Scaled(x) THEN y ELSE x
        BY <4>1, <4>2, <4>4, <4>5
      <4>7. PICK j \in 1..3 : /\ s[j] = out.val
                              /\ \A k \in 1..3 : ~(key[k] < key[j])
                              /\ \A k \in 1..(j - 1) : key[j] < key[k]
        <5> HIDE DEF x, y, z
        <5> QED BY <3>1, <4>6, FirstOfThree
      <4>8. \A k \in 1..3 : key[k] = Scaled(s[k])
        OBVIOUS
      <4>9. \A k \in 1..(j - 1) : k \in 1..3
        OBVIOUS
      <4> HIDE DEF key, s
      <4> QED
        BY <3>2, <4>7, <4>8, <4>9 DEF FirstExtreme, s
    <3>3. CASE out.op = "Max"
      <4> DEFINE key == <<-Scaled(x), -Scaled(y), -Scaled(z)>>
                 two == IF Scaled(y) > Scaled(x) THEN y ELSE x
      <4>1. out.val = IF Cmp(z, IF Cmp(y, x) > 0 THEN y ELSE x) > 0 THEN z
                      ELSE IF Cmp(y, x) > 0 THEN y ELSE x
        BY <3>3, MinMaxUnfold DEF IInv, AnsweredOrder, Fold3
      <4>2. (Cmp(y, x) > 0) <=> (Scaled(y) > Scaled(x))
        BY <2>1, CmpOrders
      <4>3. two \in Decimals
        BY <2>1
      <4>4. (Cmp(z, two) > 0) <=> (Scaled(z) > Scaled(two))
        BY <2>1, <4>3, CmpOrders
      <4>5. out.val = IF -Scaled(z) < (IF -Scaled(y) < -Scaled(x) THEN -Scaled(y) ELSE -Scaled(x))
                      THEN z ELSE IF -Scaled(y) < -Scaled(x) THEN y ELSE x
        BY <3>1, <4>1, <4>2, <4>4
      <4>6. -Scaled(x) \in Int /\ -Scaled(y) \in Int /\ -Scaled(z) \in Int
        BY <3>1
      <4>7. PICK j \in 1..3 : /\ s[j] = out.val
                              /\ \A k \in 1..3 : ~(key[k] < key[j])
                              /\ \A k \in 1..(j - 1) : key[j] < key[k]
        <5> HIDE DEF x, y, z
        <5> QED BY <4>5, <4>6, FirstOfThree
      <4>8. \A k \in 1..3 : Scaled(s[k]) \in Int /\ key[k] = -Scaled(s[k])
        BY <3>1
      <4>9. \A k \in 1..(j - 1) : k \in 1..3
        OBVIOUS
      <4> HIDE DEF key, s
      <4>10. /\ \A k \in 1..3 : ~(Scaled(s[k]) > Scaled(s[j]))
             /\ \A k \in 1..(j - 1) : Scaled(s[j]) > Scaled(s[k])
        BY <4>7, <4>8, <4>9
      <4> QED
        BY <3>3, <4>7, <4>10 DEF FirstExtreme, s
    <3> QED
      BY <3>2, <3>3
  <2> QED
    BY <2>2, <2>3, <2>4 DEF OrderIsExact
<1> QED
  BY <1>1, AnswersAreTheOperations, PTL

----------------------------------------------------------------------------
Positive == Nat \ {0}

(* Where the two ways of rounding x/w may differ: the first cut lost       *)
(* something and left a tie, or nothing, for the second.                   *)
MayDiffer(x, w, unit, half, mode) ==
  /\ mode \notin {"ToNearestAway", "TowardZero"} /\ x % w # 0
  /\ (x \div w) % unit = IF mode = "ToNearestEven" THEN half ELSE 0

(* Two roundings against one: x/w first cut off and then rounded to a      *)
(* multiple of 2*half differs from x/w rounded at once only where the cut  *)
(* lost something and left a tie, or no remainder at all.                  *)
LEMMA CutThenRounded ==
  ASSUME NEW x \in Nat, NEW w \in Positive, NEW half \in Positive,
         NEW unit \in Positive, unit = 2 * half, NEW neg \in BOOLEAN, NEW mode \in Modes
  PROVE  \/ RoundedCoef(x \div w, unit, neg, mode) = RoundedCoef(x, w * unit, neg, mode)
         \/ MayDiffer(x, w, unit, half, mode)
<1> USE DEF Positive
<1> DEFINE a == (x \div w) \div unit
           b == (x \div w) % unit
           lost == x % w
           num == w * unit
           r == x % num
           two == Sign3(2 * b - unit)
           one == Sign3(2 * r - num)
<1>1. x \div (w * unit) = a /\ r = b * w + lost
  BY DivDiv
<1>2. b \in Nat /\ b < unit /\ lost \in Nat /\ lost < w
  <2>1. x \div w \in Nat
    BY DivBelow
  <2> QED BY <2>1, DivBelow
<1>3. /\ RoundedCoef(x \div w, unit, neg, mode)
           = IF RoundsUp(mode, b # 0, two, IsOdd(a), neg) THEN a + 1 ELSE a
      /\ RoundedCoef(x, w * unit, neg, mode)
           = IF RoundsUp(mode, r # 0, one, IsOdd(a), neg) THEN a + 1 ELSE a
  BY <1>1 DEF RoundedCoef, UpFrom
<1> DEFINE odd == IsOdd(a)
           up == a + 1
<1>4. odd \in BOOLEAN
  BY DEF IsOdd
<1> HIDE DEF a, b, lost, odd, up
<1>5. /\ (r # 0) = (b # 0 \/ lost # 0)
      /\ b > half => 2 * r > num
      /\ b < half => 2 * r < num
      /\ b = half => 2 * r - num = 2 * lost
  <2>1. b * w \in Nat /\ (b # 0 => b * w >= w) /\ (b = 0 => b * w = 0) /\ num = 2 * (half * w)
    BY <1>2
  <2>2. ASSUME b > half PROVE 2 * r > num
    <3>1. b >= half + 1
      BY <1>2, <2>2
    <3>2. b * w >= (half + 1) * w /\ (half + 1) * w = half * w + w /\ half * w \in Nat
      BY <1>2, <3>1
    <3> QED BY <1>1, <1>2, <2>1, <3>2
  <2>3. ASSUME b < half PROVE 2 * r < num
    <3>1. b + 1 <= half
      BY <1>2, <2>3
    <3>2. (b + 1) * w <= half * w /\ (b + 1) * w = b * w + w /\ half * w \in Nat
      BY <1>2, <3>1
    <3> QED BY <1>1, <1>2, <2>1, <3>2
  <2>4. ASSUME b = half PROVE 2 * r - num = 2 * lost
    <3>1. half * w \in Nat
      OBVIOUS
    <3> QED BY <1>1, <1>2, <2>1, <2>4, <3>1
  <2> QED BY <1>1, <1>2, <2>1, <2>2, <2>3, <2>4
<1>6. /\ b > half => two = 1 /\ one = 1 /\ b # 0
      /\ b < half => two = -1 /\ one = -1
      /\ b = half => two = 0 /\ one = (IF lost = 0 THEN 0 ELSE 1) /\ b # 0
  <2>1. num \in Nat /\ r \in Nat
    BY <1>1, <1>2
  <2>2. Sign3(2 * r - num) = one /\ Sign3(2 * b - unit) = two
    OBVIOUS
  <2> HIDE DEF num, r, one, two
  <2>3. b > half => two = 1 /\ one = 1 /\ b # 0
    BY <1>2, <1>5, <2>1, <2>2 DEF Sign3
  <2>4. b < half => two = -1 /\ one = -1
    BY <1>2, <1>5, <2>1, <2>2 DEF Sign3
  <2>5. b = half => two = 0 /\ one = (IF lost = 0 THEN 0 ELSE 1) /\ b # 0
    BY <1>2, <1>5, <2>1, <2>2 DEF Sign3
  <2> QED BY <2>3, <2>4, <2>5
<1>7. b > half \/ b < half \/ b = half
  BY <1>2
<1>8. (r # 0) = (b # 0 \/ lost # 0)
  BY <1>5
<1> DEFINE R1 == RoundsUp(mode, b # 0, two, odd, neg)
           R2 == RoundsUp(mode, r # 0, one, odd, neg)
<1> HIDE DEF two, one, r
<1>9. \/ R1 = R2
      \/ /\ mode \notin {"ToNearestAway", "TowardZero"} /\ lost # 0
         /\ b = IF mode = "ToNearestEven" THEN half ELSE 0
  <2>1. CASE mode = "ToNearestAway"
    BY <1>6, <1>7, <1>8, <2>1 DEF RoundsUp
  <2>2. CASE mode = "ToNearestEven"
    BY <1>4, <1>6, <1>7, <1>8, <2>2 DEF RoundsUp
  <2>3. CASE mode = "AwayFromZero"
    BY <1>8, <2>3 DEF RoundsUp
  <2>4. CASE mode = "TowardZero"
    BY <2>4 DEF RoundsUp
  <2>5. CASE mode \in {"TowardPositive", "TowardNegative"}
    BY <1>8, <2>5 DEF RoundsUp
  <2> QED BY <2>1, <2>2, <2>3, <2>4, <2>5 DEF Modes
<1>10. /\ RoundedCoef(x \div w, unit, neg, mode) = IF R1 THEN up ELSE a
       /\ RoundedCoef(x, w * unit, neg, mode) = IF R2 THEN up ELSE a
  BY <1>3 DEF odd, up, two, one, a, b
<1> HIDE DEF R1, R2
<1> QED
  BY <1>9, <1>10 DEF b, lost, MayDiffer

(* The legacy chain, when its product keeps all digits and its quotient    *)
(* DefaultPrec of them: the exact fraction x/w cut off at DefaultPrec.     *)
ChainNum(d, e, f) == (d.coef * e.coef) * Pow10[DefaultPrec + f.prec]
ChainDen(d, e, f) == f.coef * Pow10[d.prec + e.prec]
(* The numbers involved are natural, the precisions in their ranges.       *)
LEMMA ChainBounds ==
  ASSUME NEW d \in Decimals, NEW e \in Decimals, NEW f \in Decimals, f.coef # 0,
         d.prec + e.prec <= DefaultPrec
  PROVE  /\ d.prec + e.prec \in 0..DefaultPrec /\ d.coef * e.coef \in Nat
         /\ ChainNum(d, e, f) \in Nat /\ ChainDen(d, e, f) \in Nat \ {0}
         /\ DefaultPrec \in 1..MaxPrec /\ MaxPrec \in Nat /\ f.prec \in 0..MaxPrec
         /\ d.prec + e.prec \in 0..MaxPrec
<1>1. MaxPrec \in Nat /\ DefaultPrec \in 1..MaxPrec
  BY PowFacts, DefaultPrecAssumption
<1>2. /\ d.coef \in Nat /\ e.coef \in Nat /\ f.coef \in Nat
      /\ d.prec \in 0..MaxPrec /\ e.prec \in 0..MaxPrec /\ f.prec \in 0..MaxPrec
  BY DecimalFacts
<1>3. d.prec + e.prec \in 0..2*MaxPrec /\ DefaultPrec + f.prec \in 0..2*MaxPrec
      /\ d.prec + e.prec \in 0..DefaultPrec /\ d.prec + e.prec \in 0..MaxPrec
  BY <1>1, <1>2
<1>4. Pow10[d.prec + e.prec] \in Nat \ {0} /\ Pow10[DefaultPrec + f.prec] \in Nat
  BY <1>3, TableAssumption
<1>5. d.coef * e.coef \in Nat
  BY <1>2
<1>6. ChainNum(d, e, f) \in Nat /\ ChainDen(d, e, f) \in Nat \ {0}
  <2> DEFINE m == d.coef * e.coef
             t == Pow10[DefaultPrec + f.prec]
             u == Pow10[d.prec + e.prec]
             c == f.coef
  <2>1. m \in Nat /\ t \in Nat /\ u \in Nat \ {0} /\ c \in Nat \ {0}
    BY <1>2, <1>4, <1>5
  <2> HIDE DEF m, t, u, c
  <2>2. m * t \in Nat /\ c * u \in Nat \ {0}
    BY <2>1
  <2> QED BY <2>2 DEF ChainNum, ChainDen, m, t, u, c
<1> QED BY <1>1, <1>2, <1>3, <1>5, <1>6

(* A product whose digits all fit DefaultPrec places is exact.             *)
LEMMA ChainProduct ==
  ASSUME NEW d \in Decimals, NEW e \in Decimals, NEW f \in Decimals, f.coef # 0,
         d.prec + e.prec <= DefaultPrec, Mul(d, e).err = "nil"
  PROVE  /\ d.coef * e.coef < Cap
         /\ Mul(d, e).val = NewDecimal(d.coef * e.coef, d.neg # e.neg, d.prec + e.prec)
<1> DEFINE b == d.prec + e.prec
           m == d.coef * e.coef
           n == d.neg # e.neg
<1>1. b \in 0..DefaultPrec /\ m \in Nat /\ DefaultPrec \in Nat
  BY ChainBounds
<1>2. Larger(b - DefaultPrec, 0) = 0 /\ Smaller(b, DefaultPrec) = b
  <2> HIDE DEF b
  <2> QED BY <1>1 DEF Larger, Smaller
<1>3. Pow10[0] = 1
  BY PowFacts
<1> HIDE DEF m, b
<1>4. m \div 1 = m /\ Cap \in Nat
  BY <1>1, CapFacts
<1>5. Mul(d, e) = IF m >= Cap THEN Fail("Overflow") ELSE Ok(NewDecimal(m, n, b))
  BY <1>2, <1>3, <1>4, MulIsTruncated DEF MulTruncated, m, b
<1>6. ~(m >= Cap)
  BY <1>5 DEF Fail
<1> QED
  BY <1>1, <1>4, <1>5, <1>6 DEF Ok, m, b

(* The chain's quotient is x/w cut off at DefaultPrec, also where it is    *)
(* zero.                                                                   *)
LEMMA ChainQuotient ==
  ASSUME NEW d \in Decimals, NEW e \in Decimals, NEW f \in Decimals, f.coef # 0,
         d.prec + e.prec <= DefaultPrec, Mul(d, e).err = "nil",
         NEW res, res = Div(Mul(d, e).val, f), res.err = "nil",
         res.val.prec = DefaultPrec \/ res.val = Zero
  PROVE  /\ ChainNum(d, e, f) \div ChainDen(d, e, f) \in Nat
         /\ ChainNum(d, e, f) \div ChainDen(d, e, f) < Cap
         /\ res.val = NewDecimal(ChainNum(d, e, f) \div ChainDen(d, e, f),
                                 (d.neg # e.neg) # f.neg, DefaultPrec)
<1> DEFINE b == d.prec + e.prec
           m == d.coef * e.coef
           n == d.neg # e.neg
           nn == n # f.neg
           g == f.prec
           prod == Mul(d, e).val
           x == ChainNum(d, e, f)
           w == ChainDen(d, e, f)
           Q(p) == (m * Pow10[p + g]) \div w
<1>1. /\ b \in 0..DefaultPrec /\ m \in Nat /\ x \in Nat /\ w \in Nat \ {0} /\ b \in 0..MaxPrec
      /\ DefaultPrec \in 1..MaxPrec /\ MaxPrec \in Nat /\ g \in 0..MaxPrec
  BY ChainBounds
<1>2. m < Cap /\ prod = NewDecimal(m, n, b)
  BY ChainProduct
<1>3. n \in BOOLEAN /\ nn \in BOOLEAN
  <2>1. d.neg \in BOOLEAN /\ e.neg \in BOOLEAN /\ f.neg \in BOOLEAN
    BY DecimalFacts
  <2> QED BY <2>1
<1>4. /\ prod \in Decimals /\ prod.coef = m
      /\ m = 0 => prod = Zero
      /\ m # 0 => prod.neg = n /\ prod.prec = b
  <2> HIDE DEF m, n, b, prod
  <2> QED BY <1>1, <1>2, <1>3, MakeDecimal
<1>5. x \div w = Q(DefaultPrec)
  BY DEF ChainNum
<1>6. Cap \in Nat /\ Cap >= 16
  BY CapFacts
<1>7. CASE m = 0
  <2>1. res = Ok(Zero)
    BY <1>4, <1>7 DEF Div
  <2>2. x = 0
    <3>1. Pow10[DefaultPrec + g] \in Nat
      <4>1. DefaultPrec + g \in 0..2*MaxPrec
        BY <1>1
      <4> QED BY <4>1, PowFacts
    <3> QED BY <1>7, <3>1 DEF ChainNum
  <2>3. x \div w = 0
    <3> HIDE DEF x, w
    <3> QED BY <1>1, <2>2
  <2>4. NewDecimal(0, nn, DefaultPrec) = Zero
    BY DEF NewDecimal
  <2>5. res.val = Zero
    BY <2>1 DEF Ok
  <2> QED BY <1>6, <2>3, <2>4, <2>5
<1>8. CASE m # 0
  <2>1. GreatestQuotient(res, prod, f)
    BY <1>4, <1>8, DivIsGreatest
  <2>2. \A p : (prod.coef * Pow10[p + f.prec]) \div (f.coef * Pow10[prod.prec]) = Q(p)
    BY <1>4, <1>8 DEF ChainDen
  <2> DEFINE fitting == {p \in 0..DefaultPrec : Q(p) < Cap}
  <2>3. IF fitting = {} THEN res.err = "Overflow"
        ELSE \E p \in fitting :
               /\ \A q \in fitting : q <= p
               /\ res.err = "nil"
               /\ res.val = NewDecimal(Q(p), nn, p)
    BY <1>4, <1>8, <2>1 DEF GreatestQuotient, ChainDen
  <2>4. PICK p \in 0..DefaultPrec : /\ Q(p) < Cap
                                    /\ \A q \in 0..DefaultPrec : Q(q) < Cap => q <= p
                                    /\ res.val = NewDecimal(Q(p), nn, p)
    BY <2>3
  <2>5. \A q \in 0..DefaultPrec : q + g \in 0..2*MaxPrec /\ Pow10[q + g] \in Nat
                                  /\ m * Pow10[q + g] \in Nat /\ Q(q) \in Nat
    <3> TAKE q \in 0..DefaultPrec
    <3>1. q + g \in 0..2*MaxPrec
      BY <1>1
    <3>2. Pow10[q + g] \in Nat
      BY <3>1, PowFacts
    <3> HIDE DEF m, w, g
    <3>3. m * Pow10[q + g] \in Nat
      BY <1>1, <3>2
    <3> QED BY <1>1, <3>1, <3>2, <3>3, DivBelow
  <2>6. ASSUME p # DefaultPrec PROVE FALSE
    <3>1. p + 1 \in 0..DefaultPrec /\ ~(p + 1 <= p) /\ p \in 0..MaxPrec
      BY <1>1, <2>6
    <3>2. ~(Q(p + 1) < Cap)
      BY <2>4, <3>1
    <3>3. Q(p) = 0
      <4> HIDE DEF Q
      <4>1. Q(p) \in Nat
        BY <2>5
      <4>2. /\ NewDecimal(Q(p), nn, p).coef = Q(p)
            /\ Q(p) # 0 => NewDecimal(Q(p), nn, p).prec = p
        BY <1>3, <2>4, <3>1, <4>1, MakeDecimal
      <4>3. Zero.coef = 0
        BY DEF Zero
      <4> QED BY <2>4, <2>6, <4>2, <4>3
    <3> DEFINE y == m * Pow10[p + g]
    <3>4. y \in Nat /\ y < w
      <4>1. y \in Nat
        BY <2>5
      <4>2. y \div w < 1
        BY <3>3
      <4> HIDE DEF y, w
      <4>3. (y \div w < 1) <=> (y < w * 1)
        BY <1>1, <4>1, DivBelow
      <4> QED BY <1>1, <4>1, <4>2, <4>3
    <3>5. m * Pow10[(p + 1) + g] = 10 * y
      <4>1. p + g \in 0..(2*MaxPrec - 1) /\ (p + 1) + g = (p + g) + 1
        BY <1>1, <2>6
      <4>2. Pow10[p + g] \in Nat /\ Pow10[(p + 1) + g] = Pow10[p + g] * 10
        BY <4>1, PowStep
      <4> HIDE DEF m, g
      <4> QED BY <1>1, <4>2
    <3>6. Q(p + 1) = (10 * y) \div w
      BY <3>5
    <3> HIDE DEF y, w, Q
    <3>7. 10 * y \in Nat /\ 10 * y < w * 10
      BY <1>1, <3>4
    <3>8. (10 * y) \div w < 10
      BY <1>1, <3>7, DivBelow
    <3>9. Q(p + 1) \in Nat
      BY <2>5, <3>1
    <3> QED BY <1>6, <3>2, <3>6, <3>8, <3>9
  <2> QED BY <1>5, <2>4, <2>5, <2>6
<1> QED BY <1>7, <1>8

(* What it is to have rounded once.                                        *)
LEMMA OnceDecides ==
  ASSUME NEW num \in Nat, NEW den \in Positive, NEW neg \in BOOLEAN, NEW mode \in Modes,
         NEW places, NEW val, RoundsOnce(num, den, neg, places, mode, val, "nil")
  PROVE  val = NewDecimal(RoundedCoef(num, den, neg, mode), neg, places)
BY RoundsOnceMeans DEF Positive

(* Nothing rounds to nothing.                                              *)
LEMMA RoundingOfZero ==
  ASSUME NEW den \in Positive, NEW neg \in BOOLEAN, NEW mode \in Modes, NEW places
  PROVE  NewDecimal(RoundedCoef(0, den, neg, mode), neg, places) = Zero
<1>1. 0 % den = 0 /\ 0 \div den = 0 /\ den \in Nat \ {0}
  BY DEF Positive
<1>2. RoundedCoef(0, den, neg, mode) = 0
  BY <1>1, RoundsOnceMeans
<1> QED BY <1>2 DEF NewDecimal

(* The chain and the single rounding of once/w, unit being the digits that  *)
(* the second rounding drops.                                              *)
ChainSplit(x, once, unit, half) == x = once * unit /\ unit = 2 * half
(* The two coefficients are the same, or may differ.                       *)
LEMMA ChainCoefs ==
  ASSUME NEW once \in Nat, NEW w \in Positive, NEW unit \in Positive, NEW half \in Positive,
         NEW nn \in BOOLEAN, NEW mode \in Modes, NEW x \in Nat, ChainSplit(x, once, unit, half)
  PROVE  \/ RoundedCoef(x \div w, unit, nn, mode) = RoundedCoef(once, w, nn, mode)
         \/ MayDiffer(x, w, unit, half, mode)
<1>1. RoundedCoef(once * unit, w * unit, nn, mode) = RoundedCoef(once, w, nn, mode)
  <2> HIDE DEF ChainSplit
  <2> QED BY RoundingScales DEF Positive
<1>2. unit = 2 * half /\ x = once * unit
  BY DEF ChainSplit
<1>3. \/ RoundedCoef(x \div w, unit, nn, mode) = RoundedCoef(x, w * unit, nn, mode)
      \/ MayDiffer(x, w, unit, half, mode)
  BY <1>2, CutThenRounded, ZenonT(30)
<1>4. RoundedCoef(x, w * unit, nn, mode) = RoundedCoef(once, w, nn, mode)
  BY <1>1, <1>2, Zenon
<1> QED BY <1>3, <1>4, Zenon

(* The relation holds of any three Decimals.                               *)
LEMMA ChainAgrees ==
  ASSUME NEW d \in Decimals, NEW e \in Decimals, NEW f \in Decimals, NEW places \in Nat,
         NEW mode, places < DefaultPrec, d.prec + e.prec <= DefaultPrec,
         NEW val, MulDivRound(d, e, f, places, mode).err = "nil",
         val = MulDivRound(d, e, f, places, mode).val, Mul(d, e).err = "nil",
         NEW res, res = Div(Mul(d, e).val, f), res.err = "nil",
         res.val.prec = DefaultPrec \/ res.val = Zero,
         NEW unit, unit = Pow10[DefaultPrec - places],
         NEW lost, lost = ChainNum(d, e, f) % ChainDen(d, e, f)
  PROVE  \/ RoundBy(mode, res.val, places) = val
         \/ /\ mode \notin {"ToNearestAway", "TowardZero"} /\ lost # 0
            /\ res.val.coef % unit = IF mode = "ToNearestEven" THEN unit \div 2 ELSE 0
<1> DEFINE b == d.prec + e.prec
           m == d.coef * e.coef
           nn == (d.neg # e.neg) # f.neg
           g == f.prec
           x == ChainNum(d, e, f)
           w == ChainDen(d, e, f)
           c == x \div w
           once == m * Pow10[places + g]
           q == res.val
           rounded == RoundBy(mode, q, places)
<1>1. f.coef # 0 /\ mode \in Modes /\ places \in 0..MaxPrec
      /\ RoundsOnce(once, w, nn, places, mode, val, "nil")
  <2>1. MeetsRequest(MulDivRound(d, e, f, places, mode), RoundArgsError(places, mode, f.coef),
                     once, w, nn, places, mode)
    BY MulDivRoundOnce DEF ChainDen
  <2>2. RoundArgsError(places, mode, f.coef) = "nil"
    BY <2>1 DEF MeetsRequest
  <2> QED BY <2>1, <2>2, RoundArgs DEF MeetsRequest
<1>2. /\ m \in Nat /\ x \in Nat /\ w \in Nat \ {0} /\ DefaultPrec \in 1..MaxPrec
      /\ MaxPrec \in Nat /\ g \in 0..MaxPrec
  BY <1>1, ChainBounds
<1>3. c \in Nat /\ c < Cap /\ q = NewDecimal(c, nn, DefaultPrec)
  BY <1>1, ChainQuotient
<1>4. nn \in BOOLEAN
  <2>1. d.neg \in BOOLEAN /\ e.neg \in BOOLEAN /\ f.neg \in BOOLEAN
    BY DecimalFacts
  <2> QED BY <2>1
<1>5. /\ DefaultPrec - places \in 1..2*MaxPrec /\ DefaultPrec - places \in 0..2*MaxPrec
      /\ places + g \in 0..2*MaxPrec /\ DefaultPrec \in 0..MaxPrec
      /\ (places + g) + (DefaultPrec - places) = DefaultPrec + g
      /\ (places + g) + (DefaultPrec - places) <= 2*MaxPrec
  BY <1>2
<1>6. unit \in Nat \ {0} /\ unit = 2 * (unit \div 2) /\ unit \div 2 \in Nat \ {0}
  <2>1. unit \in Nat /\ unit >= 10 /\ unit = 2 * (unit \div 2)
    <3>1. Pow10[DefaultPrec - places] \in 1..(Cap - 1) /\ Pow10[DefaultPrec - places] >= 10
          /\ Pow10[DefaultPrec - places] = 2 * (Pow10[DefaultPrec - places] \div 2)
      BY <1>5, PowEven
    <3> QED BY <3>1, CapFacts
  <2>2. unit \div 2 \in Nat
    BY <2>1
  <2> QED BY <2>1, <2>2
<1>7. once \in Nat /\ x = once * unit
  <2>1. Pow10[places + g] \in Nat /\ Pow10[DefaultPrec + g] = Pow10[places + g] * unit
    BY <1>5, PowFacts
  <2> DEFINE t == Pow10[places + g]
  <2> HIDE DEF t, m
  <2>2. m * t \in Nat /\ m * (t * unit) = (m * t) * unit
    BY <1>2, <1>6, <2>1 DEF t
  <2> QED BY <2>1, <2>2 DEF ChainNum, t, m
<1>8. x = once * unit
  BY <1>7
<1> HIDE DEF x, w, once, nn, m, g
<1>9. /\ q \in Decimals /\ q.coef = c
      /\ c = 0 => q = Zero
      /\ c # 0 => q.neg = nn /\ q.prec = DefaultPrec
  BY <1>3, <1>4, <1>5, MakeDecimal
<1> HIDE DEF c, q
<1>10. (c = 0 => rounded = Zero) /\ (c # 0 => RoundsOnce(c, unit, nn, places, mode, rounded, "nil"))
  <2>1. RoundsReceiver(Ok(rounded), q, places, mode)
    BY <1>1, <1>9, FamilyRoundsOnce DEF RoundBy, Modes
  <2>2. Ok(rounded).val = rounded /\ Ok(rounded).err = "nil"
    BY DEF Ok
  <2> HIDE DEF rounded
  <2>3. ASSUME c = 0 PROVE rounded = Zero
    <3>1. q = Zero /\ q.prec = 0 /\ places >= q.prec
      BY <1>1, <1>9, <2>3 DEF Zero
    <3>2. Ok(rounded) = Ok(Zero)
      BY <2>1, <3>1 DEF RoundsReceiver
    <3> QED BY <3>2 DEF Ok
  <2>4. ASSUME c # 0 PROVE RoundsOnce(c, unit, nn, places, mode, rounded, "nil")
    <3>1. q.prec = DefaultPrec /\ q.neg = nn /\ ~(places >= q.prec)
      BY <1>2, <1>9, <2>4
    <3> QED BY <1>9, <2>1, <2>2, <3>1 DEF RoundsReceiver, RoundedReply
  <2> QED BY <2>3, <2>4
<1> DEFINE half == unit \div 2
<1>11. /\ ChainSplit(x, once, unit, half) /\ half \in Positive /\ unit \in Positive
       /\ w \in Positive
  BY <1>2, <1>6, <1>8 DEF ChainSplit, Positive
<1> HIDE DEF half, rounded
<1> DEFINE k == RoundedCoef(once, w, nn, mode)
           l == RoundedCoef(c, unit, nn, mode)
<1>12. \/ rounded = val
       \/ /\ mode \notin {"ToNearestAway", "TowardZero"} /\ x % w # 0
          /\ c % unit = IF mode = "ToNearestEven" THEN half ELSE 0
  <2>1. val = NewDecimal(k, nn, places)
    BY <1>1, <1>4, <1>7, <1>11, OnceDecides, ZenonT(30)
  <2>2. rounded = NewDecimal(l, nn, places)
    <3>1. CASE c = 0
      <4>1. NewDecimal(RoundedCoef(0, unit, nn, mode), nn, places) = Zero
        BY <1>1, <1>4, <1>11, RoundingOfZero, ZenonT(30)
      <4> QED BY <1>10, <3>1, <4>1
    <3>2. CASE c # 0
      <4>1. RoundsOnce(c, unit, nn, places, mode, rounded, "nil")
        BY <1>10, <3>2
      <4> QED BY <1>1, <1>3, <1>4, <1>11, <4>1, OnceDecides, ZenonT(30)
    <3> QED BY <3>1, <3>2
  <2>3. \/ l = k
        \/ /\ mode \notin {"ToNearestAway", "TowardZero"} /\ x % w # 0
           /\ c % unit = IF mode = "ToNearestEven" THEN half ELSE 0
    <3>1. \/ RoundedCoef(x \div w, unit, nn, mode) = RoundedCoef(once, w, nn, mode)
          \/ MayDiffer(x, w, unit, half, mode)
      BY <1>1, <1>2, <1>4, <1>7, <1>11, ChainCoefs, ZenonT(30)
    <3> QED BY <3>1 DEF c, MayDiffer
  <2> HIDE DEF k, l
  <2> QED BY <2>1, <2>2, <2>3
<1>13. lost = x % w
  BY DEF x, w
<1> QED
  BY <1>9, <1>12, <1>13 DEF q, half, rounded

(* At fewer places than DefaultPrec, MulDivRound and the legacy chain      *)
(* d.Mul(e).Div(f) rounded always agreed wherever the chain kept its       *)
(* digits, up to the ties and multiples that a lossy quotient lands on.    *)
THEOREM LegacyChainAlwaysAgrees == Spec => []LegacyChainAgrees
<1>1. IInv => LegacyChainAgrees
  <2> SUFFICES ASSUME IInv, LegacyChainApplies, out.places < DefaultPrec
               PROVE  LegacyChainAgrees
    BY DEF LegacyChainAgrees
  <2>1. out.d \in Decimals /\ out.e \in Decimals /\ out.f \in Decimals /\ out.places \in Nat
    BY DEF IInv, Outcomes
  <2>2. /\ out.op = "MulDivRound" /\ out.err = "nil"
        /\ out.d.prec + out.e.prec <= DefaultPrec /\ Mul(out.d, out.e).err = "nil"
        /\ LegacyQuotient.err = "nil"
        /\ LegacyQuotient.val.prec = DefaultPrec \/ LegacyQuotient.val = Zero
    BY DEF LegacyChainApplies
  <2>3. /\ out.val = MulDivRound(out.d, out.e, out.f, out.places, out.mode).val
        /\ MulDivRound(out.d, out.e, out.f, out.places, out.mode).err = "nil"
    BY <2>2 DEF IInv, AnsweredRounding, Result
  <2> DEFINE q == LegacyQuotient.val
             unit == Pow10[DefaultPrec - out.places]
             lost == ChainNum(out.d, out.e, out.f) % ChainDen(out.d, out.e, out.f)
  <2>4. \/ RoundBy(out.mode, q, out.places) = out.val
        \/ /\ out.mode \notin {"ToNearestAway", "TowardZero"} /\ lost # 0
           /\ q.coef % unit = IF out.mode = "ToNearestEven" THEN unit \div 2 ELSE 0
    BY <2>1, <2>2, <2>3, ChainAgrees DEF LegacyQuotient
  <2> QED
    BY <2>4 DEF LegacyChainAgrees, ChainNum, ChainDen
<1> QED
  BY <1>1, AnswersAreTheOperations, PTL
=============================================================================
