------------------------------ MODULE Kernels ------------------------------
(***************************************************************************)
(* The divisions of u128.go, u256.go, div10.go and their dispatchers in    *)
(* exact.go, one machine-word digit per step, and the straight-line        *)
(* kernels.  A division normalizes the divisor, shifts the dividend with   *)
(* it, emits digits from the top, keeping a running remainder, and shifts  *)
(* the last remainder back.                                                *)
(***************************************************************************)
EXTENDS Limbs, Sequences

CONSTANT Calls           \* the calls made, all within the documented preconditions

VARIABLES
  call,         \* the call: operation, operands u, w (256 bits), v (128), k
  stage,        \* the kernel in force, "digits" in its loop, "done"
  u, k,         \* the dividend and the exponent still to be divided by
  by,           \* the divisor: normalized, its reciprocal and its shift
  limbs,        \* dividend limbs not yet taken down, from the top
  rem, quo,     \* the running remainder, and the digits so far as a number
  ans           \* the answer
vars == <<call, stage, u, k, by, limbs, rem, quo, ans>>

(* What the callers rely on, and what they keep to.                        *)
Callers == INSTANCE KernelSpec

StraightOps == {"add128", "sub128", "neg128", "inc128", "cmp128i", "mul128by64",
                "mulToU256", "add256", "sub256", "neg256", "cmp256", "mul256by64"}
Pow10Ops == {"divmod128Pow10", "divmodU256Pow10Wide", "quoRemPow10Fit", "divU256Pow10"}
Ops == StraightOps \cup {"quoRem64", "divRoundWide", "div256by64", "div256by128"} \cup Pow10Ops
ASSUME CallsAssumption ==
  \A c \in Calls : /\ c.op \in Ops
                   /\ c.u \in Limbs256 /\ c.w \in Limbs256 /\ c.v \in Limbs128
                   /\ Callers!Precondition(c)

Answer(val, rest) == [val |-> val, rest |-> rest, err |-> "nil"]
Refuse(err) == [val |-> 0, rest |-> 0, err |-> err]
Pending == Refuse("pending")

One == U(0, 1)
ByLimb(dn, recip, shift) == [den |-> U(0, dn), recip |-> recip, shift |-> shift]
ByPair(v, shift) == [den |-> v, recip |-> 0, shift |-> shift]

(* u << s as limbs from the top, the first the bits shifted out.           *)
ShiftedOut(x, s) == Shr(x, WordBits - s)
Normalized4(q, s) == <<Funnel(q.d3, q.d2, s), Funnel(q.d2, q.d1, s),
                       Funnel(q.d1, q.d0, s), Shl(q.d0, s)>>
Normalized3(q, s) == <<Funnel(q.d2, q.d1, s), Funnel(q.d1, q.d0, s), Shl(q.d0, s)>>

----------------------------------------------------------------------------
Init ==
  /\ call \in Calls /\ stage = call.op
  /\ u = call.u /\ k = call.k
  /\ by = ByPair(One, 0) /\ limbs = <<>> /\ rem = U(0, 0) /\ quo = 0
  /\ ans = Pending

Return(answer) ==
  /\ stage' = "done" /\ ans' = answer
  /\ UNCHANGED <<call, u, k, by, limbs, rem, quo>>
HandOver(kernel) ==
  /\ stage' = kernel
  /\ UNCHANGED <<call, u, k, by, limbs, rem, quo, ans>>
Begin(divisor, top, rest) ==
  /\ stage' = "digits"
  /\ by' = divisor /\ rem' = top /\ limbs' = rest /\ quo' = 0
  /\ UNCHANGED <<call, u, k, ans>>

(* The kernels without a loop.                                             *)
StraightLine(c) ==
  LET lo == Lo128(c.u)
      prod == Mul128by64to192(lo, c.v.lo)
      wide == Mul256by64(c.u, c.v.lo)
  IN  CASE c.op = "add128" -> Answer(Val128(AddLimbs(lo, c.v).val), AddLimbs(lo, c.v).carry)
        [] c.op = "sub128" -> Answer(Val128(SubLimbs(lo, c.v).val), SubLimbs(lo, c.v).borrow)
        [] c.op = "neg128" -> Answer(Val128(NegLimbs(lo)), 0)
        [] c.op = "inc128" -> Answer(Val128(IncLimbs(lo)), 0)
        [] c.op = "cmp128i" -> Answer(CmpLimbs(lo, c.v), 0)
        [] c.op = "mul128by64" -> Answer(Val128(U(prod.d1, prod.d0)), prod.d2)
        [] c.op = "mulToU256" -> Answer(Val256(MulToU256(lo, c.v)), 0)
        [] c.op = "add256" -> Answer(Val256(AddQuads(c.u, c.w).val), AddQuads(c.u, c.w).carry)
        [] c.op = "sub256" -> Answer(Val256(SubQuads(c.u, c.w).val), SubQuads(c.u, c.w).borrow)
        [] c.op = "neg256" -> Answer(Val256(NegQuad(c.u)), 0)
        [] c.op = "cmp256" -> Answer(CmpQuads(c.u, c.w), 0)
        [] c.op = "mul256by64" ->
             IF wide.fits THEN Answer(Val256(wide.val), 0) ELSE Refuse("Overflow")
Straight ==
  /\ stage \in StraightOps
  /\ Return(StraightLine(call))

(* quoRem64: two hardware divisions.                                       *)
QuoRem64 ==
  /\ stage = "quoRem64"
  /\ LET v == call.v.lo
         low == Div64(u.d1 % v, u.d0, v)
     IN  Return(IF low.trap THEN Refuse("trap")
                ELSE Answer(Val128(U(u.d1 \div v, low.quo)), low.rem))

(* divRoundWide: a one-limb divisor takes the narrowest divide there is.   *)
NarrowOnly ==
  /\ stage = "divRoundWide" /\ call.v.hi = 0
  /\ u.d3 = 0 /\ u.d2 = 0 /\ u.d1 = 0
  /\ Return(Answer(u.d0 \div call.v.lo, u.d0 % call.v.lo))
NarrowQuotient ==
  /\ stage = "divRoundWide" /\ call.v.hi = 0
  /\ u.d3 = 0 /\ u.d2 = 0 /\ u.d1 # 0 /\ u.d1 < call.v.lo
  /\ LET low == Div64(u.d1, u.d0, call.v.lo)
     IN  Return(IF low.trap THEN Refuse("trap") ELSE Answer(low.quo, low.rem))
WideByLimb ==
  /\ stage = "divRoundWide" /\ call.v.hi = 0
  /\ u.d3 # 0 \/ u.d2 # 0 \/ u.d1 >= call.v.lo
  /\ HandOver("div256by64")
WideByPair ==
  /\ stage = "divRoundWide" /\ call.v.hi # 0
  /\ IF LessLimbs(Hi128(u), call.v) THEN HandOver("div256by128")
                                    ELSE Return(Refuse("Overflow"))

(* div256by64: the reciprocal of an arbitrary limb, from one division.     *)
Div256by64Refuse ==
  /\ stage = "div256by64"
  /\ \/ call.v.lo = 0 /\ Return(Refuse("DivideByZero"))
     \/ call.v.lo # 0 /\ (u.d3 # 0 \/ u.d2 >= call.v.lo) /\ Return(Refuse("Overflow"))
Div256by64 ==
  /\ stage = "div256by64"
  /\ call.v.lo # 0 /\ u.d3 = 0 /\ u.d2 < call.v.lo
  /\ LET s == LeadingZeros(call.v.lo)
         dn == Shl(call.v.lo, s)
         recip == Div64(Base - 1 - dn, Base - 1, dn)
         n == Normalized3(u, s)
     IN  IF recip.trap THEN Return(Refuse("trap"))
         ELSE Begin(ByLimb(dn, recip.quo, s), U(0, n[1]), Tail(n))

(* div256by128: the high digit is skipped when the dividend does not reach *)
(* the divisor shifted by a limb.                                          *)
(* Fault: the skip looks at one limb only.                                 *)
Div256by128Skip ==
  /\ stage = "div256by128"
  /\ LET s == LeadingZeros(call.v.hi)
         v == Lsh(call.v, s)
         a == Normalized4(u, s)
     IN  IF a[1] # 0 \/ a[2] > v.hi
         THEN Begin(ByPair(v, s), U(a[1], a[2]), <<a[3], a[4]>>)
         ELSE Begin(ByPair(v, s), U(a[2], a[3]), <<a[4]>>)

Div256by128 ==
  /\ stage = "div256by128"
  /\ LET s == LeadingZeros(call.v.hi)
         v == Lsh(call.v, s)
         a == Normalized4(u, s)
     IN  IF a[1] # 0 \/ ~LessLimbs(U(a[2], a[3]), v)
         THEN Begin(ByPair(v, s), U(a[1], a[2]), <<a[3], a[4]>>)
         ELSE Begin(ByPair(v, s), U(a[2], a[3]), <<a[4]>>)

(* The powers of ten: 10^0, a one-limb dividend, then the tables.          *)
DivideByOne ==
  /\ stage \in {"divmod128Pow10", "divU256Pow10"} /\ k = 0
  /\ Return(IF stage = "divU256Pow10" /\ (u.d3 # 0 \/ u.d2 # 0) THEN Refuse("Overflow")
            ELSE Answer(Val128(Lo128(u)), 0))
OneLimbPow10 ==
  /\ \/ stage = "divmod128Pow10" /\ k # 0 /\ u.d1 = 0
     \/ stage = "quoRemPow10Fit" /\ u.d3 = 0 /\ u.d2 = 0 /\ u.d1 = 0
  /\ LET qr == Divmod64Pow10(u.d0, k) IN Return(Answer(qr.quo, qr.rem))
ToSlow ==
  /\ \/ stage = "divmod128Pow10" /\ k # 0 /\ u.d1 # 0
     \/ stage = "quoRemPow10Fit" /\ u.d3 = 0 /\ u.d2 = 0 /\ u.d1 # 0
  /\ HandOver("divmod128Pow10Slow")
Divmod128Pow10Slow ==
  /\ stage = "divmod128Pow10Slow"
  /\ LET e == Pow10Tab[k]
     IN  Begin(ByLimb(e.dn, e.v, e.s), U(0, ShiftedOut(u.d1, e.s)),
               <<Funnel(u.d1, u.d0, e.s), Shl(u.d0, e.s)>>)
DivmodU256Pow10Wide ==                   \* also the first pass of a long divisor
  /\ \/ stage = "divmodU256Pow10Wide"
     \/ stage = "divU256Pow10" /\ k > MaxPrec
  /\ LET e == Pow10Tab[IF k > MaxPrec THEN MaxPrec ELSE k]
     IN  Begin(ByLimb(e.dn, e.v, e.s), U(0, ShiftedOut(u.d3, e.s)), Normalized4(u, e.s))
FitsPow10 ==
  /\ \/ stage = "divU256Pow10" /\ k \in 1..MaxPrec
     \/ stage = "quoRemPow10Fit" /\ ~(u.d3 = 0 /\ u.d2 = 0)
  /\ LET e == Pow10Tab[k]
         n == Normalized3(u, e.s)
     IN  IF u.d3 # 0 \/ u.d2 >= Pow10[k] THEN Return(Refuse("Overflow"))
         ELSE Begin(ByLimb(e.dn, e.v, e.s), U(0, n[1]), Tail(n))

----------------------------------------------------------------------------
(* One digit.                                                              *)
Emit(d) ==
  /\ quo' = quo * Base + d.quo /\ limbs' = Tail(limbs)
  /\ UNCHANGED <<call, stage, u, k, by, ans>>
Digit ==
  /\ stage = "digits" /\ limbs # <<>>
  /\ IF by.den.hi # 0
     THEN LET d == Div3by2(rem.hi, rem.lo, Head(limbs), by.den)
          IN  IF d.trap THEN Return(Refuse("trap")) ELSE Emit(d) /\ rem' = d.rem
     ELSE LET d == Div2by1(rem.lo, Head(limbs), by.den.lo, by.recip)
          IN  Emit(d) /\ rem' = U(0, d.rem)

(* The remainder is shifted back.  The first pass of divU256Pow10 keeps    *)
(* the quotient only, as the dividend of the second.                       *)
Quad(n) == LET hi == n \div Cap
               lo == n % Cap
           IN  Q(hi \div Base, hi % Base, lo \div Base, lo % Base)
SecondPass ==
  /\ stage = "digits" /\ limbs = <<>>
  /\ call.op = "divU256Pow10" /\ k > MaxPrec
  /\ stage' = "divU256Pow10" /\ u' = Quad(quo) /\ k' = k - MaxPrec
  /\ UNCHANGED <<call, by, limbs, rem, quo, ans>>
Finish ==
  /\ stage = "digits" /\ limbs = <<>>
  /\ ~(call.op = "divU256Pow10" /\ k > MaxPrec)
  /\ Return(Answer(quo, IF call.op = "divU256Pow10" THEN 0 ELSE Val128(Rsh(rem, by.shift))))

Returned == stage = "done" /\ UNCHANGED vars    \* no other stage is a dead end

Next ==
  \/ Straight \/ QuoRem64
  \/ NarrowOnly \/ NarrowQuotient \/ WideByLimb \/ WideByPair
  \/ Div256by64Refuse \/ Div256by64 \/ Div256by128
  \/ DivideByOne \/ OneLimbPow10 \/ ToSlow \/ Divmod128Pow10Slow
  \/ DivmodU256Pow10Wide \/ FitsPow10
  \/ Digit \/ SecondPass \/ Finish \/ Returned
Spec == Init /\ [][Next]_vars

----------------------------------------------------------------------------
(* Between two digits the quotient so far times the divisor plus the       *)
(* running remainder is the part of the shifted dividend taken down, and   *)
(* the remainder is below the divisor: every estimate of div3by2 and       *)
(* div2by1 was corrected exactly, and no later digit can exceed a word.    *)
DigitsExact ==
  stage = "digits" =>
    LET den == Val128(by.den)
        scale == 2 ^ by.shift
        ahead == Len(limbs)
    IN  /\ Val128(rem) < den
        /\ IF ahead > 0
           THEN quo * den + Val128(rem) = Val256(u) \div 2 ^ (WordBits * ahead - by.shift)
           ELSE /\ Val128(rem) % scale = 0
                /\ quo * (den \div scale) + Val128(rem) \div scale = Val256(u)

(* Every kernel returns what its callers take it to be, once; a hardware   *)
(* division asked for a quotient above one word, the one condition under   *)
(* which bits.Div64 panics, would be an answer no caller expects.          *)
KernelsImplementIntegers == Callers!Spec
=============================================================================
