----------------------------- MODULE KernelSpec -----------------------------
(***************************************************************************)
(* What the callers of the multi-word kernels rely on: a call is answered  *)
(* once, with the integer result.  The rest of the project (Words, Arith,  *)
(* Exact, MulDiv, Aggregate) computes with these integers; Kernels is      *)
(* shown to implement this module.                                         *)
(***************************************************************************)
EXTENDS Limbs

VARIABLES call, ans
vars == <<call, ans>>

Answer(val, rest) == [val |-> val, rest |-> rest, err |-> "nil"]
Refuse(err) == [val |-> 0, rest |-> 0, err |-> err]
Pending == Refuse("pending")

(* A quotient of at most 128 bits, or the refusal.                         *)
Divided(u, d) == IF u \div Cap >= d THEN Refuse("Overflow") ELSE Answer(u \div d, u % d)

Promise(c) ==
  LET u == Val256(c.u)
      lo == Val128(Lo128(c.u))
      v == Val128(c.v)
  IN  CASE c.op = "add128" -> Answer(Add128(lo, v).val, Add128(lo, v).carry)
        [] c.op = "sub128" -> Answer(Sub128(lo, v).val, Sub128(lo, v).borrow)
        [] c.op = "neg128" -> Answer(Neg128(lo), 0)
        [] c.op = "inc128" -> Answer(Inc128(lo), 0)
        [] c.op = "cmp128i" -> Answer(Cmp128(lo, v), 0)
        [] c.op = "mul128by64" ->
             Answer(Mul128by64(lo, c.v.lo).val, Mul128by64(lo, c.v.lo).overflow)
        [] c.op = "mulToU256" -> Answer(lo * v, 0)
        [] c.op = "add256" -> Answer(Add256(u, Val256(c.w)), IF u + Val256(c.w) < Wide THEN 0 ELSE 1)
        [] c.op = "sub256" -> Answer((u - Val256(c.w)) % Wide, IF u < Val256(c.w) THEN 1 ELSE 0)
        [] c.op = "neg256" -> Answer((-u) % Wide, 0)
        [] c.op = "cmp256" -> Answer(Sign3(u - Val256(c.w)), 0)
        [] c.op = "mul256by64" ->
             IF Mul256Fits(u, c.v.lo) THEN Answer(u * c.v.lo, 0) ELSE Refuse("Overflow")
        [] c.op = "quoRem64" -> Answer(lo \div c.v.lo, lo % c.v.lo)
        [] c.op \in {"div256by128", "divRoundWide"} -> Divided(u, v)
        [] c.op = "div256by64" ->
             IF c.v.lo = 0 THEN Refuse("DivideByZero") ELSE Divided(u, c.v.lo)
        [] c.op = "divmod128Pow10" -> Answer(lo \div Pow10[c.k], lo % Pow10[c.k])
        [] c.op = "divmodU256Pow10Wide" -> Answer(u \div Pow10[c.k], u % Pow10[c.k])
        [] c.op = "quoRemPow10Fit" -> Divided(u, Pow10[c.k])
        [] c.op = "divU256Pow10" ->        \* truncates: the remainder is dropped
             [Divided(u, Pow10[c.k]) EXCEPT !.rest = 0]

(* What the code's comments demand of a caller ("not checked"), and that   *)
(* mul256by64 is given a power of ten, never 0, and divmod128Pow10 a       *)
(* dividend of two words.                                                  *)
Precondition(c) ==
  CASE c.op = "div256by128" -> c.v.hi # 0 /\ LessLimbs(Hi128(c.u), c.v)
    [] c.op = "divRoundWide" -> c.v # U(0, 0)
    [] c.op \in {"quoRem64", "mul256by64"} -> c.v.lo # 0
    [] c.op = "divmod128Pow10" -> c.k \in 0..MaxPrec /\ Hi128(c.u) = U(0, 0)
    [] c.op \in {"divmodU256Pow10Wide", "quoRemPow10Fit"} -> c.k \in 1..MaxPrec
    [] c.op = "divU256Pow10" -> c.k \in 0..2*MaxPrec
    [] OTHER -> TRUE

Init == Precondition(call) /\ ans = Pending
Return == /\ ans = Pending /\ ans' = Promise(call)
          /\ UNCHANGED call
Spec == Init /\ [][Return]_vars
=============================================================================
