------------------------------- MODULE Limbs -------------------------------
(***************************************************************************)
(* How u128.go, u256.go and div10.go compute what Words states: numbers of *)
(* two and four machine words, carried, borrowed and shifted word by word  *)
(* with the wrap-around of the hardware.  Every bits.* call is a machine   *)
(* instruction and is modelled by what it returns; bits.Div64 traps when   *)
(* its quotient does not fit a word.                                       *)
(***************************************************************************)
EXTENDS Words

U(hi, lo) == [hi |-> hi, lo |-> lo]
Q(d3, d2, d1, d0) == [d3 |-> d3, d2 |-> d2, d1 |-> d1, d0 |-> d0]
Limbs128 == [hi : U64, lo : U64]
Limbs256 == [d3 : U64, d2 : U64, d1 : U64, d0 : U64]
Val128(u) == u.hi * Base + u.lo
Lo128(q) == U(q.d1, q.d0)
Hi128(q) == U(q.d3, q.d2)
Val256(q) == Val128(Hi128(q)) * Cap + Val128(Lo128(q))

(* The machine instructions.                                               *)
Add64(x, y, c) == [sum |-> (x + y + c) % Base, carry |-> (x + y + c) \div Base]
Sub64(x, y, b) == [diff |-> (x - y - b) % Base, borrow |-> IF x < y + b THEN 1 ELSE 0]
Mul64(x, y) == [hi |-> (x * y) \div Base, lo |-> (x * y) % Base]
Div64(hi, lo, y) ==
  IF hi >= y THEN [quo |-> 0, rem |-> 0, trap |-> TRUE]
  ELSE [quo |-> (hi * Base + lo) \div y, rem |-> (hi * Base + lo) % y, trap |-> FALSE]
Shl(x, n) == (x * 2^n) % Base
Shr(x, n) == x \div 2^n
FunnelLapped(hi, lo, n) == Shl(hi, n) + Shr(lo, WordBits - n - 1)      \* fault
Funnel(hi, lo, n) == Shl(hi, n) + Shr(lo, WordBits - n)   \* hi<<n | lo>>(64-n)
LeadingZeros(x) == CHOOSE n \in 0..(WordBits - 1) : x * 2^n \in (Base \div 2)..(Base - 1)

----------------------------------------------------------------------------
(* Two limbs.                                                              *)
AddLimbs(u, v) ==
  LET lo == Add64(u.lo, v.lo, 0)
      hi == Add64(u.hi, v.hi, lo.carry)
  IN  [val |-> U(hi.sum, lo.sum), carry |-> hi.carry]
SubLimbs(u, v) ==
  LET lo == Sub64(u.lo, v.lo, 0)
      hi == Sub64(u.hi, v.hi, lo.borrow)
  IN  [val |-> U(hi.diff, lo.diff), borrow |-> hi.borrow]
NegLimbs(u) == SubLimbs(U(0, 0), u).val
IncLimbs(u) == AddLimbs(u, U(0, 1)).val
LessLimbs(u, v) == SubLimbs(u, v).borrow # 0
CmpLimbs(u, v) == SubLimbs(v, u).borrow - SubLimbs(u, v).borrow
Lsh(u, n) == U(Funnel(u.hi, u.lo, n), Shl(u.lo, n))
Rsh(u, n) == U(Shr(u.hi, n), Shr(u.lo, n) + Shl(u.hi, WordBits - n))

Mul128by64to192(u, v) ==
  LET low == Mul64(u.lo, v)
      high == Mul64(u.hi, v)
      mid == Add64(low.hi, high.lo, 0)
  IN  [d2 |-> (high.hi + mid.carry) % Base, d1 |-> mid.sum, d0 |-> low.lo]

(* Four limbs.                                                             *)
AddQuads(u, v) ==
  LET lo == AddLimbs(Lo128(u), Lo128(v))
      d2 == Add64(u.d2, v.d2, lo.carry)
      d3 == Add64(u.d3, v.d3, d2.carry)
  IN  [val |-> Q(d3.sum, d2.sum, lo.val.hi, lo.val.lo), carry |-> d3.carry]
SubQuads(u, v) ==
  LET lo == SubLimbs(Lo128(u), Lo128(v))
      d2 == Sub64(u.d2, v.d2, lo.borrow)
      d3 == Sub64(u.d3, v.d3, d2.borrow)
  IN  [val |-> Q(d3.diff, d2.diff, lo.val.hi, lo.val.lo), borrow |-> d3.borrow]
NegQuad(u) == SubQuads(Q(0, 0, 0, 0), u).val
CmpQuads(u, v) ==
  CASE u.d3 # v.d3 -> Sign3(u.d3 - v.d3)
    [] u.d3 = v.d3 /\ u.d2 # v.d2 -> Sign3(u.d2 - v.d2)
    [] u.d3 = v.d3 /\ u.d2 = v.d2 /\ u.d1 # v.d1 -> Sign3(u.d1 - v.d1)
    [] u.d3 = v.d3 /\ u.d2 = v.d2 /\ u.d1 = v.d1 -> Sign3(u.d0 - v.d0)

(* mulToU256: the schoolbook product, limb by limb.                        *)
MulToU256(u, v) ==
  LET ll == Mul64(u.lo, v.lo)
      hl == Mul64(u.hi, v.lo)
      lh == Mul64(u.lo, v.hi)
      hh == Mul64(u.hi, v.hi)
      d1a == Add64(ll.hi, hl.lo, 0)
      d1b == Add64(d1a.sum, lh.lo, 0)
      d2a == Add64(hl.hi, lh.hi, 0)
      d2b == Add64(d2a.sum, d1a.carry + d1b.carry, 0)
      d2c == Add64(d2b.sum, hh.lo, 0)
  IN  IF u.hi = 0 /\ v.hi = 0 THEN Q(0, 0, ll.hi, ll.lo)
      ELSE Q((hh.hi + d2a.carry + d2b.carry + d2c.carry) % Base, d2c.sum, d1b.sum, ll.lo)

(* mul256by64 and whether the product fits.                                *)
Mul256by64(u, v) ==
  LET p0 == Mul64(u.d0, v)
      p1 == Mul64(u.d1, v)
      p2 == Mul64(u.d2, v)
      p3 == Mul64(u.d3, v)
      d1 == Add64(p1.lo, p0.hi, 0)
      d2 == Add64(p2.lo, p1.hi, d1.carry)
      d3 == Add64(p3.lo, p2.hi, d2.carry)
  IN  [val |-> Q(d3.sum, d2.sum, d1.sum, p0.lo), fits |-> (p3.hi + d3.carry) % Base = 0]

----------------------------------------------------------------------------
(* Faults: the clamped case is not told apart, or its carry is dropped.    *)
TrialUnclamped(u2, u1, v) ==
  LET quot == Div64(u2, u1, v.hi)
  IN  [digit |-> quot.quo, r |-> quot.rem, rc |-> 0, trap |-> quot.trap]
TrialCarryless(u2, u1, v) ==
  LET clamp == Add64(u1, v.hi, 0)
      quot == Div64(u2, u1, v.hi)
  IN  IF u2 = v.hi
      THEN [digit |-> Base - 1, r |-> clamp.sum, rc |-> 0, trap |-> FALSE]
      ELSE [digit |-> quot.quo, r |-> quot.rem, rc |-> 0, trap |-> quot.trap]

(* Division of three limbs by a normalized two-limb divisor, {u2,u1} < v:  *)
(* the trial digit from the top limbs is at most two too large.            *)
Trial(u2, u1, v) ==
  LET clamp == Add64(u1, v.hi, 0)
      quot == Div64(u2, u1, v.hi)
  IN  IF u2 = v.hi
      THEN [digit |-> Base - 1, r |-> clamp.sum, rc |-> clamp.carry, trap |-> FALSE]
      ELSE [digit |-> quot.quo, r |-> quot.rem, rc |-> 0, trap |-> quot.trap]

(* Fault: the digit is stepped down once at most.                          *)
Div3by2Once(u2, u1, u0, v) ==
  LET t == Trial(u2, u1, v)
      prod == Mul64(t.digit, v.lo)
      part == SubLimbs(U(t.r, u0), U(prod.hi, prod.lo))
      deficit == NegLimbs(part.val)
  IN  IF part.borrow <= t.rc THEN [quo |-> t.digit, rem |-> part.val, trap |-> t.trap]
      ELSE [quo |-> (t.digit - 1) % Base, rem |-> SubLimbs(v, deficit).val, trap |-> t.trap]

Div3by2(u2, u1, u0, v) ==
  LET t == Trial(u2, u1, v)
      prod == Mul64(t.digit, v.lo)
      part == SubLimbs(U(t.r, u0), U(prod.hi, prod.lo))
      deficit == NegLimbs(part.val)
      once == LessLimbs(v, deficit)
      left == IF once THEN SubLimbs(deficit, v).val ELSE deficit
  IN  IF part.borrow <= t.rc THEN [quo |-> t.digit, rem |-> part.val, trap |-> t.trap]
      ELSE [quo |-> (t.digit - IF once THEN 2 ELSE 1) % Base,
            rem |-> SubLimbs(v, left).val, trap |-> t.trap]

(* Division of two limbs by a normalized one through its reciprocal,       *)
(* u1 < dn: a candidate at most two low, stepped up once unseen, then back *)
(* when the wrapped remainder shows that it overshot, then up once more.   *)
(* Fault: the last, improbable, step is left out.                          *)
Div2by1Rare(u1, u0, dn, v) ==
  LET prod == Mul64(v, u1)
      low == Add64(prod.lo, u0, 0)
      qh == (prod.hi + u1 + low.carry + 1) % Base
      r == (u0 - qh * dn) % Base
  IN  IF r > low.sum THEN [quo |-> (qh - 1) % Base, rem |-> (r + dn) % Base]
                     ELSE [quo |-> qh, rem |-> r]

Div2by1(u1, u0, dn, v) ==
  LET prod == Mul64(v, u1)
      low == Add64(prod.lo, u0, 0)
      qh == (prod.hi + u1 + low.carry + 1) % Base
      r == (u0 - qh * dn) % Base
      overshot == r > low.sum
      q1 == IF overshot THEN (qh - 1) % Base ELSE qh
      r1 == IF overshot THEN (r + dn) % Base ELSE r
  IN  IF r1 >= dn THEN [quo |-> (q1 + 1) % Base, rem |-> r1 - dn]
                  ELSE [quo |-> q1, rem |-> r1]

(* The table of powers of ten, as the generator computes and verifies it.  *)
(* Nothing divides by 10^0 through it: that entry has no magic pair.       *)
Pow10Entry(k) ==
  LET s == LeadingZeros(Pow10[k])
      dn == Shl(Pow10[k], s)
      five == Pow10[k] \div 2^k           \* 5^k
      p == CHOOSE n \in 0..2*WordBits :
             five <= 2^(n + k) /\ \A i \in 0..(n - 1) : five > 2^(i + k)
  IN  [d |-> Pow10[k], s |-> s, dn |-> dn, v |-> (Cap - 1) \div dn - Base,
       p |-> IF k = 0 THEN 0 ELSE p,
       m |-> IF k = 0 THEN 0 ELSE (Base * 2^p + five - 1) \div five]

Pow10Tab == [k \in 0..MaxPrec |-> Pow10Entry(k)]

(* Fault: the magic multiplier is rounded down.                            *)
Divmod64Pow10Low(u, k) ==
  LET e == Pow10Tab[k]
      q == Shr(Mul64(Shr(u, k), e.m - 1).hi, e.p)
  IN  [quo |-> q, rem |-> (u - q * e.d) % Base]

(* One limb by 10^k, k in 1..MaxPrec: one high multiply, no correction.    *)
Divmod64Pow10(u, k) ==
  LET e == Pow10Tab[k]
      q == Shr(Mul64(Shr(u, k), e.m).hi, e.p)
  IN  [quo |-> q, rem |-> (u - q * e.d) % Base]
=============================================================================
