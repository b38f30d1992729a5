---------------------------- MODULE KernelProofs ----------------------------
(***************************************************************************)
(* The estimate-and-correct divisions and the schoolbook product of Limbs, *)
(* and the long divisions of Kernels built from them, for every word size: *)
(* what the wrapped word arithmetic returns is the exact integer result,   *)
(* and every kernel answers what KernelSpec promises.                      *)
(***************************************************************************)
EXTENDS Kernels, Limbs, ArithProofs

LEMMA BaseFacts ==
  /\ Base \in Nat /\ Base >= 4 /\ Base \in Nat \ {0}
  /\ Cap = Base * Base /\ Cap \in Nat /\ U64 = 0..(Base - 1)
  BY WordAssumption DEF Cap, U64

LEMMA WordRange ==
  ASSUME NEW x \in U64
  PROVE  x \in Int /\ 0 <= x /\ x <= Base - 1
  BY BaseFacts

LEMMA BitRange ==
  ASSUME NEW b \in 0..1
  PROVE  b \in Int
  OBVIOUS

(* The halves of a product are its words.                                  *)
LEMMA MulWords ==
  ASSUME NEW x \in U64, NEW y \in U64
  PROVE  /\ Mul64(x, y).hi \in U64 /\ Mul64(x, y).lo \in U64
         /\ Mul64(x, y).hi * Base + Mul64(x, y).lo = x * y
         /\ Mul64(x, y).hi <= Base - 2
<1> DEFINE h == (x * y) \div Base
           l == (x * y) % Base
<1>1. x \in 0..(Base - 1) /\ y \in 0..(Base - 1) /\ Base \in Nat /\ Base >= 4
  BY BaseFacts
<1>2. x * y \in Int /\ x * y >= 0 /\ x * y <= (Base - 1) * (Base - 1)
  <2>1. \A a, b, c \in Nat : a <= c /\ b <= c => a * b <= c * c
    OBVIOUS
  <2> QED BY <1>1, <2>1
<1>3. h \in Int /\ l \in 0..(Base - 1) /\ x * y = Base * h + l
  BY <1>1, <1>2, DivMod
<1>4. h >= 0 /\ h <= Base - 2
  <2> HIDE DEF h, l
  <2>1. Base * h > -Base
    BY <1>1, <1>2, <1>3
  <2>2. Base * h <= Base * Base - 2 * Base + 1
    BY <1>1, <1>2, <1>3
  <2>3. h <= -1 => Base * h <= -Base
    BY <1>1, <1>3
  <2>4. h >= Base - 1 => Base * h >= Base * (Base - 1)
    BY <1>1, <1>3
  <2> QED BY <1>1, <1>3, <2>1, <2>2, <2>3, <2>4
<1>5. Mul64(x, y).hi = h /\ Mul64(x, y).lo = l
  BY DEF Mul64
<1> HIDE DEF h, l
<1> QED
  BY <1>1, <1>3, <1>4, <1>5, BaseFacts

(* A word sum and its carry, a word difference and its borrow.             *)
LEMMA AddWords ==
  ASSUME NEW x \in U64, NEW y \in U64, NEW c \in 0..1
  PROVE  /\ Add64(x, y, c).sum \in U64 /\ Add64(x, y, c).carry \in 0..1
         /\ Add64(x, y, c).carry * Base + Add64(x, y, c).sum = x + y + c
<1>1. x \in 0..(Base - 1) /\ y \in 0..(Base - 1) /\ Base \in Nat \ {0} /\ Base >= 4
  BY BaseFacts
<1>2. CASE x + y + c < Base
  <2>1. (x + y + c) % Base = x + y + c /\ (x + y + c) \div Base = 0
    BY <1>1, <1>2, DivModUnique
  <2> QED BY <1>1, <1>2, <2>1 DEF Add64, U64
<1>3. CASE x + y + c >= Base
  <2>1. /\ x + y + c - Base \in 0..(Base - 1)
        /\ x + y + c = Base * 1 + (x + y + c - Base)
    BY <1>1, <1>3
  <2>2. (x + y + c) % Base = x + y + c - Base /\ (x + y + c) \div Base = 1
    BY <1>1, <2>1, DivModUnique
  <2> QED BY <1>1, <2>1, <2>2 DEF Add64, U64
<1> QED
  BY <1>1, <1>2, <1>3

LEMMA SubWords ==
  ASSUME NEW x \in U64, NEW y \in U64, NEW b \in 0..1
  PROVE  /\ Sub64(x, y, b).diff \in U64 /\ Sub64(x, y, b).borrow \in 0..1
         /\ Sub64(x, y, b).diff = x - y - b + Sub64(x, y, b).borrow * Base
<1>1. x \in 0..(Base - 1) /\ y \in 0..(Base - 1) /\ Base \in Nat \ {0} /\ Base >= 4
  BY BaseFacts
<1>2. CASE x >= y + b
  <2>1. (x - y - b) % Base = x - y - b
    BY <1>1, <1>2, DivModUnique
  <2> QED BY <1>1, <1>2, <2>1 DEF Sub64, U64
<1>3. CASE x < y + b
  <2>1. /\ x - y - b + Base \in 0..(Base - 1)
        /\ x - y - b = Base * (-1) + (x - y - b + Base)
    BY <1>1, <1>3
  <2>2. (x - y - b) % Base = x - y - b + Base
    <3> DEFINE a == x - y - b
               r == x - y - b + Base
    <3>1. a \in Int /\ r \in 0..(Base - 1) /\ a = Base * (-1) + r /\ -1 \in Int
      BY <1>1, <2>1
    <3> HIDE DEF a, r
    <3>2. a % Base = r
      BY <1>1, <3>1, DivModUnique
    <3> QED BY <3>2 DEF a, r
  <2> QED BY <1>1, <1>3, <2>1, <2>2 DEF Sub64, U64
<1> QED
  BY <1>1, <1>2, <1>3

(* The same for two limbs.                                                 *)
LEMMA PairRange ==
  ASSUME NEW hi \in U64, NEW lo \in U64
  PROVE  /\ U(hi, lo) \in Limbs128 /\ Val128(U(hi, lo)) = hi * Base + lo
         /\ hi * Base + lo \in 0..(Cap - 1)
<1>1. hi \in 0..(Base - 1) /\ lo \in 0..(Base - 1) /\ Base \in Nat /\ Base >= 4
      /\ Cap = Base * Base
  BY BaseFacts
<1>2. hi * Base + lo \in 0..(Base * Base - 1)
  <2>1. hi * Base <= (Base - 1) * Base /\ hi * Base \in Nat
    <3>1. \A a, b, c \in Nat : a <= c => a * b <= c * b /\ a * b \in Nat
      OBVIOUS
    <3> QED BY <1>1, <3>1
  <2> QED BY <1>1, <2>1
<1> QED
  BY <1>1, <1>2 DEF U, Val128, Limbs128

LEMMA ValRange ==
  ASSUME NEW uu \in Limbs128
  PROVE  /\ uu.hi \in U64 /\ uu.lo \in U64 /\ uu = U(uu.hi, uu.lo)
         /\ Val128(uu) = uu.hi * Base + uu.lo /\ Val128(uu) \in 0..(Cap - 1)
<1>1. uu.hi \in U64 /\ uu.lo \in U64 /\ uu = U(uu.hi, uu.lo)
  BY DEF Limbs128, U
<1> QED
  BY <1>1, PairRange DEF Val128

LEMMA AddLimbsExact ==
  ASSUME NEW uu \in Limbs128, NEW v \in Limbs128
  PROVE  /\ AddLimbs(uu, v).val \in Limbs128 /\ AddLimbs(uu, v).carry \in 0..1
         /\ Val128(AddLimbs(uu, v).val) = Val128(uu) + Val128(v) - AddLimbs(uu, v).carry * Cap
<1> DEFINE lo == Add64(uu.lo, v.lo, 0)
           hi == Add64(uu.hi, v.hi, lo.carry)
<1>1. uu.hi \in U64 /\ uu.lo \in U64 /\ v.hi \in U64 /\ v.lo \in U64
  BY ValRange
<1>2. /\ lo.sum \in U64 /\ lo.carry \in 0..1
      /\ lo.carry * Base + lo.sum = uu.lo + v.lo + 0
  BY <1>1, AddWords
<1>3. /\ hi.sum \in U64 /\ hi.carry \in 0..1
      /\ hi.carry * Base + hi.sum = uu.hi + v.hi + lo.carry
  <2> HIDE DEF lo
  <2> QED BY <1>1, <1>2, AddWords
<1>4. AddLimbs(uu, v) = [val |-> U(hi.sum, lo.sum), carry |-> hi.carry]
  BY DEF AddLimbs
<1> HIDE DEF lo, hi
<1>5. /\ U(hi.sum, lo.sum) \in Limbs128
      /\ Val128(U(hi.sum, lo.sum)) = hi.sum * Base + lo.sum
  BY <1>2, <1>3, PairRange
<1>6. /\ Val128(uu) = uu.hi * Base + uu.lo /\ Val128(v) = v.hi * Base + v.lo
  BY ValRange
<1>7. hi.sum * Base + lo.sum = (uu.hi * Base + uu.lo) + (v.hi * Base + v.lo) - hi.carry * Cap
  <2>1. /\ hi.sum \in U64 /\ lo.sum \in U64 /\ hi.carry \in 0..1 /\ lo.carry \in 0..1
    BY <1>2, <1>3
  <2>2. /\ uu.hi \in Int /\ uu.lo \in Int /\ v.hi \in Int /\ v.lo \in Int
    BY <1>1, WordRange
  <2>3. /\ hi.sum \in Int /\ hi.carry \in Int /\ lo.sum \in Int /\ lo.carry \in Int
    BY <2>1, WordRange, BitRange
  <2>4. Base \in Int /\ Cap = Base * Base
    BY BaseFacts
  <2>5. hi.sum = uu.hi + v.hi + lo.carry - hi.carry * Base
    <3>1. hi.carry * Base + hi.sum = uu.hi + v.hi + lo.carry /\ hi.carry * Base \in Int
      BY <1>3, <2>3, <2>4
    <3> QED BY <2>2, <2>3, <3>1
  <2>6. hi.sum * Base = uu.hi * Base + v.hi * Base + lo.carry * Base - hi.carry * (Base * Base)
    BY <2>2, <2>3, <2>4, <2>5
  <2>7. lo.carry * Base = uu.lo + v.lo - lo.sum
    BY <1>2, <2>2, <2>3, <2>4
  <2> QED BY <2>2, <2>3, <2>4, <2>6, <2>7
<1> QED
  BY <1>3, <1>4, <1>5, <1>6, <1>7

LEMMA SubLimbsExact ==
  ASSUME NEW uu \in Limbs128, NEW v \in Limbs128
  PROVE  /\ SubLimbs(uu, v).val \in Limbs128 /\ SubLimbs(uu, v).borrow \in 0..1
         /\ Val128(SubLimbs(uu, v).val) = Val128(uu) - Val128(v) + SubLimbs(uu, v).borrow * Cap
<1> DEFINE lo == Sub64(uu.lo, v.lo, 0)
           hi == Sub64(uu.hi, v.hi, lo.borrow)
<1>1. uu.hi \in U64 /\ uu.lo \in U64 /\ v.hi \in U64 /\ v.lo \in U64
  BY ValRange
<1>2. /\ lo.diff \in U64 /\ lo.borrow \in 0..1
      /\ lo.diff = uu.lo - v.lo - 0 + lo.borrow * Base
  BY <1>1, SubWords
<1>3. /\ hi.diff \in U64 /\ hi.borrow \in 0..1
      /\ hi.diff = uu.hi - v.hi - lo.borrow + hi.borrow * Base
  <2> HIDE DEF lo
  <2> QED BY <1>1, <1>2, SubWords
<1>4. SubLimbs(uu, v) = [val |-> U(hi.diff, lo.diff), borrow |-> hi.borrow]
  BY DEF SubLimbs
<1> HIDE DEF lo, hi
<1>5. /\ U(hi.diff, lo.diff) \in Limbs128
      /\ Val128(U(hi.diff, lo.diff)) = hi.diff * Base + lo.diff
  BY <1>2, <1>3, PairRange
<1>6. /\ Val128(uu) = uu.hi * Base + uu.lo /\ Val128(v) = v.hi * Base + v.lo
  BY ValRange
<1>7. hi.diff * Base + lo.diff = (uu.hi * Base + uu.lo) - (v.hi * Base + v.lo) + hi.borrow * Cap
  <2>1. /\ hi.diff \in U64 /\ lo.diff \in U64 /\ hi.borrow \in 0..1 /\ lo.borrow \in 0..1
    BY <1>2, <1>3
  <2>2. /\ uu.hi \in Int /\ uu.lo \in Int /\ v.hi \in Int /\ v.lo \in Int
    BY <1>1, WordRange
  <2>3. /\ hi.diff \in Int /\ hi.borrow \in Int /\ lo.diff \in Int /\ lo.borrow \in Int
    BY <2>1, WordRange, BitRange
  <2>4. Base \in Int /\ Cap = Base * Base
    BY BaseFacts
  <2>5. hi.diff = uu.hi - v.hi - lo.borrow + hi.borrow * Base
    BY <1>3, <2>2, <2>3, <2>4
  <2>6. hi.diff * Base = uu.hi * Base - v.hi * Base - lo.borrow * Base + hi.borrow * (Base * Base)
    BY <2>2, <2>3, <2>4, <2>5
  <2>7. lo.borrow * Base = lo.diff - uu.lo + v.lo
    BY <1>2, <2>2, <2>3, <2>4
  <2> QED BY <2>2, <2>3, <2>4, <2>6, <2>7
<1> QED
  BY <1>3, <1>4, <1>5, <1>6, <1>7

(* Comparison by the borrow, and the two's complement.                     *)
LEMMA LessNegExact ==
  ASSUME NEW uu \in Limbs128, NEW v \in Limbs128
  PROVE  /\ SubLimbs(uu, v).borrow = 1 <=> Val128(uu) < Val128(v)
         /\ LessLimbs(uu, v) <=> Val128(uu) < Val128(v)
         /\ Val128(uu) > 0 => NegLimbs(uu) \in Limbs128 /\ Val128(NegLimbs(uu)) = Cap - Val128(uu)
<1>1. Val128(uu) \in 0..(Cap - 1) /\ Val128(v) \in 0..(Cap - 1) /\ Cap \in Nat
  BY ValRange, BaseFacts
<1>2. /\ Val128(SubLimbs(uu, v).val) \in 0..(Cap - 1) /\ SubLimbs(uu, v).borrow \in 0..1
      /\ Val128(SubLimbs(uu, v).val) = Val128(uu) - Val128(v) + SubLimbs(uu, v).borrow * Cap
  BY SubLimbsExact, ValRange
<1>3. SubLimbs(uu, v).borrow = 1 <=> Val128(uu) < Val128(v)
  BY <1>1, <1>2
<1>4. U(0, 0) \in Limbs128 /\ Val128(U(0, 0)) = 0
  <2>1. 0 \in U64
    BY BaseFacts
  <2> QED BY <2>1, PairRange, BaseFacts
<1>5. /\ SubLimbs(U(0, 0), uu).val \in Limbs128 /\ SubLimbs(U(0, 0), uu).borrow \in 0..1
      /\ Val128(SubLimbs(U(0, 0), uu).val) = 0 - Val128(uu) + SubLimbs(U(0, 0), uu).borrow * Cap
  BY <1>4, SubLimbsExact
<1>6. Val128(SubLimbs(U(0, 0), uu).val) \in 0..(Cap - 1)
  BY <1>5, ValRange
<1>7. Val128(uu) > 0 => Val128(SubLimbs(U(0, 0), uu).val) = Cap - Val128(uu)
  BY <1>1, <1>5, <1>6
<1> QED
  BY <1>2, <1>3, <1>5, <1>7 DEF LessLimbs, NegLimbs

----------------------------------------------------------------------------
(* The trial digit of div3by2 and what it leaves: it fits a word, the      *)
(* division does not trap, and either the rest is below the divisor's high *)
(* limb or the digit was clamped.                                          *)
LEMMA TrialDigit ==
  ASSUME NEW u2 \in U64, NEW u1 \in U64, NEW v \in Limbs128,
         2 * v.hi >= Base, u2 * Base + u1 < Val128(v)
  PROVE  /\ Trial(u2, u1, v).digit \in U64 /\ Trial(u2, u1, v).r \in U64
         /\ Trial(u2, u1, v).rc \in 0..1 /\ Trial(u2, u1, v).trap = FALSE
         /\ u2 * Base + u1 = Trial(u2, u1, v).digit * v.hi
                              + (Trial(u2, u1, v).rc * Base + Trial(u2, u1, v).r)
         /\ \/ /\ Trial(u2, u1, v).rc = 0 /\ Trial(u2, u1, v).r < v.hi
            \/ /\ Trial(u2, u1, v).digit = Base - 1
               /\ Trial(u2, u1, v).rc * Base + Trial(u2, u1, v).r = u1 + v.hi
<1> DEFINE t == Trial(u2, u1, v)
<1> HIDE DEF t
<1> SUFFICES /\ t.digit \in U64 /\ t.r \in U64 /\ t.rc \in 0..1 /\ t.trap = FALSE
             /\ u2 * Base + u1 = t.digit * v.hi + (t.rc * Base + t.r)
             /\ \/ t.rc = 0 /\ t.r < v.hi
                \/ t.digit = Base - 1 /\ t.rc * Base + t.r = u1 + v.hi
  BY DEF t
<1>1. /\ u2 \in Int /\ 0 <= u2 /\ u2 <= Base - 1 /\ u1 \in Int /\ 0 <= u1 /\ u1 <= Base - 1
      /\ v.hi \in U64 /\ v.hi \in Int /\ v.hi <= Base - 1
      /\ v.lo \in Int /\ 0 <= v.lo /\ v.lo <= Base - 1
  BY WordRange, ValRange
<1>2. Base \in Int /\ Base >= 4 /\ v.hi >= 2
  BY <1>1, BaseFacts
<1>3. u2 * Base + u1 < v.hi * Base + v.lo
  BY ValRange
<1>4. u2 <= v.hi
  <2>1. u2 >= v.hi + 1 => u2 * Base >= v.hi * Base + Base
    BY <1>1, <1>2
  <2>2. u2 * Base \in Int /\ v.hi * Base \in Int
    BY <1>1, <1>2
  <2> QED BY <1>1, <1>2, <1>3, <2>1, <2>2
<1>5. CASE u2 = v.hi
  <2>1. /\ t.digit = Base - 1 /\ t.r = Add64(u1, v.hi, 0).sum
        /\ t.rc = Add64(u1, v.hi, 0).carry /\ t.trap = FALSE
    BY <1>5 DEF t, Trial
  <2>2. /\ t.r \in U64 /\ t.rc \in 0..1 /\ t.rc * Base + t.r = u1 + v.hi + 0
    BY <1>1, <2>1, AddWords
  <2>3. t.rc * Base + t.r = u1 + v.hi
    BY <1>1, <2>2
  <2>4. t.digit \in U64
    BY <1>2, <2>1, BaseFacts
  <2>5. u2 * Base + u1 = (Base - 1) * v.hi + (u1 + v.hi)
    BY <1>1, <1>2, <1>5
  <2>6. u2 * Base + u1 = t.digit * v.hi + (t.rc * Base + t.r)
    BY <2>1, <2>3, <2>5
  <2>7. t.trap = FALSE
    BY <2>1
  <2> QED BY <2>1, <2>2, <2>3, <2>4, <2>6, <2>7
<1>6. CASE u2 < v.hi
  <2> DEFINE a == u2 * Base + u1
  <2>1. /\ t.digit = a \div v.hi /\ t.r = a % v.hi /\ t.rc = 0 /\ t.trap = FALSE
    BY <1>1, <1>6 DEF t, Trial, Div64
  <2>2. a \in Int /\ a >= 0 /\ a < v.hi * Base
    <3>1. u2 * Base <= (v.hi - 1) * Base /\ u2 * Base >= 0 /\ u2 * Base \in Int
      BY <1>1, <1>2, <1>6
    <3>2. (v.hi - 1) * Base = v.hi * Base - Base /\ v.hi * Base \in Int
      BY <1>1, <1>2
    <3> QED BY <1>1, <1>2, <3>1, <3>2
  <2> HIDE DEF a
  <2>3. /\ t.digit \in Int /\ t.r \in 0..(v.hi - 1) /\ a = v.hi * t.digit + t.r
    <3>1. v.hi \in Nat \ {0}
      BY <1>1, <1>2
    <3>2. /\ a \div v.hi \in Int /\ a % v.hi \in 0..(v.hi - 1)
          /\ a = v.hi * (a \div v.hi) + (a % v.hi)
      BY <2>2, <3>1, DivMod
    <3> QED BY <2>1, <3>2
  <2>4. t.digit >= 0 /\ t.digit <= Base - 1
    <3>1. t.digit <= -1 => v.hi * t.digit <= -v.hi
      BY <1>1, <1>2, <2>3
    <3>2. t.digit >= Base => v.hi * t.digit >= v.hi * Base
      BY <1>1, <1>2, <2>3
    <3>3. v.hi * t.digit \in Int /\ v.hi * Base \in Int /\ t.r \in Int /\ 0 <= t.r /\ t.r < v.hi
      BY <1>1, <1>2, <2>3
    <3> QED BY <1>1, <1>2, <2>2, <2>3, <3>1, <3>2, <3>3
  <2>5. t.digit \in U64 /\ t.r \in U64
    BY <1>1, <1>2, <2>3, <2>4, BaseFacts
  <2>6. u2 * Base + u1 = t.digit * v.hi + (t.rc * Base + t.r)
    <3>1. t.rc * Base = 0 /\ v.hi * t.digit = t.digit * v.hi /\ t.digit * v.hi \in Int
      BY <1>1, <1>2, <2>1, <2>3
    <3> QED BY <1>1, <2>3, <3>1 DEF a
  <2>7. t.rc = 0 /\ t.r < v.hi
    BY <1>1, <2>1, <2>3
  <2>8. t.trap = FALSE /\ t.rc \in 0..1
    BY <2>1
  <2> HIDE DEF a
  <2> QED BY <2>5, <2>6, <2>7, <2>8
<1>7. u2 = v.hi \/ u2 < v.hi
  BY <1>1, <1>4
<1> QED
  BY <1>5, <1>6, <1>7

(* What is left after the trial digit, seen as one number T: below the     *)
(* divisor, at most twice the divisor short, and not short at all when the *)
(* clamped rest spilled over its word.                                     *)
TrialLeaves(b, vh, vl, u2, u1, u0, q, R) ==
  /\ b \in Int /\ b >= 4
  /\ vh \in 0..(b - 1) /\ vl \in 0..(b - 1) /\ 2 * vh >= b
  /\ u2 \in 0..(b - 1) /\ u1 \in 0..(b - 1) /\ u0 \in 0..(b - 1)
  /\ q \in 0..(b - 1) /\ R \in Int /\ R >= 0
  /\ u2 * b + u1 = q * vh + R /\ u2 * b + u1 < vh * b + vl
  /\ R < vh \/ (q = b - 1 /\ R = u1 + vh)
RestIsNear(b, V, W, q, R, T) ==
  /\ T = W - q * V /\ T < V /\ -(2 * V) <= T /\ -(b * b) < T
  /\ R >= b => T >= 0

LEMMA TrialRest ==
  ASSUME NEW b, NEW vh, NEW vl, NEW u2, NEW u1, NEW u0, NEW q, NEW R,
         TrialLeaves(b, vh, vl, u2, u1, u0, q, R)
  PROVE  RestIsNear(b, vh * b + vl, (u2 * b + u1) * b + u0, q, R, R * b + u0 - q * vl)
<1> DEFINE T == R * b + u0 - q * vl
           V == vh * b + vl
<1>0. TrialLeaves(b, vh, vl, u2, u1, u0, q, R)
  OBVIOUS
<1> USE DEF TrialLeaves
<1>1. T = (u2 * b + u1) * b + u0 - q * V
  <2>1. (u2 * b + u1) * b = (q * vh + R) * b
    BY <1>0
  <2>2. (q * vh + R) * b = q * (vh * b) + R * b
    BY <1>0
  <2>3. q * V = q * (vh * b) + q * vl
    BY <1>0
  <2> QED BY <1>0, <2>1, <2>2, <2>3
<1>2. /\ R * b \in Int /\ q * vl \in Int /\ vh * b \in Int /\ q * V \in Int
      /\ q * vl >= 0 /\ R * b >= 0 /\ b * b \in Int
  BY <1>0
<1>3. q * vl <= (b - 1) * (b - 1)
  <2>1. \A x, y, c \in Nat : x <= c /\ y <= c => x * y <= c * c
    OBVIOUS
  <2> QED BY <1>0, <2>1
<1>4. (b - 1) * (b - 1) = b * b - 2 * b + 1
  BY <1>0
<1>5. -(b * b) < T
  BY <1>0, <1>2, <1>3, <1>4
<1>6. b * b <= 2 * (vh * b)
  <2>1. \A x, y, c \in Nat : c <= x => c * y <= x * y
    OBVIOUS
  <2>2. b * b <= (2 * vh) * b
    BY <1>0, <2>1
  <2> QED BY <1>0, <2>2
<1>7. -(2 * V) <= T
  BY <1>0, <1>2, <1>5, <1>6
<1>8. T < V
  <2>1. CASE R < vh
    <3>1. R * b <= (vh - 1) * b /\ (vh - 1) * b = vh * b - b
      BY <1>0, <2>1
    <3> QED BY <1>0, <1>2, <3>1
  <2>2. CASE q = b - 1
    <3>1. q * V = b * V - V /\ b * V \in Int
      BY <1>0, <2>2
    <3>2. (u2 * b + u1) * b <= (V - 1) * b /\ (V - 1) * b = V * b - b
      BY <1>0
    <3>3. V \in Int /\ b * V = V * b /\ (u2 * b + u1) * b \in Int
      BY <1>0
    <3> HIDE DEF V
    <3> QED BY <1>0, <1>1, <3>1, <3>2, <3>3
  <2> QED BY <1>0, <2>1, <2>2
<1>9. R >= b => T >= 0
  <2> HAVE R >= b
  <2>1. R * b >= b * b
    BY <1>0
  <2> QED BY <1>0, <1>2, <1>3, <1>4, <2>1
<1> QED
  BY <1>0, <1>1, <1>5, <1>7, <1>8, <1>9 DEF RestIsNear

(* div3by2 returns the exact digit and remainder, for every word size: the *)
(* digit is corrected at most twice, and no bits.Div64 traps (u256.go:122, *)
(* "guarantees the digit fits").                                           *)
THEOREM Div3by2Exact ==
  ASSUME NEW u2 \in U64, NEW u1 \in U64, NEW u0 \in U64, NEW v \in Limbs128,
         2 * v.hi >= Base, u2 * Base + u1 < Val128(v)
  PROVE  LET d == Div3by2(u2, u1, u0, v)
         IN  /\ d.trap = FALSE /\ d.quo \in U64 /\ d.rem \in Limbs128
             /\ Val128(d.rem) < Val128(v)
             /\ d.quo * Val128(v) + Val128(d.rem) = (u2 * Base + u1) * Base + u0
<1> DEFINE t == Trial(u2, u1, v)
           prod == Mul64(t.digit, v.lo)
           part == SubLimbs(U(t.r, u0), U(prod.hi, prod.lo))
           deficit == NegLimbs(part.val)
           once == LessLimbs(v, deficit)
           left == IF once THEN SubLimbs(deficit, v).val ELSE deficit
           step == IF once THEN 2 ELSE 1
           d == Div3by2(u2, u1, u0, v)
           V == Val128(v)
           W == (u2 * Base + u1) * Base + u0
           R == t.rc * Base + t.r
           T == R * Base + u0 - t.digit * v.lo
<1> SUFFICES /\ d.trap = FALSE /\ d.quo \in U64 /\ d.rem \in Limbs128
             /\ Val128(d.rem) < V /\ d.quo * V + Val128(d.rem) = W
  OBVIOUS
<1>1. d = IF part.borrow <= t.rc THEN [quo |-> t.digit, rem |-> part.val, trap |-> t.trap]
          ELSE [quo |-> (t.digit - step) % Base, rem |-> SubLimbs(v, left).val, trap |-> t.trap]
  BY DEF Div3by2
<1> HIDE DEF d, t
<1>2. /\ t.digit \in U64 /\ t.r \in U64 /\ t.rc \in 0..1
      /\ u2 * Base + u1 = t.digit * v.hi + (t.rc * Base + t.r)
      /\ \/ t.rc = 0 /\ t.r < v.hi
         \/ t.digit = Base - 1 /\ t.rc * Base + t.r = u1 + v.hi
  BY TrialDigit DEF t
<1>3. t.trap = FALSE
  BY TrialDigit DEF t
<1>4. /\ v.hi \in U64 /\ v.lo \in U64 /\ V = v.hi * Base + v.lo /\ V \in 0..(Cap - 1)
  BY ValRange
<1>5. /\ Base \in Int /\ Base >= 4 /\ Cap = Base * Base /\ Cap \in Int
      /\ U64 = 0..(Base - 1)
  BY BaseFacts
<1>6. /\ prod.hi \in U64 /\ prod.lo \in U64
      /\ prod.hi * Base + prod.lo = t.digit * v.lo
  BY <1>2, <1>4, MulWords
<1> HIDE DEF prod
<1>7. /\ U(t.r, u0) \in Limbs128 /\ Val128(U(t.r, u0)) = t.r * Base + u0
      /\ U(prod.hi, prod.lo) \in Limbs128 /\ Val128(U(prod.hi, prod.lo)) = t.digit * v.lo
  BY <1>2, <1>6, PairRange
<1>8. /\ part.val \in Limbs128 /\ part.borrow \in 0..1
      /\ Val128(part.val) = (t.r * Base + u0) - t.digit * v.lo + part.borrow * Cap
      /\ Val128(part.val) \in 0..(Cap - 1)
  BY <1>7, SubLimbsExact, ValRange
<1> HIDE DEF part
<1>9. /\ R \in Int /\ R >= 0 /\ (R >= Base <=> t.rc = 1)
      /\ \/ R < v.hi
         \/ t.digit = Base - 1 /\ R = u1 + v.hi
  <2>1. t.rc = 0 \/ t.rc = 1
    BY <1>2
  <2>2. t.r \in Int /\ 0 <= t.r /\ t.r <= Base - 1
    BY <1>2, WordRange
  <2>3. t.rc = 0 => R = t.r
    BY <1>5, <2>2
  <2>4. t.rc = 1 => R = Base + t.r
    BY <1>5, <2>2
  <2> HIDE DEF R
  <2>5. R \in Int /\ R >= 0 /\ (R >= Base <=> t.rc = 1)
    BY <1>5, <2>1, <2>2, <2>3, <2>4
  <2>6. \/ R < v.hi
        \/ t.digit = Base - 1 /\ R = u1 + v.hi
    BY <1>2, <2>3 DEF R
  <2> QED BY <2>5, <2>6
<1>10. t.digit \in Int /\ t.digit * v.lo \in Int /\ t.r * Base \in Int /\ u0 \in Int /\ T \in Int
  <2>1. t.digit \in Int /\ v.lo \in Int /\ t.r \in Int /\ u0 \in Int
    BY <1>2, <1>4, WordRange
  <2>2. R \in Int /\ Base \in Int
    BY <1>5, <1>9
  <2>3. t.digit * v.lo \in Int /\ t.r * Base \in Int /\ R * Base \in Int
    <3> HIDE DEF R
    <3> QED BY <2>1, <2>2
  <2> HIDE DEF R
  <2> QED BY <2>1, <2>3
<1>11. Val128(part.val) = T + (part.borrow - t.rc) * Cap
  <2>1. R * Base = t.rc * Cap + t.r * Base
    BY <1>2, <1>5
  <2>2. t.rc \in Int /\ part.borrow \in Int
    BY <1>2, <1>8, BitRange
  <2>3. /\ t.rc * Cap \in Int /\ part.borrow * Cap \in Int
        /\ (part.borrow - t.rc) * Cap = part.borrow * Cap - t.rc * Cap
    BY <1>5, <2>2
  <2> HIDE DEF R
  <2> QED BY <1>8, <1>10, <2>1, <2>3
<1>12. /\ T = W - t.digit * V /\ T < V /\ -(2 * V) <= T /\ -Cap < T
       /\ R >= Base => T >= 0
  <2> HIDE DEF R
  <2>1. /\ v.hi \in 0..(Base - 1) /\ v.lo \in 0..(Base - 1) /\ u2 \in 0..(Base - 1)
        /\ u1 \in 0..(Base - 1) /\ u0 \in 0..(Base - 1) /\ t.digit \in 0..(Base - 1)
    BY <1>2, <1>4, <1>5
  <2>2. u2 * Base + u1 = t.digit * v.hi + R
    BY <1>2 DEF R
  <2>3. u2 * Base + u1 < v.hi * Base + v.lo
    BY <1>4
  <2>4. TrialLeaves(Base, v.hi, v.lo, u2, u1, u0, t.digit, R)
    <3>1. Base \in Int /\ Base >= 4 /\ 2 * v.hi >= Base /\ R \in Int /\ R >= 0
      BY <1>5, <1>9
    <3>2. R < v.hi \/ (t.digit = Base - 1 /\ R = u1 + v.hi)
      BY <1>9
    <3> QED BY <2>1, <2>2, <2>3, <3>1, <3>2 DEF TrialLeaves
  <2>5. RestIsNear(Base, V, W, t.digit, R, T)
    BY <1>4, <2>4, TrialRest
  <2> QED BY <1>5, <2>5 DEF RestIsNear
<1> HIDE DEF R, T, W, V
<1>13. /\ V \in Int /\ 0 <= V /\ V < Cap /\ W \in Int /\ W = t.digit * V + T
       /\ t.digit * V \in Int
  <2>1. V \in Int /\ 0 <= V /\ V < Cap
    BY <1>4, <1>5
  <2>2. t.digit * V \in Int
    BY <1>10, <2>1
  <2>3. W \in Int
    <3>1. u2 \in Int /\ u1 \in Int
      BY WordRange
    <3> QED BY <1>5, <1>10, <3>1 DEF W
  <2> QED BY <1>10, <1>12, <2>1, <2>2, <2>3
<1>14. CASE part.borrow <= t.rc
  <2>1. d.quo = t.digit /\ d.rem = part.val /\ d.trap = FALSE
    BY <1>1, <1>3, <1>14
  <2>2. Val128(part.val) = T
    <3>1. CASE t.rc = 0
      <4>1. part.borrow - t.rc = 0
        BY <1>8, <1>14, <3>1
      <4> QED BY <1>5, <1>10, <1>11, <4>1
    <3>2. CASE t.rc = 1
      <4>1. T >= 0 /\ T < Cap
        <5>1. T >= 0
          BY <1>9, <1>12, <3>2
        <5>2. T < V /\ V < Cap
          BY <1>12, <1>13
        <5> QED BY <1>5, <1>10, <1>13, <5>1, <5>2
      <4>2. part.borrow = 0 => Val128(part.val) = T - Cap
        BY <1>5, <1>10, <1>11, <3>2
      <4>3. part.borrow = 1 => Val128(part.val) = T
        BY <1>5, <1>10, <1>11, <3>2
      <4> QED BY <1>5, <1>8, <1>10, <4>1, <4>2, <4>3
    <3> QED BY <1>2, <3>1, <3>2
  <2>3. Val128(part.val) < V /\ t.digit * V + Val128(part.val) = W
    BY <1>12, <1>13, <2>2
  <2> QED BY <1>2, <1>8, <2>1, <2>3
<1>15. CASE part.borrow > t.rc
  <2>1. part.borrow = 1 /\ t.rc = 0
    BY <1>2, <1>8, <1>15
  <2>2. Val128(part.val) = T + Cap
    BY <1>5, <1>10, <1>11, <2>1
  <2>3. T < 0 /\ Val128(part.val) > 0
    BY <1>5, <1>8, <1>10, <1>12, <2>2
  <2>4. deficit \in Limbs128 /\ Val128(deficit) = -T
    <3>1. deficit \in Limbs128 /\ Val128(deficit) = Cap - Val128(part.val)
      BY <1>8, <2>3, LessNegExact
    <3> HIDE DEF deficit
    <3> QED BY <1>5, <1>10, <2>2, <3>1
  <2> HIDE DEF deficit
  <2>5. once <=> V < -T
    BY <2>4, LessNegExact DEF V
  <2>6. left \in Limbs128 /\ Val128(left) = -T - (step - 1) * V /\ Val128(left) <= V /\ step \in 1..2
    <3>1. CASE ~once
      <4>1. left = deficit /\ step = 1
        BY <3>1
      <4>2. (step - 1) * V = 0
        BY <1>13, <4>1
      <4> HIDE DEF left, step, once
      <4> QED BY <1>10, <1>13, <2>4, <2>5, <3>1, <4>1, <4>2
    <3>2. CASE once
      <4>1. left = SubLimbs(deficit, v).val /\ step = 2
        BY <3>2
      <4>2. /\ SubLimbs(deficit, v).val \in Limbs128
            /\ SubLimbs(deficit, v).borrow \in 0..1
            /\ Val128(SubLimbs(deficit, v).val) = -T - V + SubLimbs(deficit, v).borrow * Cap
        BY <2>4, SubLimbsExact DEF V
      <4>3. SubLimbs(deficit, v).borrow # 1
        BY <1>10, <1>13, <2>4, <2>5, <3>2, LessNegExact DEF V
      <4>4. SubLimbs(deficit, v).borrow * Cap = 0
        BY <1>5, <4>2, <4>3
      <4>5. (step - 1) * V = V
        BY <1>13, <4>1
      <4> HIDE DEF left, step, once
      <4>6. Val128(left) = -T - V
        BY <1>10, <1>13, <4>1, <4>2, <4>4
      <4> QED BY <1>10, <1>12, <1>13, <4>1, <4>2, <4>5, <4>6
    <3> QED BY <3>1, <3>2
  <2> HIDE DEF left, once, step
  <2>7. /\ SubLimbs(v, left).val \in Limbs128 /\ SubLimbs(v, left).borrow \in 0..1
        /\ Val128(SubLimbs(v, left).val) = V - Val128(left) + SubLimbs(v, left).borrow * Cap
    BY <2>6, SubLimbsExact DEF V
  <2>8. SubLimbs(v, left).borrow = 0
    <3>1. SubLimbs(v, left).borrow = 1 <=> V < Val128(left)
      BY <2>6, LessNegExact DEF V
    <3>2. Val128(left) \in Int
      BY <2>6, ValRange, <1>5
    <3> QED BY <1>13, <2>6, <2>7, <3>1, <3>2
  <2> DEFINE rest == SubLimbs(v, left).val
  <2>9. Val128(rest) = T + step * V /\ Val128(rest) \in 0..(Cap - 1)
    <3>1. SubLimbs(v, left).borrow * Cap = 0
      BY <1>5, <2>8
    <3>2. (step - 1) * V = step * V - V /\ step * V \in Int
      BY <1>13, <2>6
    <3>3. Val128(rest) \in 0..(Cap - 1)
      BY <2>7, ValRange
    <3> QED BY <1>10, <1>13, <2>6, <2>7, <3>1, <3>2, <3>3
  <2>10. Val128(rest) < V
    <3>1. Val128(left) > 0
      <4>1. (step - 1) * V = 0 \/ (step - 1) * V = V
        BY <1>13, <2>6
      <4>2. CASE step = 1
        BY <1>10, <1>13, <2>3, <2>6, <4>2
      <4>3. CASE step = 2
        BY <1>10, <1>13, <2>5, <2>6, <4>3 DEF step
      <4> QED BY <2>6, <4>2, <4>3
    <3>2. SubLimbs(v, left).borrow * Cap = 0
      BY <1>5, <2>8
    <3>3. Val128(left) \in Int
      BY <1>5, <2>6, ValRange
    <3> QED BY <1>13, <2>7, <3>1, <3>2, <3>3
  <2> HIDE DEF rest
  <2>11. (t.digit - step) * V + Val128(rest) = W
    <3>1. (t.digit - step) * V = t.digit * V - step * V /\ step * V \in Int
      <4>1. step \in Int /\ t.digit \in Int /\ V \in Int
        BY <1>10, <1>13, <2>6
      <4> QED BY <4>1
    <3> QED BY <1>5, <1>10, <1>13, <2>9, <3>1
  <2>12. W >= 0
    <3>1. u2 \in Nat /\ u1 \in Nat /\ u0 \in Nat /\ Base \in Nat
      BY <1>5
    <3> QED BY <3>1 DEF W
  <2>13. t.digit - step \in 0..(Base - 1)
    <3> DEFINE n == t.digit - step
    <3>1. n \in Int /\ n <= Base - 1 /\ Val128(rest) \in Int
      BY <1>2, <1>5, <1>10, <2>6, <2>9
    <3> HIDE DEF n
    <3>2. n * V > -V
      BY <1>13, <2>10, <2>11, <2>12, <3>1 DEF n
    <3>3. n <= -1 => n * V <= -V
      BY <1>13, <3>1
    <3>4. n * V \in Int
      BY <1>13, <3>1
    <3>5. n >= 0
      BY <1>13, <3>1, <3>2, <3>3, <3>4
    <3> QED BY <1>5, <3>1, <3>5 DEF n
  <2>14. (t.digit - step) % Base = t.digit - step
    BY <1>5, <2>13, DivModUnique
  <2>15. d.quo = t.digit - step /\ d.rem = rest /\ d.trap = FALSE
    <3>1. ~(part.borrow <= t.rc)
      BY <2>1
    <3> QED BY <1>1, <1>3, <2>14, <3>1 DEF rest
  <2>16. rest \in Limbs128
    BY <2>7 DEF rest
  <2> QED BY <1>5, <2>10, <2>11, <2>13, <2>15, <2>16
<1>16. part.borrow <= t.rc \/ part.borrow > t.rc
  BY <1>2, <1>8, BitRange
<1> QED
  BY <1>14, <1>15, <1>16

----------------------------------------------------------------------------
(* The candidate of div2by1, seen as numbers: c is the reciprocal with its *)
(* implied top bit and kk what it lacks, {q1, q0} the product's two words, *)
(* and x the remainder that q1 + 1 leaves.                                 *)
Candidate(b, d, c, kk, u1, u0, q1, q0) ==
  /\ b \in Int /\ b >= 4 /\ d \in 1..(b - 1)
  /\ c \in Int /\ kk \in 1..d /\ kk = b * b - c * d
  /\ u1 \in 0..(d - 1) /\ u0 \in 0..(b - 1) /\ q0 \in 0..(b - 1) /\ q1 \in Int
  /\ q1 * b + q0 = c * u1 + u0
CandidateIsNear(b, d, q0, x) ==
  /\ x \in Int /\ -d <= x /\ q0 - b < x
  /\ x < b - d \/ x < q0

LEMMA CandidateRest ==
  ASSUME NEW b, NEW d, NEW c, NEW kk, NEW u1, NEW u0, NEW q1, NEW q0,
         Candidate(b, d, c, kk, u1, u0, q1, q0)
  PROVE  CandidateIsNear(b, d, q0, u1 * b + u0 - (q1 + 1) * d)
<1> DEFINE x == u1 * b + u0 - (q1 + 1) * d
<1>1. /\ b \in Int /\ b >= 4 /\ d \in Int /\ 1 <= d /\ d <= b - 1
      /\ c \in Int /\ kk \in Int /\ 1 <= kk /\ kk <= d
      /\ u1 \in Int /\ 0 <= u1 /\ u1 <= d - 1 /\ u0 \in Int /\ 0 <= u0 /\ u0 <= b - 1
      /\ q0 \in Int /\ 0 <= q0 /\ q0 <= b - 1 /\ q1 \in Int
  BY DEF Candidate
<1>2. kk = b * b - c * d /\ q1 * b + q0 = c * u1 + u0
  BY DEF Candidate
<1>3. b * x = u1 * kk + u0 * (b - d) + q0 * d - b * d
  <2>1. b * x = u1 * (b * b) + u0 * b - (q1 * b) * d - b * d
    BY <1>1
  <2>2. q1 * b = c * u1 + u0 - q0
    BY <1>1, <1>2
  <2>3. (q1 * b) * d = (c * u1 + u0 - q0) * d
    BY <2>2
  <2>4. (c * u1 + u0 - q0) * d = u1 * (c * d) + u0 * d - q0 * d
    BY <1>1
  <2>5. u1 * kk = u1 * (b * b) - u1 * (c * d)
    BY <1>1, <1>2
  <2>6. u0 * (b - d) = u0 * b - u0 * d
    BY <1>1
  <2>7. /\ u1 * (b * b) \in Int /\ u0 * b \in Int /\ b * d \in Int /\ u1 * (c * d) \in Int
        /\ u0 * d \in Int /\ q0 * d \in Int
    BY <1>1
  <2> HIDE DEF x
  <2> QED BY <2>1, <2>3, <2>4, <2>5, <2>6, <2>7
<1>4. x \in Int
  BY <1>1
<1> HIDE DEF x
<1>5. /\ u1 * kk >= 0 /\ u0 * (b - d) >= 0 /\ q0 * d >= 0 /\ b * x \in Int
      /\ u1 * kk \in Int /\ u0 * (b - d) \in Int /\ q0 * d \in Int /\ b * d \in Int
  <2>1. \A m, n \in Int : m >= 0 /\ n >= 0 => m * n >= 0 /\ m * n \in Int
    OBVIOUS
  <2> QED BY <1>1, <1>4, <2>1
<1>6. -d <= x
  <2>1. b * x >= -(b * d)
    BY <1>3, <1>5
  <2>2. x <= -d - 1 => b * x <= b * (-d - 1)
    BY <1>1, <1>4
  <2>3. b * (-d - 1) = -(b * d) - b
    BY <1>1
  <2> QED BY <1>1, <1>4, <1>5, <2>1, <2>2, <2>3
<1>7. q0 - b < x
  <2>1. b * x >= (q0 - b) * d
    <3>1. (q0 - b) * d = q0 * d - b * d
      BY <1>1
    <3> QED BY <1>3, <1>5, <3>1
  <2>2. (q0 - b) * d > (q0 - b) * b
    <3>1. (b - q0) * (b - d) > 0
      BY <1>1
    <3>2. (b - q0) * (b - d) = (q0 - b) * d - (q0 - b) * b
      BY <1>1
    <3> QED BY <1>1, <3>1, <3>2
  <2>3. x <= q0 - b => b * x <= (q0 - b) * b
    BY <1>1, <1>4
  <2>4. (q0 - b) * d \in Int /\ (q0 - b) * b \in Int
    BY <1>1
  <2> QED BY <1>1, <1>4, <1>5, <2>1, <2>2, <2>3, <2>4
<1>8. x < b - d \/ x < q0
  <2>1. u1 * kk <= (d - 1) * d
    <3>1. \A m, n, i, j \in Int : 0 <= m /\ m <= i /\ 0 <= n /\ n <= j => m * n <= i * j
      <4> TAKE m, n, i, j \in Int
      <4> HAVE 0 <= m /\ m <= i /\ 0 <= n /\ n <= j
      <4>1. m * n <= i * n
        OBVIOUS
      <4>2. i * n <= i * j
        OBVIOUS
      <4> QED BY <4>1, <4>2
    <3> QED BY <1>1, <3>1
  <2>2. u0 * (b - d) <= (b - 1) * (b - d)
    BY <1>1
  <2>3. b * x < (b - d) * (b - d) + q0 * d
    <3>1. (d - 1) * d + (b - 1) * (b - d) - b * d = (b - d) * (b - d) - b
      BY <1>1
    <3>2. (d - 1) * d \in Int /\ (b - 1) * (b - d) \in Int /\ (b - d) * (b - d) \in Int
      BY <1>1
    <3> QED BY <1>1, <1>3, <1>5, <2>1, <2>2, <3>1, <3>2
  <2>4. CASE q0 <= b - d
    <3>1. q0 * d <= (b - d) * d
      BY <1>1, <2>4
    <3>2. (b - d) * (b - d) + (b - d) * d = b * (b - d)
      BY <1>1
    <3>3. b * x < b * (b - d)
      BY <1>1, <1>5, <2>3, <3>1, <3>2
    <3>4. x >= b - d => b * x >= b * (b - d)
      BY <1>1, <1>4
    <3>5. b * (b - d) \in Int
      BY <1>1
    <3> QED BY <1>1, <1>4, <1>5, <3>3, <3>4, <3>5
  <2>5. CASE q0 > b - d
    <3>1. (b - d) * (b - d) <= q0 * (b - d)
      BY <1>1, <2>5
    <3>2. q0 * (b - d) + q0 * d = b * q0
      BY <1>1
    <3>3. b * x < b * q0
      BY <1>1, <1>5, <2>3, <3>1, <3>2
    <3>4. x >= q0 => b * x >= b * q0
      BY <1>1, <1>4
    <3>5. b * q0 \in Int
      BY <1>1
    <3> QED BY <1>1, <1>4, <1>5, <3>3, <3>4, <3>5
  <2> QED BY <1>1, <2>4, <2>5
<1> QED
  BY <1>4, <1>6, <1>7, <1>8 DEF x, CandidateIsNear

(* The reciprocal the tables hold fits a word, and what it lacks to a      *)
(* whole square of the base is at most the divisor (gen/main.go:110).      *)
LEMMA ReciprocalGap ==
  ASSUME NEW dn \in U64, 2 * dn >= Base, NEW v, v = (Cap - 1) \div dn - Base
  PROVE  v \in U64 /\ Cap - (Base + v) * dn \in 1..dn
<1> DEFINE c == (Cap - 1) \div dn
<1>1. /\ Base \in Int /\ Base >= 4 /\ Cap = Base * Base /\ Cap \in Int /\ Cap - 1 \in Int
      /\ dn \in Int /\ dn <= Base - 1 /\ dn >= 2 /\ dn \in Nat \ {0}
  BY BaseFacts, WordRange
<1>2. c \in Int /\ (Cap - 1) % dn \in 0..(dn - 1) /\ Cap - 1 = dn * c + ((Cap - 1) % dn)
  BY <1>1, DivMod
<1>3. v = c - Base
  OBVIOUS
<1> HIDE DEF c
<1>4. Cap - dn * c \in 1..dn /\ dn * c \in Int
  BY <1>1, <1>2
<1>5. dn * c = (Base + v) * dn
  BY <1>1, <1>2, <1>3
<1>6. c >= Base
  <2>1. c <= Base - 1 => dn * c <= dn * (Base - 1)
    BY <1>1, <1>2
  <2>2. dn * (Base - 1) <= (Base - 1) * (Base - 1)
    BY <1>1
  <2>3. (Base - 1) * (Base - 1) = Cap - 2 * Base + 1 /\ dn * (Base - 1) \in Int
    BY <1>1
  <2> QED BY <1>1, <1>2, <1>4, <2>1, <2>2, <2>3
<1>7. c <= 2 * Base - 1
  <2>1. c >= 2 * Base => dn * c >= dn * (2 * Base)
    BY <1>1, <1>2
  <2>2. dn * (2 * Base) = (2 * dn) * Base /\ (2 * dn) * Base >= Cap /\ (2 * dn) * Base \in Int
    BY <1>1
  <2> QED BY <1>1, <1>2, <1>4, <2>1, <2>2
<1>8. v \in U64
  BY <1>1, <1>2, <1>3, <1>6, <1>7, BaseFacts
<1> QED
  BY <1>4, <1>5, <1>8

(* What the low word of a number within one base of zero is.               *)
LEMMA Wrapped ==
  ASSUME NEW a \in Int, NEW x \in Int, NEW j \in Int, a = Base * j + x,
         -Base < x, x < Base
  PROVE  a % Base = IF x >= 0 THEN x ELSE x + Base
<1>1. Base \in Int /\ Base >= 4 /\ Base \in Nat \ {0}
  BY BaseFacts
<1>2. CASE x >= 0
  <2>1. x \in 0..(Base - 1)
    BY <1>1, <1>2
  <2> QED BY <1>1, <1>2, <2>1, DivModUnique
<1>3. CASE x < 0
  <2>1. x + Base \in 0..(Base - 1) /\ j - 1 \in Int
    BY <1>1, <1>3
  <2>2. a = Base * (j - 1) + (x + Base)
    BY <1>1
  <2>3. a % Base = x + Base
    BY <1>1, <2>1, <2>2, DivModUnique
  <2> QED BY <1>3, <2>3
<1> QED
  BY <1>2, <1>3

(* div2by1 returns the exact digit and remainder for every word size and   *)
(* every normalized divisor, although its candidate and its remainder wrap *)
(* (div10.go:30): a digit one too large is seen by the wrapped remainder,  *)
(* one too small by the last comparison.                                   *)
THEOREM Div2by1Exact ==
  ASSUME NEW dn \in U64, 2 * dn >= Base, NEW v, v = (Cap - 1) \div dn - Base,
         NEW u1 \in U64, u1 < dn, NEW u0 \in U64
  PROVE  LET e == Div2by1(u1, u0, dn, v)
         IN  /\ e.quo \in U64 /\ e.rem \in U64 /\ e.rem < dn
             /\ e.quo * dn + e.rem = u1 * Base + u0
<1> DEFINE prod == Mul64(v, u1)
           low == Add64(prod.lo, u0, 0)
           q1 == prod.hi + u1 + low.carry
           q0 == low.sum
           qh == (q1 + 1) % Base
           j == (q1 + 1) \div Base
           r == (u0 - qh * dn) % Base
           x == u1 * Base + u0 - (q1 + 1) * dn
           W == u1 * Base + u0
           qa == IF r > q0 THEN (qh - 1) % Base ELSE qh
           ra == IF r > q0 THEN (r + dn) % Base ELSE r
           e == Div2by1(u1, u0, dn, v)
<1> SUFFICES /\ e.quo \in U64 /\ e.rem \in U64 /\ e.rem < dn
             /\ e.quo * dn + e.rem = W
  OBVIOUS
<1>1. e = IF ra >= dn THEN [quo |-> (qa + 1) % Base, rem |-> ra - dn]
                      ELSE [quo |-> qa, rem |-> ra]
  BY DEF Div2by1
<1> HIDE DEF e
<1>2. v \in U64 /\ Cap - (Base + v) * dn \in 1..dn
  BY ReciprocalGap
<1>3. /\ Base \in Int /\ Base >= 4 /\ Base \in Nat \ {0} /\ Cap = Base * Base
      /\ U64 = 0..(Base - 1) /\ v \in Int /\ 0 <= v
      /\ dn \in Int /\ 2 <= dn /\ dn <= Base - 1
      /\ u1 \in Int /\ 0 <= u1 /\ u1 <= dn - 1 /\ u0 \in Int /\ 0 <= u0 /\ u0 <= Base - 1
  BY <1>2, BaseFacts, WordRange
<1>4. prod.hi \in U64 /\ prod.lo \in U64 /\ prod.hi * Base + prod.lo = v * u1
  BY <1>2, MulWords
<1> HIDE DEF prod
<1>5. /\ low.sum \in U64 /\ low.carry \in 0..1
      /\ low.carry * Base + low.sum = prod.lo + u0 + 0
  BY <1>4, AddWords
<1> HIDE DEF low
<1>6. /\ q1 \in Int /\ q1 >= 0 /\ q0 \in U64 /\ q0 \in Int /\ 0 <= q0 /\ q0 <= Base - 1
      /\ q1 * Base + q0 = (Base + v) * u1 + u0
  <2>1. /\ prod.hi \in Int /\ 0 <= prod.hi /\ prod.lo \in Int /\ low.sum \in Int
        /\ 0 <= low.sum /\ low.sum <= Base - 1
    BY <1>4, <1>5, WordRange
  <2>2. low.carry \in Int /\ 0 <= low.carry
    BY <1>5
  <2>3. q1 * Base = prod.hi * Base + u1 * Base + low.carry * Base
    BY <1>3, <2>1, <2>2
  <2>4. (Base + v) * u1 = u1 * Base + v * u1
    BY <1>3
  <2>5. /\ prod.hi * Base \in Int /\ u1 * Base \in Int /\ low.carry * Base \in Int
        /\ v * u1 \in Int
    BY <1>3, <2>1, <2>2
  <2>6. q1 \in Int /\ q1 >= 0
    BY <1>3, <2>1, <2>2
  <2> HIDE DEF q1
  <2>7. q1 * Base + q0 = (Base + v) * u1 + u0
    <3>1. low.carry * Base = prod.lo + u0 - low.sum
      BY <1>3, <1>5, <2>1, <2>5
    <3>2. prod.hi * Base = v * u1 - prod.lo
      BY <1>4, <2>1, <2>5
    <3> QED BY <1>3, <2>1, <2>3, <2>4, <2>5, <3>1, <3>2
  <2> QED BY <1>5, <2>1, <2>6, <2>7
<1> HIDE DEF q1, q0
<1>7. Candidate(Base, dn, Base + v, Cap - (Base + v) * dn, u1, u0, q1, q0)
  BY <1>2, <1>3, <1>6 DEF Candidate
<1>8. CandidateIsNear(Base, dn, q0, x)
  BY <1>7, CandidateRest
<1>9. /\ x \in Int /\ -dn <= x /\ q0 - Base < x
      /\ x < Base - dn \/ x < q0
  BY <1>8 DEF CandidateIsNear
<1>10. W = (q1 + 1) * dn + x /\ W \in Int /\ W < dn * Base /\ (q1 + 1) * dn \in Int
  <2>1. u1 * Base <= (dn - 1) * Base
    BY <1>3
  <2>2. (dn - 1) * Base = dn * Base - Base /\ dn * Base \in Int /\ u1 * Base \in Int
    BY <1>3
  <2>3. (q1 + 1) * dn \in Int
    BY <1>3, <1>6
  <2> QED BY <1>3, <2>1, <2>2, <2>3
<1>11. q1 + 1 = Base * j + qh /\ qh \in 0..(Base - 1) /\ j \in Int
  BY <1>3, <1>6, DivMod
<1>12. r = IF x >= 0 THEN x ELSE x + Base
  <2> DEFINE a == u0 - qh * dn
             m == j * dn - u1
  <2> HIDE DEF qh, j
  <2>1. a \in Int /\ m \in Int
    BY <1>3, <1>11
  <2>2. (q1 + 1) * dn = Base * (j * dn) + qh * dn
    <3>1. (q1 + 1) * dn = (Base * j + qh) * dn
      BY <1>11
    <3>2. (Base * j + qh) * dn = Base * (j * dn) + qh * dn
      BY <1>3, <1>11
    <3> QED BY <3>1, <3>2
  <2>3. Base * m = Base * (j * dn) - u1 * Base
    BY <1>3, <1>11
  <2>4. qh * dn \in Int /\ Base * (j * dn) \in Int /\ u1 * Base \in Int
    BY <1>3, <1>11
  <2>5. x = u1 * Base + u0 - (q1 + 1) * dn
    OBVIOUS
  <2> HIDE DEF m, x
  <2>6. a = Base * m + x
    <3>1. x = u1 * Base + u0 - (Base * (j * dn) + qh * dn)
      BY <2>2, <2>5
    <3> QED BY <1>3, <2>3, <2>4, <3>1
  <2>7. -Base < x /\ x < Base
    BY <1>3, <1>6, <1>9
  <2>8. r = a % Base
    OBVIOUS
  <2> HIDE DEF a
  <2> QED BY <1>9, <2>1, <2>6, <2>7, <2>8, Wrapped
<1> HIDE DEF x, W, r
<1>13. CASE x >= 0
  <2>1. r = x
    BY <1>12, <1>13
  <2>2. q1 + 1 <= Base - 1
    <3>1. (q1 + 1) * dn < dn * Base /\ dn * Base \in Int
      BY <1>3, <1>10, <1>9, <1>13
    <3>2. q1 + 1 >= Base => (q1 + 1) * dn >= dn * Base
      BY <1>3, <1>6
    <3> QED BY <1>3, <1>6, <1>10, <3>1, <3>2
  <2>3. qh = q1 + 1
    <3>1. q1 + 1 \in 0..(Base - 1)
      BY <1>3, <1>6, <2>2
    <3> QED BY <1>3, <3>1, DivModUnique
  <2> HIDE DEF qh
  <2>4. CASE r > q0
    <3>1. x < Base - dn
      BY <1>6, <1>9, <2>1, <2>4
    <3>2. (r + dn) % Base = x + dn
      <4>1. x + dn \in 0..(Base - 1)
        BY <1>3, <1>9, <1>13, <3>1
      <4> QED BY <1>3, <2>1, <4>1, DivModUnique
    <3>3. (qh - 1) % Base = q1
      <4>1. q1 \in 0..(Base - 1) /\ qh - 1 = q1
        BY <1>3, <1>6, <2>2, <2>3
      <4> QED BY <1>3, <4>1, DivModUnique
    <3>4. (q1 + 1) % Base = q1 + 1
      BY <2>3 DEF qh
    <3>5. ra = x + dn /\ qa = q1
      BY <2>4, <3>2, <3>3
    <3> HIDE DEF ra, qa
    <3>6. ra >= dn /\ ra - dn = x
      BY <1>3, <1>9, <1>13, <3>5
    <3>7. e.quo = q1 + 1 /\ e.rem = x
      BY <1>1, <3>4, <3>5, <3>6
    <3>8. x < dn /\ x \in U64 /\ q1 + 1 \in U64
      BY <1>3, <1>6, <1>9, <1>13, <2>2, <3>1
    <3> QED BY <1>10, <3>7, <3>8
  <2>5. CASE ~(r > q0)
    <3>1. ra = x /\ qa = q1 + 1
      BY <2>1, <2>3, <2>5
    <3> HIDE DEF ra, qa
    <3>2. CASE x >= dn
      <4>1. x - dn < dn /\ x - dn >= 0
        BY <1>3, <1>6, <1>9, <3>2
      <4>2. (q1 + 2) * dn + (x - dn) = W
        <5>1. (q1 + 2) * dn = (q1 + 1) * dn + dn
          BY <1>3, <1>6
        <5> QED BY <1>3, <1>9, <1>10, <5>1
      <4>3. q1 + 2 <= Base - 1
        <5>1. (q1 + 2) * dn < dn * Base /\ dn * Base \in Int /\ (q1 + 2) * dn \in Int
          BY <1>3, <1>6, <1>9, <1>10, <4>1, <4>2
        <5>2. q1 + 2 >= Base => (q1 + 2) * dn >= dn * Base
          BY <1>3, <1>6
        <5> QED BY <1>3, <1>6, <5>1, <5>2
      <4>4. (qa + 1) % Base = q1 + 2
        <5>1. q1 + 2 \in 0..(Base - 1) /\ qa + 1 = q1 + 2
          BY <1>3, <1>6, <3>1, <4>3
        <5> QED BY <1>3, <5>1, DivModUnique
      <4>5. e.quo = q1 + 2 /\ e.rem = x - dn
        BY <1>1, <3>1, <3>2, <4>4
      <4>6. q1 + 2 \in U64 /\ x - dn \in U64
        BY <1>3, <1>6, <1>9, <4>1, <4>3
      <4> QED BY <4>1, <4>2, <4>5, <4>6
    <3>3. CASE x < dn
      <4>1. ~(ra >= dn)
        BY <1>3, <1>9, <3>1, <3>3
      <4>2. e.quo = q1 + 1 /\ e.rem = x
        BY <1>1, <3>1, <4>1
      <4>3. q1 + 1 \in U64 /\ x \in U64
        BY <1>3, <1>6, <1>9, <1>13, <2>2, <3>3
      <4> QED BY <1>10, <3>3, <4>2, <4>3
    <3> QED BY <1>3, <1>9, <3>2, <3>3
  <2> QED BY <2>4, <2>5
<1>14. CASE x < 0
  <2>1. r = x + Base /\ r > q0
    BY <1>3, <1>6, <1>9, <1>12, <1>14
  <2>2. q1 \in 0..(Base - 1)
    <3>1. x + dn >= 0 /\ x + dn < dn
      BY <1>3, <1>9, <1>14
    <3>2. q1 * dn = (q1 + 1) * dn - dn
      BY <1>3, <1>6
    <3>3. q1 * dn < dn * Base /\ dn * Base \in Int /\ q1 * dn \in Int
      BY <1>3, <1>6, <1>9, <1>10, <3>1, <3>2
    <3>4. q1 >= Base => q1 * dn >= dn * Base
      BY <1>3, <1>6
    <3> QED BY <1>3, <1>6, <3>3, <3>4
  <2>3. (qh - 1) % Base = q1
    <3>1. qh - 1 = Base * (-j) + q1 /\ qh - 1 \in Int /\ -j \in Int
      <4> HIDE DEF qh, j
      <4>1. Base * (-j) = -(Base * j) /\ Base * j \in Int
        BY <1>3, <1>11
      <4> QED BY <1>3, <1>6, <1>11, <4>1
    <3> HIDE DEF qh, j
    <3> QED BY <1>3, <2>2, <3>1, DivModUnique
  <2>4. (r + dn) % Base = x + dn
    <3> DEFINE a == r + dn
               y == x + dn
    <3>1. y \in 0..(Base - 1) /\ a = Base * 1 + y /\ a \in Int /\ 1 \in Int
      BY <1>3, <1>9, <1>14, <2>1
    <3> HIDE DEF a, y
    <3>2. a % Base = y
      BY <1>3, <3>1, DivModUnique
    <3> QED BY <3>2 DEF a, y
  <2>5. ra = x + dn /\ qa = q1
    BY <2>1, <2>3, <2>4
  <2> HIDE DEF ra, qa, qh
  <2>6. ~(ra >= dn)
    BY <1>3, <1>9, <1>14, <2>5
  <2>7. e.quo = q1 /\ e.rem = x + dn
    BY <1>1, <2>5, <2>6
  <2>8. q1 * dn + (x + dn) = W
    <3>1. q1 * dn = (q1 + 1) * dn - dn
      BY <1>3, <1>6
    <3> QED BY <1>3, <1>9, <1>10, <3>1
  <2>9. x + dn \in U64 /\ x + dn < dn /\ q1 \in U64
    BY <1>3, <1>9, <1>14, <2>2
  <2> QED BY <2>7, <2>8, <2>9
<1> QED
  BY <1>9, <1>13, <1>14

----------------------------------------------------------------------------
(* Shifts.  A word shifted left by s bits is a word that is kept and the   *)
(* bits that are shifted out, which fit into the s bits a neighbour frees. *)
LEMMA ShiftFactors ==
  ASSUME NEW s \in 0..(WordBits - 1)
  PROVE  /\ Two(s) \in Nat \ {0} /\ Two(WordBits - s) \in Nat \ {0}
         /\ Two(s) * Two(WordBits - s) = Base
         /\ Two(WordBits - s) >= 2 /\ Two(s) < Base
<1>1. WordBits \in Nat /\ Base = Two(WordBits)
  BY WordAssumption DEF Two
<1>2. s \in Nat /\ WordBits - s \in Nat /\ WordBits - s >= 1 /\ s + (WordBits - s) = WordBits
  BY <1>1
<1> DEFINE r == WordBits - s
<1> HIDE DEF r
<1>3. Two(s + r) = Two(s) * Two(r)
  BY <1>2, TwoAdds DEF r
<1>4. /\ Two(s) \in Nat /\ Two(s) >= 1
  <2>1. 0 <= s /\ 0 \in Nat
    BY <1>2
  <2> QED BY <1>2, <2>1, TwoGrows, TwoDoubles
<1>5. Two(r) \in Nat /\ Two(1) <= Two(r)
  <2>1. 1 \in Nat /\ 1 <= r /\ r \in Nat
    BY <1>2 DEF r
  <2> QED BY <2>1, TwoGrows
<1>6. Two(1) = 2
  <2>1. Two(0 + 1) = Two(0) + Two(0) /\ Two(0) = 1 /\ 0 + 1 = 1
    BY TwoDoubles
  <2> QED BY <2>1
<1>7. Two(s) * Two(r) = Base
  BY <1>1, <1>2, <1>3 DEF r
<1>8. Two(s) < Two(s) * Two(r)
  <2> DEFINE a == Two(s)
             b == Two(r)
  <2>1. a \in Nat /\ a >= 1 /\ b \in Nat /\ b >= 2
    BY <1>4, <1>5, <1>6
  <2> HIDE DEF a, b
  <2>2. a * b >= a * 2 /\ a * 2 > a
    BY <2>1
  <2>3. a * b \in Nat
    BY <2>1
  <2> QED BY <2>1, <2>2, <2>3 DEF a, b
<1> QED
  BY <1>4, <1>5, <1>6, <1>7, <1>8 DEF r

Factors(b, t, c) == t \in Nat \ {0} /\ c \in Nat \ {0} /\ b = t * c
LEMMA SplitByFactor ==
  ASSUME NEW t, NEW c, NEW b, Factors(b, t, c), NEW x \in Nat, x < b
  PROVE  /\ x \div c \in 0..(t - 1) /\ (x * t) % b = (x % c) * t
         /\ (x % c) * t \in 0..(b - t)
         /\ x * t = (x \div c) * b + (x % c) * t
<1> USE DEF Factors
<1>1. x \in Int /\ x \div c \in Nat /\ x % c \in 0..(c - 1) /\ x = c * (x \div c) + (x % c)
  <2>1. x \in Int
    OBVIOUS
  <2>2. x \div c \in Nat
    BY DivBelow
  <2> QED BY <2>1, <2>2, DivMod
<1> DEFINE q == x \div c
           r == x % c
<1>2. q < t
  <2>1. x < c * t
    BY DEF q
  <2> QED BY <2>1, DivBelow
<1> HIDE DEF q, r
<1>3. q \in Nat /\ r \in 0..(c - 1) /\ x = c * q + r /\ c \in Int /\ t \in Int
  BY <1>1 DEF q, r
<1>4. r * t <= (c - 1) * t /\ r * t \in Nat
  BY <1>3
<1>5. (c - 1) * t = b - t /\ b \in Nat \ {0}
  <2>1. (c - 1) * t = c * t - t /\ c * t = t * c
    BY <1>3
  <2>2. t * c \in Nat \ {0}
    OBVIOUS
  <2> QED BY <2>1, <2>2
<1>6. x * t = b * q + r * t
  <2>1. x * t = (c * q) * t + r * t
    BY <1>3
  <2>2. (c * q) * t = (t * c) * q
    BY <1>3
  <2> QED BY <2>1, <2>2
<1> DEFINE y == r * t
           z == x * t
<1>7. y \in 0..(b - 1) /\ z \in Int /\ q \in Int
  BY <1>3, <1>4, <1>5
<1> HIDE DEF y, z
<1>8. z = b * q + y
  BY <1>6 DEF y, z
<1>9. z % b = y
  BY <1>5, <1>7, <1>8, DivModUnique
<1>10. b * q = q * b
  BY <1>3, <1>5
<1>11. y \in 0..(b - t)
  BY <1>4, <1>5 DEF y
<1> QED
  BY <1>2, <1>3, <1>8, <1>9, <1>10, <1>11 DEF q, r, y, z

(* The parts of a shifted word.                                            *)
Out(x, s) == Shr(x, WordBits - s)
LEMMA ShiftWord ==
  ASSUME NEW x \in U64, NEW s \in 0..(WordBits - 1)
  PROVE  /\ Out(x, s) \in 0..(Two(s) - 1) /\ Shl(x, s) \in 0..(Base - Two(s))
         /\ x * Two(s) = Out(x, s) * Base + Shl(x, s)
         /\ Out(x, s) \in U64 /\ Shl(x, s) \in U64
<1> DEFINE t == Two(s)
           c == Two(WordBits - s)
<1>1. t \in Nat \ {0} /\ c \in Nat \ {0} /\ Base = t * c /\ t < Base
  BY ShiftFactors
<1>2. x \in Nat /\ x < Base /\ Base \in Nat
  BY WordRange, BaseFacts
<1>3. Out(x, s) = x \div c /\ Shl(x, s) = (x * t) % Base
  BY DEF Out, Shr, Shl, Two
<1> HIDE DEF t, c
<1>4. /\ x \div c \in 0..(t - 1) /\ (x * t) % Base = (x % c) * t
      /\ (x % c) * t \in 0..(Base - t)
      /\ x * t = (x \div c) * Base + (x % c) * t
  <2>1. Factors(Base, t, c)
    BY <1>1 DEF Factors
  <2> QED BY <1>2, <2>1, SplitByFactor
<1>5. 0..(t - 1) \subseteq U64 /\ 0..(Base - t) \subseteq U64
  BY <1>1, <1>2 DEF U64
<1> QED
  BY <1>3, <1>4, <1>5 DEF t

(* hi<<s | lo>>(64-s): the two parts never meet.                           *)
LEMMA FunnelWord ==
  ASSUME NEW hi \in U64, NEW lo \in U64, NEW s \in 0..(WordBits - 1)
  PROVE  Funnel(hi, lo, s) \in U64 /\ Funnel(hi, lo, s) = Shl(hi, s) + Out(lo, s)
<1>1. Funnel(hi, lo, s) = Shl(hi, s) + Out(lo, s)
  BY DEF Funnel, Out
<1>2. /\ Shl(hi, s) \in 0..(Base - Two(s)) /\ Out(lo, s) \in 0..(Two(s) - 1)
      /\ Two(s) \in Nat \ {0} /\ Base \in Nat
  BY ShiftWord, ShiftFactors, BaseFacts
<1> QED
  BY <1>1, <1>2 DEF U64

(* The number of leading zeros brings the top bit to the top.              *)
LEMMA LeadingZerosNormalize ==
  ASSUME NEW x \in U64, x # 0
  PROVE  /\ LeadingZeros(x) \in 0..(WordBits - 1)
         /\ x * Two(LeadingZeros(x)) \in U64
         /\ 2 * (x * Two(LeadingZeros(x))) >= Base
<1> DEFINE T == {n \in 0..(WordBits - 1) : x * Two(n) < Base}
           half == Base \div 2
<1>1. /\ WordBits \in Nat /\ WordBits >= 2 /\ Base = Two(WordBits) /\ Base \in Nat
      /\ x \in Nat /\ x < Base /\ x >= 1
  BY WordAssumption, WordRange DEF Two
<1>2. \A n \in 0..(WordBits - 1) : Two(n) \in Nat \ {0} /\ Two(n + 1) = Two(n) + Two(n) /\ x * Two(n) \in Nat
  <2> TAKE n \in 0..(WordBits - 1)
  <2>1. n \in Nat
    BY <1>1
  <2>2. Two(n) \in Nat \ {0}
    BY ShiftFactors
  <2>3. Two(n + 1) = Two(n) + Two(n)
    BY <2>1, TwoDoubles
  <2> QED BY <1>1, <2>2, <2>3
<1>3. 2 * half = Base
  <2>1. (WordBits - 1) \in 0..(WordBits - 1) /\ (WordBits - 1) + 1 = WordBits
    BY <1>1
  <2>2. Base = Two(WordBits - 1) + Two(WordBits - 1) /\ Two(WordBits - 1) \in Nat
    BY <1>1, <1>2, <2>1
  <2> QED BY <2>2
<1>4. PICK n \in T : \A m \in T : m <= n
  <2>1. 0 \in T
    <3>1. Two(0) = 1 /\ 0 \in 0..(WordBits - 1)
      BY <1>1, TwoDoubles
    <3> QED BY <1>1, <3>1
  <2>2. T \in SUBSET Nat /\ T # {} /\ WordBits \in Nat /\ \A m \in T : m <= WordBits
    BY <1>1, <2>1
  <2> HIDE DEF T
  <2> QED BY <2>2, GreatestNatural
<1>5. x * Two(n) < Base /\ n \in 0..(WordBits - 1) /\ x * Two(n) \in Nat
  BY <1>2, <1>4
<1>6. 2 * (x * Two(n)) >= Base
  <2>1. CASE n = WordBits - 1
    <3>1. Base = Two(n) + Two(n) /\ Two(n) \in Nat
      BY <1>1, <1>2, <1>5, <2>1
    <3> DEFINE p == Two(n)
    <3>2. p \in Nat /\ Base = p + p
      BY <3>1
    <3> HIDE DEF p
    <3>3. x * p >= p /\ x * p \in Nat
      BY <1>1, <3>2
    <3> QED BY <3>2, <3>3 DEF p
  <2>2. CASE n # WordBits - 1
    <3>1. n + 1 \in 0..(WordBits - 1) /\ ~(n + 1 <= n)
      BY <1>1, <1>5, <2>2
    <3>2. ~(x * Two(n + 1) < Base)
      BY <1>4, <3>1
    <3>3. x * Two(n + 1) = 2 * (x * Two(n)) /\ x * Two(n + 1) \in Nat
      <4> DEFINE p == Two(n)
      <4>1. p \in Nat /\ Two(n + 1) = p + p
        BY <1>2, <1>5
      <4> HIDE DEF p
      <4>2. x * (p + p) = 2 * (x * p) /\ x * (p + p) \in Nat
        BY <1>1, <4>1
      <4> QED BY <4>1, <4>2 DEF p
    <3> QED BY <1>1, <1>5, <3>2, <3>3
  <2> QED BY <2>1, <2>2
<1>7. \A m \in 0..(WordBits - 1) :
        x * Two(m) \in half..(Base - 1) <=> (x * Two(m) < Base /\ 2 * (x * Two(m)) >= Base)
  <2> TAKE m \in 0..(WordBits - 1)
  <2> DEFINE y == x * Two(m)
  <2>1. y \in Nat
    BY <1>2
  <2> HIDE DEF y
  <2>2. half \in Int
    BY <1>1
  <2> HIDE DEF half
  <2>3. y \in half..(Base - 1) <=> (y < Base /\ 2 * y >= Base)
    BY <1>1, <1>3, <2>1, <2>2
  <2> QED BY <2>3 DEF y
<1>8. LeadingZeros(x) = CHOOSE m \in 0..(WordBits - 1) : x * Two(m) \in half..(Base - 1)
  BY DEF LeadingZeros, Two
<1>9. \E m \in 0..(WordBits - 1) : x * Two(m) \in half..(Base - 1)
  <2> HIDE DEF half
  <2> QED BY <1>5, <1>6, <1>7
<1>10. LeadingZeros(x) \in 0..(WordBits - 1) /\ x * Two(LeadingZeros(x)) \in half..(Base - 1)
  <2> HIDE DEF half
  <2> QED BY <1>8, <1>9
<1>11. x * Two(LeadingZeros(x)) < Base /\ 2 * (x * Two(LeadingZeros(x))) >= Base
       /\ x * Two(LeadingZeros(x)) \in Nat
  <2> HIDE DEF half
  <2> QED BY <1>2, <1>7, <1>10
<1> QED
  BY <1>1, <1>10, <1>11 DEF U64

(* The straight-line kernels on two limbs answer what Words states.        *)
LEMMA PairArithmetic ==
  ASSUME NEW uu \in Limbs128, NEW v \in Limbs128
  PROVE  /\ Val128(AddLimbs(uu, v).val) = Add128(Val128(uu), Val128(v)).val
         /\ AddLimbs(uu, v).carry = Add128(Val128(uu), Val128(v)).carry
         /\ Val128(SubLimbs(uu, v).val) = Sub128(Val128(uu), Val128(v)).val
         /\ SubLimbs(uu, v).borrow = Sub128(Val128(uu), Val128(v)).borrow
         /\ CmpLimbs(uu, v) = Cmp128(Val128(uu), Val128(v))
<1> DEFINE a == Val128(uu)
           b == Val128(v)
<1>1. a \in 0..(Cap - 1) /\ b \in 0..(Cap - 1)
  BY ValRange
<1>2. /\ Val128(AddLimbs(uu, v).val) = a + b - AddLimbs(uu, v).carry * Cap
      /\ AddLimbs(uu, v).carry \in 0..1
      /\ Val128(AddLimbs(uu, v).val) \in 0..(Cap - 1)
  BY AddLimbsExact, ValRange
<1>3. /\ Val128(SubLimbs(uu, v).val) = a - b + SubLimbs(uu, v).borrow * Cap
      /\ SubLimbs(uu, v).borrow \in 0..1 /\ SubLimbs(v, uu).borrow \in 0..1
      /\ Val128(SubLimbs(uu, v).val) \in 0..(Cap - 1)
  BY SubLimbsExact, ValRange
<1>4. /\ SubLimbs(uu, v).borrow = 1 <=> a < b
      /\ SubLimbs(v, uu).borrow = 1 <=> b < a
  BY LessNegExact
<1>5. Cap \in Nat /\ Cap >= 16
  BY CapFacts
<1>6. CmpLimbs(uu, v) = SubLimbs(v, uu).borrow - SubLimbs(uu, v).borrow
  BY DEF CmpLimbs
<1> DEFINE c == AddLimbs(uu, v).carry
           s == Val128(AddLimbs(uu, v).val)
           e == SubLimbs(uu, v).borrow
           d == Val128(SubLimbs(uu, v).val)
           f == SubLimbs(v, uu).borrow
<1> HIDE DEF a, b, c, s, e, d, f
<1>7. (c = 0 /\ s = a + b) \/ (c = 1 /\ s = a + b - Cap)
  <2>1. (c = 0 \/ c = 1) /\ s = a + b - c * Cap
    BY <1>2 DEF c, s
  <2>2. 0 * Cap = 0 /\ 1 * Cap = Cap /\ a \in Int /\ b \in Int
    BY <1>1, <1>5
  <2> QED BY <2>1, <2>2
<1>8. (e = 0 /\ d = a - b) \/ (e = 1 /\ d = a - b + Cap)
  <2>1. (e = 0 \/ e = 1) /\ d = a - b + e * Cap
    BY <1>3 DEF e, d
  <2>2. 0 * Cap = 0 /\ 1 * Cap = Cap /\ a \in Int /\ b \in Int
    BY <1>1, <1>5
  <2> QED BY <2>1, <2>2
<1>9. s \in 0..(Cap - 1) /\ d \in 0..(Cap - 1) /\ e \in 0..1 /\ f \in 0..1
  BY <1>2, <1>3 DEF s, d, e, f
<1>10. s = Add128(a, b).val /\ c = Add128(a, b).carry
  BY <1>1, <1>5, <1>7, <1>9 DEF Add128
<1>11. d = Sub128(a, b).val /\ e = Sub128(a, b).borrow
  BY <1>1, <1>5, <1>8, <1>9 DEF Sub128
<1>12. f - e = Cmp128(a, b)
  <2>1. (e = 1 <=> a < b) /\ (f = 1 <=> b < a)
    BY <1>4 DEF e, f
  <2> QED BY <1>1, <1>5, <1>9, <2>1 DEF Cmp128, Sign3
<1> QED
  BY <1>6, <1>10, <1>11, <1>12 DEF a, b, c, s, d, e, f

LEMMA SmallPairs ==
  /\ U(0, 0) \in Limbs128 /\ U(0, 1) \in Limbs128
  /\ Val128(U(0, 0)) = 0 /\ Val128(U(0, 1)) = 1
<1>1. 0 \in U64 /\ 1 \in U64 /\ Base \in Nat
  BY BaseFacts
<1>2. Val128(U(0, 0)) = 0 * Base + 0 /\ Val128(U(0, 1)) = 0 * Base + 1
  BY <1>1, PairRange
<1> QED
  BY <1>1, <1>2, PairRange

LEMMA PairSteps ==
  ASSUME NEW uu \in Limbs128
  PROVE  Val128(NegLimbs(uu)) = Neg128(Val128(uu)) /\ Val128(IncLimbs(uu)) = Inc128(Val128(uu))
  BY PairArithmetic, SmallPairs DEF NegLimbs, IncLimbs, Neg128, Inc128

(* Numbers of four limbs.                                                  *)
LEMMA QuadRange ==
  ASSUME NEW q \in Limbs256
  PROVE  /\ q.d3 \in U64 /\ q.d2 \in U64 /\ q.d1 \in U64 /\ q.d0 \in U64
         /\ Hi128(q) \in Limbs128 /\ Lo128(q) \in Limbs128
         /\ Val128(Hi128(q)) = q.d3 * Base + q.d2 /\ Val128(Lo128(q)) = q.d1 * Base + q.d0
         /\ Val256(q) = Val128(Hi128(q)) * Cap + Val128(Lo128(q))
         /\ Val256(q) \in 0..(Wide - 1)
         /\ Val256(q) \div Cap = Val128(Hi128(q)) /\ Val256(q) % Cap = Val128(Lo128(q))
<1>1. q.d3 \in U64 /\ q.d2 \in U64 /\ q.d1 \in U64 /\ q.d0 \in U64
  BY DEF Limbs256
<1>2. /\ Hi128(q) \in Limbs128 /\ Lo128(q) \in Limbs128
      /\ Val128(Hi128(q)) = q.d3 * Base + q.d2 /\ Val128(Lo128(q)) = q.d1 * Base + q.d0
  BY <1>1, PairRange DEF Hi128, Lo128
<1> DEFINE h == Val128(Hi128(q))
           l == Val128(Lo128(q))
<1>3. h \in 0..(Cap - 1) /\ l \in 0..(Cap - 1)
  BY <1>2, ValRange
<1>4. Val256(q) = h * Cap + l
  BY DEF Val256
<1> HIDE DEF h, l
<1>5. Cap \in Nat \ {0} /\ Wide = Cap * Cap
  BY CapFacts
<1>6. h * Cap + l \in 0..(Wide - 1)
  <2>1. h * Cap <= (Cap - 1) * Cap /\ h * Cap \in Nat /\ (Cap - 1) * Cap = Cap * Cap - Cap
    BY <1>3, <1>5
  <2>2. Cap * Cap \in Nat
    BY <1>5
  <2> QED BY <1>3, <1>5, <2>1, <2>2
<1>7. (h * Cap + l) \div Cap = h /\ (h * Cap + l) % Cap = l
  <2> DEFINE a == h * Cap + l
  <2>1. a \in Int
    BY <1>6
  <2>2. a = Cap * h + l
    BY <1>3, <1>5
  <2> HIDE DEF a
  <2>3. a \div Cap = h /\ a % Cap = l
    BY <1>3, <1>5, <2>1, <2>2, DivModUnique
  <2> QED BY <2>3 DEF a
<1> QED
  BY <1>1, <1>2, <1>4, <1>6, <1>7 DEF h, l

(* The upper two limbs of a sum or difference, with what came from below.  *)
Upper(x1, x0, y1, y0, c) == Add64(x1, y1, Add64(x0, y0, c).carry)
LEMMA CarryPair ==
  ASSUME NEW x1 \in U64, NEW x0 \in U64, NEW y1 \in U64, NEW y0 \in U64, NEW c \in 0..1
  PROVE  /\ Upper(x1, x0, y1, y0, c).sum \in U64 /\ Add64(x0, y0, c).sum \in U64
         /\ Upper(x1, x0, y1, y0, c).carry \in 0..1
         /\ Upper(x1, x0, y1, y0, c).sum * Base + Add64(x0, y0, c).sum
              = (x1 * Base + x0) + (y1 * Base + y0) + c - Upper(x1, x0, y1, y0, c).carry * Cap
<1> DEFINE l == Add64(x0, y0, c)
           h == Add64(x1, y1, l.carry)
<1>1. l.sum \in U64 /\ l.carry \in 0..1 /\ l.carry * Base + l.sum = x0 + y0 + c
  BY AddWords
<1>2. h.sum \in U64 /\ h.carry \in 0..1 /\ h.carry * Base + h.sum = x1 + y1 + l.carry
  <2> HIDE DEF l
  <2> QED BY <1>1, AddWords
<1> DEFINE ls == l.sum
           lc == l.carry
           hs == h.sum
           hc == h.carry
<1>3. /\ ls \in Int /\ lc \in Int /\ hs \in Int /\ hc \in Int /\ c \in Int
      /\ x1 \in Int /\ x0 \in Int /\ y1 \in Int /\ y0 \in Int /\ Base \in Nat /\ Cap = Base * Base
  <2>1. c \in Int /\ lc \in Int /\ hc \in Int
    BY <1>1, <1>2, BitRange
  <2>2. ls \in Int /\ hs \in Int
    BY <1>1, <1>2, WordRange
  <2> QED BY <2>1, <2>2, WordRange, BaseFacts
<1>4. lc * Base + ls = x0 + y0 + c /\ hc * Base + hs = x1 + y1 + lc
  BY <1>1, <1>2
<1> HIDE DEF ls, lc, hs, hc, l, h
<1>5. hs * Base = (x1 + y1 + lc - hc * Base) * Base
  BY <1>3, <1>4
<1>6. (x1 + y1 + lc - hc * Base) * Base = x1 * Base + y1 * Base + lc * Base - hc * (Base * Base)
  BY <1>3
<1>7. hs * Base + ls = (x1 * Base + x0) + (y1 * Base + y0) + c - hc * Cap
  BY <1>3, <1>4, <1>5, <1>6
<1> QED
  BY <1>1, <1>2, <1>7 DEF ls, hs, hc, l, h, Upper

Lower(x1, x0, y1, y0, b) == Sub64(x1, y1, Sub64(x0, y0, b).borrow)
LEMMA BorrowPair ==
  ASSUME NEW x1 \in U64, NEW x0 \in U64, NEW y1 \in U64, NEW y0 \in U64, NEW b \in 0..1
  PROVE  /\ Lower(x1, x0, y1, y0, b).diff \in U64 /\ Sub64(x0, y0, b).diff \in U64
         /\ Lower(x1, x0, y1, y0, b).borrow \in 0..1
         /\ Lower(x1, x0, y1, y0, b).diff * Base + Sub64(x0, y0, b).diff
              = (x1 * Base + x0) - (y1 * Base + y0) - b + Lower(x1, x0, y1, y0, b).borrow * Cap
<1> DEFINE l == Sub64(x0, y0, b)
           h == Sub64(x1, y1, l.borrow)
<1>1. l.diff \in U64 /\ l.borrow \in 0..1 /\ l.diff = x0 - y0 - b + l.borrow * Base
  BY SubWords
<1>2. h.diff \in U64 /\ h.borrow \in 0..1 /\ h.diff = x1 - y1 - l.borrow + h.borrow * Base
  <2> HIDE DEF l
  <2> QED BY <1>1, SubWords
<1> DEFINE ls == l.diff
           lc == l.borrow
           hs == h.diff
           hc == h.borrow
<1>3. /\ ls \in Int /\ lc \in Int /\ hs \in Int /\ hc \in Int /\ b \in Int
      /\ x1 \in Int /\ x0 \in Int /\ y1 \in Int /\ y0 \in Int /\ Base \in Nat /\ Cap = Base * Base
  BY <1>1, <1>2, WordRange, BaseFacts
<1>4. ls = x0 - y0 - b + lc * Base /\ hs = x1 - y1 - lc + hc * Base
  BY <1>1, <1>2
<1> HIDE DEF ls, lc, hs, hc, l, h
<1>5. hs * Base = (x1 - y1 - lc + hc * Base) * Base
  BY <1>3, <1>4
<1>6. (x1 - y1 - lc + hc * Base) * Base = x1 * Base - y1 * Base - lc * Base + hc * (Base * Base)
  BY <1>3
<1>7. hs * Base + ls = (x1 * Base + x0) - (y1 * Base + y0) - b + hc * Cap
  BY <1>3, <1>4, <1>5, <1>6
<1> QED
  BY <1>1, <1>2, <1>7 DEF ls, hs, hc, l, h, Lower

(* A number of four limbs from its halves.                                 *)
LEMMA QuadOf ==
  ASSUME NEW a \in U64, NEW b \in U64, NEW c \in U64, NEW d \in U64
  PROVE  /\ Q(a, b, c, d) \in Limbs256
         /\ Val256(Q(a, b, c, d)) = (a * Base + b) * Cap + (c * Base + d)
         /\ Val256(Q(a, b, c, d)) \in 0..(Wide - 1)
<1>1. Q(a, b, c, d) \in Limbs256
  BY DEF Q, Limbs256
<1>2. /\ Q(a, b, c, d).d3 = a /\ Q(a, b, c, d).d2 = b
      /\ Q(a, b, c, d).d1 = c /\ Q(a, b, c, d).d0 = d
  BY DEF Q
<1> QED
  BY <1>1, <1>2, QuadRange

LEMMA AddQuadsExact ==
  ASSUME NEW uu \in Limbs256, NEW v \in Limbs256
  PROVE  /\ AddQuads(uu, v).val \in Limbs256 /\ AddQuads(uu, v).carry \in 0..1
         /\ Val256(AddQuads(uu, v).val)
              = Val256(uu) + Val256(v) - AddQuads(uu, v).carry * Wide
<1> DEFINE lo == AddLimbs(Lo128(uu), Lo128(v))
           d2 == Add64(uu.d2, v.d2, lo.carry)
           d3 == Add64(uu.d3, v.d3, d2.carry)
<1>1. /\ lo.val \in Limbs128 /\ lo.carry \in 0..1
      /\ Val128(lo.val) = Val128(Lo128(uu)) + Val128(Lo128(v)) - lo.carry * Cap
  BY QuadRange, AddLimbsExact
<1>2. lo.val.hi \in U64 /\ lo.val.lo \in U64 /\ Val128(lo.val) = lo.val.hi * Base + lo.val.lo
  BY <1>1, ValRange
<1> HIDE DEF lo
<1>3. /\ d3.sum \in U64 /\ d2.sum \in U64 /\ d3.carry \in 0..1
      /\ d3.sum * Base + d2.sum
           = Val128(Hi128(uu)) + Val128(Hi128(v)) + lo.carry - d3.carry * Cap
  <2>1. /\ uu.d3 \in U64 /\ uu.d2 \in U64 /\ v.d3 \in U64 /\ v.d2 \in U64
        /\ Val128(Hi128(uu)) = uu.d3 * Base + uu.d2 /\ Val128(Hi128(v)) = v.d3 * Base + v.d2
    BY QuadRange
  <2>2. /\ d3.sum \in U64 /\ d2.sum \in U64 /\ d3.carry \in 0..1
        /\ d3.sum * Base + d2.sum
             = (uu.d3 * Base + uu.d2) + (v.d3 * Base + v.d2) + lo.carry - d3.carry * Cap
    <3>1. d3 = Upper(uu.d3, uu.d2, v.d3, v.d2, lo.carry)
      BY DEF Upper
    <3> HIDE DEF d2, d3
    <3>2. d2 = Add64(uu.d2, v.d2, lo.carry)
      BY DEF d2
    <3> DEFINE a1 == uu.d3
               a0 == uu.d2
               b1 == v.d3
               b0 == v.d2
               c0 == lo.carry
    <3>3. a1 \in U64 /\ a0 \in U64 /\ b1 \in U64 /\ b0 \in U64 /\ c0 \in 0..1
      BY <1>1, <2>1
    <3> HIDE DEF a1, a0, b1, b0, c0
    <3>4. /\ Upper(a1, a0, b1, b0, c0).sum \in U64 /\ Add64(a0, b0, c0).sum \in U64
          /\ Upper(a1, a0, b1, b0, c0).carry \in 0..1
          /\ Upper(a1, a0, b1, b0, c0).sum * Base + Add64(a0, b0, c0).sum
               = (a1 * Base + a0) + (b1 * Base + b0) + c0 - Upper(a1, a0, b1, b0, c0).carry * Cap
      BY <3>3, CarryPair, Z3
    <3> QED BY <3>1, <3>2, <3>4 DEF a1, a0, b1, b0, c0
  <2> QED BY <2>1, <2>2
<1>4. AddQuads(uu, v) = [val |-> Q(d3.sum, d2.sum, lo.val.hi, lo.val.lo), carry |-> d3.carry]
  BY DEF AddQuads, lo
<1> DEFINE h == d3.sum * Base + d2.sum
           l == Val128(lo.val)
           c0 == lo.carry
           c3 == d3.carry
           hu == Val128(Hi128(uu))
           hv == Val128(Hi128(v))
           lu == Val128(Lo128(uu))
           lv == Val128(Lo128(v))
<1> HIDE DEF d2, d3
<1>5. /\ AddQuads(uu, v).val \in Limbs256 /\ AddQuads(uu, v).carry = c3
      /\ Val256(AddQuads(uu, v).val) = h * Cap + l
  BY <1>2, <1>3, <1>4, QuadOf
<1>6. /\ hu \in Nat /\ hv \in Nat /\ lu \in Nat /\ lv \in Nat /\ Cap \in Nat
      /\ c0 \in Int /\ c3 \in Int /\ Wide = Cap * Cap
  <2>1. Cap \in Nat /\ Wide = Cap * Cap /\ 0..(Cap - 1) \subseteq Nat
    BY CapFacts
  <2>2. c0 \in Int /\ c3 \in Int
    BY <1>1, <1>3, BitRange
  <2>3. /\ hu \in 0..(Cap - 1) /\ hv \in 0..(Cap - 1)
        /\ lu \in 0..(Cap - 1) /\ lv \in 0..(Cap - 1)
    BY QuadRange, ValRange
  <2> QED BY <2>1, <2>2, <2>3
<1>7. Val256(uu) = hu * Cap + lu /\ Val256(v) = hv * Cap + lv
  BY QuadRange
<1>8. h = hu + hv + c0 - c3 * Cap /\ l = lu + lv - c0 * Cap
  BY <1>1, <1>3
<1> HIDE DEF h, l, c0, c3, hu, hv, lu, lv
<1>9. h * Cap = hu * Cap + hv * Cap + c0 * Cap - c3 * (Cap * Cap)
  BY <1>6, <1>8
<1> QED
  BY <1>3, <1>5, <1>6, <1>7, <1>8, <1>9 DEF c3

LEMMA SubQuadsExact ==
  ASSUME NEW uu \in Limbs256, NEW v \in Limbs256
  PROVE  /\ SubQuads(uu, v).val \in Limbs256 /\ SubQuads(uu, v).borrow \in 0..1
         /\ Val256(SubQuads(uu, v).val)
              = Val256(uu) - Val256(v) + SubQuads(uu, v).borrow * Wide
<1> DEFINE lo == SubLimbs(Lo128(uu), Lo128(v))
           d2 == Sub64(uu.d2, v.d2, lo.borrow)
           d3 == Sub64(uu.d3, v.d3, d2.borrow)
<1>1. /\ lo.val \in Limbs128 /\ lo.borrow \in 0..1
      /\ Val128(lo.val) = Val128(Lo128(uu)) - Val128(Lo128(v)) + lo.borrow * Cap
  BY QuadRange, SubLimbsExact
<1>2. lo.val.hi \in U64 /\ lo.val.lo \in U64 /\ Val128(lo.val) = lo.val.hi * Base + lo.val.lo
  BY <1>1, ValRange
<1> HIDE DEF lo
<1>3. /\ d3.diff \in U64 /\ d2.diff \in U64 /\ d3.borrow \in 0..1
      /\ d3.diff * Base + d2.diff
           = Val128(Hi128(uu)) - Val128(Hi128(v)) - lo.borrow + d3.borrow * Cap
  <2>1. /\ uu.d3 \in U64 /\ uu.d2 \in U64 /\ v.d3 \in U64 /\ v.d2 \in U64
        /\ Val128(Hi128(uu)) = uu.d3 * Base + uu.d2 /\ Val128(Hi128(v)) = v.d3 * Base + v.d2
    BY QuadRange
  <2>2. /\ d3.diff \in U64 /\ d2.diff \in U64 /\ d3.borrow \in 0..1
        /\ d3.diff * Base + d2.diff
             = (uu.d3 * Base + uu.d2) - (v.d3 * Base + v.d2) - lo.borrow + d3.borrow * Cap
    <3>1. d3 = Lower(uu.d3, uu.d2, v.d3, v.d2, lo.borrow)
      BY DEF Lower
    <3> HIDE DEF d2, d3
    <3>2. d2 = Sub64(uu.d2, v.d2, lo.borrow)
      BY DEF d2
    <3> DEFINE a1 == uu.d3
               a0 == uu.d2
               b1 == v.d3
               b0 == v.d2
               c0 == lo.borrow
    <3>3. a1 \in U64 /\ a0 \in U64 /\ b1 \in U64 /\ b0 \in U64 /\ c0 \in 0..1
      BY <1>1, <2>1
    <3> HIDE DEF a1, a0, b1, b0, c0
    <3>4. /\ Lower(a1, a0, b1, b0, c0).diff \in U64 /\ Sub64(a0, b0, c0).diff \in U64
          /\ Lower(a1, a0, b1, b0, c0).borrow \in 0..1
          /\ Lower(a1, a0, b1, b0, c0).diff * Base + Sub64(a0, b0, c0).diff
               = (a1 * Base + a0) - (b1 * Base + b0) - c0 + Lower(a1, a0, b1, b0, c0).borrow * Cap
      BY <3>3, BorrowPair, Z3
    <3> QED BY <3>1, <3>2, <3>4 DEF a1, a0, b1, b0, c0
  <2> QED BY <2>1, <2>2
<1>4. SubQuads(uu, v) = [val |-> Q(d3.diff, d2.diff, lo.val.hi, lo.val.lo), borrow |-> d3.borrow]
  BY DEF SubQuads, lo
<1> DEFINE h == d3.diff * Base + d2.diff
           l == Val128(lo.val)
           c0 == lo.borrow
           c3 == d3.borrow
           hu == Val128(Hi128(uu))
           hv == Val128(Hi128(v))
           lu == Val128(Lo128(uu))
           lv == Val128(Lo128(v))
<1> HIDE DEF d2, d3
<1>5. /\ SubQuads(uu, v).val \in Limbs256 /\ SubQuads(uu, v).borrow = c3
      /\ Val256(SubQuads(uu, v).val) = h * Cap + l
  BY <1>2, <1>3, <1>4, QuadOf
<1>6. /\ hu \in Nat /\ hv \in Nat /\ lu \in Nat /\ lv \in Nat /\ Cap \in Nat
      /\ c0 \in Int /\ c3 \in Int /\ Wide = Cap * Cap
  <2>1. Cap \in Nat /\ Wide = Cap * Cap /\ 0..(Cap - 1) \subseteq Nat
    BY CapFacts
  <2>2. c0 \in Int /\ c3 \in Int
    BY <1>1, <1>3, BitRange
  <2>3. /\ hu \in 0..(Cap - 1) /\ hv \in 0..(Cap - 1)
        /\ lu \in 0..(Cap - 1) /\ lv \in 0..(Cap - 1)
    BY QuadRange, ValRange
  <2> QED BY <2>1, <2>2, <2>3
<1>7. Val256(uu) = hu * Cap + lu /\ Val256(v) = hv * Cap + lv
  BY QuadRange
<1>8. h = hu - hv - c0 + c3 * Cap /\ l = lu - lv + c0 * Cap
  BY <1>1, <1>3
<1> HIDE DEF h, l, c0, c3, hu, hv, lu, lv
<1>9. h * Cap = hu * Cap - hv * Cap - c0 * Cap + c3 * (Cap * Cap)
  BY <1>6, <1>8
<1> QED
  BY <1>3, <1>5, <1>6, <1>7, <1>8, <1>9 DEF c3

(* The straight-line kernels on four limbs answer what Words states.       *)
LEMMA QuadArithmetic ==
  ASSUME NEW uu \in Limbs256, NEW v \in Limbs256
  PROVE  /\ Val256(AddQuads(uu, v).val) = Add256(Val256(uu), Val256(v))
         /\ AddQuads(uu, v).carry = IF Val256(uu) + Val256(v) < Wide THEN 0 ELSE 1
         /\ Val256(SubQuads(uu, v).val) = (Val256(uu) - Val256(v)) % Wide
         /\ SubQuads(uu, v).borrow = IF Val256(uu) < Val256(v) THEN 1 ELSE 0
<1> DEFINE a == Val256(uu)
           b == Val256(v)
           s == Val256(AddQuads(uu, v).val)
           d == Val256(SubQuads(uu, v).val)
           c == AddQuads(uu, v).carry
           e == SubQuads(uu, v).borrow
<1>1. Wide \in Nat \ {0}
  BY CapFacts
<1>2. a \in 0..(Wide - 1) /\ b \in 0..(Wide - 1)
  BY QuadRange
<1>3. s \in 0..(Wide - 1) /\ d \in 0..(Wide - 1)
  BY AddQuadsExact, SubQuadsExact, QuadRange
<1>4. (c = 0 \/ c = 1) /\ s = a + b - c * Wide
  BY AddQuadsExact
<1>5. (e = 0 \/ e = 1) /\ d = a - b + e * Wide
  BY SubQuadsExact
<1> HIDE DEF a, b, s, d, c, e
<1>6. 0 * Wide = 0 /\ 1 * Wide = Wide /\ a \in Int /\ b \in Int
  BY <1>1, <1>2
<1>7. (c = 0 /\ s = a + b) \/ (c = 1 /\ s = a + b - Wide)
  BY <1>4, <1>6
<1>8. (e = 0 /\ d = a - b) \/ (e = 1 /\ d = a - b + Wide)
  BY <1>5, <1>6
<1>9. s = Add256(a, b) /\ c = IF a + b < Wide THEN 0 ELSE 1
  BY <1>1, <1>2, <1>3, <1>7 DEF Add256
<1>10. e = IF a < b THEN 1 ELSE 0
  BY <1>1, <1>2, <1>3, <1>8
<1>11. d = (a - b) % Wide
  <2> DEFINE x == a - b
             q == 0 - e
  <2>1. x \in Int /\ q \in Int /\ x = Wide * q + d
    BY <1>1, <1>6, <1>8
  <2> HIDE DEF x, q
  <2>2. x % Wide = d
    BY <1>1, <1>3, <2>1, DivModUnique
  <2> QED BY <2>2 DEF x
<1> QED
  BY <1>9, <1>10, <1>11 DEF a, b, s, d, c, e

LEMMA NegQuadExact ==
  ASSUME NEW uu \in Limbs256
  PROVE  Val256(NegQuad(uu)) = (-Val256(uu)) % Wide
<1>1. Q(0, 0, 0, 0) \in Limbs256 /\ Val256(Q(0, 0, 0, 0)) = 0
  <2>1. 0 \in U64 /\ Base \in Nat /\ Cap \in Nat
    BY BaseFacts
  <2>2. (0 * Base + 0) * Cap + (0 * Base + 0) = 0
    BY <2>1
  <2> QED BY <2>1, <2>2, QuadOf
<1>2. Val256(NegQuad(uu)) = (0 - Val256(uu)) % Wide
  BY <1>1, QuadArithmetic DEF NegQuad
<1>3. Val256(uu) \in Int
  BY QuadRange
<1> QED
  BY <1>2, <1>3

(* The higher part decides.                                                *)
LEMMA HigherDecides ==
  ASSUME NEW m \in Nat \ {0}, NEW a \in Int, NEW b \in 0..(m - 1), NEW c \in Int, NEW d \in 0..(m - 1)
  PROVE  /\ a < c => a * m + b < c * m + d
         /\ c < a => c * m + d < a * m + b
         /\ a = c => (a * m + b) - (c * m + d) = b - d
         /\ a * m \in Int /\ c * m \in Int
<1>1. a * m \in Int /\ c * m \in Int
  OBVIOUS
<1>2. ASSUME a < c PROVE a * m + m <= c * m
  <2>1. (a + 1) * m <= c * m /\ (a + 1) * m = a * m + m
    BY <1>2
  <2> QED BY <2>1
<1>3. ASSUME c < a PROVE c * m + m <= a * m
  <2>1. (c + 1) * m <= a * m /\ (c + 1) * m = c * m + m
    BY <1>3
  <2> QED BY <2>1
<1> QED
  BY <1>1, <1>2, <1>3

LEMMA CmpQuadsExact ==
  ASSUME NEW uu \in Limbs256, NEW v \in Limbs256
  PROVE  CmpQuads(uu, v) = Sign3(Val256(uu) - Val256(v))
<1> DEFINE u3 == uu.d3
           u2 == uu.d2
           u1 == uu.d1
           u0 == uu.d0
           v3 == v.d3
           v2 == v.d2
           v1 == v.d1
           v0 == v.d0
           hu == u3 * Base + u2
           hv == v3 * Base + v2
           lu == u1 * Base + u0
           lv == v1 * Base + v0
           a == hu * Cap + lu
           b == hv * Cap + lv
<1>1. /\ u3 \in 0..(Base - 1) /\ u2 \in 0..(Base - 1) /\ u1 \in 0..(Base - 1) /\ u0 \in 0..(Base - 1)
      /\ v3 \in 0..(Base - 1) /\ v2 \in 0..(Base - 1) /\ v1 \in 0..(Base - 1) /\ v0 \in 0..(Base - 1)
  BY QuadRange DEF U64
<1>2. Val256(uu) = a /\ Val256(v) = b
  BY QuadRange
<1>3. lu \in 0..(Cap - 1) /\ lv \in 0..(Cap - 1)
  <2>1. Val128(Lo128(uu)) \in 0..(Cap - 1) /\ Val128(Lo128(v)) \in 0..(Cap - 1)
    BY QuadRange, ValRange
  <2> QED BY <2>1, QuadRange
<1>4. CmpQuads(uu, v) = CASE u3 # v3 -> Sign3(u3 - v3)
                         [] u3 = v3 /\ u2 # v2 -> Sign3(u2 - v2)
                         [] u3 = v3 /\ u2 = v2 /\ u1 # v1 -> Sign3(u1 - v1)
                         [] u3 = v3 /\ u2 = v2 /\ u1 = v1 -> Sign3(u0 - v0)
  BY DEF CmpQuads
<1> HIDE DEF u3, u2, u1, u0, v3, v2, v1, v0
<1>5. Base \in Nat \ {0} /\ Cap \in Nat \ {0}
  BY BaseFacts, CapFacts
<1>6. u3 \in Int /\ v3 \in Int /\ u1 \in Int /\ v1 \in Int
  BY <1>1, <1>5
<1>7. /\ u3 < v3 => hu < hv
      /\ v3 < u3 => hv < hu
      /\ u3 = v3 => hu - hv = u2 - v2
      /\ hu \in Int /\ hv \in Int
  <2>1. /\ u3 < v3 => hu < hv
        /\ v3 < u3 => hv < hu
        /\ u3 = v3 => hu - hv = u2 - v2
        /\ u3 * Base \in Int /\ v3 * Base \in Int
    BY <1>1, <1>5, <1>6, HigherDecides
  <2> QED BY <1>1, <1>5, <2>1
<1>8. /\ u1 < v1 => lu < lv
      /\ v1 < u1 => lv < lu
      /\ u1 = v1 => lu - lv = u0 - v0
  BY <1>1, <1>5, <1>6, HigherDecides
<1> HIDE DEF hu, hv, lu, lv
<1>9. /\ hu < hv => a < b
      /\ hv < hu => b < a
      /\ hu = hv => a - b = lu - lv
      /\ a \in Int /\ b \in Int
  <2>1. /\ hu < hv => a < b
        /\ hv < hu => b < a
        /\ hu = hv => a - b = lu - lv
        /\ hu * Cap \in Int /\ hv * Cap \in Int
    BY <1>3, <1>5, <1>7, HigherDecides
  <2> QED BY <1>3, <1>5, <2>1
<1> HIDE DEF a, b
<1>10. CASE u3 # v3
  BY <1>1, <1>2, <1>4, <1>5, <1>7, <1>9, <1>10 DEF Sign3
<1>11. CASE u3 = v3 /\ u2 # v2
  BY <1>1, <1>2, <1>4, <1>5, <1>7, <1>9, <1>11 DEF Sign3
<1>12. CASE u3 = v3 /\ u2 = v2 /\ u1 # v1
  BY <1>1, <1>2, <1>3, <1>4, <1>5, <1>7, <1>8, <1>9, <1>12 DEF Sign3
<1>13. CASE u3 = v3 /\ u2 = v2 /\ u1 = v1
  BY <1>1, <1>2, <1>3, <1>4, <1>5, <1>7, <1>8, <1>9, <1>13 DEF Sign3
<1> QED
  BY <1>10, <1>11, <1>12, <1>13

(* Products, limb by limb.                                                 *)
LEMMA Mul128by64Exact ==
  ASSUME NEW uu \in Limbs128, NEW v \in U64
  PROVE  LET p == Mul128by64to192(uu, v)
         IN  /\ p.d2 \in U64 /\ p.d1 \in U64 /\ p.d0 \in U64
             /\ p.d2 * Cap + Val128(U(p.d1, p.d0)) = Val128(uu) * v
             /\ Val128(U(p.d1, p.d0)) = Mul128by64(Val128(uu), v).val
             /\ p.d2 = Mul128by64(Val128(uu), v).overflow
<1> DEFINE low == Mul64(uu.lo, v)
           high == Mul64(uu.hi, v)
           mid == Add64(low.hi, high.lo, 0)
           p == Mul128by64to192(uu, v)
<1>1. uu.hi \in U64 /\ uu.lo \in U64 /\ Val128(uu) = uu.hi * Base + uu.lo
  BY ValRange
<1>2. /\ low.hi \in U64 /\ low.lo \in U64 /\ low.hi * Base + low.lo = uu.lo * v
      /\ high.hi \in U64 /\ high.lo \in U64 /\ high.hi * Base + high.lo = uu.hi * v
      /\ high.hi <= Base - 2
  BY <1>1, MulWords
<1> HIDE DEF low, high
<1>3. /\ mid.sum \in U64 /\ mid.carry \in 0..1
      /\ mid.carry * Base + mid.sum = low.hi + high.lo + 0
  <2>1. 0 \in 0..1
    OBVIOUS
  <2> QED BY <1>2, <2>1, AddWords
<1> HIDE DEF mid
<1>4. p = [d2 |-> (high.hi + mid.carry) % Base, d1 |-> mid.sum, d0 |-> low.lo]
  BY DEF Mul128by64to192, low, high, mid
<1> HIDE DEF p
<1> DEFINE lh == low.hi
           ll == low.lo
           hh == high.hi
           hl == high.lo
           c == mid.carry
           s == mid.sum
           x == uu.hi
           y == uu.lo
           t == hh + c
<1>5. /\ lh \in Int /\ ll \in Int /\ hh \in Int /\ hl \in Int /\ s \in Int /\ x \in Int /\ y \in Int /\ v \in Int
      /\ hh >= 0 /\ c \in 0..1 /\ Base \in Nat \ {0} /\ Cap = Base * Base /\ Cap \in Nat \ {0}
  <2>1. Base \in Nat \ {0} /\ Cap = Base * Base /\ Cap \in Nat \ {0}
    BY BaseFacts, CapFacts
  <2>2. hh >= 0 /\ c \in 0..1
    BY <1>2, <1>3, WordRange
  <2> QED BY <1>1, <1>2, <1>3, <2>1, <2>2, WordRange
<1>6. /\ lh * Base + ll = y * v /\ hh * Base + hl = x * v /\ c * Base + s = lh + hl
      /\ hh <= Base - 2
  <2>1. c * Base + s = lh + hl + 0
    BY <1>3
  <2> QED BY <1>2, <1>5, <2>1
<1>7. p.d2 = t % Base /\ p.d1 = s /\ p.d0 = ll
  BY <1>4
<1> HIDE DEF lh, ll, hh, hl, c, s, x, y
<1>8. t \in 0..(Base - 1) /\ t % Base = t
  BY <1>5, <1>6
<1>9. t * Cap + (s * Base + ll) = (x * Base + y) * v
  <2>1. (x * Base + y) * v = (x * v) * Base + y * v
    BY <1>5
  <2>2. (x * v) * Base = (hh * Base) * Base + hl * Base
    BY <1>5, <1>6
  <2>3. (hh * Base) * Base = hh * Cap /\ t * Cap = hh * Cap + (c * Base) * Base
    BY <1>5
  <2>4. (c * Base) * Base + s * Base = lh * Base + hl * Base
    <3>1. (c * Base + s) * Base = (lh + hl) * Base
      BY <1>6
    <3> QED BY <1>5, <3>1
  <2> DEFINE xv == (x * v) * Base
             yv == y * v
             hb == hh * Cap
             lb == hl * Base
             cb == (c * Base) * Base
             sb == s * Base
             hs == lh * Base
             tc == t * Cap
  <2>5. /\ xv \in Int /\ yv \in Int /\ hb \in Int /\ lb \in Int /\ cb \in Int /\ sb \in Int
        /\ hs \in Int /\ tc \in Int
    BY <1>5
  <2>6. xv = hb + lb /\ tc = hb + cb /\ cb + sb = hs + lb /\ yv = hs + ll
    BY <1>6, <2>2, <2>3, <2>4
  <2> HIDE DEF xv, yv, hb, lb, cb, sb, hs, tc
  <2>7. tc + (sb + ll) = xv + yv
    BY <1>5, <2>5, <2>6
  <2> QED BY <2>1, <2>7 DEF xv, yv, sb, tc
<1> HIDE DEF t
<1>10. /\ p.d2 = t /\ t \in U64 /\ s \in U64 /\ ll \in U64
       /\ Val128(U(s, ll)) = s * Base + ll /\ s * Base + ll \in 0..(Cap - 1)
       /\ Val128(uu) = x * Base + y
  <2>1. t \in U64
    BY <1>8 DEF U64
  <2>2. s \in U64 /\ ll \in U64
    BY <1>2, <1>3 DEF s, ll
  <2> QED BY <1>1, <1>7, <1>8, <2>1, <2>2, PairRange DEF x, y
<1> DEFINE n == Val128(uu) * v
           r == Val128(U(s, ll))
<1>11. n = Cap * t + r /\ n \in Int /\ r \in 0..(Cap - 1) /\ t \in Int
  BY <1>5, <1>8, <1>9, <1>10
<1> HIDE DEF n, r
<1>12. n % Cap = r /\ n \div Cap = t
  BY <1>5, <1>11, DivModUnique
<1>13. Mul128by64(Val128(uu), v) = [val |-> n % Cap, overflow |-> n \div Cap]
  BY DEF Mul128by64, n
<1>14. t * Cap + r = n
  BY <1>5, <1>11
<1> QED
  BY <1>7, <1>10, <1>12, <1>13, <1>14 DEF n, r, p

LEMMA MulToU256Exact ==
  ASSUME NEW uu \in Limbs128, NEW v \in Limbs128
  PROVE  MulToU256(uu, v) \in Limbs256 /\ Val256(MulToU256(uu, v)) = Val128(uu) * Val128(v)
<1> DEFINE ll == Mul64(uu.lo, v.lo)
           hl == Mul64(uu.hi, v.lo)
           lh == Mul64(uu.lo, v.hi)
           hh == Mul64(uu.hi, v.hi)
           d1a == Add64(ll.hi, hl.lo, 0)
           d1b == Add64(d1a.sum, lh.lo, 0)
           d2a == Add64(hl.hi, lh.hi, 0)
           d2b == Add64(d2a.sum, d1a.carry + d1b.carry, 0)
           d2c == Add64(d2b.sum, hh.lo, 0)
           t == hh.hi + d2a.carry + d2b.carry + d2c.carry
<1>1. /\ uu.hi \in U64 /\ uu.lo \in U64 /\ Val128(uu) = uu.hi * Base + uu.lo
      /\ v.hi \in U64 /\ v.lo \in U64 /\ Val128(v) = v.hi * Base + v.lo
      /\ Val128(uu) \in 0..(Cap - 1) /\ Val128(v) \in 0..(Cap - 1)
  BY ValRange
<1>2. /\ ll.hi \in U64 /\ ll.lo \in U64 /\ ll.hi * Base + ll.lo = uu.lo * v.lo
      /\ hl.hi \in U64 /\ hl.lo \in U64 /\ hl.hi * Base + hl.lo = uu.hi * v.lo
      /\ lh.hi \in U64 /\ lh.lo \in U64 /\ lh.hi * Base + lh.lo = uu.lo * v.hi
      /\ hh.hi \in U64 /\ hh.lo \in U64 /\ hh.hi * Base + hh.lo = uu.hi * v.hi
  BY <1>1, MulWords
<1>3. MulToU256(uu, v) = IF uu.hi = 0 /\ v.hi = 0 THEN Q(0, 0, ll.hi, ll.lo)
                        ELSE Q(t % Base, d2c.sum, d1b.sum, ll.lo)
  BY DEF MulToU256
<1> HIDE DEF ll, hl, lh, hh
<1>4. 0 \in 0..1 /\ Base \in Nat /\ Base >= 4
  BY BaseFacts
<1>5. /\ d1a.sum \in U64 /\ d1a.carry \in 0..1
      /\ d1a.carry * Base + d1a.sum = ll.hi + hl.lo + 0
  BY <1>2, <1>4, AddWords
<1> HIDE DEF d1a
<1>6. /\ d1b.sum \in U64 /\ d1b.carry \in 0..1
      /\ d1b.carry * Base + d1b.sum = d1a.sum + lh.lo + 0
  BY <1>2, <1>4, <1>5, AddWords
<1> HIDE DEF d1b
<1>7. /\ d2a.sum \in U64 /\ d2a.carry \in 0..1
      /\ d2a.carry * Base + d2a.sum = hl.hi + lh.hi + 0
  BY <1>2, <1>4, AddWords
<1> HIDE DEF d2a
<1>8. d1a.carry + d1b.carry \in U64
  BY <1>4, <1>5, <1>6 DEF U64
<1>9. /\ d2b.sum \in U64 /\ d2b.carry \in 0..1
      /\ d2b.carry * Base + d2b.sum = d2a.sum + (d1a.carry + d1b.carry) + 0
  BY <1>4, <1>7, <1>8, AddWords
<1> HIDE DEF d2b
<1>10. /\ d2c.sum \in U64 /\ d2c.carry \in 0..1
       /\ d2c.carry * Base + d2c.sum = d2b.sum + hh.lo + 0
  BY <1>2, <1>4, <1>9, AddWords
<1> HIDE DEF d2c
<1> DEFINE B == Base
           uh == uu.hi
           ul == uu.lo
           vh == v.hi
           vl == v.lo
           ll1 == ll.hi
           ll0 == ll.lo
           hl1 == hl.hi
           hl0 == hl.lo
           lh1 == lh.hi
           lh0 == lh.lo
           hh1 == hh.hi
           hh0 == hh.lo
           s1a == d1a.sum
           c1a == d1a.carry
           s1b == d1b.sum
           c1b == d1b.carry
           s2a == d2a.sum
           c2a == d2a.carry
           s2b == d2b.sum
           c2b == d2b.carry
           s2c == d2c.sum
           c2c == d2c.carry
           LL == ul * vl
           HL == uh * vl
           LH == ul * vh
           HH == uh * vh
<1>11. /\ uh \in Int /\ ul \in Int /\ vh \in Int /\ vl \in Int
       /\ ll1 \in Int /\ ll0 \in Int /\ hl1 \in Int /\ hl0 \in Int
       /\ lh1 \in Int /\ lh0 \in Int /\ hh1 \in Int /\ hh0 \in Int /\ hh1 >= 0
  BY <1>1, <1>2, WordRange
<1>12. /\ s1a \in Int /\ s1b \in Int /\ s2a \in Int /\ s2b \in Int /\ s2c \in Int
       /\ s2c >= 0 /\ s1b >= 0 /\ ll0 >= 0
  BY <1>2, <1>5, <1>6, <1>7, <1>9, <1>10, WordRange
<1>13. /\ c1a \in Nat /\ c1b \in Nat /\ c2a \in Nat /\ c2b \in Nat /\ c2c \in Nat
  <2>1. 0..1 \subseteq Nat
    OBVIOUS
  <2> QED BY <1>5, <1>6, <1>7, <1>9, <1>10, <2>1
<1>14. B \in Nat \ {0} /\ Cap = B * B /\ Cap \in Nat
  BY BaseFacts
<1>15. /\ ll1 * B + ll0 = LL /\ hl1 * B + hl0 = HL /\ lh1 * B + lh0 = LH /\ hh1 * B + hh0 = HH
  BY <1>2
<1>16. /\ c1a * B + s1a = ll1 + hl0 + 0 /\ c1b * B + s1b = s1a + lh0 + 0
       /\ c2a * B + s2a = hl1 + lh1 + 0 /\ c2b * B + s2b = s2a + (c1a + c1b) + 0
       /\ c2c * B + s2c = s2b + hh0 + 0
  BY <1>5, <1>6, <1>7, <1>9, <1>10
<1>17. t = hh1 + c2a + c2b + c2c
  OBVIOUS
<1> HIDE DEF B, uh, ul, vh, vl, ll1, ll0, hl1, hl0, lh1, lh0, hh1, hh0, t
<1> HIDE DEF s1a, c1a, s1b, c1b, s2a, c2a, s2b, c2b, s2c, c2c
<1>18. LL \in Int /\ HL \in Int /\ LH \in Int /\ HH \in Int
  BY <1>11
<1>19. Val128(uu) * Val128(v) = HH * Cap + (HL + LH) * B + LL
  <2>1. Val128(uu) = uh * B + ul /\ Val128(v) = vh * B + vl
    BY <1>1 DEF uh, ul, vh, vl, B
  <2>2. (uh * B + ul) * (vh * B + vl)
          = (uh * vh) * (B * B) + ((uh * vl) + (ul * vh)) * B + ul * vl
    BY <1>11, <1>14
  <2> QED BY <1>14, <2>1, <2>2
<1> HIDE DEF LL, HL, LH, HH
<1>20. t \in Nat /\ t * B + s2c = HH + hl1 + lh1 + c1a + c1b
  <2>1. t * B = hh1 * B + c2a * B + c2b * B + c2c * B
    BY <1>11, <1>13, <1>14, <1>17
  <2>2. hh1 * B \in Int /\ c2a * B \in Int /\ c2b * B \in Int /\ c2c * B \in Int
    BY <1>11, <1>13, <1>14
  <2>3. t \in Nat
    BY <1>11, <1>13, <1>17
  <2> DEFINE x == t * B
             h == hh1 * B
             p == c2a * B
             q == c2b * B
             r == c2c * B
  <2>4. /\ x = h + p + q + r /\ h \in Int /\ p \in Int /\ q \in Int /\ r \in Int
        /\ h + hh0 = HH /\ p + s2a = hl1 + lh1 + 0 /\ q + s2b = s2a + (c1a + c1b) + 0
        /\ r + s2c = s2b + hh0 + 0
    BY <1>15, <1>16, <2>1, <2>2
  <2> HIDE DEF x, h, p, q, r
  <2>5. x + s2c = HH + hl1 + lh1 + c1a + c1b
    BY <1>11, <1>12, <1>13, <1>18, <2>4
  <2> QED BY <2>3, <2>5 DEF x
<1> DEFINE T == t * B + s2c
           W == T * B + s1b
<1>21. T \in Nat /\ W = HH * B + HL + LH + ll1
  <2>1. T \in Nat
    BY <1>12, <1>14, <1>20
  <2>2. T * B = HH * B + hl1 * B + lh1 * B + c1a * B + c1b * B
    BY <1>11, <1>13, <1>14, <1>18, <1>20
  <2>3. HH * B \in Int /\ hl1 * B \in Int /\ lh1 * B \in Int /\ c1a * B \in Int /\ c1b * B \in Int
    BY <1>11, <1>13, <1>14, <1>18
  <2> HIDE DEF T
  <2> QED BY <1>11, <1>12, <1>15, <1>16, <1>18, <2>1, <2>2, <2>3
<1>22. T * Cap + (s1b * B + ll0) = HH * Cap + (HL + LH) * B + LL
  <2> HIDE DEF T
  <2>1. T * Cap + s1b * B = W * B
    BY <1>12, <1>14, <1>21
  <2>2. W * B = HH * Cap + (HL + LH) * B + ll1 * B
    <3> HIDE DEF W
    <3>1. W * B = (HH * B) * B + (HL + LH) * B + ll1 * B
      BY <1>11, <1>14, <1>18, <1>21
    <3>2. (HH * B) * B = HH * Cap
      BY <1>14, <1>18
    <3> QED BY <3>1, <3>2
  <2>3. /\ T * Cap \in Int /\ s1b * B \in Int /\ HH * Cap \in Int /\ (HL + LH) * B \in Int
        /\ ll1 * B \in Int
    BY <1>11, <1>12, <1>14, <1>18, <1>21
  <2> HIDE DEF W
  <2> DEFINE x == T * Cap
             y == s1b * B
             z == HH * Cap
             m == (HL + LH) * B
             n == ll1 * B
             w == W * B
  <2>4. /\ x \in Int /\ y \in Int /\ z \in Int /\ m \in Int /\ n \in Int
        /\ x + y = w /\ w = z + m + n /\ n + ll0 = LL
    BY <1>15, <2>1, <2>2, <2>3
  <2> HIDE DEF x, y, z, m, n, w
  <2>5. x + (y + ll0) = z + m + LL
    BY <1>11, <1>18, <2>4
  <2> QED BY <2>5 DEF x, y, z, m
<1>23. T * Cap + (s1b * B + ll0) = Val128(uu) * Val128(v)
  BY <1>19, <1>22
<1>24. t \in 0..(Base - 1) /\ t % Base = t
  <2>1. Val128(uu) * Val128(v) < Cap * Cap
    <3> DEFINE a == Val128(uu)
               b == Val128(v)
    <3>1. a \in Nat /\ b \in Nat /\ a < Cap /\ b < Cap /\ Cap \in Nat
      BY <1>1, <1>14
    <3> HIDE DEF a, b
    <3>2. a * b <= a * Cap /\ a * Cap < Cap * Cap /\ a * b \in Nat /\ a * Cap \in Nat /\ Cap * Cap \in Nat
      BY <3>1
    <3> QED BY <3>2 DEF a, b
  <2>2. T * Cap < Cap * Cap
    <3> HIDE DEF T
    <3>1. s1b * B \in Nat /\ T * Cap \in Nat /\ Cap * Cap \in Nat
      BY <1>12, <1>14, <1>21
    <3> DEFINE x == T * Cap
               y == s1b * B
               z == Cap * Cap
    <3>2. x \in Nat /\ y \in Nat /\ z \in Nat /\ x + (y + ll0) < z
      BY <1>23, <2>1, <3>1
    <3> HIDE DEF x, y, z
    <3>3. x < z
      BY <1>11, <1>12, <3>2
    <3> QED BY <3>3 DEF x, z
  <2>3. T < Cap
    <3> HIDE DEF T
    <3>1. T >= Cap => T * Cap >= Cap * Cap
      BY <1>14, <1>21
    <3> QED BY <1>14, <1>21, <2>2, <3>1
  <2>4. t * B < B * B
    BY <1>12, <1>14, <1>20, <2>3
  <2>5. t < B
    <3>1. t >= B => t * B >= B * B
      BY <1>14, <1>20
    <3> QED BY <1>14, <1>20, <2>4, <3>1
  <2>6. B = Base
    BY DEF B
  <2> QED BY <1>14, <1>20, <2>5, <2>6
<1>25. CASE uu.hi = 0 /\ v.hi = 0
  <2>1. /\ Q(0, 0, ll.hi, ll.lo) \in Limbs256
        /\ Val256(Q(0, 0, ll.hi, ll.lo)) = (0 * Base + 0) * Cap + (ll.hi * Base + ll.lo)
    <3>1. 0 \in U64
      BY <1>4 DEF U64
    <3> QED BY <1>2, <3>1, QuadOf
  <2>2. Val128(uu) = uu.lo /\ Val128(v) = v.lo
    <3>1. Val128(uu) = 0 * Base + uu.lo /\ Val128(v) = 0 * Base + v.lo
      BY <1>1, <1>25
    <3> QED BY <1>1, <1>4, <3>1, WordRange
  <2>3. (0 * Base + 0) * Cap + (ll.hi * Base + ll.lo) = ll.hi * Base + ll.lo
    BY <1>2, <1>4, <1>14, WordRange
  <2> QED BY <1>2, <1>3, <1>25, <2>1, <2>2, <2>3
<1>26. CASE ~(uu.hi = 0 /\ v.hi = 0)
  <2>1. t \in U64
    BY <1>24 DEF U64
  <2>2. /\ Q(t, d2c.sum, d1b.sum, ll.lo) \in Limbs256
        /\ Val256(Q(t, d2c.sum, d1b.sum, ll.lo)) = (t * Base + d2c.sum) * Cap + (d1b.sum * Base + ll.lo)
    BY <1>2, <1>6, <1>10, <2>1, QuadOf
  <2>3. (t * Base + d2c.sum) * Cap + (d1b.sum * Base + ll.lo) = Val128(uu) * Val128(v)
    BY <1>23 DEF T, B, s2c, s1b, ll0
  <2> QED BY <1>3, <1>24, <1>26, <2>2, <2>3
<1> QED
  BY <1>25, <1>26

LEMMA Mul256by64Exact ==
  ASSUME NEW uu \in Limbs256, NEW v \in U64, v # 0
  PROVE  /\ Mul256by64(uu, v).val \in Limbs256
         /\ Mul256by64(uu, v).fits <=> Mul256Fits(Val256(uu), v)
         /\ Mul256by64(uu, v).fits => Val256(Mul256by64(uu, v).val) = Val256(uu) * v
<1> DEFINE p0 == Mul64(uu.d0, v)
           p1 == Mul64(uu.d1, v)
           p2 == Mul64(uu.d2, v)
           p3 == Mul64(uu.d3, v)
           d1 == Add64(p1.lo, p0.hi, 0)
           d2 == Add64(p2.lo, p1.hi, d1.carry)
           d3 == Add64(p3.lo, p2.hi, d2.carry)
           t == p3.hi + d3.carry
           val == Q(d3.sum, d2.sum, d1.sum, p0.lo)
<1>1. /\ uu.d3 \in U64 /\ uu.d2 \in U64 /\ uu.d1 \in U64 /\ uu.d0 \in U64
      /\ Val256(uu) = (uu.d3 * Base + uu.d2) * Cap + (uu.d1 * Base + uu.d0)
      /\ Val256(uu) \in 0..(Wide - 1)
  BY QuadRange
<1>2. /\ p0.hi \in U64 /\ p0.lo \in U64 /\ p0.hi * Base + p0.lo = uu.d0 * v
      /\ p1.hi \in U64 /\ p1.lo \in U64 /\ p1.hi * Base + p1.lo = uu.d1 * v
      /\ p2.hi \in U64 /\ p2.lo \in U64 /\ p2.hi * Base + p2.lo = uu.d2 * v
      /\ p3.hi \in U64 /\ p3.lo \in U64 /\ p3.hi * Base + p3.lo = uu.d3 * v
      /\ p3.hi <= Base - 2
  BY <1>1, MulWords
<1>3. Mul256by64(uu, v) = [val |-> val, fits |-> t % Base = 0]
  BY DEF Mul256by64
<1> HIDE DEF p0, p1, p2, p3
<1>4. 0 \in 0..1 /\ Base \in Nat /\ Base >= 4
  BY BaseFacts
<1>5. /\ d1.sum \in U64 /\ d1.carry \in 0..1
      /\ d1.carry * Base + d1.sum = p1.lo + p0.hi + 0
  BY <1>2, <1>4, AddWords
<1> HIDE DEF d1
<1>6. /\ d2.sum \in U64 /\ d2.carry \in 0..1
      /\ d2.carry * Base + d2.sum = p2.lo + p1.hi + d1.carry
  BY <1>2, <1>4, <1>5, AddWords
<1> HIDE DEF d2
<1>7. /\ d3.sum \in U64 /\ d3.carry \in 0..1
      /\ d3.carry * Base + d3.sum = p3.lo + p2.hi + d2.carry
  BY <1>2, <1>4, <1>6, AddWords
<1> HIDE DEF d3
<1>8. val \in Limbs256 /\ Val256(val) = (d3.sum * Base + d2.sum) * Cap + (d1.sum * Base + p0.lo)
      /\ Val256(val) \in 0..(Wide - 1)
  <2> DEFINE a == d3.sum
             b == d2.sum
             c == d1.sum
             d == p0.lo
  <2>1. a \in U64 /\ b \in U64 /\ c \in U64 /\ d \in U64
    BY <1>2, <1>5, <1>6, <1>7
  <2> HIDE DEF a, b, c, d
  <2>2. Q(a, b, c, d) \in Limbs256 /\ Val256(Q(a, b, c, d)) = (a * Base + b) * Cap + (c * Base + d)
        /\ Val256(Q(a, b, c, d)) \in 0..(Wide - 1)
    BY <2>1, QuadOf
  <2> QED BY <2>2 DEF a, b, c, d
<1> DEFINE B == Base
           h0 == p0.hi
           l0 == p0.lo
           h1 == p1.hi
           l1 == p1.lo
           h2 == p2.hi
           l2 == p2.lo
           h3 == p3.hi
           l3 == p3.lo
           s1 == d1.sum
           c1 == d1.carry
           s2 == d2.sum
           c2 == d2.carry
           s3 == d3.sum
           c3 == d3.carry
           x3 == uu.d3
           x2 == uu.d2
           x1 == uu.d1
           x0 == uu.d0
           P3 == x3 * v
           P2 == x2 * v
           P1 == x1 * v
           P0 == x0 * v
<1>9. /\ h0 \in Int /\ l0 \in Int /\ h1 \in Int /\ l1 \in Int
      /\ h2 \in Int /\ l2 \in Int /\ h3 \in Int /\ l3 \in Int /\ h3 >= 0 /\ h3 <= B - 2
  BY <1>2, WordRange
<1>10. /\ s1 \in Int /\ s2 \in Int /\ s3 \in Int
       /\ x3 \in Int /\ x2 \in Int /\ x1 \in Int /\ x0 \in Int
       /\ v \in Nat \ {0}
  <2>1. v \in Nat \ {0}
    BY WordRange
  <2> QED BY <1>1, <1>5, <1>6, <1>7, <2>1, WordRange
<1>11. c1 \in 0..1 /\ c2 \in 0..1 /\ c3 \in 0..1
  BY <1>5, <1>6, <1>7
<1>12. B \in Nat \ {0} /\ B >= 4 /\ Cap = B * B /\ Cap \in Nat
  BY BaseFacts
<1>13. /\ h0 * B + l0 = P0 /\ h1 * B + l1 = P1 /\ h2 * B + l2 = P2 /\ h3 * B + l3 = P3
  BY <1>2
<1>14. /\ c1 * B + s1 = l1 + h0 + 0 /\ c2 * B + s2 = l2 + h1 + c1 /\ c3 * B + s3 = l3 + h2 + c2
  BY <1>5, <1>6, <1>7
<1>15. t = h3 + c3
  OBVIOUS
<1> HIDE DEF B, h0, l0, h1, l1, h2, l2, h3, l3, s1, c1, s2, c2, s3, c3, x3, x2, x1, x0, t
<1>16. c1 \in Int /\ c2 \in Int /\ c3 \in Int /\ t \in 0..(B - 1)
  BY <1>9, <1>11, <1>12, <1>15
<1>17. P3 \in Int /\ P2 \in Int /\ P1 \in Int /\ P0 \in Int
  BY <1>10
<1> DEFINE y3 == t * B + s3
           y2 == y3 * B + s2
           y1 == y2 * B + s1
           y0 == y1 * B + l0
<1>18. ((x3 * B + x2) * Cap + (x1 * B + x0)) * v = ((P3 * B + P2) * B + P1) * B + P0
  <2>1. ((x3 * B + x2) * (B * B) + (x1 * B + x0)) * v
          = (((x3 * v) * B + x2 * v) * B + x1 * v) * B + x0 * v
    BY <1>10, <1>12
  <2> QED BY <1>12, <2>1
<1> HIDE DEF P3, P2, P1, P0
<1>19. y3 \in Int /\ y3 = P3 + h2 + c2
  <2>1. t * B = h3 * B + c3 * B /\ h3 * B \in Int /\ c3 * B \in Int
    BY <1>9, <1>12, <1>15, <1>16
  <2> QED BY <1>9, <1>10, <1>13, <1>14, <1>16, <1>17, <2>1
<1> HIDE DEF y3
<1>20. y2 \in Int /\ y2 = P3 * B + P2 + h1 + c1
  <2>1. y3 * B = P3 * B + h2 * B + c2 * B /\ h2 * B \in Int /\ c2 * B \in Int /\ P3 * B \in Int
    BY <1>9, <1>12, <1>16, <1>17, <1>19
  <2> QED BY <1>9, <1>10, <1>13, <1>14, <1>16, <1>17, <2>1
<1> HIDE DEF y2
<1>21. y1 \in Int /\ y1 = (P3 * B + P2) * B + P1 + h0
  <2>1. y2 * B = (P3 * B + P2) * B + h1 * B + c1 * B /\ h1 * B \in Int /\ c1 * B \in Int
        /\ (P3 * B + P2) * B \in Int
    <3> DEFINE g == P3 * B + P2
    <3>1. g \in Int /\ y2 = g + h1 + c1
      BY <1>12, <1>17, <1>20
    <3> HIDE DEF g
    <3>2. y2 * B = g * B + h1 * B + c1 * B /\ h1 * B \in Int /\ c1 * B \in Int /\ g * B \in Int
      BY <1>9, <1>12, <1>16, <3>1
    <3> QED BY <3>2 DEF g
  <2> QED BY <1>9, <1>10, <1>13, <1>14, <1>16, <1>17, <2>1
<1> HIDE DEF y1
<1>22. y0 = ((P3 * B + P2) * B + P1) * B + P0
  <2> DEFINE g == (P3 * B + P2) * B + P1
  <2>1. g \in Int /\ y1 = g + h0
    BY <1>12, <1>17, <1>21
  <2> HIDE DEF g
  <2>2. y1 * B = g * B + h0 * B /\ h0 * B \in Int /\ g * B \in Int
    BY <1>9, <1>12, <2>1
  <2>3. y0 = g * B + P0
    BY <1>9, <1>13, <1>17, <2>2
  <2> QED BY <2>3 DEF g
<1>23. y0 = Val256(uu) * v
  BY <1>1, <1>18, <1>22 DEF B, x3, x2, x1, x0
<1>24. y0 = t * Wide + Val256(val)
  <2>1. y0 = t * (Cap * Cap) + ((s3 * B + s2) * Cap + (s1 * B + l0))
    <3>1. (((t * B + s3) * B + s2) * B + s1) * B + l0
            = t * ((B * B) * (B * B)) + ((s3 * B + s2) * (B * B) + (s1 * B + l0))
      BY <1>9, <1>10, <1>12, <1>16
    <3> QED BY <1>12, <3>1 DEF y1, y2, y3
  <2>2. Val256(val) = (s3 * B + s2) * Cap + (s1 * B + l0)
    BY <1>8 DEF B, s3, s2, s1, l0
  <2> QED BY <2>1, <2>2, CapFacts
<1> DEFINE n == Val256(uu)
           r == Val256(val)
<1>25. n \in Nat /\ r \in 0..(Wide - 1) /\ n * v = t * Wide + r /\ Wide \in Nat \ {0}
  <2>1. Wide \in Nat \ {0}
    BY CapFacts
  <2> QED BY <1>1, <1>8, <1>23, <1>24, <2>1
<1> HIDE DEF val, n, r
<1>26. t = 0 <=> n * v < Wide
  <2>1. t = 0 => t * Wide = 0
    BY <1>25
  <2>2. t # 0 => t * Wide >= Wide
    <3>1. t >= 1 => t * Wide >= 1 * Wide
      BY <1>16, <1>25, <1>12
    <3> QED BY <1>12, <1>16, <1>25, <3>1
  <2>3. t * Wide \in Int
    BY <1>16, <1>25
  <2> DEFINE y == t * Wide
             z == n * v
  <2>4. (t = 0 => y = 0) /\ (t # 0 => y >= Wide) /\ y \in Int /\ z = y + r
    BY <1>25, <2>1, <2>2, <2>3
  <2> HIDE DEF y, z
  <2>5. t = 0 <=> z < Wide
    BY <1>25, <2>4
  <2> QED BY <2>5 DEF z
<1>27. n * v < Wide <=> n <= (Wide - 1) \div v
  <2> DEFINE w == Wide - 1
  <2>1. w \in Nat /\ Wide = w + 1
    BY <1>25
  <2> HIDE DEF w
  <2>2. w \div v >= n <=> w >= v * n
    BY <1>10, <1>25, <2>1, DivBelow
  <2>3. w \div v \in Nat /\ v * n = n * v /\ n * v \in Nat
    BY <1>10, <1>25, <2>1, DivBelow
  <2>4. n * v < Wide <=> n <= w \div v
    BY <1>25, <2>1, <2>2, <2>3
  <2> QED BY <2>4 DEF w
<1>28. t % Base = t
  BY <1>12, <1>16 DEF B
<1>29. Mul256by64(uu, v).val = val /\ (Mul256by64(uu, v).fits <=> t = 0)
  <2> DEFINE f == t % Base = 0
  <2>1. f <=> t = 0
    BY <1>28
  <2> HIDE DEF f
  <2>2. Mul256by64(uu, v) = [val |-> val, fits |-> f]
    BY <1>3 DEF f
  <2>3. Mul256by64(uu, v).val = val
    BY <2>2
  <2>4. Mul256by64(uu, v).fits = f
    <3>1. \A b : [val |-> val, fits |-> b].fits = b
      OBVIOUS
    <3> QED BY <2>2, <3>1, Zenon
  <2> QED BY <2>1, <2>3, <2>4, Zenon
<1>30. t = 0 => n * v = r
  <2>1. t = 0 => t * Wide = 0
    BY <1>25
  <2> QED BY <1>25, <2>1
<1> QED
  BY <1>8, <1>26, <1>27, <1>29, <1>30 DEF Mul256Fits, n, r

(* Numbers shifted by whole limbs and by bits.                             *)
LEMMA ShiftSmall ==
  ASSUME NEW x \in U64, NEW s \in 0..(WordBits - 1), x * Two(s) < Base
  PROVE  Out(x, s) = 0 /\ Shl(x, s) = x * Two(s)
<1> DEFINE o == Out(x, s)
           l == Shl(x, s)
           n == x * Two(s)
<1>1. n = o * Base + l
  BY ShiftWord
<1>2. o \in Nat /\ l \in Nat /\ Base \in Nat \ {0}
  <2>1. o \in U64 /\ l \in U64
    BY ShiftWord
  <2> QED BY <2>1, WordRange, BaseFacts
<1>3. n < Base
  OBVIOUS
<1> HIDE DEF o, l, n
<1>4. o = 0
  <2>1. o >= 1 => o * Base >= Base
    BY <1>2
  <2>2. o * Base \in Nat
    BY <1>2
  <2> DEFINE y == o * Base
  <2>3. y \in Nat /\ (o >= 1 => y >= Base) /\ n = y + l
    BY <1>1, <2>1, <2>2
  <2> HIDE DEF y
  <2> QED BY <1>2, <1>3, <2>3
<1>5. l = n
  BY <1>1, <1>2, <1>4
<1> QED
  BY <1>4, <1>5 DEF o, l, n

LEMMA LshExact ==
  ASSUME NEW v \in Limbs128, NEW s \in 0..(WordBits - 1), v.hi * Two(s) < Base
  PROVE  /\ Lsh(v, s) \in Limbs128 /\ Val128(Lsh(v, s)) = Val128(v) * Two(s)
         /\ Lsh(v, s).hi >= v.hi * Two(s)
<1>1. v.hi \in U64 /\ v.lo \in U64 /\ Val128(v) = v.hi * Base + v.lo
  BY ValRange
<1>2. Shl(v.hi, s) = v.hi * Two(s)
  BY <1>1, ShiftSmall
<1>3. Funnel(v.hi, v.lo, s) \in U64 /\ Funnel(v.hi, v.lo, s) = Shl(v.hi, s) + Out(v.lo, s)
  BY <1>1, FunnelWord
<1>4. /\ v.lo * Two(s) = Out(v.lo, s) * Base + Shl(v.lo, s)
      /\ Out(v.lo, s) \in U64 /\ Shl(v.lo, s) \in U64
  BY <1>1, ShiftWord
<1>5. Lsh(v, s) = U(Funnel(v.hi, v.lo, s), Shl(v.lo, s))
  BY DEF Lsh
<1>6. /\ Lsh(v, s) \in Limbs128 /\ Lsh(v, s).hi = Funnel(v.hi, v.lo, s)
      /\ Val128(Lsh(v, s)) = Funnel(v.hi, v.lo, s) * Base + Shl(v.lo, s)
  <2>1. U(Funnel(v.hi, v.lo, s), Shl(v.lo, s)).hi = Funnel(v.hi, v.lo, s)
    BY DEF U
  <2> QED BY <1>3, <1>4, <1>5, <2>1, PairRange
<1> DEFINE h == v.hi
           l == v.lo
           t == Two(s)
           o == Out(l, s)
           z == Shl(l, s)
<1>7. h \in Int /\ l \in Int /\ o \in Nat /\ z \in Int /\ t \in Nat /\ Base \in Nat
  BY <1>1, <1>4, WordRange, ShiftFactors, BaseFacts
<1>8. l * t = o * Base + z
  BY <1>4
<1> HIDE DEF h, l, t, o, z
<1>9. (h * t + o) * Base + z = (h * Base + l) * t
  <2>1. (h * t + o) * Base = (h * t) * Base + o * Base /\ (h * Base + l) * t = (h * t) * Base + l * t
    BY <1>7
  <2>2. (h * t) * Base \in Int /\ o * Base \in Int
    BY <1>7
  <2> QED BY <1>7, <1>8, <2>1, <2>2
<1>10. h * t + o >= h * t
  BY <1>7
<1> QED
  BY <1>1, <1>2, <1>3, <1>6, <1>9, <1>10 DEF h, l, t, o, z

LEMMA RshExact ==
  ASSUME NEW uu \in Limbs128, NEW s \in 0..(WordBits - 1)
  PROVE  Val128(Rsh(uu, s)) = Val128(uu) \div Two(s)
<1> DEFINE t == Two(s)
           c == Two(WordBits - s)
           h == uu.hi
           l == uu.lo
<1>1. t \in Nat \ {0} /\ c \in Nat \ {0} /\ Base = t * c
  BY ShiftFactors
<1>2. h \in Nat /\ h < Base /\ l \in Nat /\ l < Base /\ Val128(uu) = h * Base + l
      /\ Val128(uu) \in Nat
  <2>1. h \in U64 /\ l \in U64 /\ Val128(uu) = h * Base + l /\ Val128(uu) \in 0..(Cap - 1)
    BY ValRange
  <2> QED BY <2>1, WordRange, BaseFacts
<1>3. Rsh(uu, s) = U(h \div t, (l \div t) + ((h * c) % Base))
  BY DEF Rsh, Shr, Shl, Two
<1> HIDE DEF t, c, h, l
<1>4. (h * c) % Base = (h % t) * c
  <2>1. Factors(Base, c, t)
    BY <1>1 DEF Factors
  <2> QED BY <1>2, <2>1, SplitByFactor
<1>5. h \div t \in Int /\ h % t \in 0..(t - 1) /\ h = t * (h \div t) + (h % t)
  BY <1>1, <1>2, DivMod
<1>6. l \div t \in Int /\ l % t \in 0..(t - 1) /\ l = t * (l \div t) + (l % t)
  BY <1>1, <1>2, DivMod
<1> DEFINE qh == h \div t
           rh == h % t
           ql == l \div t
           rl == l % t
           n == (qh * Base + rh * c) + ql
<1>7. Val128(Rsh(uu, s)) = qh * Base + (ql + rh * c)
  BY <1>3, <1>4 DEF Val128, U
<1>8. qh \in Int /\ rh \in Int /\ ql \in Int /\ rl \in 0..(t - 1) /\ h = t * qh + rh /\ l = t * ql + rl
  BY <1>1, <1>5, <1>6
<1> HIDE DEF qh, rh, ql, rl
<1>9. h * Base + l = t * n + rl /\ n \in Int
  <2>1. h * Base = (t * qh) * Base + rh * (t * c)
    BY <1>1, <1>8
  <2>2. t * n = t * (qh * Base) + t * (rh * c) + t * ql
    BY <1>1, <1>8
  <2>3. (t * qh) * Base = t * (qh * Base) /\ rh * (t * c) = t * (rh * c)
    BY <1>1, <1>8
  <2>4. t * (qh * Base) \in Int /\ t * (rh * c) \in Int /\ t * ql \in Int /\ n \in Int /\ rl \in Int
    BY <1>1, <1>8
  <2> HIDE DEF n
  <2> QED BY <1>8, <2>1, <2>2, <2>3, <2>4
<1>10. Val128(uu) \div t = n
  <2> DEFINE a == Val128(uu)
  <2>1. a \in Int /\ a = t * n + rl
    BY <1>2, <1>9
  <2> HIDE DEF a, n
  <2>2. a \div t = n
    BY <1>1, <1>8, <1>9, <2>1, DivModUnique
  <2> QED BY <2>2 DEF a
<1>11. n = qh * Base + (ql + rh * c)
  BY <1>1, <1>8
<1> QED
  BY <1>7, <1>10, <1>11 DEF t

(* A dividend shifted left: the limbs, and above them the bits shifted out. *)
LEMMA ShiftedPair ==
  ASSUME NEW a \in U64, NEW b \in U64, NEW s \in 0..(WordBits - 1)
  PROVE  /\ Out(a, s) * Cap + (Funnel(a, b, s) * Base + Shl(b, s)) = (a * Base + b) * Two(s)
         /\ Funnel(a, b, s) \in U64 /\ Shl(b, s) \in U64 /\ Out(a, s) \in 0..(Two(s) - 1)
<1>1. Funnel(a, b, s) \in U64 /\ Funnel(a, b, s) = Shl(a, s) + Out(b, s)
  BY FunnelWord
<1>2. /\ a * Two(s) = Out(a, s) * Base + Shl(a, s) /\ b * Two(s) = Out(b, s) * Base + Shl(b, s)
      /\ Out(a, s) \in U64 /\ Shl(a, s) \in U64 /\ Out(b, s) \in U64 /\ Shl(b, s) \in U64
      /\ Out(a, s) \in 0..(Two(s) - 1)
  BY ShiftWord
<1> DEFINE t == Two(s)
           oa == Out(a, s)
           la == Shl(a, s)
           ob == Out(b, s)
           lb == Shl(b, s)
<1>3. /\ oa \in Int /\ la \in Int /\ ob \in Int /\ lb \in Int /\ a \in Int /\ b \in Int
      /\ t \in Nat /\ Base \in Nat /\ Cap = Base * Base
  BY <1>2, WordRange, ShiftFactors, BaseFacts
<1>4. a * t = oa * Base + la /\ b * t = ob * Base + lb
  BY <1>2
<1> HIDE DEF t, oa, la, ob, lb
<1>5. oa * Cap + ((la + ob) * Base + lb) = (a * Base + b) * t
  <2>1. (a * Base + b) * t = (a * t) * Base + b * t
    BY <1>3
  <2>2. (a * t) * Base = (oa * Base) * Base + la * Base /\ (oa * Base) * Base = oa * Cap
    BY <1>3, <1>4
  <2>3. (la + ob) * Base = la * Base + ob * Base
    BY <1>3
  <2>4. oa * Cap \in Int /\ la * Base \in Int /\ ob * Base \in Int
    BY <1>3
  <2> QED BY <1>3, <1>4, <2>1, <2>2, <2>3, <2>4
<1> QED
  BY <1>1, <1>2, <1>5 DEF t, oa, la, ob, lb

Four(a, b, c, d) == ((a * Base + b) * Base + c) * Base + d

LEMMA ShiftedQuad ==
  ASSUME NEW q \in Limbs256, NEW s \in 0..(WordBits - 1)
  PROVE  /\ Out(q.d3, s) * Wide
              + Four(Funnel(q.d3, q.d2, s), Funnel(q.d2, q.d1, s),
                     Funnel(q.d1, q.d0, s), Shl(q.d0, s)) = Val256(q) * Two(s)
         /\ Funnel(q.d3, q.d2, s) \in U64 /\ Funnel(q.d2, q.d1, s) \in U64
         /\ Funnel(q.d1, q.d0, s) \in U64 /\ Shl(q.d0, s) \in U64
<1>1. /\ q.d3 \in U64 /\ q.d2 \in U64 /\ q.d1 \in U64 /\ q.d0 \in U64
      /\ Val256(q) = (q.d3 * Base + q.d2) * Cap + (q.d1 * Base + q.d0)
  BY QuadRange
<1>2. /\ Funnel(q.d3, q.d2, s) \in U64 /\ Funnel(q.d2, q.d1, s) \in U64
      /\ Funnel(q.d1, q.d0, s) \in U64 /\ Shl(q.d0, s) \in U64
      /\ Shl(q.d2, s) \in U64 /\ Out(q.d3, s) \in U64 /\ Out(q.d1, s) \in U64
      /\ Funnel(q.d2, q.d1, s) = Shl(q.d2, s) + Out(q.d1, s)
  BY <1>1, FunnelWord, ShiftWord
<1>3. /\ Out(q.d3, s) * Cap + (Funnel(q.d3, q.d2, s) * Base + Shl(q.d2, s))
           = (q.d3 * Base + q.d2) * Two(s)
      /\ Out(q.d1, s) * Cap + (Funnel(q.d1, q.d0, s) * Base + Shl(q.d0, s))
           = (q.d1 * Base + q.d0) * Two(s)
  BY <1>1, ShiftedPair
<1> DEFINE t == Two(s)
           o3 == Out(q.d3, s)
           f3 == Funnel(q.d3, q.d2, s)
           l2 == Shl(q.d2, s)
           o1 == Out(q.d1, s)
           f2 == Funnel(q.d2, q.d1, s)
           f1 == Funnel(q.d1, q.d0, s)
           l0 == Shl(q.d0, s)
           x == q.d3 * Base + q.d2
           y == q.d1 * Base + q.d0
<1>4. /\ o3 \in Int /\ f3 \in Int /\ l2 \in Int /\ o1 \in Int /\ f2 \in Int /\ f1 \in Int /\ l0 \in Int
      /\ t \in Nat /\ Base \in Nat /\ Cap = Base * Base /\ Cap \in Nat
  <2>1. t \in Nat /\ Base \in Nat /\ Cap = Base * Base /\ Cap \in Nat
    BY ShiftFactors, BaseFacts
  <2> QED BY <1>2, <2>1, WordRange
<1>5. x \in Int /\ y \in Int
  BY <1>1, WordRange, BaseFacts
<1>6. /\ o3 * Cap + (f3 * Base + l2) = x * t /\ o1 * Cap + (f1 * Base + l0) = y * t
      /\ f2 = l2 + o1
  BY <1>2, <1>3
<1> HIDE DEF t, o3, f3, l2, o1, f2, f1, l0, x, y
<1>7. o3 * Wide + Four(f3, f2, f1, l0) = (x * Cap + y) * t
  <2>1. (x * Cap + y) * t = (x * t) * Cap + y * t
    BY <1>4, <1>5
  <2>2. (x * t) * Cap = o3 * (Cap * Cap) + f3 * (Base * Cap) + l2 * Cap
    <3>1. (o3 * Cap + (f3 * Base + l2)) * Cap = o3 * (Cap * Cap) + f3 * (Base * Cap) + l2 * Cap
      BY <1>4
    <3> QED BY <1>6, <3>1
  <2>3. Four(f3, f2, f1, l0) = f3 * (Base * Cap) + (l2 + o1) * Cap + f1 * Base + l0
    <3>1. ((f3 * Base + f2) * Base + f1) * Base + l0
            = f3 * (Base * (Base * Base)) + f2 * (Base * Base) + f1 * Base + l0
      BY <1>4
    <3> QED BY <1>4, <1>6, <3>1 DEF Four
  <2>4. (l2 + o1) * Cap = l2 * Cap + o1 * Cap /\ Wide = Cap * Cap
    BY <1>4, CapFacts
  <2> DEFINE A == o3 * (Cap * Cap)
             B == f3 * (Base * Cap)
             C == l2 * Cap
             D == o1 * Cap
             E == f1 * Base
             F == (x * t) * Cap
             G == y * t
  <2>5. /\ A \in Int /\ B \in Int /\ C \in Int /\ D \in Int /\ E \in Int
        /\ F = A + B + C /\ D + (E + l0) = G
    BY <1>4, <1>6, <2>2
  <2>6. Four(f3, f2, f1, l0) = B + (C + D) + E + l0 /\ o3 * Wide = A
    BY <2>3, <2>4
  <2> HIDE DEF A, B, C, D, E, F, G
  <2>7. A + (B + (C + D) + E + l0) = F + G
    BY <1>4, <2>5
  <2> QED BY <2>1, <2>6, <2>7 DEF F, G
<1> QED
  BY <1>1, <1>2, <1>7 DEF t, o3, f3, l2, o1, f2, f1, l0, x, y

(* 10^kk is 2^kk times its odd factor.                                     *)
LEMMA TenHasTwos ==
  ASSUME NEW kk \in 0..2*MaxPrec
  PROVE  \E f \in Nat \ {0} : Pow10[kk] = Two(kk) * f
<1> DEFINE Good(n) == \E f \in Nat \ {0} : Pow10[n] = Two(n) * f
           T == {n \in 0..2*MaxPrec : ~Good(n)}
<1>1. MaxPrec \in Nat /\ Pow10[0] = 1
  BY PowFacts
<1>2. Good(0)
  <2>1. Pow10[0] = Two(0) * 1 /\ 1 \in Nat \ {0}
    BY <1>1, TwoDoubles
  <2> QED BY <2>1
<1>3. ASSUME NEW n \in 0..(2*MaxPrec - 1), Good(n) PROVE Good(n + 1)
  <2>1. PICK f \in Nat \ {0} : Pow10[n] = Two(n) * f
    BY <1>3
  <2>2. Pow10[n + 1] = Pow10[n] * 10 /\ n \in Nat
    BY <1>1, PowStep
  <2>3. Two(n + 1) = Two(n) + Two(n) /\ Two(n) \in Nat
    BY <2>2, TwoDoubles
  <2> DEFINE t == Two(n)
             g == 5 * f
  <2>4. (t * f) * 10 = (t + t) * g /\ g \in Nat \ {0}
    <3>1. t \in Nat /\ f \in Nat \ {0}
      BY <2>3
    <3> HIDE DEF t
    <3> QED BY <3>1
  <2>5. Pow10[n + 1] = Two(n + 1) * g
    BY <2>1, <2>2, <2>3, <2>4
  <2> QED BY <2>4, <2>5
<1>4. T = {}
  <2> SUFFICES ASSUME T # {} PROVE FALSE
    OBVIOUS
  <2>1. T \in SUBSET Nat
    BY <1>1
  <2> HIDE DEF Good
  <2>2. PICK n \in T : \A m \in T : n <= m
    <3> HIDE DEF T
    <3> QED BY <2>1, LeastNatural
  <2>3. n \in 0..2*MaxPrec /\ n # 0 /\ ~Good(n)
    BY <1>2, <2>2
  <2>4. n - 1 \in 0..(2*MaxPrec - 1) /\ n - 1 \in 0..2*MaxPrec /\ (n - 1) + 1 = n /\ ~(n <= n - 1)
    BY <1>1, <2>3
  <2>5. Good(n - 1)
    BY <2>2, <2>4
  <2>6. Good((n - 1) + 1)
    BY <1>3, <2>4, <2>5
  <2> QED BY <2>3, <2>4, <2>6
<1>5. Good(kk)
  <2> HIDE DEF Good
  <2> QED BY <1>4
<1> QED
  BY <1>5

(* The division columns of the table: the power shifted to the top of its   *)
(* word, and that divisor's reciprocal.                                    *)
THEOREM Pow10EntryExact ==
  ASSUME NEW kk \in 0..MaxPrec
  PROVE  /\ Pow10Tab[kk].d = Pow10[kk] /\ Pow10Tab[kk].s \in 0..(WordBits - 1)
         /\ Pow10Tab[kk].dn = Pow10[kk] * Two(Pow10Tab[kk].s)
         /\ Pow10Tab[kk].dn \in U64 /\ 2 * Pow10Tab[kk].dn >= Base
         /\ Pow10Tab[kk].v = (Cap - 1) \div Pow10Tab[kk].dn - Base
         /\ Pow10[kk] \in U64 /\ Pow10[kk] \in Nat \ {0}
<1> DEFINE x == Pow10[kk]
           s == LeadingZeros(x)
           dn == Shl(x, s)
<1>1. x \in U64 /\ x # 0 /\ x \in Nat \ {0}
  <2>1. kk \in 0..2*MaxPrec /\ Pow10[kk] < Base
    BY PowBounds
  <2>2. Pow10[kk] \in Nat /\ Pow10[kk] >= 1
    BY <2>1, PowFacts
  <2> QED BY <2>1, <2>2, BaseFacts DEF U64
<1>2. Pow10Tab[kk] = Pow10Entry(kk)
  BY DEF Pow10Tab
<1>3. /\ Pow10Entry(kk).d = x /\ Pow10Entry(kk).s = s /\ Pow10Entry(kk).dn = dn
      /\ Pow10Entry(kk).v = (Cap - 1) \div dn - Base
  BY DEF Pow10Entry
<1> HIDE DEF x
<1>4. s \in 0..(WordBits - 1) /\ x * Two(s) \in U64 /\ 2 * (x * Two(s)) >= Base
  BY <1>1, LeadingZerosNormalize
<1> HIDE DEF s
<1>5. x * Two(s) < Base
  <2>1. x * Two(s) <= Base - 1 /\ x * Two(s) \in Int /\ Base \in Nat
    BY <1>4, WordRange, BaseFacts
  <2> QED BY <2>1
<1>6. dn = x * Two(s)
  BY <1>1, <1>4, <1>5, ShiftSmall
<1> HIDE DEF dn
<1> QED
  BY <1>1, <1>2, <1>3, <1>4, <1>6 DEF x

(* The shift paired with the magic multiplier exists.                      *)
LEMMA MagicShift ==
  ASSUME NEW five \in Nat, five < Base, NEW kk \in Nat,
         NEW p, p = CHOOSE n \in 0..2*WordBits :
                      five <= Two(n + kk) /\ \A i \in 0..(n - 1) : five > Two(i + kk)
  PROVE  p \in Nat /\ five <= Two(p + kk)
<1> DEFINE T == {n \in Nat : five <= Two(n + kk)}
<1>1. WordBits \in Nat /\ Base = Two(WordBits)
  BY WordAssumption DEF Two
<1>2. WordBits \in T
  <2>1. WordBits + kk \in Nat /\ WordBits <= WordBits + kk
    BY <1>1
  <2>2. Two(WordBits) <= Two(WordBits + kk) /\ Two(WordBits) \in Nat /\ Two(WordBits + kk) \in Nat
    BY <1>1, <2>1, TwoGrows
  <2> QED BY <1>1, <2>2
<1>3. PICK n \in T : \A m \in T : n <= m
  <2>1. T \in SUBSET Nat /\ T # {}
    BY <1>2
  <2> HIDE DEF T
  <2> QED BY <2>1, LeastNatural
<1>4. n \in 0..2*WordBits /\ five <= Two(n + kk)
  BY <1>1, <1>2, <1>3
<1>5. \A i \in 0..(n - 1) : five > Two(i + kk)
  <2> TAKE i \in 0..(n - 1)
  <2>1. i \in Nat /\ ~(n <= i)
    BY <1>4
  <2>2. ~(five <= Two(i + kk))
    BY <1>3, <2>1
  <2>3. i + kk \in Nat /\ Two(i + kk) \in Nat
    <3>1. i + kk \in Nat
      BY <2>1
    <3> QED BY <3>1, TwoDoubles
  <2> QED BY <2>2, <2>3
<1>6. p \in 0..2*WordBits /\ five <= Two(p + kk)
  BY <1>4, <1>5
<1> QED
  BY <1>1, <1>6

(* One multiplication by the rounded-up reciprocal of f divides exactly     *)
(* every y small enough.                                                   *)
LEMMA MagicDivides ==
  ASSUME NEW f \in Nat \ {0}, NEW N \in Nat \ {0}, NEW g \in Nat, NEW y \in Nat,
         f <= g, y * g < N
  PROVE  (y * ((N + f - 1) \div f)) \div N = y \div f
<1> DEFINE m == (N + f - 1) \div f
           e == m * f - N
           q == y \div f
           r == y % f
           z == y * m
<1>1. m \in Nat /\ e \in 0..(f - 1)
  <2> DEFINE a == N + f - 1
             w == a % f
  <2>1. a \in Int /\ a \in Nat
    OBVIOUS
  <2>2. m = a \div f
    OBVIOUS
  <2> HIDE DEF a, m
  <2>3. m \in Nat /\ w \in 0..(f - 1) /\ a = f * m + w
    BY <2>1, <2>2, DivMod, DivBelow
  <2> HIDE DEF w
  <2>4. a = N + f - 1
    BY DEF a
  <2>5. m * f = f * m /\ m * f \in Int
    BY <2>3
  <2> QED BY <2>3, <2>4, <2>5
<1>2. q \in Nat /\ r \in 0..(f - 1) /\ y = f * q + r
  <2>1. y \in Int /\ y \div f \in Nat
    BY DivBelow
  <2> QED BY <2>1, DivMod
<1> HIDE DEF m, q, r
<1>3. m * f = N + e /\ e \in Nat
  <2>1. m * f \in Int
    BY <1>1
  <2> QED BY <1>1, <2>1
<1> HIDE DEF e
<1>4. y * e < N /\ y * e \in Nat
  <2>1. y * e <= y * g /\ y * e \in Nat /\ y * g \in Nat
    BY <1>1, <1>3
  <2> QED BY <2>1
<1>5. z * f = N * (q * f) + N * r + y * e
  <2>1. z * f = y * (m * f)
    BY <1>1
  <2>2. y * (N + e) = N * y + y * e
    BY <1>3
  <2>3. N * y = N * (q * f) + N * r
    BY <1>2
  <2> QED BY <1>3, <2>1, <2>2, <2>3
<1>6. z \in Nat
  BY <1>1
<1> HIDE DEF z
<1>7. N * r <= N * (f - 1) /\ N * r \in Nat /\ N * (f - 1) = N * f - N /\ N * f \in Nat
  BY <1>2
<1>8. N * (q * f) = (N * q) * f /\ (N * q + N) * f = (N * q) * f + N * f /\ N * q \in Nat /\ (N * q) * f \in Nat
  BY <1>2
<1>9. z * f \in Nat /\ (N * q) * f <= z * f /\ z * f < (N * q + N) * f
  <2>1. z * f \in Nat
    BY <1>6
  <2> DEFINE a == z * f
             b == (N * q) * f
             c == N * f
             d == N * r
             h == y * e
  <2>2. a \in Nat /\ b \in Nat /\ c \in Nat /\ d \in Nat /\ h \in Nat /\ h < N /\ d <= c - N /\ a = b + d + h
    BY <1>4, <1>5, <1>7, <1>8, <2>1
  <2> HIDE DEF a, b, c, d, h
  <2>3. a \in Nat /\ b <= a /\ a < b + c
    BY <2>2
  <2> QED BY <1>8, <2>3 DEF a, b, c
<1>10. N * q <= z
  <2>1. z < N * q => z * f < (N * q) * f
    BY <1>6, <1>8
  <2> QED BY <1>6, <1>8, <1>9, <2>1
<1>11. z < N * q + N
  <2>1. z >= N * q + N => z * f >= (N * q + N) * f
    BY <1>6, <1>8
  <2>2. (N * q + N) * f \in Nat
    BY <1>8
  <2> QED BY <1>6, <1>8, <1>9, <2>1, <2>2
<1> DEFINE o == z - N * q
<1>12. o \in 0..(N - 1) /\ z = N * q + o /\ z \in Int /\ q \in Int
  BY <1>2, <1>6, <1>8, <1>10, <1>11
<1> HIDE DEF o
<1>13. z \div N = q
  BY <1>12, DivModUnique
<1> QED
  BY <1>13 DEF z, m, q

(* divmod64Pow10: one high multiplication, never corrected.  Not for 10^0, *)
(* whose entry has no multiplier.                                          *)
THEOREM Divmod64Pow10Exact ==
  ASSUME NEW kk \in 1..MaxPrec, NEW uu \in U64
  PROVE  /\ Divmod64Pow10(uu, kk).quo = uu \div Pow10[kk]
         /\ Divmod64Pow10(uu, kk).rem = uu % Pow10[kk]
<1> DEFINE e == Pow10Tab[kk]
           ten == Pow10[kk]
           t == Two(kk)
           f == ten \div t
           p == e.p
           y == uu \div t
           m == e.m
<1>1. ten \in Nat \ {0} /\ ten < Base /\ e.d = ten /\ kk \in Nat /\ kk \in 0..2*MaxPrec /\ kk # 0
  <2>1. kk \in Nat /\ kk \in 0..2*MaxPrec /\ kk \in 0..MaxPrec /\ kk # 0
    BY PowFacts
  <2>2. ten \in U64 /\ ten \in Nat \ {0} /\ e.d = ten
    BY <2>1, Pow10EntryExact
  <2>3. ten < Base
    BY <2>2, WordRange, BaseFacts
  <2> QED BY <2>1, <2>2, <2>3
<1>2. t \in Nat \ {0}
  <2>1. 0 \in Nat /\ 0 <= kk
    BY <1>1
  <2>2. Two(kk) \in Nat /\ Two(kk) >= 1
    BY <1>1, <2>1, TwoGrows
  <2> QED BY <2>2
<1>3. f \in Nat \ {0} /\ ten = t * f
  <2>1. PICK g \in Nat \ {0} : ten = t * g
    BY <1>1, TenHasTwos
  <2> HIDE DEF ten, t
  <2>2. (g * t) \div t = g /\ g * t = t * g
    BY <1>2, <2>1, DivExactly
  <2> QED BY <2>1, <2>2
<1>4. f < Base
  <2> HIDE DEF f, t, ten
  <2>1. t * f >= f
    BY <1>2, <1>3
  <2> QED BY <1>1, <1>2, <1>3, <2>1, BaseFacts
<1>5. /\ p = CHOOSE n \in 0..2*WordBits :
               f <= Two(n + kk) /\ \A i \in 0..(n - 1) : f > Two(i + kk)
      /\ m = (Base * Two(p) + f - 1) \div f
  <2>1. e = Pow10Entry(kk)
    <3>1. kk \in 0..MaxPrec
      BY PowFacts
    <3> QED BY <3>1 DEF Pow10Tab
  <2> HIDE DEF e
  <2>2. /\ Pow10Entry(kk).p = CHOOSE n \in 0..2*WordBits :
               f <= Two(n + kk) /\ \A i \in 0..(n - 1) : f > Two(i + kk)
        /\ Pow10Entry(kk).m = (Base * Two(Pow10Entry(kk).p) + f - 1) \div f
    <3> DEFINE P == CHOOSE n \in 0..2*WordBits :
                      f <= Two(n + kk) /\ \A i \in 0..(n - 1) : f > Two(i + kk)
    <3>1. Pow10Entry(kk) = [d |-> Pow10[kk], s |-> LeadingZeros(Pow10[kk]),
                           dn |-> Shl(Pow10[kk], LeadingZeros(Pow10[kk])),
                           v |-> (Cap - 1) \div Shl(Pow10[kk], LeadingZeros(Pow10[kk])) - Base,
                           p |-> P, m |-> (Base * Two(P) + f - 1) \div f]
      BY <1>1 DEF Pow10Entry, Two
    <3> HIDE DEF P
    <3>2. Pow10Entry(kk).p = P /\ Pow10Entry(kk).m = (Base * Two(P) + f - 1) \div f
      BY <3>1
    <3> QED BY <3>2 DEF P
  <2> QED BY <2>1, <2>2
<1> HIDE DEF f, p
<1>6. p \in Nat /\ f <= Two(p + kk)
  BY <1>1, <1>3, <1>4, <1>5, MagicShift
<1> DEFINE N == Base * Two(p)
           g == Two(p + kk)
           z == y * m
<1>7. Base \in Nat \ {0} /\ Two(p) \in Nat \ {0} /\ g \in Nat /\ g = Two(p) * t
  <2>1. 0 \in Nat /\ 0 <= p
    BY <1>6
  <2>2. Two(p) \in Nat /\ Two(p) >= 1
    BY <1>6, <2>1, TwoGrows
  <2>3. Two(p + kk) = Two(p) * Two(kk)
    BY <1>1, <1>6, TwoAdds
  <2>4. Two(p) * t \in Nat
    BY <1>2, <2>2
  <2> QED BY <2>2, <2>3, <2>4, BaseFacts
<1> DEFINE tp == Two(p)
<1>8. uu \in Nat /\ uu < Base
  BY WordRange, BaseFacts
<1>9. y \in Nat /\ y * t <= uu
  <2> HIDE DEF t
  <2>1. uu \div t \in Nat /\ uu % t \in Nat
    BY <1>2, <1>8, DivBelow
  <2>2. uu \in Int /\ uu = t * (uu \div t) + (uu % t)
    BY <1>2, <1>8, DivMod
  <2> HIDE DEF y
  <2>3. y = uu \div t
    BY DEF y
  <2>4. y * t = t * y /\ t * y \in Int
    BY <1>2, <2>1, <2>3
  <2> QED BY <1>8, <2>1, <2>2, <2>3, <2>4
<1> HIDE DEF y, t, g, tp
<1>10. N \in Nat \ {0} /\ y * g < N
  <2>1. N = Base * tp /\ g = tp * t /\ tp \in Nat \ {0}
    BY <1>7 DEF tp
  <2>2. y * g = (y * t) * tp
    BY <1>2, <1>9, <2>1
  <2>3. (y * t) * tp <= uu * tp /\ uu * tp < Base * tp
    <3>1. y * t \in Nat
      BY <1>2, <1>9
    <3> DEFINE w == y * t
    <3>2. w \in Nat /\ w <= uu
      BY <1>9, <3>1
    <3> HIDE DEF w
    <3>3. w * tp <= uu * tp /\ uu * tp < Base * tp
      BY <1>7, <1>8, <2>1, <3>2
    <3> QED BY <3>3 DEF w
  <2>4. Base * tp \in Nat \ {0} /\ uu * tp \in Nat /\ (y * t) * tp \in Nat
    BY <1>2, <1>7, <1>8, <1>9, <2>1
  <2> HIDE DEF N
  <2> QED BY <2>1, <2>2, <2>3, <2>4
<1> HIDE DEF N
<1>11. m = (N + f - 1) \div f
  BY <1>5 DEF N
<1>12. (y * ((N + f - 1) \div f)) \div N = y \div f
  <2>1. f <= g
    BY <1>6 DEF g
  <2> QED BY <1>3, <1>7, <1>9, <1>10, <2>1, MagicDivides
<1> HIDE DEF m
<1>13. z \div N = uu \div ten
  <2>1. z \div N = y \div f
    BY <1>11, <1>12
  <2>2. (uu \div t) \div f = uu \div (t * f)
    BY <1>2, <1>3, <1>8, DivDiv
  <2> QED BY <1>3, <2>1, <2>2 DEF y
<1>14. z \in Nat
  <2>1. m \in Nat
    <3>1. N + f - 1 \in Nat
      BY <1>3, <1>10
    <3> QED BY <1>3, <1>11, <3>1, DivBelow
  <2> QED BY <1>9, <2>1
<1> HIDE DEF ten, z
<1>15. (z \div Base) \div tp = uu \div ten
  <2>1. (z \div Base) \div tp = z \div (Base * tp)
    BY <1>7, <1>14, DivDiv DEF tp
  <2> QED BY <1>13, <2>1 DEF N, tp
<1>16. Divmod64Pow10(uu, kk) = [quo |-> (z \div Base) \div tp,
                              rem |-> (uu - ((z \div Base) \div tp) * e.d) % Base]
  BY DEF Divmod64Pow10, Shr, Mul64, Two, z, y, m, t, tp, p
<1>17. (uu - (uu \div ten) * ten) % Base = uu % ten
  <2> DEFINE q == uu \div ten
             r == uu % ten
  <2>1. uu \in Int /\ q \in Nat /\ r \in 0..(ten - 1) /\ uu = ten * q + r
    <3>1. uu \in Int /\ uu \div ten \in Nat
      BY <1>1, <1>8, DivBelow
    <3> QED BY <1>1, <3>1, DivMod
  <2> HIDE DEF q, r
  <2>2. q * ten = ten * q /\ q * ten \in Int
    BY <1>1, <2>1
  <2>3. uu - q * ten = r
    BY <1>1, <2>1, <2>2
  <2>4. r \in 0..(Base - 1) /\ r \in Int /\ r = Base * 0 + r
    BY <1>1, <1>7, <2>1
  <2>5. r % Base = r
    BY <1>7, <2>4, DivModUnique
  <2> QED BY <2>3, <2>5 DEF q, r
<1> QED
  BY <1>1, <1>15, <1>16, <1>17 DEF ten

----------------------------------------------------------------------------
(* The long divisions.                                                     *)
(* The limbs still to be taken down, as a number, and the weight of the    *)
(* place above them.                                                       *)
Rows == {<<>>} \cup {<<a>> : a \in U64} \cup {<<a, b>> : a \in U64, b \in U64}
          \cup {<<a, b, c>> : a \in U64, b \in U64, c \in U64}
          \cup {<<a, b, c, d>> : a \in U64, b \in U64, c \in U64, d \in U64}
Down(l) == CASE Len(l) = 0 -> 0
             [] Len(l) = 1 -> l[1]
             [] Len(l) = 2 -> l[1] * Base + l[2]
             [] Len(l) = 3 -> (l[1] * Base + l[2]) * Base + l[3]
             [] Len(l) = 4 -> Four(l[1], l[2], l[3], l[4])
Unit(n) == CASE n = 0 -> 1
             [] n = 1 -> Base
             [] n = 2 -> Cap
             [] n = 3 -> Base * Cap
             [] n = 4 -> Wide

(* What a row is worth, by its length, and its parts.                      *)
LEMMA RowValues ==
  /\ Len(<<>>) = 0 /\ Down(<<>>) = 0
  /\ \A a \in U64 : Len(<<a>>) = 1 /\ Down(<<a>>) = a
  /\ \A a, b \in U64 : Len(<<a, b>>) = 2 /\ Down(<<a, b>>) = a * Base + b
  /\ \A a, b, c \in U64 :
       Len(<<a, b, c>>) = 3 /\ Down(<<a, b, c>>) = (a * Base + b) * Base + c
  /\ \A a, b, c, d \in U64 :
       Len(<<a, b, c, d>>) = 4 /\ Down(<<a, b, c, d>>) = Four(a, b, c, d)
<1>1. Len(<<>>) = 0 /\ Down(<<>>) = 0
  BY DEF Down
<1>2. ASSUME NEW a \in U64 PROVE Len(<<a>>) = 1 /\ Down(<<a>>) = a
  BY DEF Down
<1>3. ASSUME NEW a \in U64, NEW b \in U64
      PROVE  Len(<<a, b>>) = 2 /\ Down(<<a, b>>) = a * Base + b
  BY DEF Down
<1>4. ASSUME NEW a \in U64, NEW b \in U64, NEW c \in U64
      PROVE  Len(<<a, b, c>>) = 3 /\ Down(<<a, b, c>>) = (a * Base + b) * Base + c
  BY DEF Down
<1>5. ASSUME NEW a \in U64, NEW b \in U64, NEW c \in U64, NEW d \in U64
      PROVE  Len(<<a, b, c, d>>) = 4 /\ Down(<<a, b, c, d>>) = Four(a, b, c, d)
  BY DEF Down
<1> QED BY <1>1, <1>2, <1>3, <1>4, <1>5, Zenon

LEMMA RowParts ==
  /\ \A a \in U64 : Head(<<a>>) = a /\ Tail(<<a>>) = <<>>
  /\ \A a, b \in U64 : Head(<<a, b>>) = a /\ Tail(<<a, b>>) = <<b>>
  /\ \A a, b, c \in U64 : Head(<<a, b, c>>) = a /\ Tail(<<a, b, c>>) = <<b, c>>
  /\ \A a, b, c, d \in U64 : Head(<<a, b, c, d>>) = a /\ Tail(<<a, b, c, d>>) = <<b, c, d>>
<1>1. ASSUME NEW a \in U64 PROVE Head(<<a>>) = a /\ Tail(<<a>>) = <<>>
  OBVIOUS
<1>2. ASSUME NEW a \in U64, NEW b \in U64
      PROVE  Head(<<a, b>>) = a /\ Tail(<<a, b>>) = <<b>>
  OBVIOUS
<1>3. ASSUME NEW a \in U64, NEW b \in U64, NEW c \in U64
      PROVE  Head(<<a, b, c>>) = a /\ Tail(<<a, b, c>>) = <<b, c>>
  OBVIOUS
<1>4. ASSUME NEW a \in U64, NEW b \in U64, NEW c \in U64, NEW d \in U64
      PROVE  Head(<<a, b, c, d>>) = a /\ Tail(<<a, b, c, d>>) = <<b, c, d>>
  OBVIOUS
<1> QED BY <1>1, <1>2, <1>3, <1>4, Zenon

(* What a caller is promised, in the terms of Words.                       *)
Quotient(n, d) == IF n \div Cap >= d THEN Refuse("Overflow") ELSE Answer(n \div d, n % d)
LEMMA Promised ==
  ASSUME NEW c
  PROVE  LET n == Val256(c.u)
             l == Val128(Lo128(c.u))
             m == Val128(c.v)
             w == Val256(c.w)
         IN  /\ c.op = "add128" => Callers!Promise(c) = Answer(Add128(l, m).val, Add128(l, m).carry)
             /\ c.op = "sub128" => Callers!Promise(c) = Answer(Sub128(l, m).val, Sub128(l, m).borrow)
             /\ c.op = "neg128" => Callers!Promise(c) = Answer(Neg128(l), 0)
             /\ c.op = "inc128" => Callers!Promise(c) = Answer(Inc128(l), 0)
             /\ c.op = "cmp128i" => Callers!Promise(c) = Answer(Cmp128(l, m), 0)
             /\ c.op = "mul128by64" =>
                  Callers!Promise(c) = Answer(Mul128by64(l, c.v.lo).val, Mul128by64(l, c.v.lo).overflow)
             /\ c.op = "mulToU256" => Callers!Promise(c) = Answer(l * m, 0)
             /\ c.op = "add256" =>
                  Callers!Promise(c) = Answer(Add256(n, w), IF n + w < Wide THEN 0 ELSE 1)
             /\ c.op = "sub256" =>
                  Callers!Promise(c) = Answer((n - w) % Wide, IF n < w THEN 1 ELSE 0)
             /\ c.op = "neg256" => Callers!Promise(c) = Answer((-n) % Wide, 0)
             /\ c.op = "cmp256" => Callers!Promise(c) = Answer(Sign3(n - w), 0)
             /\ c.op = "mul256by64" =>
                  Callers!Promise(c) = IF Mul256Fits(n, c.v.lo) THEN Answer(n * c.v.lo, 0)
                                                                ELSE Refuse("Overflow")
             /\ c.op = "quoRem64" => Callers!Promise(c) = Answer(l \div c.v.lo, l % c.v.lo)
             /\ c.op \in {"div256by128", "divRoundWide"} => Callers!Promise(c) = Quotient(n, m)
             /\ c.op = "div256by64" =>
                  Callers!Promise(c) = IF c.v.lo = 0 THEN Refuse("DivideByZero")
                                                     ELSE Quotient(n, c.v.lo)
             /\ c.op = "divmod128Pow10" =>
                  Callers!Promise(c) = Answer(l \div Pow10[c.k], l % Pow10[c.k])
             /\ c.op = "divmodU256Pow10Wide" =>
                  Callers!Promise(c) = Answer(n \div Pow10[c.k], n % Pow10[c.k])
             /\ c.op = "quoRemPow10Fit" => Callers!Promise(c) = Quotient(n, Pow10[c.k])
             /\ c.op = "divU256Pow10" =>
                  Callers!Promise(c) = [Quotient(n, Pow10[c.k]) EXCEPT !.rest = 0]
<1> DEFINE n == Val256(c.u)
           l == Val128(Lo128(c.u))
           m == Val128(c.v)
           w == Val256(c.w)
<1>1. /\ Callers!Val256(c.u) = n /\ Callers!Val128(Callers!Lo128(c.u)) = l
      /\ Callers!Val128(c.v) = m /\ Callers!Val256(c.w) = w
  BY DEF Callers!Val256, Val256, Callers!Val128, Val128, Callers!Hi128, Hi128,
         Callers!Cap, Cap, Callers!Lo128, Lo128, Callers!U, U
<1> HIDE DEF n, l, m, w
<1> USE DEF Callers!Promise, Callers!Answer, Answer, Callers!Refuse, Refuse
<1>2. c.op = "add128" => Callers!Promise(c) = Answer(Add128(l, m).val, Add128(l, m).carry)
  BY <1>1 DEF Callers!Add128, Add128, Callers!Cap, Cap
<1>3. c.op = "sub128" => Callers!Promise(c) = Answer(Sub128(l, m).val, Sub128(l, m).borrow)
  BY <1>1 DEF Callers!Sub128, Sub128, Callers!Cap, Cap
<1>4. c.op = "neg128" => Callers!Promise(c) = Answer(Neg128(l), 0)
  BY <1>1 DEF Callers!Neg128, Neg128, Callers!Sub128, Sub128, Callers!Cap, Cap
<1>5. c.op = "inc128" => Callers!Promise(c) = Answer(Inc128(l), 0)
  BY <1>1 DEF Callers!Inc128, Inc128, Callers!Add128, Add128, Callers!Cap, Cap
<1>6. c.op = "cmp128i" => Callers!Promise(c) = Answer(Cmp128(l, m), 0)
  BY <1>1 DEF Callers!Cmp128, Cmp128, Callers!Sign3, Sign3
<1>7. c.op = "mul128by64" =>
        Callers!Promise(c) = Answer(Mul128by64(l, c.v.lo).val, Mul128by64(l, c.v.lo).overflow)
  BY <1>1 DEF Callers!Mul128by64, Mul128by64, Callers!Cap, Cap
<1>8. c.op = "mulToU256" => Callers!Promise(c) = Answer(l * m, 0)
  BY <1>1
<1>9. c.op = "add256" => Callers!Promise(c) = Answer(Add256(n, w), IF n + w < Wide THEN 0 ELSE 1)
  BY <1>1 DEF Callers!Add256, Add256, Callers!Wide, Wide, Callers!Cap, Cap
<1>10. c.op = "sub256" => Callers!Promise(c) = Answer((n - w) % Wide, IF n < w THEN 1 ELSE 0)
  BY <1>1 DEF Callers!Wide, Wide, Callers!Cap, Cap
<1>11. c.op = "neg256" => Callers!Promise(c) = Answer((-n) % Wide, 0)
  BY <1>1 DEF Callers!Wide, Wide, Callers!Cap, Cap
<1>12. c.op = "cmp256" => Callers!Promise(c) = Answer(Sign3(n - w), 0)
  BY <1>1 DEF Callers!Sign3, Sign3
<1>13. c.op = "mul256by64" =>
         Callers!Promise(c) = IF Mul256Fits(n, c.v.lo) THEN Answer(n * c.v.lo, 0)
                                                       ELSE Refuse("Overflow")
  BY <1>1 DEF Callers!Mul256Fits, Mul256Fits, Callers!Wide, Wide, Callers!Cap, Cap
<1>14. c.op = "quoRem64" => Callers!Promise(c) = Answer(l \div c.v.lo, l % c.v.lo)
  BY <1>1
<1>15. \A d : Callers!Divided(n, d) = Quotient(n, d)
  BY DEF Callers!Divided, Quotient, Callers!Cap, Cap
<1>16. c.op \in {"div256by128", "divRoundWide"} => Callers!Promise(c) = Quotient(n, m)
  BY <1>1, <1>15
<1>17. c.op = "div256by64" =>
         Callers!Promise(c) = IF c.v.lo = 0 THEN Refuse("DivideByZero") ELSE Quotient(n, c.v.lo)
  BY <1>1, <1>15
<1>18. c.op = "divmod128Pow10" => Callers!Promise(c) = Answer(l \div Pow10[c.k], l % Pow10[c.k])
  BY <1>1
<1>19. c.op = "divmodU256Pow10Wide" => Callers!Promise(c) = Answer(n \div Pow10[c.k], n % Pow10[c.k])
  BY <1>1
<1>20. c.op = "quoRemPow10Fit" => Callers!Promise(c) = Quotient(n, Pow10[c.k])
  BY <1>1, <1>15
<1>21. c.op = "divU256Pow10" => Callers!Promise(c) = [Quotient(n, Pow10[c.k]) EXCEPT !.rest = 0]
  BY <1>1, <1>15
<1> QED
  BY <1>2, <1>3, <1>4, <1>5, <1>6, <1>7, <1>8, <1>9, <1>10, <1>11, <1>12, <1>13, <1>14,
     <1>16, <1>17, <1>18, <1>19, <1>20, <1>21 DEF n, l, m, w

(* The kernels without a loop answer what they promise.                    *)
THEOREM StraightLineExact ==
  ASSUME NEW c \in Calls, c.op \in StraightOps
  PROVE  StraightLine(c) = Callers!Promise(c)
<1> DEFINE lo == Lo128(c.u)
           l == Val128(lo)
           m == Val128(c.v)
           n == Val256(c.u)
           w == Val256(c.w)
           prod == Mul128by64to192(lo, c.v.lo)
           wide == Mul256by64(c.u, c.v.lo)
<1>1. c.u \in Limbs256 /\ c.w \in Limbs256 /\ c.v \in Limbs128
  BY CallsAssumption
<1>2. lo \in Limbs128 /\ c.v.lo \in U64
  BY <1>1, QuadRange, ValRange
<1>3. /\ c.op = "add128" => StraightLine(c) = Answer(Val128(AddLimbs(lo, c.v).val), AddLimbs(lo, c.v).carry)
      /\ c.op = "sub128" => StraightLine(c) = Answer(Val128(SubLimbs(lo, c.v).val), SubLimbs(lo, c.v).borrow)
      /\ c.op = "neg128" => StraightLine(c) = Answer(Val128(NegLimbs(lo)), 0)
      /\ c.op = "inc128" => StraightLine(c) = Answer(Val128(IncLimbs(lo)), 0)
      /\ c.op = "cmp128i" => StraightLine(c) = Answer(CmpLimbs(lo, c.v), 0)
      /\ c.op = "mul128by64" => StraightLine(c) = Answer(Val128(U(prod.d1, prod.d0)), prod.d2)
      /\ c.op = "mulToU256" => StraightLine(c) = Answer(Val256(MulToU256(lo, c.v)), 0)
  BY DEF StraightLine
<1>4. /\ c.op = "add256" => StraightLine(c) = Answer(Val256(AddQuads(c.u, c.w).val), AddQuads(c.u, c.w).carry)
      /\ c.op = "sub256" => StraightLine(c) = Answer(Val256(SubQuads(c.u, c.w).val), SubQuads(c.u, c.w).borrow)
      /\ c.op = "neg256" => StraightLine(c) = Answer(Val256(NegQuad(c.u)), 0)
      /\ c.op = "cmp256" => StraightLine(c) = Answer(CmpQuads(c.u, c.w), 0)
      /\ c.op = "mul256by64" => StraightLine(c) = IF wide.fits THEN Answer(Val256(wide.val), 0)
                                                               ELSE Refuse("Overflow")
  BY DEF StraightLine
<1>5. CASE c.op = "add128"
  BY <1>1, <1>2, <1>3, <1>5, PairArithmetic, Promised
<1>6. CASE c.op = "sub128"
  BY <1>1, <1>2, <1>3, <1>6, PairArithmetic, Promised
<1>7. CASE c.op = "neg128"
  BY <1>1, <1>2, <1>3, <1>7, PairSteps, Promised
<1>8. CASE c.op = "inc128"
  BY <1>1, <1>2, <1>3, <1>8, PairSteps, Promised
<1>9. CASE c.op = "cmp128i"
  BY <1>1, <1>2, <1>3, <1>9, PairArithmetic, Promised
<1>10. CASE c.op = "mul128by64"
  BY <1>1, <1>2, <1>3, <1>10, Mul128by64Exact, Promised
<1>11. CASE c.op = "mulToU256"
  BY <1>1, <1>2, <1>3, <1>11, MulToU256Exact, Promised
<1>12. CASE c.op = "add256"
  BY <1>1, <1>2, <1>4, <1>12, QuadArithmetic, Promised
<1>13. CASE c.op = "sub256"
  BY <1>1, <1>2, <1>4, <1>13, QuadArithmetic, Promised
<1>14. CASE c.op = "neg256"
  BY <1>1, <1>2, <1>4, <1>14, NegQuadExact, Promised
<1>15. CASE c.op = "cmp256"
  BY <1>1, <1>2, <1>4, <1>15, CmpQuadsExact, Promised
<1>16. CASE c.op = "mul256by64"
  <2>1. c.v.lo # 0
    <3>1. Callers!Precondition(c)
      BY CallsAssumption
    <3> QED BY <1>16, <3>1 DEF Callers!Precondition
  <2>2. /\ wide.fits <=> Mul256Fits(n, c.v.lo)
        /\ wide.fits => Val256(wide.val) = n * c.v.lo
    BY <1>1, <1>2, <2>1, Mul256by64Exact
  <2>3. Callers!Promise(c) = IF Mul256Fits(n, c.v.lo) THEN Answer(n * c.v.lo, 0)
                                                     ELSE Refuse("Overflow")
    BY <1>16, Promised
  <2>4. StraightLine(c) = IF wide.fits THEN Answer(Val256(wide.val), 0) ELSE Refuse("Overflow")
    BY <1>4, <1>16
  <2> HIDE DEF wide, n
  <2> DEFINE f == wide.fits
             g == Mul256Fits(n, c.v.lo)
  <2>5. (f <=> g) /\ (f => Val256(wide.val) = n * c.v.lo)
    BY <2>2
  <2>6. /\ Callers!Promise(c) = IF g THEN Answer(n * c.v.lo, 0) ELSE Refuse("Overflow")
        /\ StraightLine(c) = IF f THEN Answer(Val256(wide.val), 0) ELSE Refuse("Overflow")
    BY <2>3, <2>4
  <2> HIDE DEF f, g
  <2>7. CASE f /\ g
    BY <2>5, <2>6, <2>7
  <2>8. CASE ~f /\ ~g
    BY <2>6, <2>8
  <2> QED BY <2>5, <2>7, <2>8
<1> QED
  BY <1>5, <1>6, <1>7, <1>8, <1>9, <1>10, <1>11, <1>12, <1>13, <1>14, <1>15, <1>16 DEF StraightOps

LEMMA UnitFacts ==
  /\ Unit(0) = 1 /\ Unit(1) = Base /\ Unit(2) = Cap /\ Unit(3) = Base * Cap /\ Unit(4) = Wide
  /\ Base \in Nat \ {0} /\ Cap = Base * Base /\ Cap \in Nat \ {0} /\ Wide = Cap * Cap
  /\ \A n \in 0..4 : Unit(n) \in Nat \ {0} /\ Unit(n) = Two(WordBits * n)
<1>1. Unit(0) = 1 /\ Unit(1) = Base /\ Unit(2) = Cap /\ Unit(3) = Base * Cap /\ Unit(4) = Wide
  BY DEF Unit
<1>2. /\ Base \in Nat \ {0} /\ Cap = Base * Base /\ Cap \in Nat \ {0} /\ Wide = Cap * Cap
      /\ Wide \in Nat \ {0}
  BY BaseFacts, CapFacts
<1>3. Base * Cap \in Nat \ {0}
  BY <1>2
<1>4. WordBits \in Nat /\ Base = Two(WordBits)
  BY WordAssumption DEF Two
<1> DEFINE a == WordBits
<1>5. Two(a + a) = Base * Base
  BY <1>4, TwoAdds
<1>6. Two(a + (a + a)) = Base * Cap
  <2>1. a + a \in Nat
    BY <1>4
  <2> QED BY <1>2, <1>4, <1>5, <2>1, TwoAdds
<1>7. Two((a + a) + (a + a)) = Wide
  <2>1. a + a \in Nat
    BY <1>4
  <2> QED BY <1>2, <1>5, <2>1, TwoAdds
<1>8. WordBits * 0 = 0 /\ WordBits * 1 = a /\ WordBits * 2 = a + a /\ WordBits * 3 = a + (a + a)
      /\ WordBits * 4 = (a + a) + (a + a)
  BY <1>4
<1> HIDE DEF a
<1>9. /\ Unit(0) = Two(WordBits * 0) /\ Unit(1) = Two(WordBits * 1) /\ Unit(2) = Two(WordBits * 2)
      /\ Unit(3) = Two(WordBits * 3) /\ Unit(4) = Two(WordBits * 4)
  BY <1>1, <1>2, <1>4, <1>5, <1>6, <1>7, <1>8, TwoDoubles DEF a
<1>10. \A n \in 0..4 : n = 0 \/ n = 1 \/ n = 2 \/ n = 3 \/ n = 4
  OBVIOUS
<1>11. \A n \in 0..4 : Unit(n) \in Nat \ {0}
  BY <1>1, <1>2, <1>3, <1>10
<1>12. \A n \in 0..4 : Unit(n) = Two(WordBits * n)
  <2> TAKE n \in 0..4
  <2> QED BY <1>9, <1>10, Zenon
<1> QED
  BY <1>1, <1>2, <1>11, <1>12

(* Taking down the next limb.                                              *)
LEMMA RowStep ==
  ASSUME NEW l \in Rows, l # <<>>
  PROVE  /\ Len(l) \in 1..4 /\ Head(l) \in U64 /\ Tail(l) \in Rows /\ Len(Tail(l)) = Len(l) - 1
         /\ Unit(Len(l)) = Base * Unit(Len(l) - 1)
         /\ Down(l) = Head(l) * Unit(Len(l) - 1) + Down(Tail(l))
<1> USE UnitFacts
<1>1. CASE \E a \in U64 : l = <<a>>
  <2>1. PICK a \in U64 : l = <<a>>
    BY <1>1
  <2>2. Len(l) = 1 /\ Head(l) = a /\ Tail(l) = <<>> /\ Down(l) = a /\ Len(Tail(l)) = 0 /\ Down(Tail(l)) = 0
    BY <2>1, RowValues, RowParts
  <2>3. Tail(l) \in Rows
    BY <2>2 DEF Rows
  <2>4. a \in Int
    BY WordRange
  <2> QED BY <2>2, <2>3, <2>4
<1>2. CASE \E a \in U64, b \in U64 : l = <<a, b>>
  <2>1. PICK a \in U64, b \in U64 : l = <<a, b>>
    BY <1>2
  <2>2. /\ Len(l) = 2 /\ Head(l) = a /\ Tail(l) = <<b>> /\ Down(l) = a * Base + b
        /\ Len(Tail(l)) = 1 /\ Down(Tail(l)) = b
    BY <2>1, RowValues, RowParts
  <2>3. Tail(l) \in Rows
    BY <2>2 DEF Rows
  <2> QED BY <2>2, <2>3
<1>3. CASE \E a \in U64, b \in U64, c \in U64 : l = <<a, b, c>>
  <2>1. PICK a \in U64, b \in U64, c \in U64 : l = <<a, b, c>>
    BY <1>3
  <2>2. /\ Len(l) = 3 /\ Head(l) = a /\ Tail(l) = <<b, c>> /\ Down(l) = (a * Base + b) * Base + c
        /\ Len(Tail(l)) = 2 /\ Down(Tail(l)) = b * Base + c
    BY <2>1, RowValues, RowParts
  <2>3. Tail(l) \in Rows
    BY <2>2 DEF Rows
  <2>4. a \in Int /\ b \in Int /\ c \in Int
    BY WordRange
  <2>5. (a * Base + b) * Base + c = a * (Base * Base) + (b * Base + c)
    BY <2>4
  <2> QED BY <2>2, <2>3, <2>5
<1>4. CASE \E a \in U64, b \in U64, c \in U64, d \in U64 : l = <<a, b, c, d>>
  <2>1. PICK a \in U64, b \in U64, c \in U64, d \in U64 : l = <<a, b, c, d>>
    BY <1>4
  <2>2. /\ Len(l) = 4 /\ Head(l) = a /\ Tail(l) = <<b, c, d>> /\ Down(l) = Four(a, b, c, d)
        /\ Len(Tail(l)) = 3 /\ Down(Tail(l)) = (b * Base + c) * Base + d
    BY <2>1, RowValues, RowParts
  <2>3. Tail(l) \in Rows
    BY <2>2 DEF Rows
  <2>4. a \in Int /\ b \in Int /\ c \in Int /\ d \in Int
    BY WordRange
  <2>5. Four(a, b, c, d) = a * (Base * (Base * Base)) + ((b * Base + c) * Base + d)
    BY <2>4 DEF Four
  <2>6. Unit(4) = Base * Unit(3) /\ a * Unit(3) = a * (Base * (Base * Base))
    OBVIOUS
  <2>7. Down(l) = Head(l) * Unit(3) + Down(Tail(l))
    BY <2>2, <2>5, <2>6
  <2>8. Head(l) \in U64 /\ Len(l) = 4 /\ Len(Tail(l)) = 3
    BY <2>2
  <2>9. Len(l) - 1 = 3 /\ Len(Tail(l)) = Len(l) - 1 /\ Len(l) \in 1..4
    BY <2>8
  <2> HIDE UnitFacts
  <2> QED BY <2>3, <2>6, <2>7, <2>8, <2>9, Zenon
<1> HIDE UnitFacts
<1>5. \/ \E a \in U64 : l = <<a>>
      \/ \E a \in U64, b \in U64 : l = <<a, b>>
      \/ \E a \in U64, b \in U64, c \in U64 : l = <<a, b, c>>
      \/ \E a \in U64, b \in U64, c \in U64, d \in U64 : l = <<a, b, c, d>>
  BY DEF Rows
<1> QED
  BY <1>1, <1>2, <1>3, <1>4, <1>5, Zenon

(* What is still to be taken down is less than one in the place above.     *)
LEMMA RowBelow ==
  ASSUME NEW l \in Rows
  PROVE  Len(l) \in 0..4 /\ Down(l) \in 0..(Unit(Len(l)) - 1)
         /\ (Len(l) = 0 <=> l = <<>>)
<1> USE UnitFacts
<1> DEFINE Fills(m) == m \in Rows /\ Len(m) \in 0..4 /\ Down(m) \in 0..(Unit(Len(m)) - 1)
<1>0. Len(<<>>) = 0
  BY RowValues
<1>1. Fills(<<>>)
  <2>1. <<>> \in Rows /\ Len(<<>>) = 0 /\ Down(<<>>) = 0
    <3>1. 0 \in U64
      BY DEF U64
    <3> QED BY <3>1, RowValues DEF Rows
  <2> QED BY <2>1
<1>2. ASSUME NEW m \in Rows, m # <<>>, Fills(Tail(m)) PROVE Fills(m)
  <2> DEFINE h == Head(m)
             r == Down(Tail(m))
             n == Unit(Len(m) - 1)
             e == Down(m)
  <2>1. /\ Len(m) \in 1..4 /\ h \in U64 /\ Len(Tail(m)) = Len(m) - 1
        /\ Unit(Len(m)) = Base * n /\ e = h * n + r
    BY <1>2, RowStep
  <2>2. r \in 0..(n - 1) /\ n \in Nat \ {0}
    <3>1. Len(m) - 1 \in 0..4
      BY <2>1
    <3> QED BY <1>2, <2>1, <3>1
  <2>3. h \in Nat /\ h <= Base - 1
    BY <2>1, WordRange
  <2> HIDE DEF h, r, n, e
  <2>4. e \in 0..(Base * n - 1)
    <3>1. h * n <= (Base - 1) * n /\ (Base - 1) * n = Base * n - n /\ h * n \in Nat /\ Base * n \in Nat
      BY <2>2, <2>3
    <3> QED BY <2>1, <2>2, <3>1
  <2>5. Len(m) \in 0..4
    BY <2>1
  <2> QED BY <1>2, <2>1, <2>4, <2>5 DEF e
<1> HIDE UnitFacts
<1>3. \A m \in Rows : Len(m) = 0 => m = <<>>
  BY RowValues, RowStep
<1> HIDE DEF Fills
<1>4. \A m \in Rows : Len(m) = 1 => Fills(m)
  <2> TAKE m \in Rows
  <2> HAVE Len(m) = 1
  <2>1. m # <<>>
    BY <1>0
  <2>2. Tail(m) \in Rows /\ Len(Tail(m)) = 0
    BY <2>1, RowStep
  <2> QED BY <1>1, <1>2, <1>3, <2>1, <2>2
<1>5. \A m \in Rows : Len(m) = 2 => Fills(m)
  <2> TAKE m \in Rows
  <2> HAVE Len(m) = 2
  <2>1. m # <<>>
    BY <1>0
  <2>2. Tail(m) \in Rows /\ Len(Tail(m)) = 1
    BY <2>1, RowStep
  <2> QED BY <1>2, <1>4, <2>1, <2>2
<1>6. \A m \in Rows : Len(m) = 3 => Fills(m)
  <2> TAKE m \in Rows
  <2> HAVE Len(m) = 3
  <2>1. m # <<>>
    BY <1>0
  <2>2. Tail(m) \in Rows /\ Len(Tail(m)) = 2
    BY <2>1, RowStep
  <2> QED BY <1>2, <1>5, <2>1, <2>2
<1>7. \A m \in Rows : Len(m) = 4 => Fills(m)
  <2> TAKE m \in Rows
  <2> HAVE Len(m) = 4
  <2>1. m # <<>>
    BY <1>0
  <2>2. Tail(m) \in Rows /\ Len(Tail(m)) = 3
    BY <2>1, RowStep
  <2> QED BY <1>2, <1>6, <2>1, <2>2
<1>8. Fills(l)
  <2>1. CASE l = <<>>
    BY <1>1, <2>1
  <2>2. CASE l # <<>>
    <3>1. Len(l) \in 1..4
      BY <2>2, RowStep
    <3>2. Len(l) = 1 \/ Len(l) = 2 \/ Len(l) = 3 \/ Len(l) = 4
      BY <3>1
    <3> QED BY <1>4, <1>5, <1>6, <1>7, <3>2
  <2> QED BY <2>1, <2>2
<1>9. Len(l) = 0 <=> l = <<>>
  BY <1>3, RowValues
<1> QED
  BY <1>8, <1>9 DEF Fills

(* One digit keeps the balance, and the last remainder is shifted back.    *)
LEMMA DigitBalance ==
  ASSUME NEW b \in Nat \ {0}, NEW w \in Nat \ {0}, NEW d \in Int, NEW r \in Int, NEW q \in Int,
         NEW digit \in Int, NEW left \in Int, NEW h \in Int, NEW t \in Int,
         digit * d + left = r * b + h
  PROVE  ((q * b + digit) * d + left) * w + t = (q * d + r) * (b * w) + (h * w + t)
<1>1. (q * b + digit) * d + left = (q * d) * b + (digit * d + left)
  <2>1. (q * b + digit) * d = (q * d) * b + digit * d
    OBVIOUS
  <2>2. (q * d) * b \in Int /\ digit * d \in Int
    OBVIOUS
  <2> QED BY <2>1, <2>2
<1>2. (q * d) * b + (r * b + h) = (q * d + r) * b + h
  OBVIOUS
<1> DEFINE x == q * d + r
<1>3. x \in Int
  OBVIOUS
<1> HIDE DEF x
<1>4. (x * b + h) * w = x * (b * w) + h * w
  BY <1>3
<1>5. x * (b * w) \in Int /\ h * w \in Int
  BY <1>3
<1>6. ((q * b + digit) * d + left) * w = x * (b * w) + h * w
  BY <1>1, <1>2, <1>4 DEF x
<1> QED
  BY <1>5, <1>6 DEF x

Settled(n, d, t, q, r) ==
  /\ n \in Nat /\ d \in Nat \ {0} /\ t \in Nat \ {0} /\ q \in Int /\ r \in Nat
  /\ r < d * t /\ q * (d * t) + r = n * t
LEMMA LastRemainder ==
  ASSUME NEW n, NEW d, NEW t, NEW q, NEW r, Settled(n, d, t, q, r)
  PROVE  n \div d = q /\ n % d = r \div t /\ r % t = 0 /\ (d * t) \div t = d
<1> USE DEF Settled
<1> DEFINE e == n - q * d
<1>1. e \in Int /\ n = d * q + e
  OBVIOUS
<1>2. r = e * t
  <2>1. (n - q * d) * t = n * t - q * (d * t)
    OBVIOUS
  <2>2. n * t \in Int /\ q * (d * t) \in Int
    OBVIOUS
  <2> QED BY <2>1, <2>2
<1> HIDE DEF e
<1>3. e >= 0
  <2>1. e <= -1 => e * t <= -1 * t
    BY <1>1
  <2> QED BY <1>1, <1>2, <2>1
<1>4. e < d
  <2>1. e >= d => e * t >= d * t
    BY <1>1
  <2> QED BY <1>1, <1>2, <2>1
<1>5. n \div d = q /\ n % d = e
  <2>1. e \in 0..(d - 1)
    BY <1>1, <1>3, <1>4
  <2>2. n \in Int
    OBVIOUS
  <2> QED BY <1>1, <2>1, <2>2, DivModUnique
<1>6. r \div t = e /\ r % t = 0 /\ (d * t) \div t = d
  BY <1>1, <1>2, DivExactly
<1> QED
  BY <1>5, <1>6

(* What Divided tests is that the quotient needs more than two limbs.      *)
LEMMA QuotientFits ==
  ASSUME NEW n \in Nat, NEW d \in Nat \ {0}
  PROVE  n \div Cap >= d <=> n \div d >= Cap
<1>1. Cap \in Nat \ {0}
  BY CapFacts
<1>2. n \div Cap >= d <=> n >= Cap * d
  BY <1>1, DivBelow
<1>3. n \div d >= Cap <=> n >= d * Cap
  BY <1>1, DivBelow
<1>4. Cap * d = d * Cap
  BY <1>1
<1> QED
  BY <1>2, <1>3, <1>4

(* The second pass divides what the first one left.                        *)
LEMMA TwoPasses ==
  ASSUME NEW n \in Nat, NEW a \in Nat \ {0}, NEW b \in Nat \ {0}
  PROVE  [Quotient(n \div a, b) EXCEPT !.rest = 0] = [Quotient(n, a * b) EXCEPT !.rest = 0]
<1> DEFINE m == n \div a
           c == a * b
<1>1. m \in Nat /\ c \in Nat \ {0}
  BY DivBelow
<1>2. m \div b = n \div c
  BY DivDiv
<1> HIDE DEF m, c
<1>3. m \div Cap >= b <=> n \div Cap >= c
  BY <1>1, <1>2, QuotientFits
<1> DEFINE f == m \div Cap >= b
           g == n \div Cap >= c
<1>4. /\ Quotient(m, b) = IF f THEN Refuse("Overflow") ELSE Answer(m \div b, m % b)
      /\ Quotient(n, c) = IF g THEN Refuse("Overflow") ELSE Answer(n \div c, n % c)
  BY DEF Quotient
<1>5. f <=> g
  BY <1>3
<1>6. \A x, y, z : [Answer(x, y) EXCEPT !.rest = 0] = [Answer(x, z) EXCEPT !.rest = 0]
  BY DEF Answer
<1> HIDE DEF f, g
<1> DEFINE Same == [Quotient(m, b) EXCEPT !.rest = 0] = [Quotient(n, c) EXCEPT !.rest = 0]
<1>7. ASSUME f, g PROVE Same
  <2>1. Quotient(m, b) = Refuse("Overflow") /\ Quotient(n, c) = Refuse("Overflow")
    BY <1>4, <1>7
  <2> QED BY <2>1
<1>8. ASSUME ~f, ~g PROVE Same
  <2>1. Quotient(m, b) = Answer(n \div c, m % b) /\ Quotient(n, c) = Answer(n \div c, n % c)
    BY <1>2, <1>4, <1>8
  <2> QED BY <1>6, <2>1
<1>9. [Quotient(m, b) EXCEPT !.rest = 0] = [Quotient(n, c) EXCEPT !.rest = 0]
  BY <1>5, <1>7, <1>8, Zenon
<1> QED
  BY <1>9 DEF m, c

(* A number as four limbs.                                                 *)
LEMMA QuadExact ==
  ASSUME NEW n \in Nat, n < Wide
  PROVE  Quad(n) \in Limbs256 /\ Val256(Quad(n)) = n
<1> DEFINE hi == n \div Cap
           lo == n % Cap
<1>1. Cap \in Nat \ {0} /\ Wide = Cap * Cap /\ Base \in Nat \ {0} /\ Cap = Base * Base
  BY CapFacts, BaseFacts
<1>2. hi \in Nat /\ lo \in Nat /\ hi < Cap /\ lo < Cap /\ n = hi * Cap + lo
  <2>1. n \in Int /\ hi \in Nat /\ lo \in Nat /\ lo < Cap
    BY <1>1, DivBelow
  <2>2. n = Cap * hi + lo
    BY <1>1, <2>1, DivMod
  <2>3. hi < Cap
    BY <1>1, DivBelow
  <2> HIDE DEF hi, lo
  <2>4. Cap * hi = hi * Cap
    BY <1>1, <2>1
  <2> QED BY <2>1, <2>2, <2>3, <2>4
<1> HIDE DEF hi, lo
<1>3. ASSUME NEW x \in Nat, x < Cap
      PROVE  x \div Base \in U64 /\ x % Base \in U64 /\ (x \div Base) * Base + (x % Base) = x
  <2> DEFINE p == x \div Base
             q == x % Base
  <2>1. x \in Int /\ p \in Nat /\ q \in Nat /\ q < Base
    BY <1>1, DivBelow
  <2>2. p < Base
    BY <1>1, <1>3, DivBelow
  <2>3. x = Base * p + q
    BY <1>1, <2>1, DivMod
  <2> HIDE DEF p, q
  <2>4. Base * p = p * Base
    BY <1>1, <2>1
  <2>5. p \in U64 /\ q \in U64 /\ p * Base + q = x
    BY <1>1, <2>1, <2>2, <2>3, <2>4 DEF U64
  <2> QED BY <2>5 DEF p, q
<1>4. /\ hi \div Base \in U64 /\ hi % Base \in U64 /\ (hi \div Base) * Base + (hi % Base) = hi
      /\ lo \div Base \in U64 /\ lo % Base \in U64 /\ (lo \div Base) * Base + (lo % Base) = lo
  BY <1>2, <1>3
<1>5. Quad(n) = Q(hi \div Base, hi % Base, lo \div Base, lo % Base)
  BY DEF Quad, hi, lo
<1> QED
  BY <1>2, <1>4, <1>5, QuadOf

(* A division of n by d in progress: the divisor y is d normalized, q the   *)
(* quotient so far, r the running remainder, l the limbs not yet taken down. *)
Normal(d, y) ==
  /\ d \in Nat \ {0} /\ y.shift \in 0..(WordBits - 1) /\ y.den \in Limbs128
  /\ Val128(y.den) = d * Two(y.shift)
  /\ \/ 2 * y.den.hi >= Base
     \/ y.den.hi = 0 /\ 2 * y.den.lo >= Base /\ y.recip = (Cap - 1) \div y.den.lo - Base
Running(d, y, r, q, l, n) ==
  /\ Normal(d, y) /\ q \in Nat /\ r \in Limbs128 /\ l \in Rows
  /\ Val128(r) < Val128(y.den)
  /\ (q * Val128(y.den) + Val128(r)) * Unit(Len(l)) + Down(l) = n * Two(y.shift)

LEMMA OneLimb0 ==
  ASSUME NEW x \in U64
  PROVE  U(0, x) \in Limbs128 /\ Val128(U(0, x)) = x /\ U(0, x).hi = 0 /\ U(0, x).lo = x
<1>1. 0 \in U64 /\ x \in Int /\ Base \in Nat
  BY WordRange, BaseFacts DEF U64
<1>2. U(0, x) \in Limbs128 /\ Val128(U(0, x)) = 0 * Base + x
  BY <1>1, PairRange
<1> QED
  BY <1>1, <1>2 DEF U

(* A divisor of one limb and its reciprocal.                               *)
NormalLimb(d, s, dn, rc) ==
  /\ d \in Nat \ {0} /\ s \in 0..(WordBits - 1) /\ dn \in U64 /\ dn = d * Two(s)
  /\ 2 * dn >= Base /\ rc = (Cap - 1) \div dn - Base
LEMMA NormalByLimb ==
  ASSUME NEW d, NEW s, NEW dn, NEW rc, NormalLimb(d, s, dn, rc)
  PROVE  /\ Normal(d, ByLimb(dn, rc, s))
         /\ Val128(ByLimb(dn, rc, s).den) = dn /\ ByLimb(dn, rc, s).shift = s
<1> DEFINE y == ByLimb(dn, rc, s)
<1>1. y.den = U(0, dn) /\ y.recip = rc /\ y.shift = s
  BY DEF ByLimb
<1> HIDE DEF y
<1>2. dn \in U64 /\ s \in 0..(WordBits - 1) /\ d \in Nat \ {0} /\ 2 * dn >= Base
      /\ rc = (Cap - 1) \div dn - Base /\ dn = d * Two(s)
  BY DEF NormalLimb
<1>3. U(0, dn) \in Limbs128 /\ Val128(U(0, dn)) = dn /\ U(0, dn).hi = 0 /\ U(0, dn).lo = dn
  BY <1>2, OneLimb0
<1>4. Normal(d, y)
  BY <1>1, <1>2, <1>3 DEF Normal
<1> QED
  BY <1>1, <1>3, <1>4 DEF y

(* The bits shifted out of a limb are less than a normalized divisor.      *)
LEMMA OutBelow ==
  ASSUME NEW d, NEW s, NEW dn, NEW rc, NormalLimb(d, s, dn, rc), NEW x \in U64
  PROVE  Out(x, s) \in U64 /\ Out(x, s) < dn
<1>1. s \in 0..(WordBits - 1) /\ d \in Nat \ {0} /\ dn = d * Two(s)
  BY DEF NormalLimb
<1> DEFINE o == Out(x, s)
           t == Two(s)
<1>2. o \in 0..(t - 1) /\ o \in U64 /\ t \in Nat \ {0}
  BY <1>1, ShiftWord, ShiftFactors
<1> HIDE DEF o, t
<1>3. d * t >= t /\ d * t \in Nat
  BY <1>1, <1>2
<1>4. dn = d * t
  BY <1>1 DEF t
<1>5. o < dn
  BY <1>2, <1>3, <1>4
<1> QED
  BY <1>2, <1>5 DEF o

(* Four limbs, of which the bits shifted out are the first remainder.      *)
LEMMA BeginWide ==
  ASSUME NEW d, NEW s, NEW dn, NEW rc, NormalLimb(d, s, dn, rc), NEW x \in Limbs256
  PROVE  Running(d, ByLimb(dn, rc, s), U(0, ShiftedOut(x.d3, s)), 0, Normalized4(x, s), Val256(x))
<1> DEFINE y == ByLimb(dn, rc, s)
           o == Out(x.d3, s)
           l == Normalized4(x, s)
           r == U(0, o)
<1>1. s \in 0..(WordBits - 1) /\ Normal(d, y) /\ Val128(y.den) = dn /\ y.shift = s
  BY NormalByLimb DEF NormalLimb
<1>2. x.d3 \in U64
  BY QuadRange
<1>3. o \in U64 /\ o < dn
  BY <1>2, OutBelow
<1>4. r \in Limbs128 /\ Val128(r) = o
  BY <1>3, OneLimb0
<1>5. l = <<Funnel(x.d3, x.d2, s), Funnel(x.d2, x.d1, s), Funnel(x.d1, x.d0, s), Shl(x.d0, s)>>
  BY DEF Normalized4
<1>6. /\ o * Wide + Four(Funnel(x.d3, x.d2, s), Funnel(x.d2, x.d1, s),
                         Funnel(x.d1, x.d0, s), Shl(x.d0, s)) = Val256(x) * Two(s)
      /\ Funnel(x.d3, x.d2, s) \in U64 /\ Funnel(x.d2, x.d1, s) \in U64
      /\ Funnel(x.d1, x.d0, s) \in U64 /\ Shl(x.d0, s) \in U64
  BY <1>1, ShiftedQuad
<1>7. l \in Rows
  BY <1>5, <1>6 DEF Rows
<1>8. Len(l) = 4 /\ Down(l) = Four(Funnel(x.d3, x.d2, s), Funnel(x.d2, x.d1, s),
                                  Funnel(x.d1, x.d0, s), Shl(x.d0, s))
  BY <1>5, <1>6, RowValues
<1>9. o * Unit(Len(l)) + Down(l) = Val256(x) * Two(s)
  BY <1>6, <1>8, UnitFacts
<1>10. 0 * dn + o = o
  <2>1. dn \in Int /\ o \in Int
    BY <1>3, WordRange DEF NormalLimb
  <2> HIDE DEF o
  <2> QED BY <2>1
<1>11. ShiftedOut(x.d3, s) = o
  BY DEF ShiftedOut, Out
<1> HIDE DEF y, o, l
<1>12. (0 * Val128(y.den) + Val128(r)) * Unit(Len(l)) + Down(l) = Val256(x) * Two(y.shift)
  BY <1>1, <1>4, <1>9, <1>10
<1>13. Running(d, y, r, 0, l, Val256(x))
  <2>1. 0 \in Nat /\ Val128(r) < Val128(y.den)
    BY <1>1, <1>3, <1>4
  <2> HIDE DEF r
  <2> QED BY <1>1, <1>4, <1>7, <1>12, <2>1 DEF Running
<1> QED
  BY <1>11, <1>13 DEF y, l

(* Two limbs.                                                              *)
LEMMA BeginSlow ==
  ASSUME NEW d, NEW s, NEW dn, NEW rc, NormalLimb(d, s, dn, rc),
         NEW x \in Limbs256, x.d3 = 0, x.d2 = 0
  PROVE  Running(d, ByLimb(dn, rc, s), U(0, ShiftedOut(x.d1, s)), 0,
                 <<Funnel(x.d1, x.d0, s), Shl(x.d0, s)>>, Val256(x))
<1> DEFINE y == ByLimb(dn, rc, s)
           o == Out(x.d1, s)
           f == Funnel(x.d1, x.d0, s)
           z == Shl(x.d0, s)
           l == <<f, z>>
           r == U(0, o)
<1>1. s \in 0..(WordBits - 1) /\ Normal(d, y) /\ Val128(y.den) = dn /\ y.shift = s
  BY NormalByLimb DEF NormalLimb
<1>2. /\ x.d1 \in U64 /\ x.d0 \in U64
      /\ Val256(x) = (0 * Base + 0) * Cap + (x.d1 * Base + x.d0)
  BY QuadRange
<1>3. o \in U64 /\ o < dn
  BY <1>2, OutBelow
<1>4. r \in Limbs128 /\ Val128(r) = o
  BY <1>3, OneLimb0
<1>5. o * Cap + (f * Base + z) = (x.d1 * Base + x.d0) * Two(s) /\ f \in U64 /\ z \in U64
  BY <1>1, <1>2, ShiftedPair
<1>6. Val256(x) = x.d1 * Base + x.d0
  BY <1>2, WordRange, BaseFacts
<1>7. l \in Rows /\ Len(l) = 2 /\ Down(l) = f * Base + z
  <2> HIDE DEF f, z
  <2> QED BY <1>5, RowValues DEF Rows
<1>8. o * Unit(Len(l)) + Down(l) = Val256(x) * Two(s)
  BY <1>5, <1>6, <1>7, UnitFacts
<1>9. 0 * dn + o = o
  <2>1. dn \in Int /\ o \in Int
    BY <1>3, WordRange DEF NormalLimb
  <2> HIDE DEF o
  <2> QED BY <2>1
<1>10. ShiftedOut(x.d1, s) = o
  BY DEF ShiftedOut, Out
<1> HIDE DEF y, o, l
<1>11. (0 * Val128(y.den) + Val128(r)) * Unit(Len(l)) + Down(l) = Val256(x) * Two(y.shift)
  BY <1>1, <1>4, <1>8, <1>9
<1>12. Running(d, y, r, 0, l, Val256(x))
  <2>1. 0 \in Nat /\ Val128(r) < Val128(y.den)
    BY <1>1, <1>3, <1>4
  <2> HIDE DEF r
  <2> QED BY <1>1, <1>4, <1>7, <1>11, <2>1 DEF Running
<1> QED
  BY <1>10, <1>12 DEF y, l

(* A shifted limb below the divisor, with the bits that follow it, stays    *)
(* below the shifted divisor.                                              *)
LEMMA ShiftedBelow ==
  ASSUME NEW d \in Nat \ {0}, NEW t \in Nat \ {0}, NEW x \in Nat, NEW o \in 0..(t - 1), x < d
  PROVE  x * t + o < d * t /\ x * t \in Nat /\ x * t < d * t
<1>1. (x + 1) * t <= d * t /\ (x + 1) * t = x * t + t /\ x * t \in Nat /\ d * t \in Nat
  OBVIOUS
<1> QED
  BY <1>1

(* Three limbs, the first below the divisor.                               *)
LEMMA BeginThree ==
  ASSUME NEW d, NEW s, NEW dn, NEW rc, NormalLimb(d, s, dn, rc),
         NEW x \in Limbs256, x.d3 = 0, x.d2 < d
  PROVE  LET n == Normalized3(x, s)
         IN  Running(d, ByLimb(dn, rc, s), U(0, n[1]), 0, Tail(n), Val256(x))
<1> DEFINE n == Normalized3(x, s)
           y == ByLimb(dn, rc, s)
           a == Funnel(x.d2, x.d1, s)
           b == Funnel(x.d1, x.d0, s)
           c == Shl(x.d0, s)
           t == Two(s)
           r == U(0, a)
           l == <<b, c>>
<1>1. s \in 0..(WordBits - 1) /\ Normal(d, y) /\ Val128(y.den) = dn /\ y.shift = s
      /\ d \in Nat \ {0} /\ dn = d * t /\ dn \in U64
  BY NormalByLimb DEF NormalLimb
<1>2. x.d3 \in U64 /\ x.d2 \in U64 /\ x.d1 \in U64 /\ x.d0 \in U64
  BY QuadRange
<1>3. t \in Nat \ {0} /\ Out(x.d1, s) \in 0..(t - 1) /\ x.d2 \in Nat
  <2>1. t \in Nat \ {0}
    BY <1>1, ShiftFactors
  <2>2. Out(x.d1, s) \in 0..(t - 1)
    BY <1>1, <1>2, ShiftWord
  <2>3. x.d2 \in Int /\ 0 <= x.d2
    BY <1>2, WordRange
  <2> QED BY <2>1, <2>2, <2>3
<1>4. /\ x.d2 * t + Out(x.d1, s) < dn /\ x.d2 * t < dn /\ x.d2 * t \in Nat
  <2> DEFINE w == x.d2
             o == Out(x.d1, s)
  <2>1. w \in Nat /\ o \in 0..(t - 1) /\ w < d
    BY <1>3
  <2> HIDE DEF w, o, t
  <2>2. w * t + o < d * t /\ w * t \in Nat /\ w * t < d * t
    BY <1>1, <1>3, <2>1, ShiftedBelow
  <2> QED BY <1>1, <2>2 DEF w, o
<1>5. x.d2 * t < Base
  <2> HIDE DEF t
  <2> DEFINE w == x.d2 * t
  <2>1. w \in Nat /\ w < dn /\ dn \in Int /\ dn <= Base - 1 /\ Base \in Nat
    BY <1>1, <1>4, WordRange, BaseFacts
  <2> HIDE DEF w
  <2>2. w < Base
    BY <2>1
  <2> QED BY <2>2 DEF w
<1>6. Out(x.d2, s) = 0 /\ Shl(x.d2, s) = x.d2 * t
  BY <1>1, <1>2, <1>5, ShiftSmall
<1>7. a \in U64 /\ a = x.d2 * t + Out(x.d1, s) /\ a < dn
  <2>1. a \in U64 /\ a = Shl(x.d2, s) + Out(x.d1, s)
    BY <1>1, <1>2, FunnelWord
  <2> HIDE DEF a, t
  <2> QED BY <1>4, <1>6, <2>1
<1>8. x.d3 * t < Base /\ x.d3 * t = 0
  BY <1>3, BaseFacts
<1>9. Out(x.d3, s) = 0 /\ Shl(x.d3, s) = 0
  BY <1>1, <1>2, <1>8, ShiftSmall
<1>10. Funnel(x.d3, x.d2, s) = 0
  <2>1. Funnel(x.d3, x.d2, s) = Shl(x.d3, s) + Out(x.d2, s)
    BY <1>1, <1>2, FunnelWord
  <2> QED BY <1>6, <1>9, <2>1
<1>11. /\ 0 * Wide + Four(0, a, b, c) = Val256(x) * t
       /\ b \in U64 /\ c \in U64
  <2>1. /\ Out(x.d3, s) * Wide + Four(Funnel(x.d3, x.d2, s), a, b, c) = Val256(x) * t
        /\ b \in U64 /\ c \in U64
    BY <1>1, ShiftedQuad
  <2> QED BY <1>9, <1>10, <2>1
<1>12. n = <<a, b, c>>
  BY DEF Normalized3
<1>13. n[1] = a /\ Tail(n) = l
  <2> HIDE DEF a, b, c
  <2> QED BY <1>7, <1>11, <1>12, RowParts
<1>14. r \in Limbs128 /\ Val128(r) = a
  BY <1>7, OneLimb0
<1>15. l \in Rows /\ Len(l) = 2 /\ Down(l) = b * Base + c
  <2> HIDE DEF b, c
  <2> QED BY <1>11, RowValues DEF Rows
<1> HIDE DEF a, b, c, t, n
<1>16. a * Unit(Len(l)) + Down(l) = Val256(x) * t /\ 0 * dn + a = a
  <2>1. a \in Int /\ b \in Int /\ c \in Int /\ dn \in Int /\ Wide \in Nat
    BY <1>1, <1>7, <1>11, WordRange, CapFacts
  <2>2. 0 * Wide + Four(0, a, b, c) = a * (Base * Base) + (b * Base + c)
    <3>1. 0 * Wide + (((0 * Base + a) * Base + b) * Base + c) = a * (Base * Base) + (b * Base + c)
      BY <2>1, BaseFacts
    <3> QED BY <3>1 DEF Four
  <2> QED BY <1>11, <1>15, <2>1, <2>2, UnitFacts
<1> HIDE DEF y, l
<1>17. (0 * Val128(y.den) + Val128(r)) * Unit(Len(l)) + Down(l) = Val256(x) * Two(y.shift)
  BY <1>1, <1>14, <1>16 DEF t
<1>18. Running(d, y, r, 0, l, Val256(x))
  <2>1. 0 \in Nat /\ Val128(r) < Val128(y.den)
    BY <1>1, <1>7, <1>14
  <2> HIDE DEF r
  <2> QED BY <1>1, <1>14, <1>15, <1>17, <2>1 DEF Running
<1> QED
  BY <1>13, <1>18 DEF n, y, r

(* The dividend's upper limb never exceeds the divisor's.                  *)
LEMMA HighBelow ==
  ASSUME NEW a \in U64, NEW b \in U64, NEW c \in U64, NEW d \in U64,
         a * Base + b < c * Base + d
  PROVE  a <= c
<1>1. a \in Int /\ b \in Int /\ c \in Int /\ d \in Int /\ 0 <= b /\ d <= Base - 1
  BY WordRange
<1>2. Base \in Nat \ {0}
  BY BaseFacts
<1>3. a >= c + 1 => a * Base >= (c + 1) * Base
  BY <1>1, <1>2
<1>4. (c + 1) * Base = c * Base + Base /\ a * Base \in Int /\ c * Base \in Int
  BY <1>1, <1>2
<1> DEFINE p == a * Base
           q == c * Base
<1> HIDE DEF p, q
<1>5. /\ p + b < q + d /\ (a >= c + 1 => p >= q + Base) /\ p \in Int /\ q \in Int
  BY <1>3, <1>4 DEF p, q
<1> QED
  BY <1>1, <1>2, <1>5

(* Normalizing a divisor of two limbs.                                     *)
LEMMA NormalByPair ==
  ASSUME NEW v \in Limbs128, v.hi # 0, NEW s, s = LeadingZeros(v.hi)
  PROVE  /\ s \in 0..(WordBits - 1) /\ v.hi * Two(s) < Base
         /\ Lsh(v, s) \in Limbs128 /\ Val128(Lsh(v, s)) = Val128(v) * Two(s)
         /\ Val128(v) \in Nat \ {0}
         /\ Normal(Val128(v), ByPair(Lsh(v, s), s))
<1> DEFINE w == Lsh(v, s)
           y == ByPair(w, s)
           t == Two(s)
<1>1. v.hi \in U64 /\ v.lo \in U64 /\ Val128(v) = v.hi * Base + v.lo /\ Val128(v) \in 0..(Cap - 1)
  BY ValRange
<1>2. s \in 0..(WordBits - 1) /\ v.hi * t \in U64 /\ 2 * (v.hi * t) >= Base
  BY <1>1, LeadingZerosNormalize
<1>3. v.hi * t < Base /\ v.hi * t \in Int /\ Base \in Nat
  <2> DEFINE p == v.hi * t
  <2> HIDE DEF p
  <2>1. p \in U64
    BY <1>2 DEF p
  <2>2. p < Base /\ p \in Int
    BY <2>1, BaseFacts
  <2> QED BY <2>2, BaseFacts DEF p
<1>4. w \in Limbs128 /\ Val128(w) = Val128(v) * t /\ w.hi >= v.hi * t
  BY <1>2, <1>3, LshExact
<1>5. 2 * w.hi >= Base
  <2>1. w.hi \in Int
    BY <1>4, ValRange, WordRange
  <2> DEFINE p == v.hi * t
  <2> HIDE DEF p, w
  <2>2. 2 * p >= Base /\ w.hi >= p /\ p \in Int
    BY <1>2, <1>3, <1>4 DEF p
  <2> QED BY <1>3, <2>1, <2>2
<1>6. Val128(v) \in Nat \ {0}
  <2>1. v.hi \in Int /\ 0 <= v.hi /\ v.lo \in Int /\ 0 <= v.lo
    BY <1>1, WordRange
  <2>2. v.hi >= 1
    BY <2>1
  <2>3. v.hi * Base >= 1 * Base /\ v.hi * Base \in Int
    BY <2>1, <2>2, BaseFacts
  <2> DEFINE p == v.hi * Base
  <2> HIDE DEF p
  <2>4. p >= Base /\ p \in Int /\ Val128(v) = p + v.lo /\ Base >= 4
    BY <1>1, <2>3, BaseFacts DEF p
  <2> QED BY <2>1, <2>4, BaseFacts
<1>7. y.den = w /\ y.shift = s
  BY DEF ByPair
<1> HIDE DEF w, y
<1>8. Normal(Val128(v), y)
  BY <1>2, <1>4, <1>5, <1>6, <1>7 DEF Normal
<1> QED
  BY <1>2, <1>3, <1>4, <1>6, <1>8 DEF y, w

(* Four limbs, the upper two below the divisor: nothing is shifted out, and *)
(* the first two limbs are the remainder, or the next two when the digit    *)
(* between would be zero.                                                  *)
LEMMA BeginPair ==
  ASSUME NEW v \in Limbs128, v.hi # 0, NEW x \in Limbs256, LessLimbs(Hi128(x), v),
         NEW s, s = LeadingZeros(v.hi), NEW a, a = Normalized4(x, s), NEW w, w = Lsh(v, s)
  PROVE  IF a[1] # 0 \/ ~LessLimbs(U(a[2], a[3]), w)
         THEN Running(Val128(v), ByPair(w, s), U(a[1], a[2]), 0, <<a[3], a[4]>>, Val256(x))
         ELSE Running(Val128(v), ByPair(w, s), U(a[2], a[3]), 0, <<a[4]>>, Val256(x))
<1> DEFINE y == ByPair(w, s)
           a1 == Funnel(x.d3, x.d2, s)
           a2 == Funnel(x.d2, x.d1, s)
           a3 == Funnel(x.d1, x.d0, s)
           a4 == Shl(x.d0, s)
           t == Two(s)
           V == Val128(v)
           H == x.d3 * Base + x.d2
           o == Out(x.d1, s)
           N == Val256(x)
<1>1. /\ s \in 0..(WordBits - 1) /\ v.hi * t < Base /\ w \in Limbs128
      /\ Val128(w) = V * t /\ V \in Nat \ {0} /\ Normal(V, y)
  BY NormalByPair
<1>2. /\ x.d3 \in U64 /\ x.d2 \in U64 /\ x.d1 \in U64 /\ x.d0 \in U64
      /\ Hi128(x) \in Limbs128 /\ Val128(Hi128(x)) = H
  BY QuadRange
<1>3. H < V /\ H \in Nat
  <2>1. Val128(Hi128(x)) \in 0..(Cap - 1)
    BY <1>2, ValRange
  <2>2. Val128(Hi128(x)) < V
    BY <1>2, LessNegExact
  <2> HIDE DEF H, V
  <2> QED BY <1>2, <2>1, <2>2, CapFacts
<1>4. v.hi \in U64 /\ v.lo \in U64 /\ V = v.hi * Base + v.lo
  BY ValRange
<1>5. x.d3 <= v.hi
  BY <1>2, <1>3, <1>4, HighBelow
<1>6. t \in Nat \ {0}
  BY <1>1, ShiftFactors
<1>7. x.d3 * t < Base
  <2>1. x.d3 \in Int /\ v.hi \in Int
    BY <1>2, <1>4, WordRange
  <2> DEFINE p == x.d3
             q == v.hi
  <2>2. p * t <= q * t /\ p * t \in Int /\ q * t \in Int
    <3>1. p \in Int /\ q \in Int /\ p <= q
      BY <1>5, <2>1
    <3> HIDE DEF p, q, t
    <3> QED BY <1>6, <3>1
  <2>3. q * t < Base /\ Base \in Nat
    BY <1>1, BaseFacts
  <2> HIDE DEF t
  <2> QED BY <2>2, <2>3
<1>8. Out(x.d3, s) = 0
  BY <1>1, <1>2, <1>7, ShiftSmall
<1>9. /\ a1 \in U64 /\ a2 \in U64 /\ a3 \in U64 /\ a4 \in U64
      /\ 0 * Wide + Four(a1, a2, a3, a4) = N * t
  <2>1. /\ a1 \in U64 /\ a2 \in U64 /\ a3 \in U64 /\ a4 \in U64
        /\ Out(x.d3, s) * Wide + Four(a1, a2, a3, a4) = N * t
    BY <1>1, ShiftedQuad
  <2> QED BY <1>8, <2>1
<1>10. o \in 0..(t - 1)
  BY <1>1, <1>2, ShiftWord
<1>11. a1 * Base + a2 = H * t + o
  <2>1. Out(x.d3, s) * Cap + (a1 * Base + Shl(x.d2, s)) = H * t
    BY <1>1, <1>2, ShiftedPair
  <2>2. a2 = Shl(x.d2, s) + o
    BY <1>1, <1>2, FunnelWord
  <2>3. Shl(x.d2, s) \in U64
    BY <1>1, <1>2, ShiftWord
  <2> DEFINE z == Shl(x.d2, s)
  <2>4. z \in Int /\ a1 \in Int /\ o \in Int
    BY <1>6, <1>9, <1>10, <2>3, WordRange
  <2>5. 0 * Cap + (a1 * Base + z) = H * t
    BY <1>8, <2>1
  <2> HIDE DEF a1, a2, z, o, H, t
  <2>6. a1 * Base \in Int /\ 0 * Cap = 0
    BY <2>4, BaseFacts, CapFacts
  <2> DEFINE p == a1 * Base
  <2> HIDE DEF p
  <2>7. p \in Int /\ 0 + (p + z) = H * t /\ a2 = z + o
    BY <2>2, <2>5, <2>6 DEF p, z
  <2>8. p + a2 = H * t + o
    BY <2>4, <2>7
  <2> QED BY <2>8 DEF p
<1>12. a1 * Base + a2 < V * t
  <2> HIDE DEF a1, a2, o, H, t, V
  <2>1. H * t + o < V * t
    BY <1>1, <1>3, <1>6, <1>10, ShiftedBelow
  <2> QED BY <1>11, <2>1
<1>13. a[1] = a1 /\ a[2] = a2 /\ a[3] = a3 /\ a[4] = a4
  BY DEF Normalized4
<1>14. y.den = w /\ y.shift = s
  BY DEF ByPair
<1> HIDE DEF a1, a2, a3, a4, t, V, H, o, N, y
<1>15. a1 \in Int /\ a2 \in Int /\ a3 \in Int /\ a4 \in Int /\ Wide \in Nat /\ Base \in Nat
  BY <1>9, WordRange, CapFacts, BaseFacts
<1>16. 0 \in Nat /\ 0 * Val128(w) = 0 /\ Val128(w) \in Int
  BY <1>1, ValRange, CapFacts
<1>17. Running(V, y, U(a1, a2), 0, <<a3, a4>>, N)
  <2> DEFINE r == U(a1, a2)
             l == <<a3, a4>>
  <2>1. r \in Limbs128 /\ Val128(r) = a1 * Base + a2
    BY <1>9, PairRange
  <2>2. l \in Rows /\ Len(l) = 2 /\ Down(l) = a3 * Base + a4
    BY <1>9, RowValues DEF Rows
  <2>3. (a1 * Base + a2) * (Base * Base) + (a3 * Base + a4) = N * t
    <3>1. 0 * Wide + ((((a1 * Base + a2) * Base) + a3) * Base + a4)
            = (a1 * Base + a2) * (Base * Base) + (a3 * Base + a4)
      BY <1>15
    <3> QED BY <1>9, <3>1 DEF Four
  <2> HIDE DEF r, l
  <2>4. (0 * Val128(w) + Val128(r)) * Unit(Len(l)) + Down(l) = N * t
    <3>1. Val128(r) \in Int
      BY <2>1, ValRange, CapFacts
    <3>2. 0 * Val128(w) + Val128(r) = a1 * Base + a2
      BY <1>16, <2>1, <3>1
    <3> QED BY <2>2, <2>3, <3>2, UnitFacts
  <2>5. Val128(r) < Val128(y.den)
    BY <1>1, <1>12, <1>14, <2>1
  <2>6. Running(V, y, r, 0, l, N)
    BY <1>1, <1>14, <1>16, <2>1, <2>2, <2>4, <2>5 DEF Running, t
  <2> QED BY <2>6 DEF r, l
<1>18. ASSUME a1 = 0, LessLimbs(U(a2, a3), w) PROVE Running(V, y, U(a2, a3), 0, <<a4>>, N)
  <2> DEFINE r == U(a2, a3)
             l == <<a4>>
  <2>1. r \in Limbs128 /\ Val128(r) = a2 * Base + a3
    BY <1>9, PairRange
  <2>2. l \in Rows /\ Len(l) = 1 /\ Down(l) = a4
    BY <1>9, RowValues DEF Rows
  <2>3. (a2 * Base + a3) * Base + a4 = N * t
    <3>1. 0 * Wide + ((((0 * Base + a2) * Base) + a3) * Base + a4) = (a2 * Base + a3) * Base + a4
      BY <1>15
    <3>2. Four(a1, a2, a3, a4) = (((0 * Base + a2) * Base) + a3) * Base + a4
      BY <1>18 DEF Four
    <3> QED BY <1>9, <3>1, <3>2
  <2>4. Val128(r) < Val128(w)
    BY <1>1, <1>18, <2>1, LessNegExact
  <2> HIDE DEF r, l
  <2>5. (0 * Val128(w) + Val128(r)) * Unit(Len(l)) + Down(l) = N * t
    <3>1. Val128(r) \in Int
      BY <2>1, ValRange, CapFacts
    <3>2. 0 * Val128(w) + Val128(r) = a2 * Base + a3
      BY <1>16, <2>1, <3>1
    <3> QED BY <2>2, <2>3, <3>2, UnitFacts
  <2>6. Running(V, y, r, 0, l, N)
    BY <1>1, <1>14, <1>16, <2>1, <2>2, <2>4, <2>5 DEF Running, t
  <2> QED BY <2>6 DEF r, l
<1>19. a[1] = 0 /\ LessLimbs(U(a[2], a[3]), w)
         => Running(V, y, U(a[2], a[3]), 0, <<a[4]>>, N)
  BY <1>13, <1>18
<1>20. Running(V, y, U(a[1], a[2]), 0, <<a[3], a[4]>>, N)
  BY <1>13, <1>17
<1> QED
  BY <1>19, <1>20, Zenon DEF V, y, N

(* The reciprocal of a normalized limb takes one hardware division, whose   *)
(* quotient fits a word.                                                   *)
LEMMA LimbReciprocal ==
  ASSUME NEW dn \in U64, 2 * dn >= Base
  PROVE  LET e == Div64(Base - 1 - dn, Base - 1, dn)
         IN  e.trap = FALSE /\ e.quo = (Cap - 1) \div dn - Base
<1>1. dn \in Int /\ 0 <= dn /\ dn <= Base - 1 /\ Base \in Nat /\ Base >= 4 /\ dn \in Nat \ {0}
  <2>1. dn \in Int /\ 0 <= dn /\ dn <= Base - 1
    BY WordRange
  <2> QED BY <2>1, BaseFacts
<1>2. ~(Base - 1 - dn >= dn)
  BY <1>1
<1> DEFINE h == Base - 1 - dn
           p == h * Base + (Base - 1)
           c == Cap - 1
           q == c \div dn
           r == c % dn
<1>3. Div64(Base - 1 - dn, Base - 1, dn).trap = FALSE
      /\ Div64(Base - 1 - dn, Base - 1, dn).quo = p \div dn
  BY <1>2 DEF Div64
<1>4. p = c - dn * Base /\ p \in Int /\ c \in Int
  <2>1. (Base - 1 - dn) * Base + (Base - 1) = Base * Base - 1 - dn * Base
    BY <1>1
  <2>2. Base * Base \in Int /\ dn * Base \in Int
    BY <1>1
  <2>3. Cap = Base * Base
    BY DEF Cap
  <2> DEFINE x == dn * Base
             z == Base * Base
  <2> HIDE DEF x, z
  <2>4. p = z - 1 - x /\ Cap = z /\ x \in Int /\ z \in Int
    BY <2>1, <2>2, <2>3 DEF x, z
  <2> HIDE DEF p
  <2>5. p = Cap - 1 - x /\ p \in Int /\ Cap - 1 \in Int
    BY <2>4
  <2>6. (Cap - 1) - x = Cap - 1 - x
    BY <2>4
  <2> QED BY <2>5, <2>6 DEF x
<1>5. q \in Int /\ r \in 0..(dn - 1) /\ c = dn * q + r
  BY <1>1, <1>4, DivMod
<1> HIDE DEF p, q, r, c
<1>6. p = dn * (q - Base) + r
  <2>1. dn * (q - Base) = dn * q - dn * Base
    BY <1>1, <1>5
  <2>2. dn * q \in Int /\ dn * Base \in Int /\ r \in Int
    BY <1>1, <1>5
  <2> DEFINE x == dn * q
             z == dn * Base
             g == dn * (q - Base)
  <2> HIDE DEF x, z, g
  <2>3. g = x - z /\ p = c - z /\ c = x + r /\ x \in Int /\ z \in Int /\ r \in Int
    BY <1>4, <1>5, <2>1, <2>2 DEF x, z, g
  <2>4. p = g + r
    BY <2>3
  <2> QED BY <2>4 DEF g
<1>7. p \div dn = q - Base
  <2>1. q - Base \in Int
    BY <1>1, <1>5
  <2> DEFINE z == q - Base
  <2> HIDE DEF z
  <2>2. z \in Int /\ p = dn * z + r
    BY <1>6, <2>1 DEF z
  <2>3. p \div dn = z
    BY <1>1, <1>4, <1>5, <2>2, DivModUnique
  <2> QED BY <2>3 DEF z
<1> QED
  BY <1>3, <1>7 DEF q, c

(* An arbitrary limb, normalized.                                          *)
LEMMA NormalOfLimb ==
  ASSUME NEW v \in U64, v # 0, NEW s, s = LeadingZeros(v), NEW dn, dn = Shl(v, s)
  PROVE  LET e == Div64(Base - 1 - dn, Base - 1, dn)
         IN  e.trap = FALSE /\ NormalLimb(v, s, dn, e.quo)
<1> DEFINE p == v * Two(s)
<1>1. s \in 0..(WordBits - 1) /\ p \in U64 /\ 2 * p >= Base
  BY LeadingZerosNormalize
<1>2. p < Base
  <2> HIDE DEF p
  <2> QED BY <1>1, BaseFacts
<1>3. dn = p
  BY <1>1, <1>2, ShiftSmall
<1>4. v \in Nat \ {0}
  BY BaseFacts DEF U64
<1>5. dn \in U64 /\ 2 * dn >= Base
  <2> HIDE DEF p
  <2> QED BY <1>1, <1>3
<1>6. LET e == Div64(Base - 1 - dn, Base - 1, dn)
      IN  e.trap = FALSE /\ e.quo = (Cap - 1) \div dn - Base
  BY <1>5, LimbReciprocal
<1>7. dn = v * Two(s)
  BY <1>3
<1> HIDE DEF p
<1> DEFINE e == Div64(Base - 1 - dn, Base - 1, dn)
<1>8. e.trap = FALSE /\ e.quo = (Cap - 1) \div dn - Base
  BY <1>6
<1> HIDE DEF e
<1>9. NormalLimb(v, s, dn, e.quo)
  BY <1>1, <1>4, <1>5, <1>7, <1>8 DEF NormalLimb
<1> QED
  BY <1>8, <1>9 DEF e

(* A power of ten, normalized by the table.                                *)
LEMMA NormalOfPow10 ==
  ASSUME NEW j \in 0..MaxPrec
  PROVE  NormalLimb(Pow10[j], Pow10Tab[j].s, Pow10Tab[j].dn, Pow10Tab[j].v)
BY Pow10EntryExact DEF NormalLimb

----------------------------------------------------------------------------
(* One digit of a division in progress.                                    *)
LEMMA RunStep ==
  ASSUME NEW d, NEW y, NEW r, NEW q, NEW l, NEW n, Running(d, y, r, q, l, n), l # <<>>,
         NEW e \in U64, NEW f \in Limbs128, Val128(f) < Val128(y.den),
         e * Val128(y.den) + Val128(f) = Val128(r) * Base + Head(l)
  PROVE  Running(d, y, f, q * Base + e, Tail(l), n)
<1> DEFINE D == Val128(y.den)
           R == Val128(r)
           F == Val128(f)
           h == Head(l)
           m == Len(l) - 1
           w == Unit(m)
           t == Down(Tail(l))
           z == n * Two(y.shift)
<1>1. /\ Normal(d, y) /\ q \in Nat /\ r \in Limbs128 /\ l \in Rows
      /\ (q * D + R) * Unit(Len(l)) + Down(l) = z
  BY DEF Running
<1>2. /\ Len(l) \in 1..4 /\ h \in U64 /\ Tail(l) \in Rows /\ Len(Tail(l)) = m
      /\ Unit(Len(l)) = Base * w /\ Down(l) = h * w + t
  BY <1>1, RowStep
<1>3. m \in 0..4
  BY <1>2
<1>4. w \in Nat \ {0} /\ Base \in Nat \ {0}
  BY <1>3, UnitFacts
<1>5. t \in Int
  <2> DEFINE g == Unit(Len(Tail(l)))
  <2>1. t \in 0..(g - 1)
    BY <1>2, RowBelow
  <2> HIDE DEF t, g
  <2> QED BY <2>1
<1>6. D \in Int /\ R \in Int /\ F \in Int /\ h \in Int /\ e \in Int /\ 0 <= e
  <2>1. y.den \in Limbs128
    BY <1>1 DEF Normal
  <2>2. D \in 0..(Cap - 1) /\ R \in 0..(Cap - 1) /\ F \in 0..(Cap - 1)
    BY <1>1, <2>1, ValRange
  <2> HIDE DEF D, R, F
  <2> QED BY <1>2, <2>2, CapFacts, WordRange
<1> HIDE DEF D, R, F, h, m, w, t, z
<1>7. e * D + F = R * Base + h /\ F < D
  BY DEF D, F, R, h
<1>8. ((q * Base + e) * D + F) * w + t = (q * D + R) * (Base * w) + (h * w + t)
  BY <1>1, <1>4, <1>5, <1>6, <1>7, DigitBalance
<1>9. ((q * Base + e) * D + F) * w + t = z
  BY <1>1, <1>2, <1>8
<1>10. q * Base + e \in Nat
  BY <1>1, <1>4, <1>6
<1>11. ((q * Base + e) * D + F) * Unit(Len(Tail(l))) + Down(Tail(l)) = z
  BY <1>2, <1>9 DEF w, t
<1> DEFINE p == q * Base + e
           k2 == Tail(l)
<1> HIDE DEF p, k2
<1>12. /\ p \in Nat /\ k2 \in Rows
       /\ (p * D + F) * Unit(Len(k2)) + Down(k2) = z
  BY <1>2, <1>10, <1>11 DEF p, k2
<1>13. Running(d, y, f, p, k2, n)
  BY <1>1, <1>12 DEF Running, D, F, z
<1> QED
  BY <1>13 DEF p, k2

LEMMA RunDigit ==
  ASSUME NEW d, NEW y, NEW r, NEW q, NEW l, NEW n, Running(d, y, r, q, l, n), l # <<>>
  PROVE  /\ y.den.hi # 0 =>
              LET e == Div3by2(r.hi, r.lo, Head(l), y.den)
              IN  e.trap = FALSE /\ Running(d, y, e.rem, q * Base + e.quo, Tail(l), n)
         /\ y.den.hi = 0 =>
              LET e == Div2by1(r.lo, Head(l), y.den.lo, y.recip)
              IN  Running(d, y, U(0, e.rem), q * Base + e.quo, Tail(l), n)
<1> DEFINE h == Head(l)
           v == y.den
<1>1. /\ r \in Limbs128 /\ v \in Limbs128 /\ Val128(r) < Val128(v) /\ l \in Rows
      /\ \/ 2 * v.hi >= Base
         \/ v.hi = 0 /\ 2 * v.lo >= Base /\ y.recip = (Cap - 1) \div v.lo - Base
  BY DEF Running, Normal
<1>2. h \in U64
  BY <1>1, RowStep
<1>3. /\ r.hi \in U64 /\ r.lo \in U64 /\ Val128(r) = r.hi * Base + r.lo
      /\ v.hi \in U64 /\ v.lo \in U64 /\ Val128(v) = v.hi * Base + v.lo
  BY <1>1, ValRange
<1>4. ASSUME v.hi # 0
      PROVE  LET e == Div3by2(r.hi, r.lo, h, v)
             IN  e.trap = FALSE /\ Running(d, y, e.rem, q * Base + e.quo, Tail(l), n)
  <2> DEFINE e == Div3by2(r.hi, r.lo, h, v)
  <2>1. 2 * v.hi >= Base
    BY <1>1, <1>4
  <2>2. r.hi * Base + r.lo < Val128(v)
    BY <1>1, <1>3
  <2>3. /\ e.trap = FALSE /\ e.quo \in U64 /\ e.rem \in Limbs128 /\ Val128(e.rem) < Val128(v)
        /\ e.quo * Val128(v) + Val128(e.rem) = (r.hi * Base + r.lo) * Base + h
    <3> DEFINE a == r.hi
               b == r.lo
               g == v
    <3>1. a \in U64 /\ b \in U64 /\ g \in Limbs128 /\ 2 * g.hi >= Base /\ a * Base + b < Val128(g)
      BY <1>1, <1>3, <2>1, <2>2
    <3> HIDE DEF a, b, g, h
    <3>2. LET c == Div3by2(a, b, h, g)
          IN  /\ c.trap = FALSE /\ c.quo \in U64 /\ c.rem \in Limbs128 /\ Val128(c.rem) < Val128(g)
              /\ c.quo * Val128(g) + Val128(c.rem) = (a * Base + b) * Base + h
      BY <1>2, <3>1, Div3by2Exact
    <3> QED BY <3>2 DEF a, b, g, h
  <2> HIDE DEF e
  <2>4. Running(d, y, e.rem, q * Base + e.quo, Tail(l), n)
    BY <1>3, <2>3, RunStep
  <2> QED BY <2>3, <2>4 DEF e
<1>5. ASSUME v.hi = 0
      PROVE  LET e == Div2by1(r.lo, h, v.lo, y.recip)
             IN  Running(d, y, U(0, e.rem), q * Base + e.quo, Tail(l), n)
  <2> DEFINE e == Div2by1(r.lo, h, v.lo, y.recip)
             b == v.lo
             a == r.lo
  <2>0. Base \in Nat /\ Base >= 4
    BY BaseFacts
  <2>1. 2 * b >= Base /\ y.recip = (Cap - 1) \div b - Base
    BY <1>1, <1>5, <2>0
  <2>2. b \in Int /\ a \in Int /\ r.hi \in Int /\ 0 <= r.hi /\ 0 <= a /\ b <= Base - 1
    BY <1>3, WordRange
  <2>3. Val128(v) = b
    <3>1. 0 * Base = 0
      BY <2>0
    <3>2. Val128(v) = 0 * Base + b
      BY <1>3, <1>5
    <3> HIDE DEF b
    <3> QED BY <2>2, <3>1, <3>2
  <2>4. r.hi = 0 /\ Val128(r) = a
    <3>1. r.hi >= 1 => r.hi * Base >= 1 * Base
      BY <2>0, <2>2
    <3>2. r.hi * Base \in Int
      BY <2>0, <2>2
    <3> DEFINE p == r.hi * Base
    <3> HIDE DEF p
    <3>3. (r.hi >= 1 => p >= Base) /\ p \in Int /\ p + a < b
      BY <1>1, <1>3, <2>0, <2>3, <3>1, <3>2 DEF p
    <3>4. r.hi = 0
      BY <2>0, <2>2, <3>3
    <3>5. Val128(r) = 0 * Base + a /\ 0 * Base = 0
      BY <1>3, <2>0, <3>4
    <3> HIDE DEF a
    <3> QED BY <2>2, <3>4, <3>5
  <2>5. a < b
    BY <1>1, <2>3, <2>4
  <2>6. a \in U64 /\ b \in U64
    BY <1>3
  <2>7. e.quo \in U64 /\ e.rem \in U64 /\ e.rem < b /\ e.quo * b + e.rem = a * Base + h
    BY <1>2, <2>1, <2>5, <2>6, Div2by1Exact
  <2> HIDE DEF e, a, b
  <2>8. U(0, e.rem) \in Limbs128 /\ Val128(U(0, e.rem)) = e.rem
    BY <2>7, OneLimb0
  <2> DEFINE f == U(0, e.rem)
  <2> HIDE DEF f
  <2>9. /\ f \in Limbs128 /\ Val128(f) < Val128(y.den)
        /\ e.quo * Val128(y.den) + Val128(f) = Val128(r) * Base + Head(l)
    BY <2>3, <2>4, <2>7, <2>8 DEF f
  <2>10. Running(d, y, f, q * Base + e.quo, Tail(l), n)
    BY <2>7, <2>9, RunStep
  <2> QED BY <2>10 DEF e, f, a, b
<1> QED
  BY <1>4, <1>5

(* When no limb is left the quotient is complete and the remainder, shifted *)
(* back, is the division's.                                                *)
LEMMA RunEnd ==
  ASSUME NEW d, NEW y, NEW r, NEW q, NEW n \in Nat, Running(d, y, r, q, <<>>, n)
  PROVE  /\ d \in Nat \ {0} /\ n \div d = q
         /\ Val128(Rsh(r, y.shift)) = n % d
         /\ Val128(r) % Two(y.shift) = 0 /\ Val128(y.den) \div Two(y.shift) = d
         /\ Val128(r) \div Two(y.shift) = n % d
<1> DEFINE R == Val128(r)
           D == Val128(y.den)
           s == y.shift
           t == Two(s)
<1>1. /\ d \in Nat \ {0} /\ s \in 0..(WordBits - 1) /\ D = d * t
      /\ q \in Nat /\ r \in Limbs128 /\ R < D
      /\ (q * D + R) * Unit(Len(<<>>)) + Down(<<>>) = n * t
  BY DEF Running, Normal
<1>2. Len(<<>>) = 0 /\ Down(<<>>) = 0 /\ Unit(0) = 1
  BY RowValues, UnitFacts
<1>3. R \in Nat
  <2>1. R \in 0..(Cap - 1)
    BY <1>1, ValRange
  <2> HIDE DEF R
  <2> QED BY <2>1, CapFacts
<1>4. t \in Nat \ {0}
  BY <1>1, ShiftFactors
<1>5. Val128(Rsh(r, s)) = R \div t
  BY <1>1, RshExact
<1> HIDE DEF R, D, s, t
<1>6. q * (d * t) + R = n * t
  <2>1. q * D \in Int /\ R \in Int
    BY <1>1, <1>3, <1>4
  <2>2. (q * D + R) * 1 + 0 = q * D + R
    BY <2>1
  <2> QED BY <1>1, <1>2, <2>2
<1>7. /\ n \div d = q /\ n % d = R \div t /\ R % t = 0 /\ (d * t) \div t = d
  <2>1. R < d * t
    BY <1>1
  <2>2. q \in Int
    BY <1>1
  <2>3. Settled(n, d, t, q, R)
    BY <1>1, <1>3, <1>4, <1>6, <2>1, <2>2 DEF Settled
  <2> QED BY <2>3, LastRemainder
<1> QED
  BY <1>1, <1>5, <1>7 DEF R, D, s, t

(* Before, the quotient and the remainder account for the part of the      *)
(* shifted dividend taken down so far.                                     *)
LEMMA RunMiddle ==
  ASSUME NEW d, NEW y, NEW r, NEW q, NEW l, NEW n \in Nat, Running(d, y, r, q, l, n), l # <<>>
  PROVE  /\ Len(l) \in 1..4
         /\ q * Val128(y.den) + Val128(r) = n \div Two(WordBits * Len(l) - y.shift)
<1> DEFINE R == Val128(r)
           D == Val128(y.den)
           s == y.shift
           t == Two(s)
           w == Unit(Len(l))
           e == Down(l)
           g == WordBits * Len(l) - s
           m == Two(g)
<1>1. /\ s \in 0..(WordBits - 1) /\ y.den \in Limbs128 /\ q \in Nat /\ r \in Limbs128
      /\ l \in Rows /\ (q * D + R) * w + e = n * t
  BY DEF Running, Normal
<1>2. Len(l) \in 1..4
  BY <1>1, RowStep
<1>3. w \in Nat \ {0} /\ w = Two(WordBits * Len(l))
  <2>1. Len(l) \in 0..4
    BY <1>2
  <2> QED BY <2>1, UnitFacts
<1>4. e \in 0..(w - 1)
  BY <1>1, RowBelow
<1>5. g \in Nat /\ WordBits * Len(l) = g + s /\ s \in Nat
  <2> DEFINE j == Len(l)
  <2>1. j \in Int /\ j >= 1 /\ WordBits \in Nat /\ s \in Int /\ 0 <= s /\ s <= WordBits - 1
    BY <1>1, <1>2, WordAssumption
  <2> HIDE DEF j, s
  <2>2. WordBits * j >= WordBits * 1 /\ WordBits * j \in Int
    BY <2>1
  <2> DEFINE p == WordBits * j
  <2> HIDE DEF p
  <2>3. p >= WordBits /\ p \in Int
    BY <2>1, <2>2 DEF p
  <2>4. p - s \in Nat /\ p = (p - s) + s /\ s \in Nat
    BY <2>1, <2>3
  <2> QED BY <2>4 DEF p, j
<1>6. m \in Nat \ {0} /\ t \in Nat \ {0} /\ w = m * t
  <2>1. m \in Nat /\ m >= 1
    BY <1>5, TwoGrows
  <2>2. t \in Nat \ {0}
    BY <1>1, ShiftFactors
  <2>3. Two(g + s) = Two(g) * Two(s)
    <3> HIDE DEF g, s
    <3> QED BY <1>5, TwoAdds
  <2>4. w = m * t
    BY <1>3, <1>5, <2>3
  <2> HIDE DEF m, t
  <2> QED BY <2>1, <2>2, <2>4
<1>7. R \in Int /\ D \in Int
  <2>1. R \in 0..(Cap - 1) /\ D \in 0..(Cap - 1)
    BY <1>1, ValRange
  <2> HIDE DEF R, D
  <2> QED BY <2>1, CapFacts
<1> HIDE DEF R, D, t, w, e, m, g, s
<1> DEFINE x == q * D + R
           z == n * t
<1>8. x \in Int /\ z \in Int
  BY <1>1, <1>6, <1>7
<1>9. z = w * x + e
  <2>1. x * w = w * x
    BY <1>3, <1>8
  <2> QED BY <1>1, <2>1
<1> HIDE DEF x, z
<1>10. z \div w = x
  BY <1>3, <1>4, <1>8, <1>9, DivModUnique
<1>11. (n * t) \div (m * t) = n \div m
  BY <1>6, DivScale
<1>12. x = n \div m
  BY <1>6, <1>10, <1>11 DEF z
<1> QED
  BY <1>2, <1>12 DEF x, m, g, s, R, D

----------------------------------------------------------------------------
(* The inductive invariant: the call and its dividend, what is still owed   *)
(* to the caller, which kernel may be at work on it, and the division in    *)
(* progress.                                                               *)
FirstPass == call.op = "divU256Pow10" /\ k > MaxPrec
Divisor == IF call.op \in Pow10Ops THEN Pow10[IF k > MaxPrec THEN MaxPrec ELSE k]
           ELSE IF call.op = "div256by64" THEN call.v.lo
           ELSE Val128(call.v)
Dividing == {"divRoundWide", "div256by64", "div256by128"} \cup Pow10Ops
Rest(n) == IF call.op = "divU256Pow10" THEN 0 ELSE n

Typed ==
  /\ call \in Calls /\ u \in Limbs256
  /\ call.op \in Pow10Ops => k \in 0..2*MaxPrec
  /\ stage # "done" => ans = Pending
Owed ==
  /\ call.op # "divU256Pow10" => u = call.u /\ k = call.k
  /\ call.op = "divU256Pow10" =>
       Callers!Promise(call) = [Quotient(Val256(u), Pow10[k]) EXCEPT !.rest = 0]
Routed ==
  \/ stage = call.op
  \/ stage = "div256by64" /\ call.op = "divRoundWide" /\ call.v.hi = 0
  \/ /\ stage = "div256by128" /\ call.op = "divRoundWide"
     /\ call.v.hi # 0 /\ LessLimbs(Hi128(u), call.v)
  \/ stage = "divmod128Pow10Slow" /\ call.op = "divmod128Pow10"
  \/ stage = "divmod128Pow10Slow" /\ call.op = "quoRemPow10Fit" /\ u.d3 = 0 /\ u.d2 = 0
  \/ stage = "digits" /\ call.op \in Dividing
  \/ stage = "done"
Balanced ==
  stage = "digits" =>
    /\ Running(Divisor, by, rem, quo, limbs, Val256(u))
    /\ ~FirstPass =>
         Callers!Promise(call) = Answer(Val256(u) \div Divisor, Rest(Val256(u) % Divisor))
IInv == Typed /\ Owed /\ Routed /\ Balanced

(* What the calls satisfy, in the terms of Limbs.                          *)
LEMMA CallFacts ==
  ASSUME NEW c \in Calls
  PROVE  /\ c.op \in Ops /\ c.u \in Limbs256 /\ c.v \in Limbs128
         /\ c.op = "div256by128" => c.v.hi # 0 /\ LessLimbs(Hi128(c.u), c.v)
         /\ c.op = "divRoundWide" => c.v # U(0, 0)
         /\ c.op = "quoRem64" => c.v.lo # 0
         /\ c.op = "divmod128Pow10" => c.k \in 0..MaxPrec /\ c.u.d3 = 0 /\ c.u.d2 = 0
         /\ c.op = "divmodU256Pow10Wide" => c.k \in 1..MaxPrec
         /\ c.op = "quoRemPow10Fit" => c.k \in 1..MaxPrec
         /\ c.op = "divU256Pow10" => c.k \in 0..2*MaxPrec
<1>1. /\ c.op \in Ops /\ c.u \in Limbs256 /\ c.v \in Limbs128 /\ Callers!Precondition(c)
  BY CallsAssumption
<1> USE DEF Callers!Precondition
<1>2. c.op = "div256by128" => c.v.hi # 0 /\ LessLimbs(Hi128(c.u), c.v)
  BY <1>1 DEF Callers!LessLimbs, LessLimbs, Callers!Hi128, Hi128, Callers!SubLimbs, SubLimbs,
              Callers!Sub64, Sub64, Callers!U, U
<1>3. c.op = "divRoundWide" => c.v # U(0, 0)
  BY <1>1 DEF Callers!U, U
<1>4. c.op = "divmod128Pow10" => c.k \in 0..MaxPrec /\ c.u.d3 = 0 /\ c.u.d2 = 0
  BY <1>1 DEF Callers!U, Callers!Hi128
<1>5. /\ c.op = "quoRem64" => c.v.lo # 0
      /\ c.op = "divmodU256Pow10Wide" => c.k \in 1..MaxPrec
      /\ c.op = "quoRemPow10Fit" => c.k \in 1..MaxPrec
      /\ c.op = "divU256Pow10" => c.k \in 0..2*MaxPrec
  BY <1>1
<1> QED
  BY <1>1, <1>2, <1>3, <1>4, <1>5

(* A step of the kernels keeps the invariant and is what the callers see:  *)
(* an answer, or nothing yet.                                              *)
Kept == IInv' /\ [Callers!Return]_(Callers!vars)

LEMMA ReturnKeeps ==
  ASSUME IInv, stage # "done", Return(Callers!Promise(call))
  PROVE  Kept
<1> USE DEF Return
<1>1. Typed'
  BY DEF IInv, Typed
<1>2. Owed'
  BY DEF IInv, Owed
<1>3. Routed'
  BY DEF Routed
<1>4. Balanced'
  BY DEF Balanced
<1>5. ans = Callers!Pending
  BY DEF IInv, Typed, Pending, Refuse, Callers!Pending, Callers!Refuse
<1>6. Callers!Return
  BY <1>5 DEF Callers!Return
<1> QED
  BY <1>1, <1>2, <1>3, <1>4, <1>6 DEF Kept, IInv

LEMMA HandOverKeeps ==
  ASSUME IInv, stage # "done", NEW kernel, HandOver(kernel), Routed', kernel # "digits"
  PROVE  Kept
<1> USE DEF HandOver
<1>1. Typed'
  BY DEF IInv, Typed
<1>2. Owed'
  BY DEF IInv, Owed
<1>3. Balanced'
  BY DEF Balanced
<1> QED
  BY <1>1, <1>2, <1>3 DEF Kept, IInv, Callers!vars

LEMMA BeginKeeps ==
  ASSUME IInv, stage # "done", call.op \in Dividing, NEW y, NEW r, NEW l, Begin(y, r, l),
         Running(Divisor, y, r, 0, l, Val256(u)),
         ~FirstPass => Callers!Promise(call) = Answer(Val256(u) \div Divisor, Rest(Val256(u) % Divisor))
  PROVE  Kept
<1> USE DEF Begin
<1>1. Typed'
  BY DEF IInv, Typed
<1>2. Owed'
  BY DEF IInv, Owed
<1>3. Routed'
  BY DEF Routed
<1>4. Divisor' = Divisor /\ FirstPass' = FirstPass
  BY DEF Divisor, FirstPass
<1>5. Balanced'
  <2>1. Running(Divisor', by', rem', quo', limbs', Val256(u'))
    BY <1>4
  <2> QED BY <1>4, <2>1 DEF Balanced, Rest
<1> QED
  BY <1>1, <1>2, <1>3, <1>5 DEF Kept, IInv, Callers!vars

(* Which calls a kernel may be at work on.                                 *)
LEMMA StageFacts ==
  ASSUME IInv
  PROVE  /\ call \in Calls /\ u \in Limbs256
         /\ stage \in StraightOps \cup {"quoRem64", "divRoundWide"} \cup Pow10Ops => call.op = stage
         /\ stage = "div256by64" =>
              call.op = "div256by64" \/ (call.op = "divRoundWide" /\ call.v.hi = 0 /\ call.v.lo # 0)
         /\ stage = "div256by128" =>
              /\ call.op \in {"div256by128", "divRoundWide"}
              /\ call.v.hi # 0 /\ LessLimbs(Hi128(u), call.v)
         /\ stage = "divmod128Pow10Slow" =>
              /\ call.op \in {"divmod128Pow10", "quoRemPow10Fit"} /\ k \in 0..MaxPrec
              /\ u.d3 = 0 /\ u.d2 = 0
         /\ stage = "digits" => call.op \in Dividing
         /\ call.op # "divU256Pow10" => u = call.u /\ k = call.k
<1>1. call \in Calls /\ u \in Limbs256 /\ Routed
  BY DEF IInv, Typed
<1>0. call.op # "digits" /\ call.op # "divmod128Pow10Slow"
  <2>1. call.op \in Ops
    BY <1>1, CallFacts
  <2> QED BY <2>1 DEF Ops, StraightOps, Pow10Ops
<1>2. call.op # "divU256Pow10" => u = call.u /\ k = call.k
  BY DEF IInv, Owed
<1>3. stage \in StraightOps \cup {"quoRem64", "divRoundWide"} \cup Pow10Ops => call.op = stage
  BY <1>1 DEF Routed, StraightOps, Pow10Ops
<1>4. stage = "div256by64" =>
        call.op = "div256by64" \/ (call.op = "divRoundWide" /\ call.v.hi = 0 /\ call.v.lo # 0)
  <2>1. call.op = "divRoundWide" /\ call.v.hi = 0 => call.v.lo # 0
    <3>1. call.op = "divRoundWide" => call.v # U(0, 0)
      BY <1>1, CallFacts
    <3>2. call.v = U(call.v.hi, call.v.lo)
      BY <1>1, CallFacts, ValRange
    <3> QED BY <3>1, <3>2
  <2> QED BY <1>1, <2>1 DEF Routed
<1>5. stage = "div256by128" =>
        /\ call.op \in {"div256by128", "divRoundWide"}
        /\ call.v.hi # 0 /\ LessLimbs(Hi128(u), call.v)
  <2>1. call.op = "div256by128" => call.v.hi # 0 /\ LessLimbs(Hi128(call.u), call.v)
    BY <1>1, CallFacts
  <2> QED BY <1>1, <1>2, <2>1 DEF Routed
<1>6. stage = "divmod128Pow10Slow" =>
        /\ call.op \in {"divmod128Pow10", "quoRemPow10Fit"} /\ k \in 0..MaxPrec
        /\ u.d3 = 0 /\ u.d2 = 0
  <2>1. call.op = "divmod128Pow10" => call.k \in 0..MaxPrec /\ call.u.d3 = 0 /\ call.u.d2 = 0
    BY <1>1, CallFacts
  <2>2. call.op = "quoRemPow10Fit" => call.k \in 1..MaxPrec
    BY <1>1, CallFacts
  <2>3. 1..MaxPrec \subseteq 0..MaxPrec
    BY PowFacts
  <2>4. call.op # "divmod128Pow10Slow"
    BY <1>0
  <2> QED BY <1>1, <1>2, <2>1, <2>2, <2>3, <2>4 DEF Routed
<1>7. stage = "digits" => call.op \in Dividing
  BY <1>0, <1>1 DEF Routed
<1> QED
  BY <1>1, <1>2, <1>3, <1>4, <1>5, <1>6, <1>7

(* A dividend by the limbs it has, and what Divided tests of it.           *)
LEMMA DividendParts ==
  ASSUME NEW x \in Limbs256
  PROVE  /\ Val256(x) \in Nat /\ Val256(x) < Wide
         /\ x.d3 \in U64 /\ x.d2 \in U64 /\ x.d1 \in U64 /\ x.d0 \in U64
         /\ Val256(x) \div Cap = x.d3 * Base + x.d2
         /\ x.d3 = 0 => Val256(x) \div Cap = x.d2
         /\ \A c \in U64 : x.d3 # 0 \/ x.d2 >= c <=> Val256(x) \div Cap >= c
         /\ x.d3 = 0 /\ x.d2 = 0 => Val256(x) = x.d1 * Base + x.d0 /\ Val256(x) \div Cap = 0
         /\ x.d3 = 0 /\ x.d2 = 0 /\ x.d1 = 0 => Val256(x) = x.d0
<1> DEFINE n == Val256(x)
           h == n \div Cap
           a == x.d3
           b == x.d2
           c1 == x.d1
           c0 == x.d0
           p == a * Base
<1>1. /\ a \in U64 /\ b \in U64 /\ c1 \in U64 /\ c0 \in U64 /\ h = p + b
      /\ n = (p + b) * Cap + (c1 * Base + c0) /\ n \in 0..(Wide - 1)
  <2>1. /\ a \in U64 /\ b \in U64 /\ c1 \in U64 /\ c0 \in U64
        /\ Val128(Hi128(x)) = p + b /\ Val128(Lo128(x)) = c1 * Base + c0
        /\ n = Val128(Hi128(x)) * Cap + Val128(Lo128(x)) /\ n \in 0..(Wide - 1)
        /\ h = Val128(Hi128(x))
    BY QuadRange
  <2> HIDE DEF n, h, a, b, c1, c0, p
  <2> QED BY <2>1
<1>2. a \in Int /\ 0 <= a /\ b \in Int /\ 0 <= b /\ b <= Base - 1 /\ c1 \in Int /\ c0 \in Int
      /\ Base \in Nat /\ Base >= 4 /\ Cap \in Nat /\ Wide \in Nat
  BY <1>1, WordRange, BaseFacts, CapFacts
<1> HIDE DEF n, h, a, b, c1, c0
<1>3. (a = 0 => p = 0) /\ (a # 0 => p >= Base) /\ p \in Int
  <2>1. a >= 1 => a * Base >= 1 * Base
    BY <1>2
  <2>2. 0 * Base = 0
    BY <1>2
  <2> QED BY <1>2, <2>1, <2>2
<1> HIDE DEF p
<1>4. n \in Nat /\ n < Wide
  BY <1>1, <1>2
<1>5. a = 0 => h = b
  BY <1>1, <1>2, <1>3
<1>6. \A c \in U64 : a # 0 \/ b >= c <=> h >= c
  <2> TAKE c \in U64
  <2>1. c \in Int /\ c <= Base - 1
    BY WordRange
  <2>2. CASE a = 0
    BY <1>5, <2>2
  <2>3. CASE a # 0
    <3>1. p >= Base /\ h = p + b
      BY <1>1, <1>3, <2>3
    <3>2. h >= c
      BY <1>2, <1>3, <2>1, <3>1
    <3> QED BY <2>3, <3>2
  <2> QED BY <2>2, <2>3
<1>7. a = 0 /\ b = 0 => n = c1 * Base + c0 /\ h = 0
  <2>1. a = 0 /\ b = 0 => p + b = 0
    BY <1>3
  <2>2. 0 * Cap = 0 /\ c1 * Base \in Int
    BY <1>2
  <2> DEFINE g == c1 * Base
  <2> HIDE DEF g
  <2>3. 0 + (g + c0) = g + c0
    BY <1>2, <2>2 DEF g
  <2> QED BY <1>1, <2>1, <2>2, <2>3 DEF g
<1>8. a = 0 /\ b = 0 /\ c1 = 0 => n = c0
  <2>1. 0 * Base + c0 = c0
    BY <1>2
  <2> QED BY <1>7, <2>1
<1> QED
  BY <1>1, <1>4, <1>5, <1>6, <1>7, <1>8 DEF n, h, a, b, c1, c0, p

LEMMA StraightKeeps ==
  ASSUME IInv, Straight
  PROVE  Kept
<1>1. stage \in StraightOps /\ Return(StraightLine(call))
  BY DEF Straight
<1>2. call \in Calls /\ call.op \in StraightOps
  BY <1>1, StageFacts
<1>3. StraightLine(call) = Callers!Promise(call)
  BY <1>2, StraightLineExact
<1>4. stage # "done"
  BY <1>1 DEF StraightOps
<1> QED
  BY <1>1, <1>3, <1>4, ReturnKeeps

(* Two hardware divisions, the second of the first's remainder and the     *)
(* lower limb, divide two limbs by one.                                    *)
LEMMA TwoDivisions ==
  ASSUME NEW a \in U64, NEW b \in U64, NEW v \in U64, v # 0
  PROVE  LET low == Div64(a % v, b, v)
         IN  /\ low.trap = FALSE
             /\ Val128(U(a \div v, low.quo)) = (a * Base + b) \div v
             /\ low.rem = (a * Base + b) % v
<1> DEFINE h == a % v
           q1 == a \div v
           m == h * Base + b
           q0 == m \div v
           r == m % v
<1>1. a \in Int /\ b \in Int /\ v \in Nat \ {0} /\ 0 <= a /\ a <= Base - 1 /\ 0 <= b /\ b <= Base - 1
      /\ Base \in Nat /\ Base >= 4 /\ a \in Nat
  <2>1. a \in Int /\ b \in Int /\ v \in Int /\ 0 <= v /\ 0 <= a /\ a <= Base - 1
        /\ 0 <= b /\ b <= Base - 1
    BY WordRange
  <2> QED BY <2>1, BaseFacts
<1>2. q1 \in Nat /\ h \in 0..(v - 1) /\ a = v * q1 + h /\ q1 <= a
  BY <1>1, DivMod, DivBelow
<1> HIDE DEF h, q1
<1>3. m \in Nat /\ m < v * Base
  <2>1. h + 1 <= v /\ h \in Nat
    BY <1>1, <1>2
  <2>2. (h + 1) * Base <= v * Base
    BY <1>1, <2>1
  <2>3. (h + 1) * Base = h * Base + Base /\ h * Base \in Nat /\ v * Base \in Nat
    BY <1>1, <2>1
  <2> DEFINE g == h * Base
             z == v * Base
  <2> HIDE DEF g, z
  <2>4. g + Base <= z /\ g \in Nat /\ z \in Nat /\ m = g + b
    BY <2>2, <2>3 DEF g, z
  <2> HIDE DEF m
  <2> QED BY <1>1, <2>4 DEF z
<1>4. q0 \in Nat /\ r \in 0..(v - 1) /\ m = v * q0 + r /\ q0 < Base
  <2>1. m \in Int
    BY <1>3
  <2>2. q0 < Base
    BY <1>1, <1>3, DivBelow
  <2> HIDE DEF m
  <2> QED BY <1>1, <1>3, <2>1, <2>2, DivMod, DivBelow
<1>5. ~(h >= v)
  BY <1>1, <1>2
<1>6. Div64(h, b, v).trap = FALSE /\ Div64(h, b, v).quo = q0 /\ Div64(h, b, v).rem = r
  BY <1>5 DEF Div64
<1> HIDE DEF m, q0, r
<1>7. q1 \in U64 /\ q0 \in U64
  BY <1>1, <1>2, <1>4 DEF U64
<1>8. Val128(U(q1, q0)) = q1 * Base + q0
  BY <1>7, PairRange
<1> DEFINE n == a * Base + b
           q == q1 * Base + q0
<1>9. n = v * q + r
  <2>1. (v * q1 + h) * Base = v * (q1 * Base) + h * Base
    BY <1>1, <1>2
  <2>2. v * (q1 * Base + q0) = v * (q1 * Base) + v * q0
    BY <1>1, <1>2, <1>4
  <2>3. v * (q1 * Base) \in Int /\ h * Base \in Int /\ v * q0 \in Int /\ r \in Int
    BY <1>1, <1>2, <1>4
  <2> DEFINE x == v * (q1 * Base)
             y == h * Base
             z == v * q0
             aB == a * Base
             vq == v * q
  <2>4. aB = x + y /\ vq = x + z /\ y + b = z + r /\ x \in Int /\ y \in Int /\ z \in Int /\ n = aB + b
    BY <1>2, <1>4, <2>1, <2>2, <2>3 DEF m
  <2> HIDE DEF x, y, z, aB, vq, n
  <2>5. n = vq + r
    BY <1>1, <2>3, <2>4
  <2> QED BY <2>5 DEF vq
<1>10. n \in Int /\ q \in Int
  BY <1>1, <1>2, <1>4
<1> HIDE DEF n, q
<1>11. n \div v = q /\ n % v = r
  BY <1>1, <1>4, <1>9, <1>10, DivModUnique
<1> QED
  BY <1>6, <1>8, <1>11 DEF n, q, h, q1

LEMMA QuoRem64Keeps ==
  ASSUME IInv, QuoRem64
  PROVE  Kept
<1> DEFINE v == call.v.lo
           low == Div64(u.d1 % v, u.d0, v)
<1>1. stage = "quoRem64"
      /\ Return(IF low.trap THEN Refuse("trap") ELSE Answer(Val128(U(u.d1 \div v, low.quo)), low.rem))
  BY DEF QuoRem64
<1>2. call \in Calls /\ call.op = "quoRem64" /\ u \in Limbs256 /\ u = call.u
  BY <1>1, StageFacts
<1>3. v \in U64 /\ v # 0
  BY <1>2, CallFacts, ValRange
<1>4. u.d1 \in U64 /\ u.d0 \in U64 /\ Val128(Lo128(u)) = u.d1 * Base + u.d0
  BY <1>2, QuadRange
<1> DEFINE n == u.d1 * Base + u.d0
<1>5. /\ low.trap = FALSE
      /\ Val128(U(u.d1 \div v, low.quo)) = n \div v
      /\ low.rem = n % v
  <2> DEFINE a == u.d1
             b == u.d0
  <2>1. a \in U64 /\ b \in U64
    BY <1>4
  <2> HIDE DEF a, b, v
  <2>2. LET e == Div64(a % v, b, v)
        IN  /\ e.trap = FALSE
            /\ Val128(U(a \div v, e.quo)) = (a * Base + b) \div v
            /\ e.rem = (a * Base + b) % v
    BY <1>3, <2>1, TwoDivisions
  <2> QED BY <2>2 DEF a, b
<1>6. Callers!Promise(call) = Answer(n \div v, n % v)
  BY <1>2, <1>4, Promised
<1> HIDE DEF low, n, v
<1>7. Return(Callers!Promise(call))
  BY <1>1, <1>5, <1>6
<1>8. stage # "done"
  BY <1>1
<1> QED
  BY <1>7, <1>8, ReturnKeeps

(* The divisions by a word or two owe their caller the quotient by Divisor. *)
WideOps == {"divRoundWide", "div256by64", "div256by128"}
LEMMA WidePromise ==
  ASSUME IInv, call.op \in WideOps
  PROVE  /\ call.op = "div256by64" /\ call.v.lo = 0 => Callers!Promise(call) = Refuse("DivideByZero")
         /\ call.op # "div256by64" \/ call.v.lo # 0 =>
              Callers!Promise(call) = Quotient(Val256(u), Divisor)
         /\ call.op = "div256by64" \/ call.v.hi = 0 => Divisor = call.v.lo
         /\ call.op # "div256by64" => Divisor = Val128(call.v)
         /\ call.v.lo \in U64 /\ call.v \in Limbs128 /\ u \in Limbs256
         /\ call.op \in Dividing /\ ~FirstPass /\ \A n : Rest(n) = n
<1>1. call.op \in {"divRoundWide", "div256by64", "div256by128"}
  BY DEF WideOps
<1>2. call \in Calls /\ u \in Limbs256 /\ u = call.u
  BY <1>1, StageFacts
<1>3. call.v \in Limbs128 /\ call.v.hi \in U64 /\ call.v.lo \in U64
      /\ Val128(call.v) = call.v.hi * Base + call.v.lo
  BY <1>2, CallFacts, ValRange
<1>4. call.op # "div256by64" => Divisor = Val128(call.v)
  BY <1>1 DEF Divisor, Pow10Ops
<1>5. call.v.hi = 0 => Val128(call.v) = call.v.lo
  <2>1. 0 * Base + call.v.lo = call.v.lo
    <3>1. call.v.lo \in Int /\ 0 * Base = 0
      BY <1>3, WordRange, BaseFacts
    <3> QED BY <3>1
  <2> QED BY <1>3, <2>1
<1>6. call.op = "div256by64" => Divisor = call.v.lo
  BY DEF Divisor, Pow10Ops
<1>7. call.op # "div256by64" => Callers!Promise(call) = Quotient(Val256(u), Val128(call.v))
  BY <1>1, <1>2, Promised
<1>8. call.op = "div256by64" =>
        Callers!Promise(call) = IF call.v.lo = 0 THEN Refuse("DivideByZero")
                                                 ELSE Quotient(Val256(u), call.v.lo)
  BY <1>2, Promised
<1>9. call.op = "div256by64" /\ call.v.lo # 0 => Callers!Promise(call) = Quotient(Val256(u), Divisor)
  BY <1>6, <1>8
<1>10. call.op \in Dividing /\ ~FirstPass /\ \A n : Rest(n) = n
  BY <1>1 DEF Dividing, FirstPass, Rest
<1> QED
  BY <1>2, <1>3, <1>4, <1>5, <1>6, <1>7, <1>8, <1>9, <1>10

LEMMA Quotients ==
  ASSUME NEW n, NEW d
  PROVE  /\ n \div Cap >= d => Quotient(n, d) = Refuse("Overflow")
         /\ ~(n \div Cap >= d) => Quotient(n, d) = Answer(n \div d, n % d)
BY DEF Quotient

LEMMA NarrowOnlyKeeps ==
  ASSUME IInv, NarrowOnly
  PROVE  Kept
<1> DEFINE d == call.v.lo
           n == u.d0
<1>1. /\ stage = "divRoundWide" /\ call.v.hi = 0 /\ u.d3 = 0 /\ u.d2 = 0 /\ u.d1 = 0
      /\ Return(Answer(n \div d, n % d))
  BY DEF NarrowOnly
<1>2. call.op = "divRoundWide" /\ call.op \in WideOps /\ call \in Calls
  BY <1>1, StageFacts DEF WideOps
<1>3. /\ Callers!Promise(call) = Quotient(Val256(u), Divisor) /\ Divisor = d
      /\ d \in U64 /\ u \in Limbs256
  BY <1>1, <1>2, WidePromise
<1>4. Val256(u) = n /\ Val256(u) \div Cap = 0
  BY <1>1, <1>3, DividendParts
<1>5. d # 0
  <2>1. call.v # U(0, 0) /\ call.v = U(call.v.hi, call.v.lo)
    BY <1>2, CallFacts, ValRange
  <2> QED BY <1>1, <2>1
<1>6. ~(0 >= d)
  BY <1>3, <1>5, WordRange
<1> HIDE DEF d, n
<1>7. Callers!Promise(call) = Answer(n \div d, n % d)
  BY <1>3, <1>4, <1>6, Quotients
<1> QED
  BY <1>1, <1>7, ReturnKeeps

LEMMA NarrowQuotientKeeps ==
  ASSUME IInv, NarrowQuotient
  PROVE  Kept
<1> DEFINE d == call.v.lo
           n == u.d1 * Base + u.d0
           low == Div64(u.d1, u.d0, d)
<1>1. /\ stage = "divRoundWide" /\ call.v.hi = 0 /\ u.d3 = 0 /\ u.d2 = 0 /\ u.d1 < d
      /\ Return(IF low.trap THEN Refuse("trap") ELSE Answer(low.quo, low.rem))
  BY DEF NarrowQuotient
<1>2. call.op = "divRoundWide" /\ call.op \in WideOps
  BY <1>1, StageFacts DEF WideOps
<1>3. /\ Callers!Promise(call) = Quotient(Val256(u), Divisor) /\ Divisor = d
      /\ d \in U64 /\ u \in Limbs256
  BY <1>1, <1>2, WidePromise
<1>4. Val256(u) = n /\ Val256(u) \div Cap = 0 /\ u.d1 \in U64
  BY <1>1, <1>3, DividendParts
<1>5. d \in Int /\ u.d1 \in Int /\ 0 <= u.d1
  BY <1>3, <1>4, WordRange
<1>6. ~(0 >= d) /\ ~(u.d1 >= d)
  BY <1>1, <1>5
<1>7. low.trap = FALSE /\ low.quo = n \div d /\ low.rem = n % d
  BY <1>6 DEF Div64
<1> HIDE DEF d, n, low
<1>8. Callers!Promise(call) = Answer(n \div d, n % d)
  BY <1>3, <1>4, <1>6, Quotients
<1>9. Return(Callers!Promise(call))
  BY <1>1, <1>7, <1>8
<1> QED
  BY <1>1, <1>9, ReturnKeeps

LEMMA WideByLimbKeeps ==
  ASSUME IInv, WideByLimb
  PROVE  Kept
<1>1. stage = "divRoundWide" /\ call.v.hi = 0 /\ HandOver("div256by64")
  BY DEF WideByLimb
<1>2. call.op = "divRoundWide"
  BY <1>1, StageFacts
<1>3. Routed'
  BY <1>1, <1>2 DEF Routed, HandOver
<1> QED
  BY <1>1, <1>3, HandOverKeeps

LEMMA WideByPairKeeps ==
  ASSUME IInv, WideByPair
  PROVE  Kept
<1>1. /\ stage = "divRoundWide" /\ call.v.hi # 0
      /\ IF LessLimbs(Hi128(u), call.v) THEN HandOver("div256by128") ELSE Return(Refuse("Overflow"))
  BY DEF WideByPair
<1>2. call.op = "divRoundWide" /\ call.op \in WideOps
  BY <1>1, StageFacts DEF WideOps
<1>3. CASE LessLimbs(Hi128(u), call.v)
  <2>1. HandOver("div256by128")
    BY <1>1, <1>3
  <2>2. Routed'
    BY <1>1, <1>2, <1>3, <2>1 DEF Routed, HandOver
  <2> QED BY <1>1, <2>1, <2>2, HandOverKeeps
<1>4. CASE ~LessLimbs(Hi128(u), call.v)
  <2> DEFINE m == Val128(call.v)
             h == Val128(Hi128(u))
  <2>1. /\ Callers!Promise(call) = Quotient(Val256(u), m)
        /\ call.v \in Limbs128 /\ u \in Limbs256
    BY <1>2, WidePromise
  <2>2. Hi128(u) \in Limbs128 /\ Val256(u) \div Cap = h
    BY <2>1, QuadRange
  <2>3. ~(h < m)
    BY <1>4, <2>1, <2>2, LessNegExact
  <2>4. h \in 0..(Cap - 1) /\ m \in 0..(Cap - 1)
    BY <2>1, <2>2, ValRange
  <2> HIDE DEF h, m
  <2>5. h >= m
    BY <2>3, <2>4, CapFacts
  <2>6. Callers!Promise(call) = Refuse("Overflow")
    BY <2>1, <2>2, <2>5, Quotients
  <2>7. Return(Callers!Promise(call))
    BY <1>1, <1>4, <2>6
  <2> QED BY <1>1, <2>7, ReturnKeeps
<1> QED
  BY <1>3, <1>4

LEMMA Div256by64RefuseKeeps ==
  ASSUME IInv, Div256by64Refuse
  PROVE  Kept
<1> DEFINE d == call.v.lo
<1>1. /\ stage = "div256by64"
      /\ \/ d = 0 /\ Return(Refuse("DivideByZero"))
         \/ d # 0 /\ (u.d3 # 0 \/ u.d2 >= d) /\ Return(Refuse("Overflow"))
  BY DEF Div256by64Refuse
<1>2. call.op = "div256by64" \/ (call.op = "divRoundWide" /\ call.v.hi = 0 /\ call.v.lo # 0)
  BY <1>1, StageFacts
<1>3. call.op \in WideOps
  BY <1>2 DEF WideOps
<1>4. /\ d = 0 => Callers!Promise(call) = Refuse("DivideByZero")
      /\ d # 0 => Callers!Promise(call) = Quotient(Val256(u), d)
      /\ d \in U64 /\ u \in Limbs256
  BY <1>2, <1>3, WidePromise
<1> HIDE DEF d
<1>5. CASE d = 0 /\ Return(Refuse("DivideByZero"))
  BY <1>1, <1>4, <1>5, ReturnKeeps
<1>6. CASE d # 0 /\ (u.d3 # 0 \/ u.d2 >= d) /\ Return(Refuse("Overflow"))
  <2>1. Val256(u) \div Cap >= d
    BY <1>4, <1>6, DividendParts
  <2>2. Callers!Promise(call) = Refuse("Overflow")
    BY <1>4, <1>6, <2>1, Quotients
  <2> QED BY <1>1, <1>6, <2>2, ReturnKeeps
<1> QED
  BY <1>1, <1>5, <1>6

LEMMA Div256by64Keeps ==
  ASSUME IInv, Div256by64
  PROVE  Kept
<1> DEFINE d == call.v.lo
           s == LeadingZeros(d)
           dn == Shl(d, s)
           recip == Div64(Base - 1 - dn, Base - 1, dn)
           n == Normalized3(u, s)
           y == ByLimb(dn, recip.quo, s)
           r == U(0, n[1])
           l == Tail(n)
<1>1. /\ stage = "div256by64" /\ d # 0 /\ u.d3 = 0 /\ u.d2 < d
      /\ IF recip.trap THEN Return(Refuse("trap")) ELSE Begin(y, r, l)
  BY DEF Div256by64
<1>2. call.op = "div256by64" \/ (call.op = "divRoundWide" /\ call.v.hi = 0 /\ call.v.lo # 0)
  BY <1>1, StageFacts
<1>3. call.op \in WideOps
  BY <1>2 DEF WideOps
<1>4. /\ Callers!Promise(call) = Quotient(Val256(u), Divisor) /\ Divisor = d
      /\ d \in U64 /\ u \in Limbs256 /\ call.op \in Dividing /\ ~FirstPass /\ \A m : Rest(m) = m
  BY <1>1, <1>2, <1>3, WidePromise
<1> HIDE DEF d
<1>5. recip.trap = FALSE /\ NormalLimb(d, s, dn, recip.quo)
  BY <1>1, <1>4, NormalOfLimb
<1> HIDE DEF recip, dn, s
<1>6. Running(d, y, r, 0, l, Val256(u))
  BY <1>1, <1>4, <1>5, BeginThree
<1>7. ~(Val256(u) \div Cap >= d)
  <2>1. Val256(u) \div Cap = u.d2 /\ u.d2 \in U64
    BY <1>1, <1>4, DividendParts
  <2>2. d \in Int /\ u.d2 \in Int
    BY <1>4, <2>1, WordRange
  <2> QED BY <1>1, <2>1, <2>2
<1>8. Callers!Promise(call) = Answer(Val256(u) \div Divisor, Rest(Val256(u) % Divisor))
  BY <1>4, <1>7, Quotients
<1> HIDE DEF y, r, l
<1>9. Begin(y, r, l) /\ Running(Divisor, y, r, 0, l, Val256(u))
  BY <1>1, <1>4, <1>5, <1>6
<1>10. stage # "done"
  BY <1>1
<1> QED
  BY <1>4, <1>8, <1>9, <1>10, BeginKeeps

LEMMA Div256by128Keeps ==
  ASSUME IInv, Div256by128
  PROVE  Kept
<1> DEFINE s == LeadingZeros(call.v.hi)
           v == Lsh(call.v, s)
           a == Normalized4(u, s)
           y == ByPair(v, s)
           f == a[1] # 0 \/ ~LessLimbs(U(a[2], a[3]), v)
<1>1. /\ stage = "div256by128"
      /\ IF f THEN Begin(y, U(a[1], a[2]), <<a[3], a[4]>>) ELSE Begin(y, U(a[2], a[3]), <<a[4]>>)
  BY DEF Div256by128
<1>2. /\ call.op \in {"div256by128", "divRoundWide"}
      /\ call.v.hi # 0 /\ LessLimbs(Hi128(u), call.v)
  BY <1>1, StageFacts
<1>3. call.op \in WideOps /\ call.op # "div256by64"
  BY <1>2 DEF WideOps
<1>4. /\ Callers!Promise(call) = Quotient(Val256(u), Divisor) /\ Divisor = Val128(call.v)
      /\ call.v \in Limbs128
      /\ u \in Limbs256 /\ call.op \in Dividing /\ ~FirstPass /\ \A m : Rest(m) = m
  BY <1>2, <1>3, WidePromise
<1>5. IF f THEN Running(Divisor, y, U(a[1], a[2]), 0, <<a[3], a[4]>>, Val256(u))
           ELSE Running(Divisor, y, U(a[2], a[3]), 0, <<a[4]>>, Val256(u))
  BY <1>2, <1>4, BeginPair
<1>6. ~(Val256(u) \div Cap >= Divisor)
  <2> DEFINE m == Val128(call.v)
             h == Val128(Hi128(u))
  <2>1. Hi128(u) \in Limbs128 /\ Val256(u) \div Cap = h
    BY <1>4, QuadRange
  <2>2. h < m
    BY <1>2, <1>4, <2>1, LessNegExact
  <2>3. h \in 0..(Cap - 1) /\ m \in 0..(Cap - 1)
    BY <1>4, <2>1, ValRange
  <2> HIDE DEF h, m
  <2>4. ~(h >= m)
    BY <2>2, <2>3, CapFacts
  <2> QED BY <1>4, <2>1, <2>4 DEF m
<1>7. Callers!Promise(call) = Answer(Val256(u) \div Divisor, Rest(Val256(u) % Divisor))
  BY <1>4, <1>6, Quotients
<1>8. stage # "done"
  BY <1>1
<1> HIDE DEF f, y, a
<1>9. CASE f
  <2> DEFINE r == U(a[1], a[2])
             l == <<a[3], a[4]>>
  <2>1. Begin(y, r, l) /\ Running(Divisor, y, r, 0, l, Val256(u))
    BY <1>1, <1>5, <1>9
  <2> HIDE DEF r, l
  <2> QED BY <1>4, <1>7, <1>8, <2>1, BeginKeeps
<1>10. CASE ~f
  <2> DEFINE r == U(a[2], a[3])
             l == <<a[4]>>
  <2>1. Begin(y, r, l) /\ Running(Divisor, y, r, 0, l, Val256(u))
    BY <1>1, <1>5, <1>10
  <2> HIDE DEF r, l
  <2> QED BY <1>4, <1>7, <1>8, <2>1, BeginKeeps
<1> QED
  BY <1>9, <1>10

(* What the divisions by a power of ten owe.                               *)
LEMMA PowPromise ==
  ASSUME IInv, call.op \in Pow10Ops
  PROVE  /\ k \in 0..2*MaxPrec /\ u \in Limbs256 /\ call.op \in Dividing
         /\ k > MaxPrec => Divisor = Pow10[MaxPrec]
         /\ ~(k > MaxPrec) => k \in 0..MaxPrec /\ Divisor = Pow10[k]
         /\ call.op \in {"divmod128Pow10", "divmodU256Pow10Wide"} =>
              Callers!Promise(call) = Answer(Val256(u) \div Pow10[k], Val256(u) % Pow10[k])
         /\ call.op = "divmod128Pow10" => u.d3 = 0 /\ u.d2 = 0
         /\ call.op = "quoRemPow10Fit" =>
              k \in 1..MaxPrec /\ Callers!Promise(call) = Quotient(Val256(u), Pow10[k])
         /\ call.op = "divU256Pow10" =>
              Callers!Promise(call) = [Quotient(Val256(u), Pow10[k]) EXCEPT !.rest = 0]
         /\ call.op # "divU256Pow10" => ~(k > MaxPrec) /\ ~FirstPass /\ \A n : Rest(n) = n
<1>1. k \in 0..2*MaxPrec /\ u \in Limbs256 /\ call \in Calls
  BY DEF IInv, Typed
<1>2. call.op # "divU256Pow10" => u = call.u /\ k = call.k
  BY StageFacts
<1>3. call.op \in Dividing
  BY DEF Dividing
<1>4. MaxPrec \in Nat
  BY PowFacts
<1>5. k > MaxPrec => Divisor = Pow10[MaxPrec]
  BY DEF Divisor
<1>6. ~(k > MaxPrec) => k \in 0..MaxPrec /\ Divisor = Pow10[k]
  BY <1>1, <1>4 DEF Divisor
<1>7. call.op = "divmod128Pow10" =>
        /\ u.d3 = 0 /\ u.d2 = 0 /\ k \in 0..MaxPrec
        /\ Callers!Promise(call) = Answer(Val256(u) \div Pow10[k], Val256(u) % Pow10[k])
  <2> SUFFICES ASSUME call.op = "divmod128Pow10"
               PROVE  /\ u.d3 = 0 /\ u.d2 = 0 /\ k \in 0..MaxPrec
                      /\ Callers!Promise(call) = Answer(Val256(u) \div Pow10[k], Val256(u) % Pow10[k])
    OBVIOUS
  <2>1. u.d3 = 0 /\ u.d2 = 0 /\ k \in 0..MaxPrec
    BY <1>1, <1>2, CallFacts
  <2>2. Val256(u) = u.d1 * Base + u.d0 /\ Val128(Lo128(u)) = u.d1 * Base + u.d0
    BY <1>1, <2>1, DividendParts, QuadRange
  <2>3. Callers!Promise(call) = Answer(Val128(Lo128(u)) \div Pow10[k], Val128(Lo128(u)) % Pow10[k])
    BY <1>2, Promised
  <2>4. Val256(u) = Val128(Lo128(u))
    BY <2>2
  <2> QED BY <2>1, <2>3, <2>4
<1>8. call.op = "divmodU256Pow10Wide" =>
        /\ k \in 1..MaxPrec
        /\ Callers!Promise(call) = Answer(Val256(u) \div Pow10[k], Val256(u) % Pow10[k])
  BY <1>1, <1>2, CallFacts, Promised
<1>9. call.op = "quoRemPow10Fit" =>
        k \in 1..MaxPrec /\ Callers!Promise(call) = Quotient(Val256(u), Pow10[k])
  BY <1>1, <1>2, CallFacts, Promised
<1>10. call.op = "divU256Pow10" =>
         Callers!Promise(call) = [Quotient(Val256(u), Pow10[k]) EXCEPT !.rest = 0]
  BY DEF IInv, Owed
<1>11. call.op # "divU256Pow10" => ~(k > MaxPrec) /\ ~FirstPass /\ \A n : Rest(n) = n
  <2>1. call.op # "divU256Pow10" => ~(k > MaxPrec)
    <3>1. \A j \in 0..MaxPrec : ~(j > MaxPrec)
      BY <1>4
    <3>2. \A j \in 1..MaxPrec : ~(j > MaxPrec)
      BY <1>4
    <3> QED BY <1>7, <1>8, <1>9, <3>1, <3>2 DEF Pow10Ops
  <2> QED BY <2>1 DEF FirstPass, Rest
<1> QED
  BY <1>1, <1>3, <1>5, <1>6, <1>7, <1>8, <1>9, <1>10, <1>11

LEMMA RestDropped ==
  /\ [Refuse("Overflow") EXCEPT !.rest = 0] = Refuse("Overflow")
  /\ \A x, y : [Answer(x, y) EXCEPT !.rest = 0] = Answer(x, 0)
BY DEF Refuse, Answer

LEMMA DivideByOneKeeps ==
  ASSUME IInv, DivideByOne
  PROVE  Kept
<1> DEFINE n == Val256(u)
           h == n \div Cap
           l == Val128(Lo128(u))
           f == u.d3 # 0 \/ u.d2 # 0
<1>1. /\ stage \in {"divmod128Pow10", "divU256Pow10"} /\ k = 0
      /\ Return(IF stage = "divU256Pow10" /\ f THEN Refuse("Overflow") ELSE Answer(l, 0))
  BY DEF DivideByOne
<1>2. call.op = stage /\ call.op \in Pow10Ops
  BY <1>1, StageFacts DEF Pow10Ops
<1>3. Pow10[k] = 1 /\ u \in Limbs256
  BY <1>1, <1>2, PowPromise, PowFacts
<1>4. /\ n \in Nat /\ (~f => n = l)
      /\ (f <=> h >= 1)
  <2>1. n \in Nat /\ (u.d3 # 0 \/ u.d2 >= 1 <=> h >= 1)
        /\ (u.d3 = 0 /\ u.d2 = 0 => n = u.d1 * Base + u.d0) /\ u.d2 \in U64
    <3>1. 1 \in U64
      BY BaseFacts
    <3> QED BY <1>3, <3>1, DividendParts
  <2>2. l = u.d1 * Base + u.d0
    BY <1>3, QuadRange
  <2>3. u.d2 >= 1 <=> u.d2 # 0
    BY <2>1, WordRange
  <2> HIDE DEF n, h, l
  <2>4. ~f => n = l
    BY <2>1, <2>2
  <2>5. f <=> h >= 1
    BY <2>1, <2>3
  <2> QED BY <2>1, <2>4, <2>5
<1>5. n \div 1 = n /\ n % 1 = 0
  BY <1>4
<1> HIDE DEF n, h, l, f
<1>6. CASE stage = "divmod128Pow10"
  <2>1. Callers!Promise(call) = Answer(n \div 1, n % 1) /\ ~f
    BY <1>2, <1>3, <1>6, PowPromise DEF n, f
  <2>2. Callers!Promise(call) = Answer(l, 0)
    BY <1>4, <1>5, <2>1
  <2>3. Return(Callers!Promise(call))
    BY <1>1, <1>6, <2>2
  <2> QED BY <1>6, <2>3, ReturnKeeps
<1>7. CASE stage = "divU256Pow10"
  <2>1. Callers!Promise(call) = [Quotient(n, 1) EXCEPT !.rest = 0]
    BY <1>2, <1>3, <1>7, PowPromise DEF n
  <2>2. ASSUME f PROVE Kept
    <3>1. Quotient(n, 1) = Refuse("Overflow")
      BY <1>4, <2>2, Quotients DEF h
    <3>2. Callers!Promise(call) = Refuse("Overflow")
      BY <2>1, <3>1, RestDropped
    <3>3. Return(Callers!Promise(call))
      BY <1>1, <1>7, <2>2, <3>2
    <3> QED BY <1>7, <3>3, ReturnKeeps
  <2>3. ASSUME ~f PROVE Kept
    <3>1. Quotient(n, 1) = Answer(n \div 1, n % 1)
      BY <1>4, <2>3, Quotients DEF h
    <3>2. Callers!Promise(call) = Answer(l, 0)
      BY <1>4, <1>5, <2>1, <2>3, <3>1, RestDropped
    <3>3. Return(Callers!Promise(call))
      BY <1>1, <1>7, <2>3, <3>2
    <3> QED BY <1>7, <3>3, ReturnKeeps
  <2> QED BY <2>2, <2>3
<1> QED
  BY <1>1, <1>6, <1>7

LEMMA OneLimbPow10Keeps ==
  ASSUME IInv, OneLimbPow10
  PROVE  Kept
<1> DEFINE p == Pow10[k]
           n == u.d0
<1>1. /\ \/ stage = "divmod128Pow10" /\ k # 0 /\ u.d1 = 0
         \/ stage = "quoRemPow10Fit" /\ u.d3 = 0 /\ u.d2 = 0 /\ u.d1 = 0
      /\ Return(Answer(Divmod64Pow10(n, k).quo, Divmod64Pow10(n, k).rem))
  BY DEF OneLimbPow10
<1>2. call.op = stage /\ call.op \in Pow10Ops /\ call.op # "divU256Pow10"
  BY <1>1, StageFacts DEF Pow10Ops
<1>3. k \in 1..MaxPrec /\ k \in 0..MaxPrec
      /\ u \in Limbs256 /\ u.d3 = 0 /\ u.d2 = 0 /\ u.d1 = 0
  <2>1. k \in 0..MaxPrec /\ u \in Limbs256 /\ u.d3 = 0 /\ u.d2 = 0 /\ u.d1 = 0
    BY <1>1, <1>2, PowPromise
  <2>2. k \in 1..MaxPrec
    <3>1. CASE k # 0
      BY <2>1, <3>1, PowFacts
    <3>2. CASE stage = "quoRemPow10Fit"
      BY <1>2, <3>2, PowPromise
    <3> QED BY <1>1, <3>1, <3>2
  <2> QED BY <2>1, <2>2
<1>4. Val256(u) = n /\ Val256(u) \div Cap = 0 /\ n \in U64
  BY <1>3, DividendParts
<1>5. Divmod64Pow10(n, k).quo = n \div p /\ Divmod64Pow10(n, k).rem = n % p
  BY <1>3, <1>4, Divmod64Pow10Exact
<1>6. ~(0 >= p)
  <2>1. p \in Nat \ {0}
    BY <1>3, Pow10EntryExact
  <2> HIDE DEF p
  <2> QED BY <2>1
<1>7. Callers!Promise(call) = Answer(n \div p, n % p)
  <2>1. call.op \in {"divmod128Pow10", "quoRemPow10Fit"}
    BY <1>1, <1>2
  <2>2. CASE call.op = "divmod128Pow10"
    BY <1>2, <1>4, <2>2, PowPromise
  <2>3. CASE call.op = "quoRemPow10Fit"
    <3>1. Callers!Promise(call) = Quotient(Val256(u), p)
      BY <1>2, <2>3, PowPromise
    <3> HIDE DEF p, n
    <3> QED BY <1>4, <1>6, <3>1, Quotients
  <2> QED BY <2>1, <2>2, <2>3
<1> HIDE DEF p, n
<1>8. Return(Callers!Promise(call)) /\ stage # "done"
  BY <1>1, <1>5, <1>7
<1> QED
  BY <1>8, ReturnKeeps

LEMMA ToSlowKeeps ==
  ASSUME IInv, ToSlow
  PROVE  Kept
<1>1. /\ stage = "divmod128Pow10" \/ (stage = "quoRemPow10Fit" /\ u.d3 = 0 /\ u.d2 = 0)
      /\ HandOver("divmod128Pow10Slow")
  BY DEF ToSlow
<1>2. call.op = stage
  BY <1>1, StageFacts DEF Pow10Ops
<1>3. Routed'
  BY <1>1, <1>2 DEF Routed, HandOver
<1> QED
  BY <1>1, <1>3, HandOverKeeps

LEMMA Divmod128Pow10SlowKeeps ==
  ASSUME IInv, Divmod128Pow10Slow
  PROVE  Kept
<1> DEFINE e == Pow10Tab[k]
           y == ByLimb(e.dn, e.v, e.s)
           r == U(0, ShiftedOut(u.d1, e.s))
           l == <<Funnel(u.d1, u.d0, e.s), Shl(u.d0, e.s)>>
           p == Pow10[k]
           n == Val256(u)
<1>1. stage = "divmod128Pow10Slow" /\ Begin(y, r, l)
  BY DEF Divmod128Pow10Slow
<1>2. /\ call.op \in {"divmod128Pow10", "quoRemPow10Fit"} /\ k \in 0..MaxPrec
      /\ u.d3 = 0 /\ u.d2 = 0
  BY <1>1, StageFacts
<1>3. call.op \in Pow10Ops
  BY <1>2 DEF Pow10Ops
<1>4. /\ u \in Limbs256 /\ call.op \in Dividing /\ Divisor = p /\ ~FirstPass /\ \A m : Rest(m) = m
  BY <1>2, <1>3, PowPromise
<1>5. NormalLimb(p, e.s, e.dn, e.v)
  BY <1>2, NormalOfPow10
<1>6. Running(p, y, r, 0, l, n)
  <2> HIDE DEF e, p
  <2> QED BY <1>2, <1>4, <1>5, BeginSlow
<1>7. Callers!Promise(call) = Answer(n \div p, n % p)
  <2>1. CASE call.op = "divmod128Pow10"
    BY <1>3, <2>1, PowPromise
  <2>2. CASE call.op = "quoRemPow10Fit"
    <3>1. Callers!Promise(call) = Quotient(n, p)
      BY <1>3, <2>2, PowPromise
    <3>2. n \div Cap = 0
      BY <1>2, <1>4, DividendParts
    <3>3. ~(0 >= p)
      <4>1. p \in Nat \ {0}
        BY <1>2, Pow10EntryExact
      <4> HIDE DEF p
      <4> QED BY <4>1
    <3> HIDE DEF p, n
    <3> QED BY <3>1, <3>2, <3>3, Quotients
  <2> QED BY <1>2, <2>1, <2>2
<1>8. stage # "done"
  BY <1>1
<1> HIDE DEF y, r, l, p
<1>9. Running(Divisor, y, r, 0, l, Val256(u))
  BY <1>4, <1>6
<1>10. Callers!Promise(call) = Answer(Val256(u) \div Divisor, Rest(Val256(u) % Divisor))
  BY <1>4, <1>7
<1> QED
  BY <1>1, <1>4, <1>8, <1>9, <1>10, BeginKeeps

LEMMA DivmodU256Pow10WideKeeps ==
  ASSUME IInv, DivmodU256Pow10Wide
  PROVE  Kept
<1> DEFINE j == IF k > MaxPrec THEN MaxPrec ELSE k
           e == Pow10Tab[j]
           y == ByLimb(e.dn, e.v, e.s)
           r == U(0, ShiftedOut(u.d3, e.s))
           l == Normalized4(u, e.s)
           p == Pow10[j]
           n == Val256(u)
<1>1. /\ stage = "divmodU256Pow10Wide" \/ (stage = "divU256Pow10" /\ k > MaxPrec)
      /\ Begin(y, r, l)
  BY DEF DivmodU256Pow10Wide
<1>2. call.op = stage /\ call.op \in Pow10Ops
  BY <1>1, StageFacts DEF Pow10Ops
<1>3. j \in 0..MaxPrec /\ Divisor = p /\ u \in Limbs256 /\ call.op \in Dividing
  <2>1. MaxPrec \in 0..MaxPrec
    BY PowFacts
  <2> QED BY <1>2, <2>1, PowPromise
<1>4. NormalLimb(p, e.s, e.dn, e.v)
  <2> HIDE DEF j
  <2> QED BY <1>3, NormalOfPow10
<1>5. Running(p, y, r, 0, l, n)
  <2> HIDE DEF e, p
  <2> QED BY <1>3, <1>4, BeginWide
<1>6. ~FirstPass => Callers!Promise(call) = Answer(n \div p, Rest(n % p))
  <2> SUFFICES ASSUME ~FirstPass PROVE Callers!Promise(call) = Answer(n \div p, Rest(n % p))
    OBVIOUS
  <2>1. call.op = "divmodU256Pow10Wide"
    BY <1>1, <1>2 DEF FirstPass
  <2>2. /\ Callers!Promise(call) = Answer(n \div Pow10[k], n % Pow10[k])
        /\ ~(k > MaxPrec) /\ \A m : Rest(m) = m
    BY <1>2, <2>1, PowPromise
  <2> QED BY <2>2
<1>7. stage # "done"
  BY <1>1
<1> HIDE DEF y, r, l, p
<1>8. Running(Divisor, y, r, 0, l, Val256(u))
  BY <1>3, <1>5
<1>9. ~FirstPass => Callers!Promise(call) = Answer(Val256(u) \div Divisor, Rest(Val256(u) % Divisor))
  BY <1>3, <1>6
<1> QED
  BY <1>1, <1>3, <1>7, <1>8, <1>9, BeginKeeps

LEMMA FitsPow10Keeps ==
  ASSUME IInv, FitsPow10
  PROVE  Kept
<1> DEFINE e == Pow10Tab[k]
           n3 == Normalized3(u, e.s)
           y == ByLimb(e.dn, e.v, e.s)
           r == U(0, n3[1])
           l == Tail(n3)
           p == Pow10[k]
           n == Val256(u)
           f == u.d3 # 0 \/ u.d2 >= p
           h == n \div Cap
<1>1. /\ \/ stage = "divU256Pow10" /\ k \in 1..MaxPrec
         \/ stage = "quoRemPow10Fit"
      /\ IF f THEN Return(Refuse("Overflow")) ELSE Begin(y, r, l)
  BY DEF FitsPow10
<1>2. call.op = stage /\ call.op \in Pow10Ops
  BY <1>1, StageFacts DEF Pow10Ops
<1>3. ~(k > MaxPrec)
  <2>1. \A j \in 1..MaxPrec : ~(j > MaxPrec)
    BY PowFacts
  <2> QED BY <1>1, <1>2, <2>1, PowPromise
<1>4. k \in 0..MaxPrec /\ Divisor = p /\ u \in Limbs256 /\ call.op \in Dividing
  BY <1>2, <1>3, PowPromise
<1>5. /\ call.op = "quoRemPow10Fit" => Callers!Promise(call) = Quotient(n, p) /\ \A m : Rest(m) = m
      /\ call.op = "divU256Pow10" => Callers!Promise(call) = [Quotient(n, p) EXCEPT !.rest = 0]
  BY <1>2, PowPromise
<1>6. p \in U64 /\ NormalLimb(p, e.s, e.dn, e.v)
  BY <1>4, NormalOfPow10, Pow10EntryExact
<1>7. f <=> h >= p
  <2> HIDE DEF p
  <2> QED BY <1>4, <1>6, DividendParts
<1>8. stage # "done" /\ (call.op = "quoRemPow10Fit" \/ call.op = "divU256Pow10")
  BY <1>1, <1>2
<1>9. ASSUME f PROVE Kept
  <2> HIDE DEF p, n
  <2>1. Quotient(n, p) = Refuse("Overflow")
    BY <1>7, <1>9, Quotients
  <2>2. Callers!Promise(call) = Refuse("Overflow")
    BY <1>5, <1>8, <2>1, RestDropped
  <2>3. Return(Callers!Promise(call))
    BY <1>1, <1>9, <2>2
  <2> QED BY <1>8, <2>3, ReturnKeeps
<1>10. ASSUME ~f PROVE Kept
  <2>1. Running(p, y, r, 0, l, n)
    <3>1. u.d3 = 0 /\ u.d2 < p
      <4>1. u.d2 \in Int /\ p \in Int /\ u.d3 = 0 /\ ~(u.d2 >= p)
        BY <1>4, <1>6, <1>10, DividendParts, WordRange
      <4> HIDE DEF p
      <4> QED BY <4>1
    <3> HIDE DEF e, p
    <3> QED BY <1>4, <1>6, <3>1, BeginThree
  <2> HIDE DEF p, n, h, f
  <2>2. Quotient(n, p) = Answer(n \div p, n % p)
    BY <1>7, <1>10, Quotients DEF h
  <2>3. Callers!Promise(call) = Answer(n \div p, Rest(n % p))
    <3>1. CASE call.op = "quoRemPow10Fit"
      BY <1>5, <2>2, <3>1
    <3>2. CASE call.op = "divU256Pow10"
      BY <1>5, <2>2, <3>2, RestDropped DEF Rest
    <3> QED BY <1>8, <3>1, <3>2
  <2>4. Begin(y, r, l)
    BY <1>1, <1>10
  <2> HIDE DEF y, r, l
  <2>5. Running(Divisor, y, r, 0, l, Val256(u))
    BY <1>4, <2>1 DEF n
  <2>6. Callers!Promise(call) = Answer(Val256(u) \div Divisor, Rest(Val256(u) % Divisor))
    BY <1>4, <2>3 DEF n
  <2> QED BY <1>4, <1>8, <2>4, <2>5, <2>6, BeginKeeps
<1> QED
  BY <1>9, <1>10

LEMMA EmitKeeps ==
  ASSUME IInv, stage = "digits", NEW d, Emit(d),
         Running(Divisor, by, rem', quo * Base + d.quo, Tail(limbs), Val256(u))
  PROVE  Kept
<1> USE DEF Emit
<1>1. Typed'
  BY DEF IInv, Typed
<1>2. Owed'
  BY DEF IInv, Owed
<1>3. Routed'
  BY DEF IInv, Routed
<1>4. Divisor' = Divisor /\ FirstPass' = FirstPass
  BY DEF Divisor, FirstPass
<1>5. Balanced'
  BY <1>4 DEF IInv, Balanced, Rest
<1> QED
  BY <1>1, <1>2, <1>3, <1>5 DEF Kept, IInv, Callers!vars

LEMMA DigitKeeps ==
  ASSUME IInv, Digit
  PROVE  Kept
<1> DEFINE n == Val256(u)
           a == Div3by2(rem.hi, rem.lo, Head(limbs), by.den)
           b == Div2by1(rem.lo, Head(limbs), by.den.lo, by.recip)
<1>1. /\ stage = "digits" /\ limbs # <<>>
      /\ by.den.hi # 0 => IF a.trap THEN Return(Refuse("trap")) ELSE Emit(a) /\ rem' = a.rem
      /\ by.den.hi = 0 => Emit(b) /\ rem' = U(0, b.rem)
  BY DEF Digit
<1>2. Running(Divisor, by, rem, quo, limbs, n)
  BY <1>1 DEF IInv, Balanced
<1>3. /\ by.den.hi # 0 => a.trap = FALSE /\ Running(Divisor, by, a.rem, quo * Base + a.quo, Tail(limbs), n)
      /\ by.den.hi = 0 => Running(Divisor, by, U(0, b.rem), quo * Base + b.quo, Tail(limbs), n)
  <2> HIDE DEF n
  <2> QED BY <1>1, <1>2, RunDigit
<1> HIDE DEF a, b
<1>4. CASE by.den.hi # 0
  BY <1>1, <1>3, <1>4, EmitKeeps
<1>5. CASE by.den.hi = 0
  BY <1>1, <1>3, <1>5, EmitKeeps
<1> QED
  BY <1>4, <1>5

(* The second pass owes the quotient of the first by the rest of the power. *)
LEMMA SecondPassKeeps ==
  ASSUME IInv, SecondPass
  PROVE  Kept
<1> DEFINE n == Val256(u)
           a == Pow10[MaxPrec]
           b == Pow10[k - MaxPrec]
<1>1. /\ stage = "digits" /\ limbs = <<>> /\ call.op = "divU256Pow10" /\ k > MaxPrec
      /\ stage' = "divU256Pow10" /\ u' = Quad(quo) /\ k' = k - MaxPrec
      /\ UNCHANGED <<call, by, limbs, rem, quo, ans>>
  BY DEF SecondPass
<1>2. call.op \in Pow10Ops
  BY <1>1 DEF Pow10Ops
<1>3. /\ k \in 0..2*MaxPrec /\ u \in Limbs256 /\ Divisor = a
      /\ Callers!Promise(call) = [Quotient(n, Pow10[k]) EXCEPT !.rest = 0]
  BY <1>1, <1>2, PowPromise
<1>4. k - MaxPrec \in 0..2*MaxPrec /\ a \in Nat \ {0} /\ b \in Nat \ {0} /\ Pow10[k] = a * b
  <2>1. MaxPrec \in 0..2*MaxPrec /\ MaxPrec <= k
    BY <1>1, <1>3, PowFacts
  <2> QED BY <1>3, <2>1, PowRatio
<1>5. n \in Nat /\ n < Wide
  BY <1>3, DividendParts
<1>6. Running(a, by, rem, quo, <<>>, n)
  BY <1>1, <1>3 DEF IInv, Balanced
<1> HIDE DEF n, a, b
<1>7. n \div a = quo
  BY <1>5, <1>6, RunEnd
<1>8. quo \in Nat /\ quo < Wide
  <2>1. n \div a \in Nat /\ n \div a <= n
    BY <1>4, <1>5, DivBelow
  <2> QED BY <1>5, <1>7, <2>1, CapFacts
<1>9. Quad(quo) \in Limbs256 /\ Val256(Quad(quo)) = quo
  BY <1>8, QuadExact
<1>10. Callers!Promise(call) = [Quotient(quo, b) EXCEPT !.rest = 0]
  BY <1>3, <1>4, <1>5, <1>7, TwoPasses
<1>11. Typed'
  BY <1>1, <1>4, <1>9 DEF IInv, Typed
<1>12. Owed'
  <2>1. Val256(u') = quo /\ Pow10[k'] = b /\ call' = call
    BY <1>1, <1>9 DEF b
  <2>2. Callers!Promise(call) = [Quotient(Val256(u'), Pow10[k']) EXCEPT !.rest = 0]
    BY <1>10, <2>1
  <2> QED BY <1>1, <2>1, <2>2 DEF Owed
<1>13. Routed'
  BY <1>1 DEF Routed
<1>14. Balanced'
  BY <1>1 DEF Balanced
<1> QED
  BY <1>1, <1>11, <1>12, <1>13, <1>14 DEF Kept, IInv, Callers!vars

LEMMA FinishKeeps ==
  ASSUME IInv, Finish
  PROVE  Kept
<1> DEFINE n == Val256(u)
<1>1. /\ stage = "digits" /\ limbs = <<>> /\ ~FirstPass
      /\ Return(Answer(quo, IF call.op = "divU256Pow10" THEN 0 ELSE Val128(Rsh(rem, by.shift))))
  BY DEF Finish, FirstPass
<1>2. /\ Running(Divisor, by, rem, quo, <<>>, n)
      /\ Callers!Promise(call) = Answer(n \div Divisor, Rest(n % Divisor))
  BY <1>1 DEF IInv, Balanced
<1>3. n \in Nat
  BY DividendParts DEF IInv, Typed
<1> HIDE DEF n
<1>4. n \div Divisor = quo /\ Val128(Rsh(rem, by.shift)) = n % Divisor
  BY <1>2, <1>3, RunEnd
<1>5. Return(Callers!Promise(call))
  BY <1>1, <1>2, <1>4 DEF Rest
<1> QED
  BY <1>1, <1>5, ReturnKeeps

LEMMA StutterKeeps ==
  ASSUME IInv, UNCHANGED vars
  PROVE  Kept
<1> USE DEF vars
<1>1. Typed'
  BY DEF IInv, Typed
<1>2. Owed'
  BY DEF IInv, Owed
<1>3. Routed'
  BY DEF IInv, Routed
<1>4. Divisor' = Divisor /\ FirstPass' = FirstPass
  BY DEF Divisor, FirstPass
<1>5. Balanced'
  BY <1>4 DEF IInv, Balanced, Rest
<1> QED
  BY <1>1, <1>2, <1>3, <1>5 DEF Kept, IInv, Callers!vars

LEMMA StepKeeps ==
  ASSUME IInv, [Next]_vars
  PROVE  Kept
<1>1. CASE Straight
  BY <1>1, StraightKeeps
<1>2. CASE QuoRem64
  BY <1>2, QuoRem64Keeps
<1>3. CASE NarrowOnly
  BY <1>3, NarrowOnlyKeeps
<1>4. CASE NarrowQuotient
  BY <1>4, NarrowQuotientKeeps
<1>5. CASE WideByLimb
  BY <1>5, WideByLimbKeeps
<1>6. CASE WideByPair
  BY <1>6, WideByPairKeeps
<1>7. CASE Div256by64Refuse
  BY <1>7, Div256by64RefuseKeeps
<1>8. CASE Div256by64
  BY <1>8, Div256by64Keeps
<1>9. CASE Div256by128
  BY <1>9, Div256by128Keeps
<1>10. CASE DivideByOne
  BY <1>10, DivideByOneKeeps
<1>11. CASE OneLimbPow10
  BY <1>11, OneLimbPow10Keeps
<1>12. CASE ToSlow
  BY <1>12, ToSlowKeeps
<1>13. CASE Divmod128Pow10Slow
  BY <1>13, Divmod128Pow10SlowKeeps
<1>14. CASE DivmodU256Pow10Wide
  BY <1>14, DivmodU256Pow10WideKeeps
<1>15. CASE FitsPow10
  BY <1>15, FitsPow10Keeps
<1>16. CASE Digit
  BY <1>16, DigitKeeps
<1>17. CASE SecondPass
  BY <1>17, SecondPassKeeps
<1>18. CASE Finish
  BY <1>18, FinishKeeps
<1>19. CASE Returned
  BY <1>19, StutterKeeps DEF Returned
<1>20. CASE UNCHANGED vars
  BY <1>20, StutterKeeps
<1> QED
  BY <1>1, <1>2, <1>3, <1>4, <1>5, <1>6, <1>7, <1>8, <1>9, <1>10, <1>11, <1>12, <1>13,
     <1>14, <1>15, <1>16, <1>17, <1>18, <1>19, <1>20 DEF Next

LEMMA InitKeeps ==
  ASSUME Init
  PROVE  IInv /\ Callers!Init
<1> USE DEF Init
<1>1. call \in Calls /\ call.op \in Ops /\ call.u \in Limbs256 /\ Callers!Precondition(call)
  BY CallsAssumption
<1>2. call.op # "digits" /\ call.op # "done"
  BY <1>1 DEF Ops, StraightOps, Pow10Ops
<1>3. call.op \in Pow10Ops => call.k \in 0..2*MaxPrec
  <2>1. 1..MaxPrec \subseteq 0..2*MaxPrec /\ 0..MaxPrec \subseteq 0..2*MaxPrec
    <3>1. MaxPrec \in Nat
      BY PowFacts
    <3> QED BY <3>1
  <2> QED BY <1>1, <2>1, CallFacts DEF Pow10Ops
<1>4. Typed
  BY <1>1, <1>3 DEF Typed
<1>5. Owed
  BY Promised DEF Owed
<1>6. Routed
  BY DEF Routed
<1>7. Balanced
  BY <1>2 DEF Balanced
<1>8. Callers!Init
  BY <1>1 DEF Callers!Init, Pending, Refuse, Callers!Pending, Callers!Refuse
<1> QED
  BY <1>4, <1>5, <1>6, <1>7, <1>8 DEF IInv

(* The invariant: whichever kernel is at work, on whichever pass, what it   *)
(* still has to do is what the caller is owed.                             *)
THEOREM KernelsStayInLine == Spec => []IInv
<1>1. Init => IInv
  BY InitKeeps
<1>2. IInv /\ [Next]_vars => IInv'
  BY StepKeeps DEF Kept
<1> QED
  BY <1>1, <1>2, PTL DEF Spec

(* Every trial digit of div3by2 and every reciprocal digit of div2by1 is    *)
(* corrected exactly, whatever the word size.                              *)
THEOREM DigitsAlwaysExact == Spec => []DigitsExact
<1>1. IInv => DigitsExact
  <2> SUFFICES ASSUME IInv, stage = "digits"
               PROVE  LET den == Val128(by.den)
                          scale == 2 ^ by.shift
                          ahead == Len(limbs)
                      IN  /\ Val128(rem) < den
                          /\ IF ahead > 0
                             THEN quo * den + Val128(rem)
                                    = Val256(u) \div 2 ^ (WordBits * ahead - by.shift)
                             ELSE /\ Val128(rem) % scale = 0
                                  /\ quo * (den \div scale) + Val128(rem) \div scale = Val256(u)
    BY DEF DigitsExact
  <2> DEFINE n == Val256(u)
             R == Val128(rem)
             D == Val128(by.den)
             t == Two(by.shift)
  <2>1. Running(Divisor, by, rem, quo, limbs, n)
    BY DEF IInv, Balanced
  <2>2. n \in Nat
    BY DividendParts DEF IInv, Typed
  <2>3. R < D /\ limbs \in Rows
    BY <2>1 DEF Running
  <2>4. ASSUME limbs # <<>>
        PROVE  Len(limbs) > 0 /\ quo * D + R = n \div Two(WordBits * Len(limbs) - by.shift)
    <3> HIDE DEF n
    <3>1. /\ Len(limbs) \in 1..4
          /\ quo * D + R = n \div Two(WordBits * Len(limbs) - by.shift)
      BY <2>1, <2>2, <2>4, RunMiddle
    <3>2. Len(limbs) > 0
      BY <3>1
    <3> HIDE DEF D, R
    <3> QED BY <3>1, <3>2
  <2>5. ASSUME limbs = <<>>
        PROVE  ~(Len(limbs) > 0) /\ R % t = 0 /\ quo * (D \div t) + (R \div t) = n
    <3>1. Running(Divisor, by, rem, quo, <<>>, n)
      BY <2>1, <2>5
    <3> HIDE DEF n
    <3>2. /\ Divisor \in Nat \ {0} /\ n \div Divisor = quo /\ R % t = 0 /\ D \div t = Divisor
          /\ R \div t = n % Divisor
      BY <2>2, <3>1, RunEnd
    <3> DEFINE d == Divisor
               q == n \div d
               m == n % d
    <3>3. n = d * q + m /\ q \in Int /\ m \in 0..(d - 1) /\ d \in Nat \ {0}
      <4>1. n \in Int /\ d \in Nat \ {0}
        BY <2>2, <3>2
      <4> HIDE DEF d
      <4> QED BY <4>1, DivMod
    <3>4. quo = q /\ D \div t = d /\ R \div t = m
      BY <3>2
    <3> HIDE DEF d, q, m, D, R, t
    <3>5. d * q = q * d
      BY <3>3
    <3>6. Len(limbs) = 0
      BY <2>5, RowValues
    <3> QED BY <3>2, <3>3, <3>4, <3>5, <3>6
  <2>6. Two(by.shift) = 2 ^ by.shift
        /\ Two(WordBits * Len(limbs) - by.shift) = 2 ^ (WordBits * Len(limbs) - by.shift)
    BY DEF Two
  <2> HIDE DEF n, R, D
  <2>7. CASE limbs # <<>>
    BY <2>3, <2>4, <2>6, <2>7 DEF n, R, D
  <2>8. CASE limbs = <<>>
    BY <2>3, <2>5, <2>6, <2>8 DEF n, R, D
  <2> QED BY <2>7, <2>8
<1> QED
  BY <1>1, KernelsStayInLine, PTL

(* Every kernel answers its call once, with the integer result the rest of  *)
(* the code computes with, and no hardware division traps: the detailed     *)
(* specification implements the abstract one.                              *)
THEOREM KernelsKeepTheirPromise == Spec => KernelsImplementIntegers
<1>1. Init => Callers!Init
  BY InitKeeps
<1>2. IInv /\ [Next]_vars => [Callers!Return]_(Callers!vars)
  BY StepKeeps DEF Kept
<1> QED
  BY <1>1, <1>2, KernelsStayInLine, PTL DEF Spec, KernelsImplementIntegers, Callers!Spec
=============================================================================
