----------------------------- MODULE ArithProofs -----------------------------
(***************************************************************************)
(* What the operators of Arith, Rounding, Exact, MulDiv and Decimal        *)
(* compute, for every word size and every operand.  Add, Sub, QuoRem and   *)
(* Cmp are exact, whichever path they take, and the rounding decision      *)
(* taken from a quotient, an inexactness flag and a half comparison is the *)
(* correct rounding of the exact fraction, in each of the six modes.       *)
(* MulExact and DivExact find the exact result when a Decimal can hold it  *)
(* and name the reason when none can: the trailing zeros that come off one *)
(* at a time and the binary search for the greatest precision reach the    *)
(* same verdict as the definition, which looks at every precision.  New    *)
(* does the same for an integer and an exponent, and Div, which truncates, *)
(* finds the greatest precision that fits from an estimate of bit lengths. *)
(*                                                                         *)
(* The facts about numbers, powers, loops and trailing zeros come first;   *)
(* the proofs of every other module cite them.                             *)
(***************************************************************************)
EXTENDS Reference, MulDiv, Text, FiniteSetTheorems, WellFoundedInduction, TLAPS

(* Every nonempty set of naturals has a least element.                     *)
LEMMA LeastNatural ==
  ASSUME NEW T \in SUBSET Nat, T # {}
  PROVE  \E x \in T : \A y \in T : x <= y
<1> DEFINE below == {0..x : x \in T}
           strict == StrictSubsetOrdering(Nat)
<1>1. IsWellFoundedOn(strict, FiniteSubsetsOf(Nat))
  BY FS_StrictSubsetOrderingWellFounded
<1>2. below # {}
  OBVIOUS
<1>3. below \subseteq FiniteSubsetsOf(Nat)
  <2>1. \A x \in T : IsFiniteSet(0..x) /\ 0..x \in SUBSET Nat
    BY FS_Interval
  <2> QED
    BY <2>1 DEF FiniteSubsetsOf
<1>4. PICK m \in below : \A u \in below : ~ (<<u, m>> \in strict)
  <2> HIDE DEF below, strict
  <2> QED
    BY <1>1, <1>2, <1>3, WFMin
<1>5. PICK x \in T : m = 0..x
  BY <1>4
<1>6. ASSUME NEW y \in T, y < x PROVE FALSE
  <2>1. <<0..y, 0..x>> \notin strict
    BY <1>4, <1>5
  <2>2. 0..y \subseteq 0..x /\ x \in 0..x /\ x \notin 0..y
    BY <1>6
  <2>3. 0..x \in SUBSET Nat /\ 0..y \in SUBSET Nat
    OBVIOUS
  <2> QED
    BY <2>1, <2>2, <2>3 DEF StrictSubsetOrdering
<1> QED
  BY <1>6

(* Every nonempty set of naturals with a bound has a greatest element.     *)
LEMMA GreatestNatural ==
  ASSUME NEW T \in SUBSET Nat, T # {}, NEW b \in Nat, \A x \in T : x <= b
  PROVE  \E x \in T : \A y \in T : y <= x
<1> DEFINE gaps == {b - x : x \in T}
<1>1. gaps \in SUBSET Nat /\ gaps # {}
  <2>1. \A x \in T : b - x \in Nat
    OBVIOUS
  <2>2. PICK x \in T : TRUE
    OBVIOUS
  <2>3. b - x \in gaps
    BY <2>2
  <2> QED
    BY <2>1, <2>3
<1>2. PICK g \in gaps : \A h \in gaps : g <= h
  BY <1>1, LeastNatural
<1>3. PICK x \in T : g = b - x
  BY <1>2
<1>4. \A y \in T : b - x <= b - y
  BY <1>2, <1>3
<1> QED
  BY <1>3, <1>4

(* Quotient and remainder, for any divisor.                                *)
LEMMA DivMod ==
  ASSUME NEW a \in Int, NEW b \in Nat \ {0}
  PROVE  /\ a \div b \in Int /\ a % b \in 0..(b - 1)
         /\ a = b * (a \div b) + (a % b)
  OBVIOUS

(* What determines a quotient and a remainder.                             *)
LEMMA DivModUnique ==
  ASSUME NEW a \in Int, NEW b \in Nat \ {0}, NEW q \in Int, NEW r \in 0..(b - 1),
         a = b * q + r
  PROVE  a % b = r /\ a \div b = q
<1>1. a % b \in 0..(b - 1) /\ a \div b \in Int /\ a = b * (a \div b) + (a % b)
  BY DivMod
<1>2. b * (a \div b - q) = r - (a % b)
  BY <1>1
<1>3. r - (a % b) < b /\ r - (a % b) > -b
  BY <1>1
<1>4. \A x \in Int : b * x < b /\ b * x > -b => x = 0
  <2> TAKE x \in Int
  <2>1. x >= 1 => b * x >= b
    OBVIOUS
  <2>2. x <= -1 => b * x <= -b
    OBVIOUS
  <2> QED BY <2>1, <2>2
<1>5. a \div b - q = 0
  BY <1>1, <1>2, <1>3, <1>4
<1> QED
  BY <1>1, <1>2, <1>5

(* A natural quotient, and how it compares with a bound.                   *)
LEMMA DivBelow ==
  ASSUME NEW a \in Nat, NEW b \in Nat \ {0}
  PROVE  /\ a \div b \in Nat /\ a % b \in Nat /\ a % b < b /\ a \div b <= a
         /\ \A c \in Nat : (a \div b < c) <=> (a < b * c)
         /\ \A c \in Nat : (a \div b >= c) <=> (a >= b * c)
<1> DEFINE q == a \div b
           r == a % b
<1>1. q \in Int /\ r \in 0..(b - 1) /\ a = b * q + r /\ b \in Nat /\ b >= 1
  BY DivMod
<1> HIDE DEF q, r
<1>2. q >= 0
  <2>1. q <= -1 => b * q <= -b
    BY <1>1
  <2> QED BY <1>1, <2>1
<1>3. q <= a
  <2>1. q <= b * q
    BY <1>1, <1>2
  <2> QED BY <1>1, <1>2, <2>1
<1>4. ASSUME NEW c \in Nat PROVE (q < c) <=> (a < b * c)
  <2>1. q < c => b * (q + 1) <= b * c
    BY <1>1, <1>2
  <2>2. q >= c => b * q >= b * c
    BY <1>1, <1>2
  <2>3. b * (q + 1) = b * q + b /\ b * q \in Int /\ b * c \in Int
    BY <1>1, <1>2
  <2> QED BY <1>1, <1>2, <2>1, <2>2, <2>3
<1>5. ASSUME NEW c \in Nat PROVE (q >= c) <=> (a >= b * c)
  <2>1. b * c \in Int
    BY <1>1
  <2> QED BY <1>1, <1>4, <2>1
<1>6. /\ q \in Nat /\ r \in Nat /\ r < b
      /\ \A c \in Nat : (q < c) <=> (a < b * c)
      /\ \A c \in Nat : (q >= c) <=> (a >= b * c)
  BY <1>1, <1>2, <1>4, <1>5
<1> QED
  BY <1>3, <1>6 DEF q, r

(* Two divisions in a row are one by the product.                          *)
LEMMA DivDiv ==
  ASSUME NEW a \in Nat, NEW b \in Nat \ {0}, NEW c \in Nat \ {0}
  PROVE  /\ (a \div b) \div c = a \div (b * c)
         /\ a % (b * c) = ((a \div b) % c) * b + (a % b)
<1> DEFINE p == a \div b
           r == a % b
           q == p \div c
           s == p % c
<1>1. p \in Nat /\ r \in Nat /\ r < b /\ a = b * p + r
  BY DivMod, DivBelow
<1>2. q \in Nat /\ s \in Nat /\ s < c /\ p = c * q + s
  <2> HIDE DEF p
  <2>1. q \in Nat /\ s \in Nat /\ s < c
    BY <1>1, DivBelow
  <2>2. p \in Int /\ c \in Nat \ {0}
    BY <1>1
  <2>3. p = c * q + s
    BY <2>2, DivMod
  <2> QED BY <2>1, <2>3
<1> HIDE DEF p, r, q, s
<1>3. b * c \in Nat \ {0}
  OBVIOUS
<1>4. a = (b * c) * q + (s * b + r)
  <2>1. b * (c * q + s) = (b * c) * q + s * b
    BY <1>2
  <2> QED BY <1>1, <1>2, <2>1
<1>5. s * b + r \in 0..(b * c - 1)
  <2>1. (s + 1) * b <= c * b
    BY <1>2
  <2>2. (s + 1) * b = s * b + b /\ s * b \in Nat /\ c * b = b * c
    BY <1>2
  <2> QED BY <1>1, <1>2, <1>3, <2>1, <2>2
<1>6. a % (b * c) = s * b + r /\ a \div (b * c) = q
  <2> DEFINE bc == b * c
             rest == s * b + r
  <2>1. bc \in Nat \ {0} /\ rest \in 0..(bc - 1) /\ a = bc * q + rest
    BY <1>3, <1>4, <1>5
  <2> HIDE DEF bc, rest
  <2>2. a % bc = rest /\ a \div bc = q
    BY <1>2, <2>1, DivModUnique
  <2> QED BY <2>2 DEF bc, rest
<1> QED
  BY <1>6 DEF p, r, q, s

(* A common factor of dividend and divisor.                                *)
LEMMA DivScale ==
  ASSUME NEW a \in Nat, NEW b \in Nat \ {0}, NEW s \in Nat \ {0}
  PROVE  (a * s) \div (b * s) = a \div b /\ (a * s) % (b * s) = (a % b) * s
<1> DEFINE q == a \div b
           r == a % b
<1>1. q \in Nat /\ r \in Nat /\ r < b /\ a = b * q + r
  BY DivMod, DivBelow
<1> HIDE DEF q, r
<1>2. a * s \in Nat /\ b * s \in Nat \ {0} /\ r * s \in Nat
  BY <1>1
<1>3. a * s = (b * s) * q + r * s
  BY <1>1
<1>4. r * s < b * s
  BY <1>1
<1>5. (a * s) % (b * s) = r * s /\ (a * s) \div (b * s) = q
  <2> DEFINE as == a * s
             bs == b * s
             rs == r * s
  <2>1. as \in Nat /\ bs \in Nat \ {0} /\ rs \in 0..(bs - 1) /\ as = bs * q + rs
    BY <1>2, <1>3, <1>4
  <2> HIDE DEF as, bs, rs
  <2>2. as % bs = rs /\ as \div bs = q
    BY <1>1, <2>1, DivModUnique
  <2> QED BY <2>2 DEF as, bs, rs
<1> QED
  BY <1>5 DEF q, r

(* A multiple divides back.                                                *)
LEMMA DivExactly ==
  ASSUME NEW a \in Int, NEW b \in Nat \ {0}
  PROVE  (a * b) \div b = a /\ (a * b) % b = 0
<1>1. a * b \in Int /\ a * b = b * a + 0 /\ 0 \in 0..(b - 1)
  OBVIOUS
<1> QED
  BY <1>1, DivModUnique

(* The bounds of the fixed widths, and the powers of ten as numbers.       *)
LEMMA CapFacts == /\ Cap \in Nat /\ Cap >= 16
                  /\ Wide \in Nat /\ Cap < Wide /\ Wide = Cap * Cap
<1>1. Base \in Nat /\ Base >= 4
  BY WordAssumption
<1>2. Cap \in Nat /\ Cap >= 16
  BY <1>1 DEF Cap
<1>3. \A n \in Nat : n >= 16 => n * n \in Nat /\ n < n * n
  OBVIOUS
<1> QED
  BY <1>2, <1>3 DEF Wide

(* The powers of ten are positive, and the tables' ends bound the words.   *)
LEMMA PowFacts ==
  /\ \A k \in 0..2*MaxPrec : Pow10[k] \in Nat /\ Pow10[k] >= 1
  /\ \A a, b \in 0..2*MaxPrec :
       a + b <= 2*MaxPrec => Pow10[a + b] = Pow10[a] * Pow10[b]
  /\ MaxPrec \in Nat /\ MaxPrec >= 1 /\ Pow10[0] = 1
<1>1. \A k \in 0..2*MaxPrec : Pow10[k] \in Nat \ {0}
  BY TableAssumption
<1>2. \A k \in 0..2*MaxPrec : Pow10[k] \in Nat /\ Pow10[k] >= 1
  BY <1>1
<1> QED
  BY <1>2, TableAssumption

(* A power splits at any smaller exponent.                                 *)
LEMMA PowSplit ==
  ASSUME NEW p \in 0..MaxPrec, NEW q \in 0..MaxPrec, p <= q
  PROVE  /\ q - p \in 0..MaxPrec
         /\ Pow10[p] \in Nat /\ Pow10[q] \in Nat /\ Pow10[q - p] \in Nat
         /\ Pow10[p] >= 1 /\ Pow10[q - p] >= 1
         /\ Pow10[q] = Pow10[p] * Pow10[q - p]
         /\ Pow10[p] <= Pow10[q] /\ Pow10[q - p] <= Pow10[q]
<1>1. q - p \in 0..MaxPrec /\ q = p + (q - p) /\ p + (q - p) <= 2*MaxPrec
  BY PowFacts
<1>2. q - p \in 0..2*MaxPrec /\ p \in 0..2*MaxPrec /\ q \in 0..2*MaxPrec
  BY PowFacts
<1>3. Pow10[q] = Pow10[p] * Pow10[q - p]
  BY <1>1, <1>2, PowFacts
<1>4. \A a, b \in Nat : a >= 1 /\ b >= 1 => a <= a * b /\ b <= a * b
  OBVIOUS
<1> QED
  BY <1>1, <1>2, <1>3, <1>4, PowFacts

(* The same over the whole table, with the order of its entries.           *)
LEMMA PowRatio ==
  ASSUME NEW a \in 0..2*MaxPrec, NEW b \in 0..2*MaxPrec, a <= b
  PROVE  /\ b - a \in 0..2*MaxPrec
         /\ Pow10[a] \in Nat \ {0} /\ Pow10[b] \in Nat \ {0} /\ Pow10[b - a] \in Nat \ {0}
         /\ Pow10[b] = Pow10[a] * Pow10[b - a]
         /\ Pow10[a] <= Pow10[b]
<1>1. MaxPrec \in Nat /\ b - a \in 0..2*MaxPrec /\ b = a + (b - a)
  BY PowFacts
<1>2. Pow10[b] = Pow10[a] * Pow10[b - a]
  BY <1>1, PowFacts
<1>3. Pow10[a] \in Nat \ {0} /\ Pow10[b] \in Nat \ {0} /\ Pow10[b - a] \in Nat \ {0}
  BY <1>1, TableAssumption
<1>4. \A x, y \in Nat \ {0} : x <= x * y
  OBVIOUS
<1> QED
  BY <1>1, <1>2, <1>3, <1>4

(* Each entry is ten times the one before.                                 *)
LEMMA PowStep ==
  ASSUME NEW k \in 0..(2*MaxPrec - 1)
  PROVE  /\ k \in 0..2*MaxPrec /\ k + 1 \in 0..2*MaxPrec
         /\ Pow10[k] \in Nat \ {0} /\ Pow10[k + 1] = Pow10[k] * 10
<1>1. MaxPrec \in Nat /\ MaxPrec >= 1 /\ k \in 0..2*MaxPrec /\ 1 \in 0..2*MaxPrec
  BY PowFacts
<1>2. k + 1 \in 0..2*MaxPrec /\ k + 1 <= 2*MaxPrec
  BY <1>1
<1> QED
  BY <1>1, <1>2, TableAssumption

(* Powers up to MaxPrec are words, all powers of the tables are u128s.     *)
LEMMA PowBounds ==
  /\ \A k \in 0..MaxPrec : k \in 0..2*MaxPrec /\ Pow10[k] < Base /\ Pow10[k] < Cap
  /\ \A k \in 0..2*MaxPrec : Pow10[k] < Cap
<1>1. MaxPrec \in Nat /\ MaxPrec \in 0..2*MaxPrec /\ 2*MaxPrec \in 0..2*MaxPrec
  BY PowFacts
<1>2. Base \in Nat /\ Cap \in Nat /\ Base < Cap
  <2>1. \A n \in Nat : n >= 4 => n < n * n /\ n * n \in Nat
    OBVIOUS
  <2> QED BY <2>1, WordAssumption DEF Cap
<1>3. ASSUME NEW k \in 0..MaxPrec
      PROVE  k \in 0..2*MaxPrec /\ Pow10[k] < Base
  <2>1. k \in 0..2*MaxPrec /\ Pow10[k] <= Pow10[MaxPrec] /\ Pow10[k] \in Nat
    BY <1>1, PowRatio
  <2> QED BY <1>1, <1>2, <2>1, TableAssumption
<1>4. ASSUME NEW k \in 0..2*MaxPrec
      PROVE  Pow10[k] < Cap
  <2>1. Pow10[k] <= Pow10[2*MaxPrec] /\ Pow10[k] \in Nat /\ Pow10[2*MaxPrec] \in Nat
    BY <1>1, PowRatio
  <2> QED BY <1>1, <1>2, <2>1, TableAssumption
<1> QED
  BY <1>3, <1>4

----------------------------------------------------------------------------
(* Loops, written as recursive functions of the loop state.                *)

(* One pass of a loop over the states X: stop with an answer, or go on.    *)
LoopBody(X, Stop, res, nxt, f) ==
  [x \in X |-> IF x \in Stop THEN res[x] ELSE f[nxt[x]]]

(* A measure that every further pass decreases.                            *)
Decreases(X, Stop, nxt, m) ==
  /\ m \in [X -> Nat]
  /\ \A x \in X : x \notin Stop => nxt[x] \in X /\ m[nxt[x]] < m[x]

(* Induction along the loop: what the last pass answers and what every     *)
(* pass hands back unchanged holds of the loop's answer.                   *)
LEMMA LoopRule ==
  ASSUME NEW X, NEW Stop, NEW res, NEW nxt, NEW m, Decreases(X, Stop, nxt, m),
         NEW f, f = LoopBody(X, Stop, res, nxt, f), NEW good,
         \A x \in X : x \in Stop => res[x] \in good[x],
         \A x \in X : x \notin Stop => good[nxt[x]] \subseteq good[x]
  PROVE  \A x \in X : f[x] \in good[x]
<1> SUFFICES ASSUME NEW b \in X, f[b] \notin good[b]
             PROVE  FALSE
  OBVIOUS
<1> DEFINE Bad == {x \in X : f[x] \notin good[x]}
           T == {m[x] : x \in Bad}
<1>1. T \in SUBSET Nat /\ T # {}
  <2>1. \A x \in X : m[x] \in Nat
    BY DEF Decreases
  <2> QED
    BY <2>1
<1>2. PICK n \in T : \A k \in T : n <= k
  BY <1>1, LeastNatural
<1>3. PICK x \in Bad : n = m[x]
  BY <1>2
<1>4. x \in X /\ f[x] = IF x \in Stop THEN res[x] ELSE f[nxt[x]]
  BY <1>3 DEF LoopBody
<1>5. x \notin Stop
  BY <1>3, <1>4
<1>6. nxt[x] \in X /\ m[nxt[x]] < m[x] /\ m[x] \in Nat /\ m[nxt[x]] \in Nat
  BY <1>4, <1>5 DEF Decreases
<1>7. nxt[x] \in Bad
  BY <1>3, <1>4, <1>5, <1>6
<1>8. m[nxt[x]] \in T
  BY <1>7
<1> QED
  <2> HIDE DEF T, Bad
  <2> QED
    BY <1>2, <1>3, <1>6, <1>8

(* Every loop with a measure has a function that satisfies its equation,   *)
(* so the recursive function that models it is the one meant.              *)
LEMMA LoopDefined ==
  ASSUME NEW X, NEW Stop, NEW res, NEW nxt, NEW m, Decreases(X, Stop, nxt, m)
  PROVE  \E f : f = LoopBody(X, Stop, res, nxt, f)
<1> DEFINE Upto(n) == {x \in X : m[x] <= n}
           Solves(n, g) == g = LoopBody(Upto(n), Stop, res, nxt, g)
<1>1. \A x \in X : m[x] \in Nat
  BY DEF Decreases
<1>2. \A n \in Nat : \E g : Solves(n, g)
  <2> SUFFICES ASSUME NEW bad \in Nat, ~ \E g : Solves(bad, g)
               PROVE  FALSE
    OBVIOUS
  <2> DEFINE T == {n \in Nat : ~ \E g : Solves(n, g)}
  <2>1. T \in SUBSET Nat /\ T # {}
    <3> HIDE DEF Solves
    <3> QED
      OBVIOUS
  <2>2. PICK n \in T : \A k \in T : n <= k
    <3> HIDE DEF T
    <3> QED
      BY <2>1, LeastNatural
  <2>3. PICK h : n > 0 => Solves(n - 1, h)
    <3>1. CASE n = 0
      BY <3>1
    <3>2. CASE n > 0
      <4>1. n - 1 \in Nat /\ n - 1 \notin T
        <5> HIDE DEF Solves
        <5> QED
          BY <2>1, <2>2, <3>2
      <4> QED
        BY <4>1
    <3> QED
      BY <2>2, <3>1, <3>2
  <2> DEFINE g == [x \in Upto(n) |-> IF x \in Stop THEN res[x] ELSE h[nxt[x]]]
  <2>4. ASSUME NEW x \in Upto(n), x \notin Stop
        PROVE  g[nxt[x]] = h[nxt[x]]
    <3>1. nxt[x] \in X /\ m[nxt[x]] < m[x] /\ m[x] <= n
      BY <2>4 DEF Decreases
    <3>2. n > 0 /\ m[nxt[x]] <= n - 1 /\ m[nxt[x]] <= n
      BY <1>1, <2>2, <3>1
    <3>3. nxt[x] \in Upto(n) /\ nxt[x] \in Upto(n - 1)
      BY <3>1, <3>2
    <3>4. Solves(n - 1, h)
      BY <2>3, <3>2
    <3>5. h[nxt[x]] = IF nxt[x] \in Stop THEN res[nxt[x]] ELSE h[nxt[nxt[x]]]
      <4> HIDE DEF Upto
      <4> QED
        BY <3>3, <3>4 DEF LoopBody
    <3> QED
      <4> HIDE DEF Upto
      <4> QED
        BY <3>3, <3>5
  <2>5. Solves(n, g)
    <3> HIDE DEF Upto
    <3>1. \A x \in Upto(n) : g[x] = IF x \in Stop THEN res[x] ELSE g[nxt[x]]
      BY <2>4
    <3>2. g = [x \in Upto(n) |-> IF x \in Stop THEN res[x] ELSE g[nxt[x]]]
      BY <3>1
    <3> QED
      BY <3>2 DEF LoopBody
  <2> QED
    <3> HIDE DEF Solves
    <3> QED
      BY <2>2, <2>5
<1> DEFINE G(n) == CHOOSE g : Solves(n, g)
           f == [x \in X |-> G(m[x])[x]]
<1>3. \A n \in Nat : Solves(n, G(n))
  <2> HIDE DEF Solves
  <2> QED
    BY <1>2
<1>4. ASSUME NEW n \in Nat, NEW k \in Nat, n <= k, NEW x \in Upto(n)
      PROVE  G(n)[x] = G(k)[x]
  <2> DEFINE a == G(n)
             b == G(k)
             good == [y \in Upto(n) |-> {b[y]}]
  <2>1. a = LoopBody(Upto(n), Stop, res, nxt, a) /\ b = LoopBody(Upto(k), Stop, res, nxt, b)
    BY <1>3
  <2>2. Decreases(Upto(n), Stop, nxt, [y \in Upto(n) |-> m[y]])
    <3>1. ASSUME NEW y \in Upto(n), y \notin Stop
          PROVE  nxt[y] \in Upto(n) /\ m[nxt[y]] < m[y]
      <4>1. nxt[y] \in X /\ m[nxt[y]] < m[y] /\ m[y] <= n
        BY <3>1 DEF Decreases
      <4>2. m[y] \in Nat /\ m[nxt[y]] \in Nat
        BY <1>1, <4>1
      <4> QED
        BY <4>1, <4>2
    <3>2. \A y \in Upto(n) : m[y] \in Nat
      BY <1>1
    <3> HIDE DEF Upto
    <3> QED
      BY <3>1, <3>2 DEF Decreases
  <2>3. \A y \in Upto(n) : y \in Upto(k)
    BY <1>1, <1>4
  <2>4. \A y \in Upto(n) : b[y] = IF y \in Stop THEN res[y] ELSE b[nxt[y]]
    <3> HIDE DEF Upto, a, b
    <3> QED
      BY <2>1, <2>3 DEF LoopBody
  <2>5. \A y \in Upto(n) : y \in Stop => res[y] \in good[y]
    <3> HIDE DEF Upto, a, b
    <3> QED
      BY <2>4
  <2>6. \A y \in Upto(n) : y \notin Stop => good[nxt[y]] \subseteq good[y]
    <3>1. \A y \in Upto(n) : y \notin Stop => nxt[y] \in Upto(n)
      <4> HIDE DEF Upto
      <4> QED
        BY <2>2 DEF Decreases
    <3> HIDE DEF Upto, a, b
    <3> QED
      BY <2>4, <3>1
  <2>7. \A y \in Upto(n) : a[y] \in good[y]
    <3> HIDE DEF Upto, a, b, good
    <3> QED
      BY <2>1, <2>2, <2>5, <2>6, LoopRule
  <2> HIDE DEF Upto, a, b
  <2>8. a[x] = b[x]
    BY <1>4, <2>7
  <2> QED
    BY <2>8 DEF a, b
<1>5. ASSUME NEW x \in X
      PROVE  f[x] = IF x \in Stop THEN res[x] ELSE f[nxt[x]]
  <2>1. m[x] \in Nat /\ x \in Upto(m[x])
    BY <1>1
  <2>2. f[x] = IF x \in Stop THEN res[x] ELSE G(m[x])[nxt[x]]
    <3> DEFINE a == G(m[x])
    <3>1. a = LoopBody(Upto(m[x]), Stop, res, nxt, a)
      BY <1>3, <2>1
    <3>2. a[x] = IF x \in Stop THEN res[x] ELSE a[nxt[x]]
      <4> HIDE DEF Upto, a
      <4> QED
        BY <2>1, <3>1 DEF LoopBody
    <3> QED
      BY <3>2
  <2>3. x \notin Stop => G(m[x])[nxt[x]] = f[nxt[x]]
    <3> SUFFICES ASSUME x \notin Stop
                 PROVE  G(m[x])[nxt[x]] = f[nxt[x]]
      OBVIOUS
    <3>1. nxt[x] \in X /\ m[nxt[x]] < m[x]
      BY DEF Decreases
    <3>2. m[nxt[x]] \in Nat /\ m[nxt[x]] <= m[x] /\ nxt[x] \in Upto(m[nxt[x]])
      BY <1>1, <2>1, <3>1
    <3>3. G(m[nxt[x]])[nxt[x]] = G(m[x])[nxt[x]]
      <4> HIDE DEF Upto, G
      <4> QED
        BY <1>4, <2>1, <3>2
    <3> HIDE DEF G, Upto
    <3> QED
      BY <3>1, <3>3
  <2> HIDE DEF f, G, Upto
  <2> QED
    BY <2>2, <2>3
<1>6. f = LoopBody(X, Stop, res, nxt, f)
  <2>1. f = [x \in X |-> f[x]]
    <3> HIDE DEF G
    <3> QED
      OBVIOUS
  <2> HIDE DEF f
  <2> QED
    BY <1>5, <2>1 DEF LoopBody
<1> QED
  BY <1>6

(* What is kept by every further pass of a loop, and gives its last pass   *)
(* the right answer.                                                       *)
Carries(X, Stop, res, nxt, Inv, Post) ==
  /\ Inv \subseteq X
  /\ \A x \in Inv : x \in Stop => res[x] \in Post
  /\ \A x \in Inv : x \notin Stop => nxt[x] \in Inv
LEMMA LoopAnswers ==
  ASSUME NEW X, NEW Stop, NEW res, NEW nxt, NEW m, Decreases(X, Stop, nxt, m),
         NEW f, f = LoopBody(X, Stop, res, nxt, f),
         NEW Inv, NEW Post, Carries(X, Stop, res, nxt, Inv, Post)
  PROVE  \A x \in Inv : f[x] \in Post
<1> DEFINE good == [x \in X |-> IF x \in Inv THEN Post ELSE Post \cup {res[y] : y \in X}]
<1>1. /\ Inv \subseteq X
      /\ \A x \in Inv : x \in Stop => res[x] \in Post
      /\ \A x \in Inv : x \notin Stop => nxt[x] \in Inv
  BY DEF Carries
<1>2. \A x \in X : x \in Stop => res[x] \in good[x]
  BY <1>1
<1>3. \A x \in X : x \notin Stop => nxt[x] \in X
  BY DEF Decreases
<1>4. \A x \in X : x \notin Stop => good[nxt[x]] \subseteq good[x]
  BY <1>1, <1>3
<1>5. \A x \in X : f[x] \in good[x]
  <2> HIDE DEF good
  <2> QED BY <1>2, <1>4, LoopRule
<1> QED
  BY <1>1, <1>5

(* Powers of two, and the number of binary digits.                         *)
Two(n) == 2^n

(* A set with one more element has twice as many subsets.                  *)
LEMMA TwoDoubles == Two(0) = 1 /\ \A n \in Nat : Two(n) \in Nat /\ Two(n + 1) = Two(n) + Two(n)
<1>1. \A n \in Nat : /\ IsFiniteSet(1..n) /\ Cardinality(1..n) = n
                     /\ IsFiniteSet(SUBSET (1..n)) /\ Cardinality(SUBSET (1..n)) = Two(n)
  <2> TAKE n \in Nat
  <2>1. IsFiniteSet(1..n) /\ Cardinality(1..n) = n
    BY FS_Interval
  <2>2. IsFiniteSet(SUBSET (1..n)) /\ Cardinality(SUBSET (1..n)) = 2^Cardinality(1..n)
    BY <2>1, FS_SUBSET
  <2> QED BY <2>1, <2>2 DEF Two
<1>2. \A n \in Nat : Two(n) \in Nat
  BY <1>1, FS_CardinalityType
<1>3. Two(0) = 1
  <2>1. SUBSET (1..0) = {{}}
    OBVIOUS
  <2>2. Cardinality({{}}) = 1
    BY FS_Singleton
  <2> QED BY <1>1, <2>1, <2>2
<1>4. ASSUME NEW n \in Nat
      PROVE  Two(n + 1) = Two(n) + Two(n)
  <2> DEFINE A == SUBSET (1..n)
             B == {T \cup {n + 1} : T \in A}
             f == [T \in A |-> T \cup {n + 1}]
  <2>1. n + 1 \notin 1..n
    OBVIOUS
  <2>2. SUBSET (1..(n + 1)) = A \cup B
    <3>1. 1..(n + 1) = (1..n) \cup {n + 1}
      OBVIOUS
    <3>2. ASSUME NEW U \in SUBSET (1..(n + 1))
          PROVE  U \in A \cup B
      <4>1. CASE n + 1 \in U
        <5>1. U \ {n + 1} \in A /\ U = (U \ {n + 1}) \cup {n + 1}
          BY <3>1, <4>1
        <5> QED BY <5>1
      <4>2. CASE n + 1 \notin U
        BY <3>1, <4>2
      <4> QED BY <4>1, <4>2
    <3>3. ASSUME NEW U \in A \cup B
          PROVE  U \in SUBSET (1..(n + 1))
      BY <3>1
    <3> QED BY <3>2, <3>3
  <2>3. A \cap B = {}
    <3> SUFFICES ASSUME NEW U, U \in A, U \in B
                 PROVE  FALSE
      OBVIOUS
    <3> QED BY <2>1
  <2>4. f \in Bijection(A, B)
    <3>1. f \in Surjection(A, B)
      BY DEF Surjection
    <3>2. \A S, T \in A : f[S] = f[T] => S = T
      <4> TAKE S, T \in A
      <4> HAVE f[S] = f[T]
      <4>1. S \cup {n + 1} = T \cup {n + 1} /\ n + 1 \notin S /\ n + 1 \notin T
        BY <2>1
      <4> QED BY <4>1
    <3>3. f \in [A -> B] /\ DOMAIN f = A
      OBVIOUS
    <3> HIDE DEF A, B, f
    <3>4. IsInjective(f)
      BY <3>2, <3>3 DEF IsInjective
    <3> QED BY <3>1, <3>3, <3>4 DEF Bijection, Injection
  <2>5. IsFiniteSet(A) /\ Cardinality(A) = Two(n)
    BY <1>1
  <2> HIDE DEF A, B, f
  <2>6. IsFiniteSet(B) /\ Cardinality(B) = Cardinality(A)
    BY <2>4, <2>5, FS_Bijection DEF ExistsBijection
  <2>7. Cardinality(A \cup B) = Cardinality(A) + Cardinality(B) - Cardinality(A \cap B)
    BY <2>5, <2>6, FS_Union
  <2>8. Cardinality(A \cap B) = 0
    BY <2>3, FS_EmptySet
  <2>9. Cardinality(SUBSET (1..(n + 1))) = Two(n + 1)
    <3>1. n + 1 \in Nat
      OBVIOUS
    <3> QED BY <1>1, <3>1
  <2>10. Cardinality(A \cup B) = Two(n + 1)
    BY <2>2, <2>9
  <2>11. Two(n) \in Nat
    BY <1>2
  <2> QED BY <2>5, <2>6, <2>7, <2>8, <2>10, <2>11
<1> QED
  BY <1>2, <1>3, <1>4

(* Exponents add, and powers grow.                                         *)
LEMMA TwoAdds ==
  ASSUME NEW a \in Nat
  PROVE  \A b \in Nat : Two(a + b) = Two(a) * Two(b)
<1> SUFFICES ASSUME NEW bad \in Nat, Two(a + bad) # Two(a) * Two(bad)
             PROVE  FALSE
  OBVIOUS
<1> DEFINE T == {n \in Nat : Two(a + n) # Two(a) * Two(n)}
<1>1. T \in SUBSET Nat /\ T # {}
  OBVIOUS
<1>2. PICK b \in T : \A y \in T : b <= y
  BY <1>1, LeastNatural
<1>3. b # 0
  <2>1. Two(0) = 1 /\ Two(a) \in Nat /\ a + 0 = a
    BY TwoDoubles
  <2> QED BY <1>2, <2>1
<1>4. b - 1 \in Nat /\ Two(a + (b - 1)) = Two(a) * Two(b - 1)
  <2>1. b - 1 \in Nat /\ ~(b <= b - 1)
    BY <1>1, <1>3
  <2> QED BY <1>2, <2>1
<1> DEFINE c == b - 1
           x == Two(a)
           y == Two(c)
           z == Two(a + c)
<1>5. Two(b) = y + y /\ x \in Nat /\ y \in Nat
  <2>1. b = c + 1 /\ c \in Nat
    BY <1>4
  <2> QED BY <2>1, TwoDoubles
<1>6. Two(a + b) = z + z
  <2>1. a + b = (a + c) + 1 /\ a + c \in Nat
    BY <1>4
  <2> HIDE DEF c
  <2> QED BY <2>1, TwoDoubles
<1>7. z = x * y
  BY <1>4
<1> HIDE DEF x, y, z
<1>8. z + z = x * (y + y)
  BY <1>5, <1>7
<1>9. Two(a + b) = Two(a) * Two(b)
  BY <1>5, <1>6, <1>8 DEF x
<1> QED
  BY <1>2, <1>9

(* A number lies between the powers of its length and of the one below.    *)
LEMMA BitLengths ==
  ASSUME NEW n \in Nat, n < Cap
  PROVE  /\ BitLen128(n) \in 0..2*WordBits /\ n < Two(BitLen128(n))
         /\ n # 0 => BitLen128(n) >= 1 /\ n >= Two(BitLen128(n) - 1)
<1> DEFINE T == {k \in Nat : n < Two(k)}
           top == 2*WordBits
           Is(k) == n < Two(k) /\ \A j \in 0..(k - 1) : n >= Two(j)
<1>1. top \in Nat /\ Two(top) = Cap
  <2>1. WordBits \in Nat /\ Base = Two(WordBits) /\ Cap = Base * Base
    BY WordAssumption DEF Two, Cap
  <2>2. Two(WordBits + WordBits) = Two(WordBits) * Two(WordBits)
    BY <2>1, TwoAdds
  <2>3. top = WordBits + WordBits /\ top \in Nat
    BY <2>1
  <2> HIDE DEF top
  <2> QED BY <2>1, <2>2, <2>3
<1> HIDE DEF top
<1>2. top \in T
  BY <1>1
<1>3. PICK k \in T : \A y \in T : k <= y
  <2>1. T \in SUBSET Nat /\ T # {}
    BY <1>2
  <2> HIDE DEF T
  <2> QED BY <2>1, LeastNatural
<1>4. k \in 0..top
  BY <1>1, <1>2, <1>3
<1>5. Is(k)
  <2> SUFFICES ASSUME NEW j \in 0..(k - 1)
               PROVE  n >= Two(j)
    BY <1>3
  <2>1. j \in Nat /\ ~(k <= j)
    BY <1>3
  <2>2. Two(j) \in Nat
    BY <2>1, TwoDoubles
  <2> QED BY <1>3, <2>1, <2>2
<1> DEFINE b == BitLen128(n)
<1>6. b \in 0..top /\ Is(b)
  <2>1. b = CHOOSE i \in 0..top : Is(i)
    BY DEF BitLen128, Two, top
  <2> HIDE DEF b, Is
  <2> QED BY <1>4, <1>5, <2>1
<1>7. ASSUME n # 0
      PROVE  b >= 1 /\ n >= Two(b - 1)
  <2> HIDE DEF b
  <2>1. b \in Nat
    BY <1>1, <1>6
  <2>2. b # 0
    <3>1. b = 0 => n < 1
      BY <1>6, TwoDoubles
    <3> QED BY <1>7, <3>1
  <2>3. b - 1 \in 0..(b - 1)
    BY <2>1, <2>2
  <2> QED BY <1>6, <2>1, <2>2, <2>3
<1> HIDE DEF b
<1>8. b \in 0..2*WordBits
  BY <1>6 DEF top
<1> QED
  BY <1>6, <1>7, <1>8 DEF b

LEMMA TwoGrows ==
  ASSUME NEW a \in Nat, NEW b \in Nat, a <= b
  PROVE  Two(a) \in Nat /\ Two(b) \in Nat /\ Two(a) >= 1 /\ Two(a) <= Two(b)
<1>1. \A n \in Nat : Two(n) \in Nat /\ Two(n) >= 1
  <2> SUFFICES ASSUME NEW bad \in Nat, ~(Two(bad) >= 1)
               PROVE  FALSE
    BY TwoDoubles
  <2> DEFINE T == {n \in Nat : ~(Two(n) >= 1)}
  <2>1. T \in SUBSET Nat /\ T # {}
    OBVIOUS
  <2>2. PICK n \in T : \A y \in T : n <= y
    BY <2>1, LeastNatural
  <2>3. n # 0
    BY <2>2, TwoDoubles
  <2>4. n - 1 \in Nat /\ ~(n <= n - 1)
    BY <2>1, <2>3
  <2>5. Two(n - 1) >= 1 /\ Two(n - 1) \in Nat /\ Two((n - 1) + 1) = Two(n - 1) + Two(n - 1)
    BY <2>2, <2>4, TwoDoubles
  <2>6. (n - 1) + 1 = n
    BY <2>1
  <2>7. Two(n) = Two(n - 1) + Two(n - 1)
    BY <2>5, <2>6
  <2> QED BY <2>2, <2>5, <2>7
<1> DEFINE c == b - a
           x == Two(a)
           y == Two(c)
<1>2. c \in Nat /\ a + c = b
  OBVIOUS
<1> HIDE DEF c
<1>3. Two(b) = x * y
  BY <1>2, TwoAdds
<1>4. x \in Nat /\ y \in Nat /\ x >= 1 /\ y >= 1
  BY <1>1, <1>2
<1> HIDE DEF x, y
<1>5. x <= x * y /\ x * y \in Nat
  BY <1>4
<1> QED
  BY <1>3, <1>4, <1>5 DEF x

----------------------------------------------------------------------------
(* Zeros at the end of a number, and scaling up.                            *)

(* A number below Cap without the zeros at its end.                        *)
LEMMA TrailingZerosFacts ==
  ASSUME NEW n \in Nat, n < Cap, n # 0
  PROVE  LET t == TrailingZeros(n)
         IN  /\ t \in 0..2*MaxPrec /\ Pow10[t] \in Nat \ {0}
             /\ n \div Pow10[t] \in Nat \ {0} /\ (n \div Pow10[t]) % 10 # 0
             /\ n = (n \div Pow10[t]) * Pow10[t]
<1> DEFINE Divides(u) == n % Pow10[u] = 0
           T == {u \in 0..2*MaxPrec : Divides(u)}
           t == TrailingZeros(n)
<1>1. MaxPrec \in Nat /\ \A u \in 0..2*MaxPrec : Pow10[u] \in Nat \ {0}
  BY PowFacts, TableAssumption
<1>2. n % Pow10[0] = 0
  BY PowFacts
<1>3. T \in SUBSET Nat /\ T # {} /\ \A u \in T : u <= 2*MaxPrec
  BY <1>1, <1>2
<1>4. PICK g \in T : \A u \in T : u <= g
  <2> DEFINE b == 2*MaxPrec
  <2>1. b \in Nat /\ \A u \in T : u <= b
    BY <1>1, <1>3
  <2> HIDE DEF T, b
  <2> QED BY <1>3, <2>1, GreatestNatural
<1>5. /\ t \in 0..2*MaxPrec /\ n % Pow10[t] = 0
      /\ \A u \in (t + 1)..2*MaxPrec : n % Pow10[u] # 0
  <2>1. \A u \in (g + 1)..2*MaxPrec : n % Pow10[u] # 0
    BY <1>1, <1>4
  <2> QED BY <1>4, <2>1 DEF TrailingZeros
<1> HIDE DEF T, t
<1> DEFINE p == Pow10[t]
           m == n \div p
<1>6. p \in Nat \ {0} /\ m \in Nat /\ n = m * p
  <2>1. p \in Nat \ {0} /\ n % p = 0
    BY <1>1, <1>5
  <2> HIDE DEF p
  <2>2. m \in Nat
    BY <2>1, DivBelow
  <2>3. n \in Int
    OBVIOUS
  <2>4. n = p * m + (n % p)
    BY <2>1, <2>3, DivMod
  <2> QED BY <2>1, <2>2, <2>4
<1>7. m # 0
  <2> HIDE DEF m, p
  <2> QED BY <1>6
<1>8. m % 10 # 0
  <2>1. CASE t = 2*MaxPrec
    <3>1. n < 10 * p /\ p \in Nat \ {0}
      BY <1>1, <1>6, <2>1, CapFacts, TableAssumption
    <3> HIDE DEF m, p
    <3>2. m < 10
      BY <1>6, <3>1
    <3> QED BY <1>6, <1>7, <3>2
  <2>2. CASE t # 2*MaxPrec
    <3>1. t \in 0..(2*MaxPrec - 1) /\ t + 1 \in (t + 1)..2*MaxPrec
      BY <1>1, <1>5, <2>2
    <3>2. Pow10[t + 1] = p * 10 /\ n % Pow10[t + 1] # 0
      BY <1>5, <3>1, PowStep
    <3> HIDE DEF m, p
    <3>3. ASSUME m % 10 = 0 PROVE FALSE
      <4> DEFINE j == m \div 10
      <4>1. j \in Int /\ m = 10 * j
        BY <1>6, <3>3
      <4> HIDE DEF j
      <4>2. n = j * (p * 10) /\ p * 10 \in Nat \ {0}
        BY <1>6, <4>1
      <4>3. n % (p * 10) = 0
        BY <4>1, <4>2, DivExactly
      <4> QED BY <3>2, <4>3
    <3> QED BY <3>3
  <2> QED BY <2>1, <2>2
<1> QED
  BY <1>5, <1>6, <1>7, <1>8 DEF t

(* The zeros at the end of a number are determined by any way to split it. *)
LEMMA TrailingZerosUnique ==
  ASSUME NEW m \in Nat, m % 10 # 0, NEW t \in 0..2*MaxPrec, m * Pow10[t] < Cap
  PROVE  TrailingZeros(m * Pow10[t]) = t /\ (m * Pow10[t]) \div Pow10[t] = m
<1> DEFINE n == m * Pow10[t]
           s == TrailingZeros(n)
           k == n \div Pow10[s]
<1>1. MaxPrec \in Nat /\ t \in Nat /\ Pow10[t] \in Nat \ {0}
  BY PowFacts, TableAssumption
<1>2. n \in Nat /\ n # 0
  <2> DEFINE u == Pow10[t]
  <2>1. u \in Nat \ {0} /\ m # 0
    BY <1>1
  <2> HIDE DEF u
  <2>2. m * u \in Nat /\ m * u # 0
    BY <2>1
  <2> QED BY <2>2 DEF u
<1>3. n \div Pow10[t] = m
  <2> DEFINE u == Pow10[t]
  <2>1. u \in Nat \ {0} /\ m \in Int
    BY <1>1
  <2> HIDE DEF u
  <2>2. (m * u) \div u = m
    BY <2>1, DivExactly
  <2> QED BY <2>2 DEF u
<1>4. n = m * Pow10[t] /\ n < Cap
  OBVIOUS
<1> HIDE DEF n
<1>5. /\ s \in 0..2*MaxPrec /\ s \in Nat /\ Pow10[s] \in Nat \ {0} /\ k \in Nat /\ k % 10 # 0
      /\ n = k * Pow10[s]
  <2>1. /\ s \in 0..2*MaxPrec /\ Pow10[s] \in Nat \ {0} /\ k \in Nat \ {0} /\ k % 10 # 0
        /\ n = k * Pow10[s]
    BY <1>2, <1>4, TrailingZerosFacts
  <2> HIDE DEF s, k
  <2> QED BY <1>1, <2>1
<1> HIDE DEF s, k
<1>6. \A a, b \in 0..2*MaxPrec : \A x, y \in Nat :
        a < b /\ x * Pow10[a] = y * Pow10[b] => x % 10 = 0
  <2> SUFFICES ASSUME NEW a \in 0..2*MaxPrec, NEW b \in 0..2*MaxPrec,
                      NEW x \in Nat, NEW y \in Nat,
                      a < b, x * Pow10[a] = y * Pow10[b]
               PROVE  x % 10 = 0
    OBVIOUS
  <2> DEFINE j == b - a - 1
             u == Pow10[a]
             v == Pow10[j]
             w == y * v
  <2>1. j \in 0..(2*MaxPrec - 1) /\ j \in 0..2*MaxPrec /\ j + 1 \in 0..2*MaxPrec
        /\ b = a + (j + 1) /\ a + (j + 1) <= 2*MaxPrec
    BY <1>1
  <2>2. u \in Nat \ {0} /\ v \in Nat \ {0} /\ Pow10[j + 1] = v * 10
    BY <2>1, PowStep, TableAssumption
  <2>3. Pow10[b] = u * (v * 10)
    <3>1. Pow10[a + (j + 1)] = Pow10[a] * Pow10[j + 1]
      BY <2>1, PowFacts
    <3> QED BY <2>1, <2>2, <3>1
  <2>4. x * u = y * (u * (v * 10))
    BY <2>3
  <2> HIDE DEF u, v
  <2>5. w \in Nat /\ x * u = (w * 10) * u
    BY <2>2, <2>4
  <2> HIDE DEF w
  <2>6. (x - w * 10) * u = 0
    BY <2>2, <2>5
  <2>7. x = w * 10
    BY <2>2, <2>5, <2>6
  <2> QED BY <2>5, <2>7
<1>7. ~(s < t) /\ ~(t < s)
  BY <1>1, <1>4, <1>5, <1>6
<1>8. s = t
  BY <1>1, <1>5, <1>7
<1> QED
  BY <1>3, <1>8 DEF n, s

(* Multiplying by a power of ten, refused when two limbs cannot hold it.   *)
LEMMA ScaleUpExactly ==
  ASSUME NEW coef \in Nat, NEW up \in Nat
  PROVE  LET s == ScaleUpExact(coef, up)
             Fits == up <= 2*MaxPrec /\ coef * Pow10[up] < Cap
         IN  /\ Fits => s = [val |-> coef * Pow10[up], err |-> "nil"]
             /\ ~Fits => s = [val |-> 0, err |-> "Overflow"]
<1>1. MaxPrec \in Nat /\ Cap \in Nat /\ Cap >= 16
  BY PowFacts, CapFacts
<1>2. CASE up > 2*MaxPrec
  BY <1>1, <1>2 DEF ScaleUpExact
<1>3. CASE up <= 2*MaxPrec
  <2> DEFINE w == Pow10[up]
             top == Cap - 1
  <2>1. w \in Nat \ {0} /\ top \in Nat
    <3>1. up \in 0..2*MaxPrec /\ top \in Nat
      BY <1>1, <1>3
    <3>2. w \in Nat \ {0}
      BY <3>1, TableAssumption
    <3> QED BY <3>1, <3>2
  <2> HIDE DEF w, top
  <2>2. top \div w \in Nat /\ \A c \in Nat : (top \div w < c) <=> (top < w * c)
    BY <2>1, DivBelow
  <2>3. w * coef = coef * w /\ coef * w \in Nat
    BY <2>1
  <2>4. (coef > top \div w) <=> ~(coef * w <= top)
    BY <2>1, <2>2, <2>3
  <2>5. (coef * w <= top) <=> (coef * w < Cap)
    BY <1>1, <2>3 DEF top
  <2> QED BY <1>1, <1>3, <2>4, <2>5 DEF ScaleUpExact, w, top
<1> QED
  BY <1>1, <1>2, <1>3

----------------------------------------------------------------------------
(* The answer with an exact integer of 10^-prec units: the Decimal, or     *)
(* ErrOverflow exactly when its coefficient does not fit.                  *)
Exactly(n, prec) ==
  IF Abs(n) >= Cap THEN Fail("Overflow") ELSE Ok(NewDecimal(Abs(n), n < 0, prec))

(* A magnitude with a sign.                                                *)
WithSign(c, neg) == IF neg THEN -c ELSE c

(* What membership in Decimals and NewDecimal amount to.                   *)
LEMMA DecimalFacts ==
  ASSUME NEW d \in Decimals
  PROVE  /\ d.coef \in Nat /\ d.coef < Cap
         /\ d.neg \in BOOLEAN /\ d.prec \in 0..MaxPrec
         /\ d.coef = 0 => d = Zero /\ d.neg = FALSE /\ d.prec = 0
         /\ d = [coef |-> d.coef, neg |-> d.neg, prec |-> d.prec]
  BY CapFacts DEF Decimals, U128, Zero

(* One precision: the signs agree and the magnitudes add.                  *)
LEMMA AddMagnitudesExact ==
  ASSUME NEW d \in Decimals, NEW e \in Decimals
  PROVE  AddMagnitudes(d, e) = Exactly(WithSign(d.coef + e.coef, d.neg), d.prec)
<1>1. /\ d.coef \in Nat /\ e.coef \in Nat /\ d.neg \in BOOLEAN
      /\ d.coef = 0 => d.neg = FALSE /\ d.prec = 0
  BY DecimalFacts
<1>2. CASE d.coef + e.coef >= Cap
  BY <1>1, <1>2, CapFacts DEF AddMagnitudes, Add128, Exactly, WithSign, Abs
<1>3. CASE d.coef + e.coef < Cap
  <2>1. AddMagnitudes(d, e) = Ok(RawDecimal(d.coef + e.coef, d.neg, d.prec))
    BY <1>3 DEF AddMagnitudes, Add128
  <2>2. CASE d.coef + e.coef = 0
    <3>1. d.coef = 0 /\ e.coef = 0 /\ d.neg = FALSE /\ d.prec = 0
      BY <1>1, <2>2
    <3>2. AddMagnitudes(d, e) = Ok(Zero)
      <4>1. d.coef + e.coef = 0
        BY <3>1
      <4>2. RawDecimal(0, FALSE, 0) = Zero
        BY DEF RawDecimal, Zero
      <4> QED
        BY <2>1, <3>1, <4>1, <4>2
    <3>3. WithSign(d.coef + e.coef, d.neg) = 0
      BY <3>1 DEF WithSign
    <3> QED
      BY <3>2, <3>3, CapFacts DEF Exactly, Abs, NewDecimal
  <2>3. CASE d.coef + e.coef > 0
    <3>1. (WithSign(d.coef + e.coef, d.neg) < 0) = d.neg
      BY <1>1, <2>3 DEF WithSign
    <3>2. Abs(WithSign(d.coef + e.coef, d.neg)) = d.coef + e.coef
      BY <1>1 DEF WithSign, Abs
    <3> QED
      BY <1>1, <1>3, <2>1, <2>3, <3>1, <3>2, CapFacts DEF Exactly, NewDecimal
  <2> QED
    BY <1>1, <2>2, <2>3
<1> QED
  BY <1>1, <1>2, <1>3, CapFacts

(* One precision: the signs differ and the magnitudes subtract.            *)
LEMMA SubMagnitudesExact ==
  ASSUME NEW d \in Decimals, NEW e \in Decimals
  PROVE  SubMagnitudes(d, e, ~d.neg) = Exactly(WithSign(d.coef - e.coef, d.neg), d.prec)
<1> DEFINE n == WithSign(d.coef - e.coef, d.neg)
<1>1. /\ d.coef \in Nat /\ e.coef \in Nat /\ d.neg \in BOOLEAN
      /\ d.coef < Cap /\ e.coef < Cap
  BY DecimalFacts
<1>2. CASE d.coef < e.coef
  <2>1. SubMagnitudes(d, e, ~d.neg) = Ok(NewDecimal(e.coef - d.coef, ~d.neg, d.prec))
    BY <1>1, <1>2, CapFacts DEF SubMagnitudes, Sub128, Neg128
  <2>2. Abs(n) = e.coef - d.coef /\ (n < 0) = ~d.neg
    BY <1>1, <1>2 DEF WithSign, Abs
  <2> QED
    BY <1>1, <2>1, <2>2, CapFacts DEF Exactly
<1>3. CASE d.coef = e.coef
  BY <1>1, <1>3, CapFacts DEF SubMagnitudes, Sub128, Exactly, WithSign, Abs, NewDecimal
<1>4. CASE d.coef > e.coef
  <2>1. SubMagnitudes(d, e, ~d.neg) = Ok(NewDecimal(d.coef - e.coef, d.neg, d.prec))
    BY <1>1, <1>4, CapFacts DEF SubMagnitudes, Sub128
  <2>2. Abs(n) = d.coef - e.coef /\ (n < 0) = d.neg
    BY <1>1, <1>4 DEF WithSign, Abs
  <2> QED
    BY <1>1, <2>1, <2>2, CapFacts DEF Exactly
<1> QED
  BY <1>1, <1>2, <1>3, <1>4

(* Two precisions: the coarser coefficient is widened first.               *)
LEMMA AddUnalignedExact ==
  ASSUME NEW d \in Decimals, NEW e \in Decimals, NEW eNeg \in BOOLEAN, d.prec # e.prec,
         NEW f, f = Larger(d.prec, e.prec)
  PROVE  AddUnaligned(d, e, eNeg) =
           Exactly(WithSign(d.coef * Pow10[f - d.prec], d.neg)
                     + WithSign(e.coef * Pow10[f - e.prec], eNeg), f)
<1> DEFINE a == d.coef * Pow10[f - d.prec]
           b == e.coef * Pow10[f - e.prec]
<1>1. /\ d.coef \in Nat /\ e.coef \in Nat /\ d.neg \in BOOLEAN
      /\ d.prec \in 0..MaxPrec /\ e.prec \in 0..MaxPrec /\ MaxPrec \in Nat
  BY DecimalFacts, PowFacts
<1>2. Pow10[0] = 1
  BY PowFacts
<1>3. ASSUME NEW u \in Nat, NEW v \in Nat, NEW uNeg \in BOOLEAN, NEW vNeg \in BOOLEAN
      PROVE  LET n == WithSign(u, uNeg) + WithSign(v, vNeg)
                 mag == IF uNeg = vNeg THEN u + v ELSE Abs(u - v)
                 neg == IF uNeg # vNeg /\ u < v THEN vNeg ELSE uNeg
             IN  /\ mag \in Nat /\ Abs(n) = mag
                 /\ mag # 0 => (n < 0) = neg
  BY DEF WithSign, Abs
<1>4. ASSUME NEW u \in Nat, NEW v \in Nat, NEW uNeg \in BOOLEAN, NEW vNeg \in BOOLEAN
      PROVE  LET n == WithSign(u, uNeg) + WithSign(v, vNeg)
                 mag == IF uNeg = vNeg THEN u + v ELSE Abs(u - v)
                 neg == IF uNeg # vNeg /\ u < v THEN vNeg ELSE uNeg
             IN  (IF mag >= Cap THEN Fail("Overflow") ELSE Ok(NewDecimal(mag, neg, f)))
                    = Exactly(n, f)
  <2> DEFINE n == WithSign(u, uNeg) + WithSign(v, vNeg)
             mag == IF uNeg = vNeg THEN u + v ELSE Abs(u - v)
             neg == IF uNeg # vNeg /\ u < v THEN vNeg ELSE uNeg
  <2>1. mag \in Nat /\ Abs(n) = mag /\ (mag # 0 => (n < 0) = neg)
    BY <1>3
  <2>2. NewDecimal(mag, neg, f) = NewDecimal(Abs(n), n < 0, f)
    <3> HIDE DEF n, mag, neg
    <3> QED
      BY <2>1 DEF NewDecimal
  <2>3. Exactly(n, f) = IF Abs(n) >= Cap THEN Fail("Overflow")
                                         ELSE Ok(NewDecimal(Abs(n), n < 0, f))
    BY DEF Exactly
  <2> HIDE DEF n, mag, neg
  <2>4. (IF mag >= Cap THEN Fail("Overflow") ELSE Ok(NewDecimal(mag, neg, f))) = Exactly(n, f)
    BY <2>1, <2>2, <2>3
  <2> QED
    BY <2>4 DEF n, mag, neg
<1>5. CASE d.prec < e.prec
  <2>1. f = e.prec /\ f - e.prec = 0 /\ b = e.coef /\ ~(d.prec > e.prec)
    BY <1>1, <1>2, <1>5 DEF Larger
  <2>2. a \in Nat
    BY <1>1, <1>5, <2>1, PowSplit
  <2>3. AddUnaligned(d, e, eNeg) =
          LET mag == IF d.neg = eNeg THEN a + b ELSE Abs(a - b)
              neg == IF d.neg # eNeg /\ a < b THEN eNeg ELSE d.neg
          IN  IF mag >= Cap THEN Fail("Overflow") ELSE Ok(NewDecimal(mag, neg, f))
    BY <2>1 DEF AddUnaligned
  <2> QED
    BY <1>1, <1>4, <2>1, <2>2, <2>3
<1>6. CASE d.prec > e.prec
  <2>1. f = d.prec /\ f - d.prec = 0 /\ a = d.coef
    BY <1>1, <1>2, <1>6 DEF Larger
  <2>2. b \in Nat
    BY <1>1, <1>6, <2>1, PowSplit
  <2>3. AddUnaligned(d, e, eNeg) =
          LET mag == IF eNeg = d.neg THEN b + a ELSE Abs(b - a)
              neg == IF eNeg # d.neg /\ b < a THEN d.neg ELSE eNeg
          IN  IF mag >= Cap THEN Fail("Overflow") ELSE Ok(NewDecimal(mag, neg, f))
    BY <1>6, <2>1 DEF AddUnaligned
  <2>4. AddUnaligned(d, e, eNeg) = Exactly(WithSign(b, eNeg) + WithSign(a, d.neg), f)
    BY <1>1, <1>4, <2>1, <2>2, <2>3
  <2> QED
    BY <1>1, <2>1, <2>2, <2>4 DEF WithSign
<1> QED
  BY <1>1, <1>5, <1>6

(* In units of 10^-MaxPrec: aligning and scaling down again is exact.      *)
LEMMA ScaledSplit ==
  ASSUME NEW d \in Decimals, NEW f \in 0..MaxPrec, d.prec <= f
  PROVE  /\ WithSign(d.coef * Pow10[f - d.prec], d.neg) \in Int
         /\ Scaled(d) = WithSign(d.coef * Pow10[f - d.prec], d.neg) * Pow10[MaxPrec - f]
         /\ Scaled(d) \in Int
<1>1. d.coef \in Nat /\ d.neg \in BOOLEAN /\ d.prec \in 0..MaxPrec
  BY DecimalFacts
<1> MaxPrec \in Nat /\ MaxPrec \in 0..MaxPrec
  BY PowFacts
<1>2. Pow10[f - d.prec] \in Nat /\ Pow10[MaxPrec - f] \in Nat
  BY <1>1, PowSplit
<1>3. Pow10[MaxPrec - d.prec] = Pow10[f - d.prec] * Pow10[MaxPrec - f]
  <2>1. /\ f - d.prec \in 0..2*MaxPrec /\ MaxPrec - f \in 0..2*MaxPrec
        /\ (f - d.prec) + (MaxPrec - f) = MaxPrec - d.prec /\ MaxPrec - d.prec <= 2*MaxPrec
    BY <1>1, PowFacts
  <2> QED
    BY <2>1, PowFacts
<1>4. \A c, s, t \in Int : c * (s * t) = (c * s) * t /\ (-c) * (s * t) = (-(c * s)) * t
                           /\ c * s \in Int /\ c * (s * t) \in Int
  OBVIOUS
<1> QED
  BY <1>1, <1>2, <1>3, <1>4 DEF Scaled, Signed, WithSign

(* What both totals mean at their own precision.                           *)
LEMMA UnscaleExact ==
  ASSUME NEW n \in Int, NEW f \in 0..MaxPrec
  PROVE  /\ Abs(n * Pow10[MaxPrec - f]) \div Pow10[MaxPrec - f] = Abs(n)
         /\ (n * Pow10[MaxPrec - f] < 0) = (n < 0)
<1>1. Pow10[MaxPrec - f] \in Nat /\ Pow10[MaxPrec - f] >= 1
  BY PowSplit, PowFacts
<1>2. \A s \in Nat : s >= 1 => /\ Abs(n * s) = Abs(n) * s
                              /\ (n * s < 0) = (n < 0)
  BY DEF Abs
<1>3. \A m, s \in Nat : s >= 1 => (m * s) \div s = m
  OBVIOUS
<1>4. Abs(n) \in Nat
  BY DEF Abs
<1> QED
  BY <1>1, <1>2, <1>3, <1>4

(* The exact answer in units of 10^-MaxPrec, and the same at a precision.  *)
SumOf(total, prec) ==
  LET mag == Abs(total) \div Pow10[MaxPrec - prec]
  IN  IF mag >= Cap THEN Fail("Overflow") ELSE Ok(NewDecimal(mag, total < 0, prec))

(* SumOf of an exact total given in units of 10^-f.                        *)
LEMMA SumOfExactly ==
  ASSUME NEW n \in Int, NEW f \in 0..MaxPrec
  PROVE  SumOf(n * Pow10[MaxPrec - f], f) = Exactly(n, f)
<1> DEFINE t == n * Pow10[MaxPrec - f]
<1>1. Abs(t) \div Pow10[MaxPrec - f] = Abs(n) /\ (t < 0) = (n < 0)
  BY UnscaleExact
<1> HIDE DEF t
<1>2. SumOf(t, f) = Exactly(n, f)
  BY <1>1 DEF SumOf, Exactly
<1> QED
  BY <1>2 DEF t

(* A sum at the larger precision, with the sign of e given by eNeg.        *)
LEMMA SignedSumExact ==
  ASSUME NEW d \in Decimals, NEW e \in Decimals, NEW eNeg \in BOOLEAN,
         NEW f, f = Larger(d.prec, e.prec)
  PROVE  SumOf(Scaled(d) + WithSign(e.coef * Pow10[MaxPrec - e.prec], eNeg), f) =
           Exactly(WithSign(d.coef * Pow10[f - d.prec], d.neg)
                     + WithSign(e.coef * Pow10[f - e.prec], eNeg), f)
<1> DEFINE a == WithSign(d.coef * Pow10[f - d.prec], d.neg)
           b == WithSign(e.coef * Pow10[f - e.prec], eNeg)
           s == Pow10[MaxPrec - f]
<1>1. /\ d.prec \in 0..MaxPrec /\ e.prec \in 0..MaxPrec /\ e.coef \in Nat
      /\ MaxPrec \in Nat /\ MaxPrec \in 0..MaxPrec
      /\ f \in 0..MaxPrec /\ d.prec <= f /\ e.prec <= f
  <2>1. d.prec \in 0..MaxPrec /\ e.prec \in 0..MaxPrec /\ e.coef \in Nat
    BY DecimalFacts
  <2>2. MaxPrec \in Nat
    BY PowFacts
  <2> QED
    BY <2>1, <2>2 DEF Larger
<1>2. a \in Int /\ Scaled(d) = a * s
  BY <1>1, ScaledSplit
<1>3. s \in Nat /\ Pow10[f - e.prec] \in Nat
  <2>1. s \in Nat
    BY <1>1, PowSplit
  <2>2. Pow10[f - e.prec] \in Nat
    <3> HIDE DEF s
    <3> QED
      BY <1>1, PowSplit
  <2> QED
    BY <2>1, <2>2
<1>4. Pow10[MaxPrec - e.prec] = Pow10[f - e.prec] * s
  <2>1. /\ f - e.prec \in 0..2*MaxPrec /\ MaxPrec - f \in 0..2*MaxPrec
        /\ (f - e.prec) + (MaxPrec - f) = MaxPrec - e.prec /\ MaxPrec - e.prec <= 2*MaxPrec
    BY <1>1
  <2> QED
    BY <2>1, PowFacts
<1>5. b \in Int /\ WithSign(e.coef * Pow10[MaxPrec - e.prec], eNeg) = b * s
  <2>1. \A c, p, q \in Nat : /\ c * (p * q) = (c * p) * q
                            /\ -(c * (p * q)) = (-(c * p)) * q /\ c * p \in Int
    OBVIOUS
  <2> QED
    BY <1>1, <1>3, <1>4, <2>1 DEF WithSign
<1>6. a * s + b * s = (a + b) * s /\ a + b \in Int
  <2> HIDE DEF a, b, s
  <2> QED
    BY <1>2, <1>3, <1>5
<1>7. SumOf((a + b) * s, f) = Exactly(a + b, f)
  BY <1>1, <1>6, SumOfExactly
<1> QED
  BY <1>2, <1>5, <1>6, <1>7

(* Add is exact at the larger precision of its operands.                   *)
THEOREM AddIsExact ==
  ASSUME NEW d \in Decimals, NEW e \in Decimals
  PROVE  Add(d, e) = SumOf(Scaled(d) + Scaled(e), Larger(d.prec, e.prec))
<1> DEFINE f == Larger(d.prec, e.prec)
           n == WithSign(d.coef * Pow10[f - d.prec], d.neg)
                  + WithSign(e.coef * Pow10[f - e.prec], e.neg)
<1>1. /\ d.coef \in Nat /\ e.coef \in Nat /\ d.neg \in BOOLEAN /\ e.neg \in BOOLEAN
      /\ d.prec \in 0..MaxPrec /\ e.prec \in 0..MaxPrec
  BY DecimalFacts
<1>2. SumOf(Scaled(d) + Scaled(e), f) = Exactly(n, f)
  <2>1. Scaled(e) = WithSign(e.coef * Pow10[MaxPrec - e.prec], e.neg)
    <3>1. Pow10[MaxPrec - e.prec] \in Nat
      BY <1>1, PowFacts
    <3> QED
      BY <1>1, <3>1 DEF Scaled, Signed, WithSign
  <2> QED
    BY <1>1, <2>1, SignedSumExact
<1>3. CASE d.prec # e.prec
  BY <1>1, <1>2, <1>3, AddUnalignedExact DEF Add
<1>4. CASE d.prec = e.prec
  <2>1. f = d.prec /\ n = WithSign(d.coef, d.neg) + WithSign(e.coef, e.neg)
    BY <1>1, <1>4, PowFacts DEF Larger
  <2>2. CASE d.neg = e.neg
    <3>1. n = WithSign(d.coef + e.coef, d.neg)
      BY <1>1, <2>1, <2>2 DEF WithSign
    <3> QED
      BY <1>2, <1>4, <2>1, <2>2, <3>1, AddMagnitudesExact DEF Add
  <2>3. CASE d.neg # e.neg
    <3>1. e.neg = ~d.neg /\ n = WithSign(d.coef - e.coef, d.neg)
      BY <1>1, <2>1, <2>3 DEF WithSign
    <3> QED
      BY <1>2, <1>4, <2>1, <2>3, <3>1, SubMagnitudesExact DEF Add
  <2> QED
    BY <2>2, <2>3
<1> QED
  BY <1>3, <1>4

(* Sub is exact, also when the subtrahend is the unsigned zero.            *)
THEOREM SubIsExact ==
  ASSUME NEW d \in Decimals, NEW e \in Decimals
  PROVE  Sub(d, e) = SumOf(Scaled(d) - Scaled(e), Larger(d.prec, e.prec))
<1> DEFINE f == Larger(d.prec, e.prec)
           eNeg == ~e.neg /\ e.coef # 0
           n == WithSign(d.coef * Pow10[f - d.prec], d.neg)
                  + WithSign(e.coef * Pow10[f - e.prec], eNeg)
<1> eNeg \in BOOLEAN
  OBVIOUS
<1>1. /\ d.coef \in Nat /\ e.coef \in Nat /\ d.neg \in BOOLEAN /\ e.neg \in BOOLEAN
      /\ d.prec \in 0..MaxPrec /\ e.prec \in 0..MaxPrec
      /\ e.coef = 0 => e.neg = FALSE
  BY DecimalFacts
<1>2. SumOf(Scaled(d) - Scaled(e), f) = Exactly(n, f)
  <2>1. Pow10[MaxPrec - e.prec] \in Nat
    BY <1>1, PowFacts
  <2>2. \A s \in Nat : /\ 0 * s = 0 /\ e.coef * s \in Int
                       /\ (-e.coef) * s = -(e.coef * s)
    BY <1>1
  <2>3. -Scaled(e) = WithSign(e.coef * Pow10[MaxPrec - e.prec], eNeg) /\ Scaled(e) \in Int
    <3>1. CASE e.coef = 0
      <4>1. Scaled(e) = 0 /\ WithSign(e.coef * Pow10[MaxPrec - e.prec], eNeg) = 0
        BY <1>1, <2>1, <2>2, <3>1 DEF Scaled, Signed, WithSign
      <4> QED
        BY <4>1
    <3>2. CASE e.coef # 0 /\ e.neg
      BY <1>1, <2>1, <2>2, <3>2 DEF Scaled, Signed, WithSign
    <3>3. CASE e.coef # 0 /\ ~e.neg
      BY <1>1, <2>1, <2>2, <3>3 DEF Scaled, Signed, WithSign
    <3> QED
      BY <1>1, <3>1, <3>2, <3>3
  <2>4. Scaled(d) \in Int
    BY <1>1, PowFacts, ScaledSplit
  <2>5. Scaled(d) - Scaled(e) = Scaled(d) + WithSign(e.coef * Pow10[MaxPrec - e.prec], eNeg)
    BY <2>3, <2>4
  <2> QED
    <3> HIDE DEF eNeg
    <3> QED
      BY <1>1, <2>5, SignedSumExact
<1>3. CASE d.prec # e.prec
  <2>1. Sub(d, e) = AddUnaligned(d, e, eNeg)
    BY <1>3 DEF Sub
  <2>2. AddUnaligned(d, e, eNeg) = Exactly(n, f)
    <3> HIDE DEF eNeg
    <3> QED
      BY <1>3, AddUnalignedExact
  <2> QED
    BY <1>2, <2>1, <2>2
<1>4. CASE d.prec = e.prec
  <2>1. f = d.prec /\ n = WithSign(d.coef, d.neg) + WithSign(e.coef, eNeg)
    BY <1>1, <1>4, PowFacts DEF Larger
  <2>2. CASE d.neg # e.neg
    <3>1. n = WithSign(d.coef + e.coef, d.neg)
      BY <1>1, <2>1, <2>2 DEF WithSign
    <3> QED
      BY <1>2, <1>4, <2>1, <2>2, <3>1, AddMagnitudesExact DEF Sub
  <2>3. CASE d.neg = e.neg
    <3>1. n = WithSign(d.coef - e.coef, d.neg)
      BY <1>1, <2>1, <2>3 DEF WithSign
    <3> QED
      BY <1>2, <1>4, <2>1, <2>3, <3>1, SubMagnitudesExact DEF Sub
  <2> QED
    BY <2>2, <2>3
<1> QED
  BY <1>3, <1>4

----------------------------------------------------------------------------
(* What an operation hands back: a Decimal and one of the errors.          *)
IsReply(res) == res.val \in Decimals /\ res.err \in Errors

LEMMA Replies ==
  /\ Zero \in Decimals
  /\ \A d \in Decimals : /\ IsReply(Ok(d)) /\ Ok(d).val = d /\ Ok(d).err = "nil"
  /\ \A e \in Errors : IsReply(Fail(e)) /\ Fail(e).val = Zero /\ Fail(e).err = e
<1>1. Zero \in Decimals
  <2>1. 0 \in U128 /\ 0 \in 0..MaxPrec
    BY CapFacts, PowFacts DEF U128
  <2> QED BY <2>1 DEF Decimals, Zero
<1>2. "nil" \in Errors
  BY DEF Errors
<1> QED
  BY <1>1, <1>2 DEF IsReply, Ok, Fail

(* A coefficient of two limbs, a sign and a precision make a Decimal.      *)
LEMMA MakeDecimal ==
  ASSUME NEW c \in Nat, c < Cap, NEW n \in BOOLEAN, NEW p \in 0..MaxPrec
  PROVE  /\ NewDecimal(c, n, p) \in Decimals
         /\ NewDecimal(c, n, p).coef = c
         /\ c = 0 => NewDecimal(c, n, p) = Zero
         /\ c # 0 => NewDecimal(c, n, p).neg = n /\ NewDecimal(c, n, p).prec = p
         /\ IsReply(Ok(NewDecimal(c, n, p)))
<1>1. NewDecimal(c, n, p) \in Decimals
  <2>1. CASE c = 0
    BY <2>1, Replies DEF NewDecimal
  <2>2. CASE c # 0
    <3>1. c \in U128
      BY CapFacts DEF U128
    <3> QED
      BY <2>2, <3>1 DEF NewDecimal, RawDecimal, Decimals
  <2> QED BY <2>1, <2>2
<1>2. IsReply(Ok(NewDecimal(c, n, p)))
  BY <1>1, Replies
<1> QED
  BY <1>1, <1>2 DEF NewDecimal, RawDecimal, Zero

(* The negation, the magnitude and the copied sign of a Decimal.           *)
LEMMA SignsTyped ==
  ASSUME NEW d \in Decimals, NEW e \in Decimals
  PROVE  Neg(d) \in Decimals /\ AbsValue(d) \in Decimals /\ CopySign(d, e) \in Decimals
<1>1. /\ d.coef \in Nat /\ d.coef < Cap /\ d.prec \in 0..MaxPrec
      /\ d.neg \in BOOLEAN /\ e.neg \in BOOLEAN
  BY DecimalFacts
<1> QED
  BY <1>1, MakeDecimal DEF Neg, AbsValue, CopySign

(* The larger of two precisions is one.                                    *)
LEMMA LargerPrec ==
  ASSUME NEW p \in 0..MaxPrec, NEW q \in 0..MaxPrec
  PROVE  Larger(p, q) \in 0..MaxPrec /\ p <= Larger(p, q) /\ q <= Larger(p, q)
  BY PowFacts DEF Larger

LEMMA ScaledInt ==
  ASSUME NEW d \in Decimals
  PROVE  Scaled(d) \in Int
<1>1. MaxPrec \in Nat
  BY PowFacts
<1>2. d.prec \in 0..MaxPrec
  BY DecimalFacts
<1>3. MaxPrec \in 0..MaxPrec /\ d.prec <= MaxPrec
  BY <1>1, <1>2
<1> QED
  BY <1>3, ScaledSplit

(* An exact total is answered by a Decimal or an overflow.                 *)
LEMMA SumOfTyped ==
  ASSUME NEW total \in Int, NEW prec \in 0..MaxPrec
  PROVE  IsReply(SumOf(total, prec))
<1> DEFINE unit == Pow10[MaxPrec - prec]
           mag == Abs(total) \div unit
<1>1. unit \in Nat \ {0} /\ Abs(total) \in Nat /\ (total < 0) \in BOOLEAN
  <2>1. MaxPrec - prec \in 0..2*MaxPrec
    BY PowFacts
  <2>2. unit \in Nat \ {0}
    BY <2>1, TableAssumption
  <2> QED BY <2>2 DEF Abs
<1> HIDE DEF unit
<1>2. mag \in Nat
  BY <1>1, DivBelow
<1> HIDE DEF mag
<1>3. CASE mag >= Cap
  <2>1. "Overflow" \in Errors
    BY DEF Errors
  <2> QED BY <1>3, <2>1, Replies DEF SumOf, mag, unit
<1>4. CASE ~(mag >= Cap)
  <2>1. mag < Cap
    BY <1>2, <1>4, CapFacts
  <2>2. \A n \in BOOLEAN : IsReply(Ok(NewDecimal(mag, n, prec)))
    BY <1>2, <2>1, MakeDecimal
  <2> QED BY <1>1, <1>4, <2>2 DEF SumOf, mag, unit
<1> QED
  BY <1>3, <1>4

LEMMA AddSubTyped ==
  ASSUME NEW d \in Decimals, NEW e \in Decimals
  PROVE  IsReply(Add(d, e)) /\ IsReply(Sub(d, e))
<1>1. Larger(d.prec, e.prec) \in 0..MaxPrec
  BY DecimalFacts, LargerPrec
<1>2. Scaled(d) \in Int /\ Scaled(e) \in Int
  BY ScaledInt
<1>3. Scaled(d) + Scaled(e) \in Int /\ Scaled(d) - Scaled(e) \in Int
  BY <1>2
<1> QED
  BY <1>1, <1>3, SumOfTyped, AddIsExact, SubIsExact

----------------------------------------------------------------------------
(* Division by 10^k in one or two passes is the division, and its fits     *)
(* test is a test of the quotient.                                         *)
LEMMA DivU256Pow10Exact ==
  ASSUME NEW u \in Nat, NEW k \in 0..2*MaxPrec
  PROVE  /\ u \div Pow10[k] \in Nat
         /\ DivU256Pow10(u, k) = IF u \div Pow10[k] >= Cap
                                 THEN [val |-> 0, err |-> "Overflow"]
                                 ELSE [val |-> u \div Pow10[k], err |-> "nil"]
<1> DEFINE w == IF k > MaxPrec THEN u \div Pow10[MaxPrec] ELSE u
           j == IF k > MaxPrec THEN k - MaxPrec ELSE k
           ten == Pow10[j]
<1>1. MaxPrec \in Nat /\ MaxPrec \in 0..2*MaxPrec /\ j \in 0..2*MaxPrec
  BY PowFacts
<1>2. ten \in Nat \ {0} /\ Pow10[MaxPrec] \in Nat \ {0} /\ Pow10[k] \in Nat \ {0}
  BY <1>1, TableAssumption
<1>3. w \in Nat
  BY <1>2, DivBelow
<1>4. w \div ten = u \div Pow10[k]
  <2>1. CASE k > MaxPrec
    <3>1. Pow10[k] = Pow10[MaxPrec] * Pow10[k - MaxPrec]
      BY <1>1, <2>1, PowRatio
    <3>2. w = u \div Pow10[MaxPrec] /\ ten = Pow10[k - MaxPrec]
      BY <2>1
    <3> DEFINE low == Pow10[MaxPrec]
    <3>3. low \in Nat \ {0} /\ ten \in Nat \ {0}
      BY <1>2
    <3>4. w = u \div low /\ Pow10[k] = low * ten
      BY <3>1, <3>2
    <3> HIDE DEF w, j, ten, low
    <3>5. (u \div low) \div ten = u \div (low * ten)
      BY <3>3, DivDiv
    <3> QED BY <3>4, <3>5
  <2>2. CASE ~(k > MaxPrec)
    <3>1. w = u /\ j = k
      BY <2>2
    <3> HIDE DEF w, j
    <3> QED BY <3>1
  <2> QED BY <2>1, <2>2
<1>5. DivU256Pow10(u, k) = IF w \div Cap >= ten THEN [val |-> 0, err |-> "Overflow"]
                           ELSE [val |-> w \div ten, err |-> "nil"]
  BY DEF DivU256Pow10
<1> HIDE DEF w, j, ten
<1>6. (w \div Cap >= ten) <=> (w \div ten >= Cap)
  <2>1. Cap \in Nat \ {0} /\ Cap \in Nat
    BY CapFacts
  <2>2. (w \div Cap >= ten) <=> (w >= Cap * ten)
    BY <1>2, <1>3, <2>1, DivBelow
  <2>3. (w \div ten >= Cap) <=> (w >= ten * Cap)
    BY <1>2, <1>3, <2>1, DivBelow
  <2>4. ten * Cap = Cap * ten
    BY <1>2, <2>1
  <2> QED BY <2>2, <2>3, <2>4
<1>7. u \div Pow10[k] \in Nat
  BY <1>2, DivBelow
<1> QED
  BY <1>4, <1>5, <1>6, <1>7

(* A number in units of 10^-MaxPrec and its magnitude.                     *)
LEMMA ScaledMagnitude ==
  ASSUME NEW d \in Decimals
  PROVE  /\ Pow10[MaxPrec - d.prec] \in Nat \ {0}
         /\ d.coef * Pow10[MaxPrec - d.prec] \in Nat
         /\ Scaled(d) = WithSign(d.coef * Pow10[MaxPrec - d.prec], d.neg)
         /\ Abs(Scaled(d)) = d.coef * Pow10[MaxPrec - d.prec]
<1> DEFINE u == Pow10[MaxPrec - d.prec]
<1>1. d.coef \in Nat /\ d.neg \in BOOLEAN /\ d.prec \in 0..MaxPrec
  BY DecimalFacts
<1>2. MaxPrec \in Nat
  BY PowFacts
<1>3. MaxPrec - d.prec \in 0..2*MaxPrec
  BY <1>1, <1>2
<1>4. u \in Nat \ {0}
  BY <1>3, TableAssumption
<1>5. Scaled(d) = Signed(d) * u
  BY DEF Scaled
<1> HIDE DEF u
<1>6. d.coef * u \in Nat /\ (-d.coef) * u = -(d.coef * u)
  BY <1>1, <1>4
<1>7. Scaled(d) = WithSign(d.coef * u, d.neg)
  BY <1>5, <1>6 DEF Signed, WithSign
<1>8. Abs(WithSign(d.coef * u, d.neg)) = d.coef * u
  <2> DEFINE m == d.coef * u
  <2>1. m \in Nat
    BY <1>6
  <2> HIDE DEF m
  <2>2. Abs(WithSign(m, d.neg)) = m
    BY <2>1 DEF Abs, WithSign
  <2> QED BY <2>2 DEF m
<1> QED
  BY <1>4, <1>6, <1>7, <1>8 DEF u

(* The number a freshly made Decimal denotes.                              *)
LEMMA ScaledNew ==
  ASSUME NEW c \in Nat, c < Cap, NEW n \in BOOLEAN, NEW p \in 0..MaxPrec
  PROVE  /\ Pow10[MaxPrec - p] \in Nat \ {0}
         /\ Scaled(NewDecimal(c, n, p)) = WithSign(c * Pow10[MaxPrec - p], n)
         /\ Signed(NewDecimal(c, n, p)) = WithSign(c, n)
<1> DEFINE u == Pow10[MaxPrec - p]
           x == NewDecimal(c, n, p)
<1>1. MaxPrec \in Nat
  BY PowFacts
<1>2. MaxPrec - p \in 0..2*MaxPrec
  BY <1>1
<1>3. u \in Nat \ {0}
  BY <1>2, TableAssumption
<1>4. x \in Decimals /\ x.coef = c /\ (c = 0 => x = Zero) /\ (c # 0 => x.neg = n /\ x.prec = p)
  BY MakeDecimal
<1>5. Scaled(x) = WithSign(x.coef * Pow10[MaxPrec - x.prec], x.neg)
  BY <1>4, ScaledMagnitude
<1>6. CASE c = 0
  <2>1. Scaled(x) = 0 /\ Signed(x) = 0
    <3>1. Pow10[MaxPrec - x.prec] \in Nat /\ x.coef = 0 /\ x.neg = FALSE
      BY <1>4, <1>6, ScaledMagnitude DEF Zero
    <3> HIDE DEF x
    <3>2. x.coef * Pow10[MaxPrec - x.prec] = 0
      BY <3>1
    <3> QED BY <1>5, <3>1, <3>2 DEF WithSign, Signed
  <2>2. c * u = 0
    <3> HIDE DEF u
    <3> QED BY <1>3, <1>6
  <2> QED BY <1>3, <1>6, <2>1, <2>2 DEF WithSign
<1>7. CASE c # 0
  <2> HIDE DEF x
  <2>1. Scaled(x) = WithSign(c * u, n) /\ Signed(x) = WithSign(c, n)
    BY <1>4, <1>5, <1>7 DEF Signed, WithSign
  <2> QED BY <1>3, <2>1 DEF x
<1> QED
  BY <1>6, <1>7

(* Aligned to a precision f, a number is its aligned coefficient times the *)
(* unit of f.                                                              *)
LEMMA Aligned ==
  ASSUME NEW d \in Decimals, NEW f \in 0..MaxPrec, d.prec <= f
  PROVE  /\ Pow10[f - d.prec] \in Nat \ {0} /\ Pow10[MaxPrec - f] \in Nat \ {0}
         /\ d.coef * Pow10[f - d.prec] \in Nat
         /\ d.coef * Pow10[MaxPrec - d.prec] = (d.coef * Pow10[f - d.prec]) * Pow10[MaxPrec - f]
<1> DEFINE a == Pow10[f - d.prec]
           s == Pow10[MaxPrec - f]
<1>1. d.coef \in Nat /\ d.prec \in 0..MaxPrec
  BY DecimalFacts
<1>2. MaxPrec \in Nat
  BY PowFacts
<1>3. f - d.prec \in 0..2*MaxPrec /\ MaxPrec - f \in 0..2*MaxPrec
  BY <1>1, <1>2
<1>4. a \in Nat \ {0} /\ s \in Nat \ {0}
  BY <1>3, TableAssumption
<1>5. Pow10[MaxPrec - d.prec] = a * s
  <2>1. (f - d.prec) + (MaxPrec - f) = MaxPrec - d.prec /\ MaxPrec - d.prec <= 2*MaxPrec
    BY <1>1, <1>2
  <2> QED BY <1>3, <2>1, PowFacts
<1> HIDE DEF a, s
<1>6. d.coef * a \in Nat /\ d.coef * (a * s) = (d.coef * a) * s
  BY <1>1, <1>4
<1> QED
  BY <1>4, <1>5, <1>6 DEF a, s

----------------------------------------------------------------------------
(* The quotient and the remainder of num by den with the signs of QuoRem,  *)
(* in units of 1/s.                                                        *)
SignedQuoRem(num, den, s, dNeg, eNeg, q, r) ==
  LET a == WithSign(num * s, dNeg)
      b == WithSign(den * s, eNeg)
      rem == WithSign(r * s, dNeg)
  IN  /\ Abs(rem) < Abs(b)
      /\ WithSign(q, dNeg # eNeg) * b + rem = a
      /\ (a - rem) % Abs(b) = 0

LEMMA SignedDivision ==
  ASSUME NEW num \in Nat, NEW den \in Nat \ {0}, NEW s \in Nat \ {0},
         NEW dNeg \in BOOLEAN, NEW eNeg \in BOOLEAN,
         NEW q \in Nat, NEW r \in Nat, r < den, num = den * q + r
  PROVE  SignedQuoRem(num, den, s, dNeg, eNeg, q, r)
<1> DEFINE m == den * s
           t == r * s
<1>1. m \in Nat \ {0} /\ t \in Nat /\ num * s = m * q + t /\ t < m
  <2>1. den * s \in Nat \ {0} /\ r * s \in Nat
    OBVIOUS
  <2>2. (den * q + r) * s = (den * s) * q + r * s
    OBVIOUS
  <2>3. r * s < den * s
    OBVIOUS
  <2> QED BY <2>1, <2>2, <2>3
<1> DEFINE n == num * s
<1>2. n \in Nat /\ n = m * q + t /\ m * q \in Nat
  BY <1>1
<1> HIDE DEF m, t, n
<1>3. Abs(WithSign(t, dNeg)) = t /\ Abs(WithSign(m, eNeg)) = m
  BY <1>1 DEF WithSign, Abs
<1>4. WithSign(q, dNeg # eNeg) * WithSign(m, eNeg) = WithSign(m * q, dNeg)
  <2>1. q * m = m * q /\ q * (-m) = -(m * q) /\ (-q) * m = -(m * q) /\ (-q) * (-m) = m * q
    BY <1>1
  <2> QED BY <2>1 DEF WithSign
<1>5. WithSign(m * q, dNeg) + WithSign(t, dNeg) = WithSign(n, dNeg)
  BY <1>1, <1>2 DEF WithSign
<1>6. (WithSign(n, dNeg) - WithSign(t, dNeg)) % m = 0
  <2>1. WithSign(n, dNeg) - WithSign(t, dNeg) = WithSign(q, dNeg) * m /\ WithSign(q, dNeg) \in Int
    <3>1. q * m = m * q /\ (-q) * m = -(m * q)
      BY <1>1
    <3> QED BY <1>1, <1>2, <3>1 DEF WithSign
  <2> QED BY <1>1, <2>1, DivExactly
<1>7. Abs(WithSign(t, dNeg)) < Abs(WithSign(m, eNeg))
  BY <1>1, <1>3
<1>8. WithSign(q, dNeg # eNeg) * WithSign(m, eNeg) + WithSign(t, dNeg) = WithSign(n, dNeg)
  BY <1>4, <1>5
<1>9. (WithSign(n, dNeg) - WithSign(t, dNeg)) % Abs(WithSign(m, eNeg)) = 0
  BY <1>3, <1>6
<1> QED
  BY <1>7, <1>8, <1>9 DEF m, t, n, SignedQuoRem

(* QuoRem answers with the integral quotient and a remainder signed like   *)
(* the dividend at the larger precision, also where the divisor aligns     *)
(* above 128 bits; only a quotient of 2^128 or more is an overflow.        *)
THEOREM QuoRemIsExact ==
  ASSUME NEW d \in Decimals, NEW e \in Decimals, e.coef # 0
  PROVE  LET qr == QuoRem(d, e)
             a == Scaled(d)
             b == Scaled(e)
         IN  IF Abs(a) \div Abs(b) >= Cap
             THEN qr.err = "Overflow" /\ qr.quo = Zero /\ qr.rem = Zero
             ELSE /\ qr.err = "nil" /\ qr.quo \in Decimals /\ qr.rem \in Decimals
                  /\ qr.quo.prec = 0 /\ Abs(Scaled(qr.rem)) < Abs(b)
                  /\ qr.rem # Zero => qr.rem.neg = d.neg
                                      /\ qr.rem.prec = Larger(d.prec, e.prec)
                  /\ Signed(qr.quo) * b + Scaled(qr.rem) = a
                  /\ (a - Scaled(qr.rem)) % Abs(b) = 0
<1> DEFINE f == Larger(d.prec, e.prec)
           num == d.coef * Pow10[f - d.prec]
           den == e.coef * Pow10[f - e.prec]
           s == Pow10[MaxPrec - f]
           qr == QuoRem(d, e)
           a == Scaled(d)
           b == Scaled(e)
           Pair(q, r, err) == [quo |-> q, rem |-> r, err |-> err]
<1>1. /\ d.coef \in Nat /\ d.coef < Cap /\ d.neg \in BOOLEAN /\ d.prec \in 0..MaxPrec
      /\ e.coef \in Nat \ {0} /\ e.coef < Cap /\ e.neg \in BOOLEAN /\ e.prec \in 0..MaxPrec
      /\ Cap \in Nat /\ Cap \in Nat \ {0}
  <2>1. Cap \in Nat \ {0}
    BY CapFacts
  <2>2. d.coef \in Nat /\ d.coef < Cap /\ d.neg \in BOOLEAN /\ d.prec \in 0..MaxPrec
    BY DecimalFacts
  <2>3. e.coef \in Nat /\ e.coef < Cap /\ e.neg \in BOOLEAN /\ e.prec \in 0..MaxPrec
    BY DecimalFacts
  <2> QED BY <2>1, <2>2, <2>3
<1>2. f \in 0..MaxPrec /\ d.prec <= f /\ e.prec <= f
  BY <1>1, LargerPrec
<1>3. /\ s \in Nat \ {0} /\ num \in Nat /\ den \in Nat
      /\ d.coef * Pow10[MaxPrec - d.prec] = num * s
      /\ e.coef * Pow10[MaxPrec - e.prec] = den * s
      /\ Pow10[f - d.prec] \in Nat \ {0} /\ Pow10[f - e.prec] \in Nat \ {0}
  <2> HIDE DEF f
  <2> QED BY <1>2, Aligned
<1>4. den \in Nat \ {0}
  <2> DEFINE t == Pow10[f - e.prec]
  <2>1. t \in Nat \ {0}
    BY <1>3
  <2> HIDE DEF t
  <2>2. e.coef * t \in Nat \ {0}
    BY <1>1, <2>1
  <2> QED BY <2>2 DEF t
<1>5. /\ a = WithSign(num * s, d.neg) /\ Abs(a) = num * s
      /\ b = WithSign(den * s, e.neg) /\ Abs(b) = den * s
  BY <1>3, ScaledMagnitude
<1>6. qr = IF den >= Cap THEN Pair(Zero, d, "nil")
           ELSE IF num \div Cap >= den THEN Pair(Zero, Zero, "Overflow")
           ELSE Pair(NewDecimal(num \div den, d.neg # e.neg, 0),
                     NewDecimal(num % den, d.neg, f), "nil")
  BY <1>1 DEF QuoRem
<1>7. den >= Cap => num < den /\ f = d.prec
  <2> SUFFICES ASSUME den >= Cap
               PROVE  num < den /\ f = d.prec
    OBVIOUS
  <2>1. Pow10[0] = 1
    BY PowFacts
  <2>2. f # e.prec
    <3> SUFFICES ASSUME f = e.prec
                 PROVE  FALSE
      OBVIOUS
    <3>1. f - e.prec = 0
      BY <1>1
    <3>2. den = e.coef
      BY <1>1, <2>1, <3>1
    <3> HIDE DEF den
    <3> QED BY <1>1, <3>2
  <2>3. f = d.prec
    BY <1>1, <2>2 DEF Larger
  <2>4. f - d.prec = 0
    BY <1>1, <2>3
  <2>5. num = d.coef
    BY <1>1, <2>1, <2>4
  <2> HIDE DEF num, den, f
  <2> QED BY <1>1, <1>4, <2>3, <2>5
<1> HIDE DEF f, num, den, s, a, b, qr
<1>8. num \div den \in Nat /\ num % den \in Nat /\ num % den < den
      /\ num = den * (num \div den) + (num % den)
  <2>1. num \div den \in Nat /\ num % den \in Nat /\ num % den < den
    BY <1>3, <1>4, DivBelow
  <2>2. num \in Int
    BY <1>3
  <2> QED BY <1>4, <2>1, <2>2, DivMod
<1>9. /\ Abs(a) \div Abs(b) = num \div den
      /\ (num \div Cap >= den) <=> (num \div den >= Cap)
  <2>1. (num * s) \div (den * s) = num \div den
    BY <1>3, <1>4, DivScale
  <2>2. (num \div Cap >= den) <=> (num >= Cap * den)
    BY <1>1, <1>3, <1>4, DivBelow
  <2>3. (num \div den >= Cap) <=> (num >= den * Cap)
    BY <1>1, <1>3, <1>4, DivBelow
  <2>4. den * Cap = Cap * den
    BY <1>1, <1>4
  <2> QED BY <1>5, <2>1, <2>2, <2>3, <2>4
<1> DEFINE q == num \div den
           r == num % den
<1> HIDE DEF q, r
<1>10. CASE den >= Cap
  <2>1. num < den * 1 /\ 1 \in Nat
    BY <1>3, <1>4, <1>7, <1>10
  <2>2. q < 1
    BY <1>3, <1>4, <2>1, DivBelow DEF q
  <2>3. q = 0 /\ r = num /\ q < Cap
    BY <1>1, <1>3, <1>4, <1>8, <2>2 DEF q, r
  <2>4. qr = Pair(Zero, d, "nil") /\ Pair(Zero, d, "nil").rem = d
        /\ Pair(Zero, d, "nil").quo = Zero /\ Pair(Zero, d, "nil").err = "nil"
    BY <1>6, <1>10
  <2>5. ~(Abs(a) \div Abs(b) >= Cap)
    BY <1>1, <1>9, <2>3 DEF q
  <2>6. Abs(WithSign(num * s, d.neg)) < Abs(WithSign(den * s, e.neg))
    <3>1. num * s < den * s
      BY <1>3, <1>4, <1>7, <1>10
    <3> QED BY <1>5, <3>1
  <2>7. Scaled(d) = a /\ Abs(a) < Abs(b)
    BY <1>5, <2>6 DEF a
  <2>8. Signed(Zero) * b + a = a /\ Zero.prec = 0
    <3>1. b \in Int /\ a \in Int
      BY ScaledInt DEF a, b
    <3>2. Signed(Zero) = 0
      BY DEF Signed, Zero
    <3> HIDE DEF a, b
    <3> QED BY <3>1, <3>2 DEF Zero
  <2>9. (a - a) % Abs(b) = 0
    <3>1. a \in Int /\ Abs(b) \in Nat \ {0}
      <4>1. den * s \in Nat \ {0}
        BY <1>3, <1>4
      <4> QED BY <1>5, <4>1, ScaledInt DEF a
    <3>2. a - a = 0 * Abs(b)
      BY <3>1
    <3> QED BY <3>1, <3>2, DivExactly
  <2>10. f = d.prec /\ Zero \in Decimals
    BY <1>7, <1>10, Replies
  <2> QED
    BY <2>4, <2>5, <2>7, <2>8, <2>9, <2>10 DEF qr, a, b, f
<1>11. CASE ~(den >= Cap) /\ num \div Cap >= den
  <2>1. qr = Pair(Zero, Zero, "Overflow") /\ Abs(a) \div Abs(b) >= Cap
    BY <1>6, <1>9, <1>11
  <2> QED
    BY <2>1 DEF qr, a, b
<1>12. CASE ~(den >= Cap) /\ ~(num \div Cap >= den)
  <2> DEFINE quo == NewDecimal(q, d.neg # e.neg, 0)
             rem == NewDecimal(r, d.neg, f)
  <2>1. qr = Pair(quo, rem, "nil")
    BY <1>6, <1>12 DEF q, r
  <2>2. q \in Nat /\ r \in Nat /\ r < den /\ num = den * q + r
    BY <1>8 DEF q, r
  <2>3. q < Cap /\ ~(Abs(a) \div Abs(b) >= Cap)
    BY <1>1, <1>9, <1>12, <2>2 DEF q
  <2>4. r < Cap /\ (d.neg # e.neg) \in BOOLEAN /\ 0 \in 0..MaxPrec
    <3>1. r < Cap
      BY <1>1, <1>4, <1>12, <2>2
    <3>2. 0 \in 0..MaxPrec
      BY PowFacts
    <3> QED BY <3>1, <3>2
  <2>5. /\ quo \in Decimals /\ quo.prec = 0 /\ Signed(quo) = WithSign(q, d.neg # e.neg)
    <3>1. \A n \in BOOLEAN :
            /\ NewDecimal(q, n, 0) \in Decimals
            /\ NewDecimal(q, n, 0).prec = 0
            /\ Signed(NewDecimal(q, n, 0)) = WithSign(q, n)
      BY <2>2, <2>3, <2>4, MakeDecimal, ScaledNew DEF Zero
    <3> QED BY <2>4, <3>1
  <2>6. /\ rem \in Decimals /\ Scaled(rem) = WithSign(r * s, d.neg)
        /\ rem # Zero => rem.neg = d.neg /\ rem.prec = f
    BY <1>1, <1>2, <2>2, <2>4, MakeDecimal, ScaledNew DEF s
  <2>7. /\ Abs(WithSign(r * s, d.neg)) < Abs(b)
        /\ WithSign(q, d.neg # e.neg) * b + WithSign(r * s, d.neg) = a
        /\ (a - WithSign(r * s, d.neg)) % Abs(b) = 0
    <3>1. s \in Nat \ {0} /\ num \in Nat /\ den \in Nat \ {0}
      BY <1>3, <1>4
    <3>2. SignedQuoRem(num, den, s, d.neg, e.neg, q, r)
      BY <1>1, <2>2, <3>1, SignedDivision
    <3> QED BY <1>5, <3>2 DEF SignedQuoRem
  <2> HIDE DEF quo, rem
  <2>8. qr.quo = quo /\ qr.rem = rem /\ qr.err = "nil"
    BY <2>1
  <2>9. /\ Abs(Scaled(rem)) < Abs(b) /\ Signed(quo) * b + Scaled(rem) = a
        /\ (a - Scaled(rem)) % Abs(b) = 0
    BY <2>5, <2>6, <2>7
  <2> QED
    BY <2>3, <2>5, <2>6, <2>8, <2>9 DEF qr, a, b, f
<1> QED
  BY <1>10, <1>11, <1>12

LEMMA QuoRemTyped ==
  ASSUME NEW d \in Decimals, NEW e \in Decimals
  PROVE  /\ QuoRem(d, e).quo \in Decimals /\ QuoRem(d, e).rem \in Decimals
         /\ QuoRem(d, e).err \in Errors
         /\ IsReply(Mod(d, e)) /\ Mod(d, e).val = QuoRem(d, e).rem
         /\ Mod(d, e).err = QuoRem(d, e).err
<1>1. Zero \in Decimals /\ {"nil", "Overflow", "DivideByZero"} \subseteq Errors
  BY Replies DEF Errors
<1>2. CASE e.coef = 0
  BY <1>1, <1>2 DEF QuoRem, Mod, IsReply
<1>3. CASE e.coef # 0
  <2>1. /\ QuoRem(d, e).quo \in Decimals /\ QuoRem(d, e).rem \in Decimals
        /\ QuoRem(d, e).err \in {"nil", "Overflow"}
    BY <1>1, <1>3, QuoRemIsExact
  <2> QED BY <1>1, <2>1 DEF Mod, IsReply
<1> QED
  BY <1>2, <1>3

(* Mul truncates the exact product once, at DefaultPrec.                   *)
MulTruncated(d, e) ==
  LET pSum == d.prec + e.prec
      mag == (d.coef * e.coef) \div Pow10[Larger(pSum - DefaultPrec, 0)]
  IN  IF mag >= Cap THEN Fail("Overflow")
      ELSE Ok(NewDecimal(mag, d.neg # e.neg, Smaller(pSum, DefaultPrec)))

LEMMA MulIsTruncated ==
  ASSUME NEW d \in Decimals, NEW e \in Decimals
  PROVE  Mul(d, e) = MulTruncated(d, e) /\ IsReply(Mul(d, e))
<1> DEFINE pSum == d.prec + e.prec
           k == pSum - DefaultPrec
           prod == d.coef * e.coef
           neg == d.neg # e.neg
           mag == prod \div Pow10[Larger(k, 0)]
           prec == Smaller(pSum, DefaultPrec)
<1>1. /\ d.coef \in Nat /\ e.coef \in Nat /\ d.prec \in 0..MaxPrec /\ e.prec \in 0..MaxPrec
      /\ Cap \in Nat /\ MaxPrec \in Nat /\ DefaultPrec \in 1..MaxPrec
  BY DecimalFacts, CapFacts, PowFacts, DefaultPrecAssumption
<1>2. prod \in Nat /\ pSum \in Nat /\ k \in Int
  BY <1>1
<1>3. prec \in 0..MaxPrec /\ neg \in BOOLEAN
  BY <1>1 DEF Smaller
<1>4. /\ mag \in Nat
      /\ Mul(d, e) = IF mag >= Cap THEN Fail("Overflow") ELSE Ok(NewDecimal(mag, neg, prec))
  <2>1. CASE pSum <= DefaultPrec
    <3>1. Larger(k, 0) = 0 /\ prec = pSum
      BY <1>1, <1>2, <2>1 DEF Larger, Smaller
    <3>2. mag = prod
      <4>1. Pow10[0] = 1
        BY PowFacts
      <4> HIDE DEF prod
      <4> QED BY <1>2, <3>1, <4>1
    <3>3. Mul(d, e) = IF ZeroUpper(prod) THEN Ok(NewDecimal(prod, neg, pSum))
                                         ELSE Fail("Overflow")
      BY <2>1 DEF Mul
    <3> HIDE DEF mag, prod, neg, prec, pSum
    <3> QED BY <1>1, <1>2, <3>1, <3>2, <3>3 DEF ZeroUpper
  <2>2. CASE ~(pSum <= DefaultPrec)
    <3>1. Larger(k, 0) = k /\ prec = DefaultPrec /\ k \in 0..2*MaxPrec
      BY <1>1, <1>2, <2>2 DEF Larger, Smaller
    <3> DEFINE quot == DivU256Pow10(prod, k)
    <3>2. Mul(d, e) = IF quot.err = "nil" THEN Ok(NewDecimal(quot.val, neg, DefaultPrec))
                                          ELSE Fail(quot.err)
      BY <2>2 DEF Mul
    <3>3. /\ prod \div Pow10[k] \in Nat
          /\ quot = IF prod \div Pow10[k] >= Cap THEN [val |-> 0, err |-> "Overflow"]
                    ELSE [val |-> prod \div Pow10[k], err |-> "nil"]
      <4> HIDE DEF prod, k
      <4> QED BY <1>2, <3>1, DivU256Pow10Exact
    <3>4. mag = prod \div Pow10[k]
      BY <3>1
    <3> HIDE DEF mag, prod, neg, prec, pSum, k, quot
    <3>5. mag >= Cap => Mul(d, e) = Fail("Overflow")
      BY <3>2, <3>3, <3>4
    <3>6. ~(mag >= Cap) => Mul(d, e) = Ok(NewDecimal(mag, neg, prec))
      BY <3>1, <3>2, <3>3, <3>4
    <3> QED BY <3>3, <3>4, <3>5, <3>6
  <2> QED BY <2>1, <2>2
<1>5. Mul(d, e) = MulTruncated(d, e)
  BY <1>4 DEF MulTruncated
<1> HIDE DEF mag, prec, neg
<1>6. IsReply(Mul(d, e))
  <2>1. "Overflow" \in Errors
    BY DEF Errors
  <2>2. mag < Cap => IsReply(Ok(NewDecimal(mag, neg, prec)))
    BY <1>3, <1>4, MakeDecimal
  <2> QED BY <1>1, <1>4, <2>1, <2>2, Replies
<1> QED
  BY <1>5, <1>6

----------------------------------------------------------------------------
(* IntPart is the truncated integer part, and fails exactly outside Int64. *)
LEMMA IntPartIsExact ==
  ASSUME NEW d \in Decimals
  PROVE  LET mag == Abs(Scaled(d)) \div Pow10[MaxPrec]
             int == IF d.neg THEN -mag ELSE mag
         IN  IF int \in Int64 THEN IntPart(d).err = "nil" /\ IntPart(d).int = int
                              ELSE IntPart(d).err = "IntPartOverflow"
<1> DEFINE mag == Abs(Scaled(d)) \div Pow10[MaxPrec]
           q == d.coef \div Pow10[d.prec]
           half == Base \div 2
<1>1. d.coef \in Nat /\ d.prec \in 0..MaxPrec /\ d.neg \in BOOLEAN
  BY DecimalFacts
<1>2. MaxPrec \in Nat /\ MaxPrec \in 0..2*MaxPrec /\ d.prec \in 0..2*MaxPrec /\ d.prec <= MaxPrec
  BY <1>1, PowFacts
<1>3. mag = q /\ q \in Nat
  <2> DEFINE u == Pow10[d.prec]
             s == Pow10[MaxPrec - d.prec]
  <2>1. u \in Nat \ {0} /\ s \in Nat \ {0} /\ Pow10[MaxPrec] = u * s
    BY <1>2, PowRatio
  <2>2. Abs(Scaled(d)) = d.coef * s
    BY ScaledMagnitude
  <2> HIDE DEF u, s
  <2>3. (d.coef * s) \div (u * s) = d.coef \div u /\ d.coef \div u \in Nat
    BY <1>1, <2>1, DivScale, DivBelow
  <2> QED BY <2>1, <2>2, <2>3 DEF u
<1>4. Base \in Nat /\ half \in Nat /\ half >= 1 /\ half < Base
  <2>1. Base \in Nat /\ Base >= 4
    BY WordAssumption
  <2> QED BY <2>1
<1>5. Int64 = (-half)..(half - 1)
  BY DEF Int64
<1>6. IntPart(d) = IF ~(q < Base) \/ q > half \/ (q = half /\ ~d.neg)
                   THEN [int |-> 0, err |-> "IntPartOverflow"]
                   ELSE [int |-> IF d.neg THEN -q ELSE q, err |-> "nil"]
  BY DEF IntPart, OneLimb
<1> HIDE DEF mag, q, half
<1>7. ((IF d.neg THEN -q ELSE q) \in Int64)
         <=> ~(~(q < Base) \/ q > half \/ (q = half /\ ~d.neg))
  <2>1. q \in Nat
    BY <1>3
  <2>2. (-q \in Int64) <=> q <= half
    BY <1>4, <1>5, <2>1
  <2>3. (q \in Int64) <=> q < half
    BY <1>4, <1>5, <2>1
  <2> QED BY <1>1, <1>4, <2>1, <2>2, <2>3
<1>8. IF (IF d.neg THEN -q ELSE q) \in Int64
      THEN IntPart(d).err = "nil" /\ IntPart(d).int = (IF d.neg THEN -q ELSE q)
      ELSE IntPart(d).err = "IntPartOverflow"
  BY <1>6, <1>7
<1> QED
  BY <1>3, <1>8 DEF mag

----------------------------------------------------------------------------
LEMMA SignFacts ==
  ASSUME NEW x \in Int
  PROVE  /\ Sign3(-x) = -Sign3(x) /\ Sign3(x) \in -1..1
         /\ Sign3(x) = 0 <=> x = 0
         /\ \A s \in Nat \ {0} : Sign3(x * s) = Sign3(x)
<1>1. \A s \in Nat \ {0} : /\ x < 0 => x * s < 0
                           /\ x > 0 => x * s > 0
                           /\ x = 0 => x * s = 0
                           /\ x * s \in Int
  OBVIOUS
<1> QED
  BY <1>1 DEF Sign3

(* Two precisions: the aligned magnitudes are compared, also where the     *)
(* widened one exceeds 128 bits.                                           *)
LEMMA CmpUnalignedExact ==
  ASSUME NEW d \in Decimals, NEW e \in Decimals, d.prec # e.prec,
         NEW f, f = Larger(d.prec, e.prec)
  PROVE  CmpUnaligned(d, e) = Sign3(d.coef * Pow10[f - d.prec] - e.coef * Pow10[f - e.prec])
<1>1. /\ d.coef \in Nat /\ d.coef < Cap /\ d.prec \in 0..MaxPrec
      /\ e.coef \in Nat /\ e.coef < Cap /\ e.prec \in 0..MaxPrec
      /\ Cap \in Nat /\ MaxPrec \in Nat
  BY DecimalFacts, CapFacts, PowFacts
<1>2. Pow10[0] = 1
  BY PowFacts
<1>3. CASE d.prec < e.prec
  <2> DEFINE w == d.coef * Pow10[e.prec - d.prec]
  <2>1. f = e.prec /\ f - e.prec = 0 /\ ~(d.prec > e.prec)
    BY <1>1, <1>3 DEF Larger
  <2>2. w \in Nat
    <3>1. e.prec - d.prec \in 0..2*MaxPrec
      BY <1>1, <1>3
    <3>2. Pow10[e.prec - d.prec] \in Nat
      BY <3>1, TableAssumption
    <3> QED BY <1>1, <3>2
  <2>3. CmpUnaligned(d, e) = IF w >= Cap THEN 1 ELSE 1 * Cmp128(w, e.coef)
    BY <2>1 DEF CmpUnaligned
  <2>4. e.coef * Pow10[f - e.prec] = e.coef
    BY <1>1, <1>2, <2>1
  <2>5. d.coef * Pow10[f - d.prec] = w
    BY <2>1
  <2> HIDE DEF w
  <2> QED
    BY <1>1, <2>2, <2>3, <2>4, <2>5 DEF Cmp128, Sign3
<1>4. CASE d.prec > e.prec
  <2> DEFINE w == e.coef * Pow10[d.prec - e.prec]
  <2>1. f = d.prec /\ f - d.prec = 0
    BY <1>1, <1>4 DEF Larger
  <2>2. w \in Nat
    <3>1. d.prec - e.prec \in 0..2*MaxPrec
      BY <1>1, <1>4
    <3>2. Pow10[d.prec - e.prec] \in Nat
      BY <3>1, TableAssumption
    <3> QED BY <1>1, <3>2
  <2>3. CmpUnaligned(d, e) = IF w >= Cap THEN -1 ELSE (-1) * Cmp128(w, d.coef)
    BY <1>4 DEF CmpUnaligned
  <2>4. d.coef * Pow10[f - d.prec] = d.coef
    BY <1>1, <1>2, <2>1
  <2>5. e.coef * Pow10[f - e.prec] = w
    BY <2>1
  <2> HIDE DEF w
  <2> QED
    BY <1>1, <2>2, <2>3, <2>4, <2>5 DEF Cmp128, Sign3
<1> QED
  BY <1>1, <1>3, <1>4

(* Cmp orders Decimals by the numbers they denote.                         *)
THEOREM CmpIsExact ==
  ASSUME NEW d \in Decimals, NEW e \in Decimals
  PROVE  Cmp(d, e) = Sign3(Scaled(d) - Scaled(e))
<1> DEFINE f == Larger(d.prec, e.prec)
           a == d.coef * Pow10[f - d.prec]
           b == e.coef * Pow10[f - e.prec]
           s == Pow10[MaxPrec - f]
           c == IF d.prec = e.prec THEN Cmp128(d.coef, e.coef) ELSE CmpUnaligned(d, e)
<1>1. /\ d.coef \in Nat /\ d.neg \in BOOLEAN /\ d.prec \in 0..MaxPrec
      /\ e.coef \in Nat /\ e.neg \in BOOLEAN /\ e.prec \in 0..MaxPrec
  BY DecimalFacts
<1>2. /\ d.coef = 0 => d.neg = FALSE
      /\ e.coef = 0 => e.neg = FALSE
  BY DecimalFacts
<1>3. f \in 0..MaxPrec /\ d.prec <= f /\ e.prec <= f
  BY <1>1, LargerPrec
<1>4. /\ a \in Nat /\ b \in Nat /\ s \in Nat \ {0}
      /\ d.coef * Pow10[MaxPrec - d.prec] = a * s
      /\ e.coef * Pow10[MaxPrec - e.prec] = b * s
      /\ Pow10[f - d.prec] \in Nat \ {0} /\ Pow10[f - e.prec] \in Nat \ {0}
  <2> HIDE DEF f
  <2> QED BY <1>3, Aligned
<1>5. Scaled(d) = WithSign(a * s, d.neg) /\ Scaled(e) = WithSign(b * s, e.neg)
  BY <1>4, ScaledMagnitude
<1>6. c = Sign3(a - b)
  <2>1. CASE d.prec = e.prec
    <3>1. f - d.prec = 0 /\ f - e.prec = 0 /\ Pow10[0] = 1
      BY <1>1, <2>1, PowFacts DEF Larger
    <3>2. a = d.coef /\ b = e.coef
      <4> HIDE DEF f
      <4> QED BY <1>1, <3>1
    <3> QED BY <2>1, <3>2 DEF Cmp128
  <2>2. CASE d.prec # e.prec
    BY <2>2, CmpUnalignedExact
  <2> QED BY <2>1, <2>2
<1>7. Cmp(d, e) = IF d.neg # e.neg THEN (IF d.neg THEN -1 ELSE 1)
                  ELSE IF d.neg THEN -c ELSE c
  <2>1. CASE d.neg # e.neg
    BY <2>1 DEF Cmp
  <2>2. CASE d.neg = e.neg /\ d.prec = e.prec
    BY <2>2 DEF Cmp
  <2>3. CASE d.neg = e.neg /\ d.prec # e.prec
    BY <2>3 DEF Cmp
  <2> QED BY <2>1, <2>2, <2>3
<1>8. /\ d.neg => a * s > 0
      /\ e.neg => b * s > 0
  <2>1. \A x, y, z \in Nat : x # 0 /\ y # 0 /\ z # 0 => x * y # 0 /\ (x * y) * z > 0
    OBVIOUS
  <2>2. Pow10[f - d.prec] \in Nat \ {0} /\ Pow10[f - e.prec] \in Nat \ {0} /\ s \in Nat \ {0}
    BY <1>4
  <2> HIDE DEF s, f
  <2> QED BY <1>1, <1>2, <2>1, <2>2
<1>9. a * s \in Nat /\ b * s \in Nat /\ a - b \in Int /\ (a - b) * s = a * s - b * s
  <2> HIDE DEF a, b, s
  <2> QED BY <1>4
<1> HIDE DEF a, b, s, c, f
<1> DEFINE as == a * s
           bs == b * s
<1>10. as \in Nat /\ bs \in Nat
  BY <1>9
<1>19. as - bs = (a - b) * s
  BY <1>9
<1>11. Sign3(as - bs) = c /\ Sign3(-(as - bs)) = -c
  <2>1. Sign3((a - b) * s) = Sign3(a - b)
    BY <1>4, <1>9, SignFacts
  <2>2. as - bs \in Int
    BY <1>10
  <2>3. Sign3(as - bs) = c
    BY <1>6, <1>19, <2>1
  <2> HIDE DEF as, bs
  <2>4. Sign3(-(as - bs)) = -Sign3(as - bs)
    BY <2>2, SignFacts
  <2> QED BY <2>3, <2>4
<1>12. (d.neg => as > 0) /\ (e.neg => bs > 0)
  BY <1>8
<1>13. Scaled(d) = WithSign(as, d.neg) /\ Scaled(e) = WithSign(bs, e.neg)
  BY <1>5
<1> HIDE DEF as, bs
<1>14. /\ d.neg => Scaled(d) = -as
       /\ ~d.neg => Scaled(d) = as
       /\ e.neg => Scaled(e) = -bs
       /\ ~e.neg => Scaled(e) = bs
  BY <1>13 DEF WithSign
<1>15. ASSUME NEW x \in Nat, NEW y \in Nat
       PROVE  /\ x > 0 => Sign3(-x - y) = -1
              /\ y > 0 => Sign3(x - (-y)) = 1
              /\ -x - (-y) = -(x - y)
  BY DEF Sign3
<1>16. CASE d.neg /\ ~e.neg
  <2>1. Scaled(d) = -as /\ Scaled(e) = bs /\ as > 0
    BY <1>12, <1>14, <1>16
  <2>2. Cmp(d, e) = -1
    BY <1>7, <1>16
  <2>3. Sign3(Scaled(d) - Scaled(e)) = Sign3(-as - bs)
    BY <2>1
  <2>4. Sign3(-as - bs) = -1
    BY <1>10, <1>15, <2>1
  <2> QED BY <2>2, <2>3, <2>4
<1>17. CASE ~d.neg /\ e.neg
  <2>1. Scaled(d) = as /\ Scaled(e) = -bs /\ bs > 0
    BY <1>12, <1>14, <1>17
  <2>2. Cmp(d, e) = 1
    BY <1>7, <1>17
  <2>3. Sign3(Scaled(d) - Scaled(e)) = Sign3(as - (-bs))
    BY <2>1
  <2>4. Sign3(as - (-bs)) = 1
    BY <1>10, <1>15, <2>1
  <2> QED BY <2>2, <2>3, <2>4
<1>18. CASE d.neg /\ e.neg
  <2>1. Scaled(d) = -as /\ Scaled(e) = -bs
    BY <1>14, <1>18
  <2>2. Cmp(d, e) = -c
    BY <1>1, <1>7, <1>18
  <2>3. Scaled(d) - Scaled(e) = -(as - bs)
    BY <1>10, <1>15, <2>1
  <2>4. Sign3(Scaled(d) - Scaled(e)) = Sign3(-(as - bs))
    BY <2>3
  <2> QED BY <1>11, <2>2, <2>4
<1>20. CASE ~d.neg /\ ~e.neg
  <2>1. Scaled(d) = as /\ Scaled(e) = bs
    BY <1>14, <1>20
  <2>2. Cmp(d, e) = c
    BY <1>1, <1>7, <1>20
  <2>3. Sign3(Scaled(d) - Scaled(e)) = Sign3(as - bs)
    BY <2>1
  <2> QED BY <1>11, <2>2, <2>3
<1> QED
  BY <1>16, <1>17, <1>18, <1>20

----------------------------------------------------------------------------
(* Three arguments: the fold of Min and Max, one comparison after the      *)
(* other.                                                                  *)
Fold3(x, y, z, Better(_, _)) ==
  LET two == IF Better(y, x) THEN y ELSE x
  IN  IF Better(z, two) THEN z ELSE two

LEMMA MinMaxUnfold ==
  ASSUME NEW x, NEW y, NEW z
  PROVE  LET Less(a, b) == Cmp(a, b) < 0
             More(a, b) == Cmp(a, b) > 0
         IN  /\ MinOf(<<x, y, z>>) = Fold3(x, y, z, Less)
             /\ MaxOf(<<x, y, z>>) = Fold3(x, y, z, More)
<1> DEFINE s == <<x, y, z>>
           Less(a, b) == Cmp(a, b) < 0
           More(a, b) == Cmp(a, b) > 0
           LessBody(best) == [i \in 1..Len(s) |->
              IF i = 1 THEN s[1] ELSE IF Less(s[i], best[i - 1]) THEN s[i] ELSE best[i - 1]]
           MoreBody(best) == [i \in 1..Len(s) |->
              IF i = 1 THEN s[1] ELSE IF More(s[i], best[i - 1]) THEN s[i] ELSE best[i - 1]]
<1>1. Len(s) = 3 /\ s[1] = x /\ s[2] = y /\ s[3] = z
  OBVIOUS
<1>2. MinOf(s) = (CHOOSE best : best = LessBody(best))[3]
  BY <1>1 DEF MinOf, Extreme
<1>3. MaxOf(s) = (CHOOSE best : best = MoreBody(best))[3]
  BY <1>1 DEF MaxOf, Extreme
<1> HIDE DEF s
<1>4. \E best : best = LessBody(best)
  <2> DEFINE two == IF Less(y, x) THEN y ELSE x
             g == [i \in 1..Len(s) |-> IF i = 1 THEN x ELSE IF i = 2 THEN two
                                       ELSE IF Less(z, two) THEN z ELSE two]
  <2> HIDE DEF Less
  <2>1. g[1] = x /\ g[2] = two
    BY <1>1
  <2>2. \A i \in 1..Len(s) : g[i] =
           IF i = 1 THEN s[1] ELSE IF Less(s[i], g[i - 1]) THEN s[i] ELSE g[i - 1]
    <3> TAKE i \in 1..Len(s)
    <3>1. i = 1 \/ i = 2 \/ i = 3
      BY <1>1
    <3>2. CASE i = 1
      BY <1>1, <3>2
    <3>3. CASE i = 2
      <4>1. i - 1 = 1 /\ g[i] = two
        BY <3>3
      <4> HIDE DEF g
      <4> QED BY <1>1, <2>1, <3>3, <4>1
    <3>4. CASE i = 3
      <4>1. i - 1 = 2 /\ g[i] = (IF Less(z, two) THEN z ELSE two)
        BY <3>4
      <4> HIDE DEF g, two
      <4> QED BY <1>1, <2>1, <3>4, <4>1
    <3> QED BY <3>1, <3>2, <3>3, <3>4
  <2>3. g = LessBody(g)
    <3>1. g = [i \in 1..Len(s) |-> g[i]]
      OBVIOUS
    <3> HIDE DEF g
    <3> QED BY <2>2, <3>1
  <2> QED BY <2>3
<1>5. \E best : best = MoreBody(best)
  <2> DEFINE two == IF More(y, x) THEN y ELSE x
             g == [i \in 1..Len(s) |-> IF i = 1 THEN x ELSE IF i = 2 THEN two
                                       ELSE IF More(z, two) THEN z ELSE two]
  <2> HIDE DEF More
  <2>1. g[1] = x /\ g[2] = two
    BY <1>1
  <2>2. \A i \in 1..Len(s) : g[i] =
           IF i = 1 THEN s[1] ELSE IF More(s[i], g[i - 1]) THEN s[i] ELSE g[i - 1]
    <3> TAKE i \in 1..Len(s)
    <3>1. i = 1 \/ i = 2 \/ i = 3
      BY <1>1
    <3>2. CASE i = 1
      BY <1>1, <3>2
    <3>3. CASE i = 2
      <4>1. i - 1 = 1 /\ g[i] = two
        BY <3>3
      <4> HIDE DEF g
      <4> QED BY <1>1, <2>1, <3>3, <4>1
    <3>4. CASE i = 3
      <4>1. i - 1 = 2 /\ g[i] = (IF More(z, two) THEN z ELSE two)
        BY <3>4
      <4> HIDE DEF g, two
      <4> QED BY <1>1, <2>1, <3>4, <4>1
    <3> QED BY <3>1, <3>2, <3>3, <3>4
  <2>3. g = MoreBody(g)
    <3>1. g = [i \in 1..Len(s) |-> g[i]]
      OBVIOUS
    <3> HIDE DEF g
    <3> QED BY <2>2, <3>1
  <2> QED BY <2>3
<1>6. ASSUME NEW best, best = LessBody(best)
      PROVE  best[3] = Fold3(x, y, z, Less)
  <2> HIDE DEF Less
  <2>1. best[1] = x
    BY <1>1, <1>6
  <2>2. best[2] = IF Less(y, best[1]) THEN y ELSE best[1]
    BY <1>1, <1>6
  <2>3. best[3] = IF Less(z, best[2]) THEN z ELSE best[2]
    BY <1>1, <1>6
  <2> QED BY <2>1, <2>2, <2>3 DEF Fold3
<1>7. ASSUME NEW best, best = MoreBody(best)
      PROVE  best[3] = Fold3(x, y, z, More)
  <2> HIDE DEF More
  <2>1. best[1] = x
    BY <1>1, <1>7
  <2>2. best[2] = IF More(y, best[1]) THEN y ELSE best[1]
    BY <1>1, <1>7
  <2>3. best[3] = IF More(z, best[2]) THEN z ELSE best[2]
    BY <1>1, <1>7
  <2> QED BY <2>1, <2>2, <2>3 DEF Fold3
<1>8. MinOf(s) = Fold3(x, y, z, Less)
  <2> DEFINE best == CHOOSE best : best = LessBody(best)
  <2>1. best = LessBody(best)
    BY <1>4
  <2> HIDE DEF best, LessBody
  <2>2. best[3] = Fold3(x, y, z, Less)
    BY <1>6, <2>1
  <2> QED BY <1>2, <2>2 DEF best
<1>9. MaxOf(s) = Fold3(x, y, z, More)
  <2> DEFINE best == CHOOSE best : best = MoreBody(best)
  <2>1. best = MoreBody(best)
    BY <1>5
  <2> HIDE DEF best, MoreBody
  <2>2. best[3] = Fold3(x, y, z, More)
    BY <1>7, <2>1
  <2> QED BY <1>3, <2>2 DEF best
<1> QED
  BY <1>8, <1>9 DEF s

----------------------------------------------------------------------------
(* Both half comparisons order twice the remainder against the divisor,    *)
(* also when the doubled remainder carries out of 128 bits.                *)
LEMMA HalfComparisons ==
  ASSUME NEW den \in 1..(Cap - 1), NEW r \in 0..(den - 1)
  PROVE  /\ CmpDouble128(r, den) = Sign3(2 * r - den)
         /\ CmpHalf64(r, den) = Sign3(2 * r - den)
<1>1. Cap \in Nat /\ den \in Nat /\ r \in Nat /\ r < den /\ den < Cap
  BY CapFacts
<1>2. CmpHalf64(r, den) = Sign3(2 * r - den)
  BY <1>1 DEF CmpHalf64, Sign3
<1>3. CASE r + r < Cap
  BY <1>1, <1>2, <1>3 DEF CmpDouble128, Add128, Cmp128, Sign3
<1>4. CASE r + r >= Cap
  BY <1>1, <1>2, <1>4 DEF CmpDouble128, Add128, Sign3
<1> QED
  BY <1>1, <1>3, <1>4, <1>2

(* Rounding up exactly when roundsUp says so is rounding correctly.        *)
LEMMA RoundsUpCorrect ==
  ASSUME NEW q \in Nat, NEW den \in Nat \ {0}, NEW r \in 0..(den - 1),
         NEW neg \in BOOLEAN, NEW mode \in Modes
  PROVE  RoundedTo(IF RoundsUp(mode, r # 0, Sign3(2 * r - den), IsOdd(q), neg)
                   THEN q + 1 ELSE q, q * den + r, den, neg, mode)
<1> DEFINE num == q * den + r
           up == RoundsUp(mode, r # 0, Sign3(2 * r - den), IsOdd(q), neg)
<1>1. den \in Nat /\ den >= 1 /\ r \in Nat /\ r < den
  OBVIOUS
<1>2. q * den - num = -r /\ (q + 1) * den - num = den - r
  <2>1. q * den \in Nat /\ (q + 1) * den = q * den + den
    BY <1>1
  <2> QED
    BY <1>1, <2>1
<1>3. IsOdd(q) \in BOOLEAN /\ IsOdd(q + 1) = ~IsOdd(q)
  BY DEF IsOdd
<1> HIDE DEF num
<1>4. CASE up
  <2>1. q + 1 \in Int /\ den - r \in Int /\ r # 0
    BY <1>1, <1>4 DEF RoundsUp
  <2>2. RoundedTo(q + 1, num, den, neg, mode)
    <3>1. CASE mode \in {"TowardZero", "AwayFromZero", "TowardPositive", "TowardNegative"}
      <4>1. mode = "AwayFromZero" \/ (mode = "TowardPositive" /\ ~neg)
                                  \/ (mode = "TowardNegative" /\ neg)
        BY <1>4, <3>1 DEF RoundsUp
      <4>2. den - r \in 0..(den - 1)
        BY <1>1, <2>1
      <4>3. (q + 1) * den - num \in 0..(den - 1)
        BY <1>2, <4>2
      <4> QED
        BY <4>1, <4>3 DEF RoundedTo
    <3>2. CASE mode = "ToNearestAway"
      <4>1. 2 * r - den >= 0
        BY <1>1, <1>4, <3>2 DEF RoundsUp, Sign3
      <4> QED
        BY <1>1, <1>2, <2>1, <3>2, <4>1 DEF RoundedTo
    <3>3. CASE mode = "ToNearestEven"
      <4>1. 2 * r - den > 0 \/ (2 * r - den = 0 /\ IsOdd(q))
        BY <1>1, <1>4, <3>3 DEF RoundsUp, Sign3
      <4>2. 2 * Abs((q + 1) * den - num) <= den
            /\ (2 * Abs((q + 1) * den - num) = den => 2 * r - den = 0)
        BY <1>1, <1>2, <4>1 DEF Abs
      <4>3. 2 * r - den = 0 => IsOdd(q)
        BY <1>1, <4>1
      <4> QED
        BY <1>3, <3>3, <4>2, <4>3 DEF RoundedTo
    <3> QED
      BY <3>1, <3>2, <3>3 DEF Modes
  <2> QED
    BY <1>4, <2>2 DEF num
<1>5. CASE ~up
  <2>1. q \in Int /\ -r \in Int
    BY <1>1
  <2>2. RoundedTo(q, num, den, neg, mode)
    <3>1. CASE mode \in {"TowardZero", "AwayFromZero", "TowardPositive", "TowardNegative"}
      <4>1. r = 0 \/ mode = "TowardZero" \/ (mode = "TowardPositive" /\ neg)
                  \/ (mode = "TowardNegative" /\ ~neg)
        BY <1>5, <3>1 DEF RoundsUp
      <4>2. q * den - num \in (1 - den)..0 /\ (r = 0 => q * den - num \in 0..(den - 1))
        BY <1>1, <1>2
      <4> QED
        BY <3>1, <4>1, <4>2 DEF RoundedTo
    <3>2. CASE mode = "ToNearestAway"
      <4>1. r = 0 \/ 2 * r - den < 0
        BY <1>1, <1>5, <3>2 DEF RoundsUp, Sign3
      <4> QED
        BY <1>1, <1>2, <2>1, <3>2, <4>1 DEF RoundedTo
    <3>3. CASE mode = "ToNearestEven"
      <4>1. r = 0 \/ 2 * r - den < 0 \/ (2 * r - den = 0 /\ ~IsOdd(q))
        BY <1>1, <1>5, <3>3 DEF RoundsUp, Sign3
      <4>2. 2 * Abs(q * den - num) <= den
            /\ (2 * Abs(q * den - num) = den => 2 * r - den = 0 /\ r # 0)
        BY <1>1, <1>2, <4>1 DEF Abs
      <4>3. 2 * r - den = 0 /\ r # 0 => ~IsOdd(q)
        BY <1>1, <4>1
      <4> QED
        BY <1>3, <3>3, <4>2, <4>3 DEF RoundedTo
    <3> QED
      BY <3>1, <3>2, <3>3 DEF Modes
  <2> QED
    BY <1>5, <2>2 DEF num
<1> QED
  BY <1>4, <1>5

(* divRoundWide followed by roundQuotient, the tail of DivRound, MulRound  *)
(* and MulDivRound, rounds num/den once: it returns the correctly rounded  *)
(* coefficient, or ErrOverflow when that is 2^128 or more.                 *)
THEOREM DivisionRoundsOnce ==
  ASSUME NEW num \in Nat, NEW den \in 1..(Cap - 1), NEW neg \in BOOLEAN, NEW mode \in Modes
  PROVE  LET quot == DivRoundWide(num, den)
             rounded == RoundQuotient(quot.q, quot.rem, quot.half, neg, mode)
         IN  IF ~quot.fits THEN num >= den * Cap
             ELSE IF rounded.err = "nil"
             THEN rounded.val < Cap /\ RoundedTo(rounded.val, num, den, neg, mode)
             ELSE rounded.err = "Overflow" /\ RoundedTo(Cap, num, den, neg, mode)
<1> DEFINE q == num \div den
           r == num % den
           quot == DivRoundWide(num, den)
           rounded == RoundQuotient(quot.q, quot.rem, quot.half, neg, mode)
           up == RoundsUp(mode, r # 0, Sign3(2 * r - den), IsOdd(q), neg)
<1>1. Cap \in Nat /\ Cap >= 16 /\ den \in Nat /\ den >= 1 /\ den < Cap
  BY CapFacts
<1>2. q \in Nat /\ r \in 0..(den - 1) /\ num = q * den + r
  BY <1>1
<1>3. CASE num \div Cap >= den
  <2>1. (num \div Cap) * Cap <= num /\ num \div Cap \in Nat
    BY <1>1
  <2>2. \A a, b, c \in Nat : a >= b => b * c <= a * c
    OBVIOUS
  <2>3. den * Cap <= (num \div Cap) * Cap /\ den * Cap \in Nat /\ (num \div Cap) * Cap \in Nat
    BY <1>1, <1>3, <2>1, <2>2
  <2>4. num >= den * Cap
    BY <2>1, <2>3
  <2> QED
    BY <1>3, <2>4 DEF DivRoundWide, NoFit
<1>4. CASE ~(num \div Cap >= den)
  <2>1. q < Cap
    BY <1>1, <1>2, <1>4
  <2>2. quot.fits /\ quot.q = q /\ quot.rem = (r # 0) /\ quot.half = Sign3(2 * r - den)
    BY <1>1, <1>2, <1>4, HalfComparisons DEF DivRoundWide, Quot
  <2>3. rounded = IF ~up THEN [val |-> q, err |-> "nil"]
                  ELSE IF q = Cap - 1 THEN [val |-> 0, err |-> "Overflow"]
                  ELSE [val |-> Inc128(q), err |-> "nil"]
    <3> HIDE DEF q, r, quot
    <3> QED
      BY <2>2 DEF RoundQuotient
  <2>4. RoundedTo(IF up THEN q + 1 ELSE q, num, den, neg, mode)
    <3>1. den \in Nat \ {0}
      BY <1>1
    <3> HIDE DEF q, r
    <3> QED
      BY <1>2, <3>1, RoundsUpCorrect
  <2>5. q # Cap - 1 => Inc128(q) = q + 1 /\ q + 1 < Cap
    BY <1>1, <1>2, <2>1 DEF Inc128, Add128
  <2> HIDE DEF q, r, quot, rounded, up
  <2>6. IF rounded.err = "nil"
        THEN rounded.val < Cap /\ RoundedTo(rounded.val, num, den, neg, mode)
        ELSE rounded.err = "Overflow" /\ RoundedTo(Cap, num, den, neg, mode)
    BY <1>1, <1>2, <2>1, <2>3, <2>4, <2>5
  <2> QED
    BY <2>2, <2>6 DEF quot, rounded
<1> QED
  BY <1>3, <1>4

----------------------------------------------------------------------------
(* The rounded coefficient, by quotient and remainder.                     *)
UpFrom(num, den, neg, mode) ==
  RoundsUp(mode, num % den # 0, Sign3(2 * (num % den) - den), IsOdd(num \div den), neg)
RoundedCoef(num, den, neg, mode) ==
  IF UpFrom(num, den, neg, mode) THEN num \div den + 1 ELSE num \div den

(* At most one neighbour of the quotient is a correct rounding.            *)
LEMMA OneRounding ==
  ASSUME NEW q \in Nat, NEW den \in Nat \ {0}, NEW r \in 0..(den - 1),
         NEW neg \in BOOLEAN, NEW mode \in Modes
  PROVE  ~ (RoundedTo(q, q * den + r, den, neg, mode)
              /\ RoundedTo(q + 1, q * den + r, den, neg, mode))
<1> DEFINE num == q * den + r
<1>1. den \in Nat /\ den >= 1 /\ r \in Nat /\ r < den
  OBVIOUS
<1>2. q * den - num = -r /\ (q + 1) * den - num = den - r
  <2>1. q * den \in Nat /\ (q + 1) * den = q * den + den
    BY <1>1
  <2> QED
    BY <1>1, <2>1
<1>3. IsOdd(q) \in BOOLEAN /\ IsOdd(q + 1) = ~IsOdd(q)
  BY DEF IsOdd
<1> HIDE DEF num
<1>4. ~ (q * den - num \in (1 - den)..0 /\ (q + 1) * den - num \in (1 - den)..0)
  BY <1>1, <1>2
<1>5. ~ (q * den - num \in 0..(den - 1) /\ (q + 1) * den - num \in 0..(den - 1))
  BY <1>1, <1>2
<1>6. ~ (2 * (q * den - num) \in (1 - den)..den /\ 2 * ((q + 1) * den - num) \in (1 - den)..den)
  BY <1>1, <1>2
<1>7. /\ 2 * Abs(q * den - num) <= den /\ 2 * Abs((q + 1) * den - num) <= den
      => 2 * Abs(q * den - num) = den /\ 2 * Abs((q + 1) * den - num) = den
  BY <1>1, <1>2 DEF Abs
<1>8. CASE mode = "ToNearestAway"
  BY <1>6, <1>8 DEF RoundedTo, num
<1>9. CASE mode = "ToNearestEven"
  BY <1>3, <1>7, <1>9 DEF RoundedTo, num
<1>10. CASE mode \in {"TowardZero", "AwayFromZero", "TowardPositive", "TowardNegative"}
  BY <1>4, <1>5, <1>10 DEF RoundedTo, num
<1> QED
  BY <1>8, <1>9, <1>10 DEF Modes

(* The definition of a correct rounding, by distance, determines the       *)
(* coefficient, and it is the one that quotient and remainder decide.      *)
LEMMA RoundsOnceMeans ==
  ASSUME NEW num \in Nat, NEW den \in Nat \ {0}, NEW neg \in BOOLEAN, NEW mode \in Modes,
         NEW places, NEW val, NEW err
  PROVE  /\ RoundedCoef(num, den, neg, mode) \in Nat
         /\ RoundedCoef(num, den, neg, mode) \in {num \div den, num \div den + 1}
         /\ num % den = 0 => RoundedCoef(num, den, neg, mode) = num \div den
         /\ RoundsOnce(num, den, neg, places, mode, val, err) =
              IF RoundedCoef(num, den, neg, mode) >= Cap THEN err = "Overflow"
              ELSE err = "nil" /\ val = NewDecimal(RoundedCoef(num, den, neg, mode), neg, places)
<1> DEFINE q == num \div den
           r == num % den
           best == RoundedCoef(num, den, neg, mode)
<1>1. q \in Nat /\ r \in 0..(den - 1) /\ num = q * den + r
  <2>1. q \in Nat /\ r \in Nat /\ r < den
    BY DivBelow
  <2>2. num = den * q + r
    BY DivMod
  <2> HIDE DEF q, r
  <2> QED BY <2>1, <2>2
<1>2. best = IF RoundsUp(mode, r # 0, Sign3(2 * r - den), IsOdd(q), neg) THEN q + 1 ELSE q
  BY DEF RoundedCoef, UpFrom
<1> HIDE DEF q, r, best
<1>3. RoundedTo(best, num, den, neg, mode)
  BY <1>1, <1>2, RoundsUpCorrect
<1>4. best \in {q, q + 1} /\ best \in Nat /\ best \in q..(q + 1)
  BY <1>1, <1>2
<1>5. ~ (RoundedTo(q, num, den, neg, mode) /\ RoundedTo(q + 1, num, den, neg, mode))
  BY <1>1, OneRounding
<1>6. ASSUME NEW c \in q..(q + 1), RoundedTo(c, num, den, neg, mode)
      PROVE  c = best
  <2>1. c = q \/ c = q + 1
    BY <1>1
  <2> QED
    BY <1>3, <1>4, <1>5, <1>6, <2>1
<1>7. (CHOOSE c \in q..(q + 1) : RoundedTo(c, num, den, neg, mode)) = best
  BY <1>3, <1>4, <1>6
<1>8. RoundsOnce(num, den, neg, places, mode, val, err) =
        IF best >= Cap THEN err = "Overflow"
        ELSE err = "nil" /\ val = NewDecimal(best, neg, places)
  BY <1>7 DEF RoundsOnce, q
<1>9. r = 0 => best = q
  BY <1>2 DEF RoundsUp
<1> QED
  BY <1>4, <1>8, <1>9 DEF q, r, best

(* A common factor of the fraction changes nothing.                        *)
LEMMA RoundingScales ==
  ASSUME NEW num \in Nat, NEW den \in Nat \ {0}, NEW s \in Nat \ {0},
         NEW neg \in BOOLEAN, NEW mode \in Modes
  PROVE  /\ num * s \in Nat /\ den * s \in Nat \ {0}
         /\ (num * s) \div (den * s) = num \div den
         /\ ((num * s) % (den * s) # 0) = (num % den # 0)
         /\ Sign3(2 * ((num * s) % (den * s)) - den * s) = Sign3(2 * (num % den) - den)
         /\ RoundedCoef(num * s, den * s, neg, mode) = RoundedCoef(num, den, neg, mode)
<1> DEFINE q == num \div den
           r == num % den
           bigNum == num * s
           bigDen == den * s
<1>1. q \in Nat /\ r \in Nat /\ r < den
  BY DivBelow
<1>2. bigNum \div bigDen = q /\ bigNum % bigDen = r * s
  BY DivScale
<1>3. bigNum \in Nat /\ bigDen \in Nat \ {0}
  OBVIOUS
<1> HIDE DEF q, r
<1>4. (r * s # 0) = (r # 0) /\ 2 * r - den \in Int /\ 2 * (r * s) - bigDen = (2 * r - den) * s
  BY <1>1
<1>5. Sign3((2 * r - den) * s) = Sign3(2 * r - den)
  BY <1>4, SignFacts
<1> HIDE DEF bigNum, bigDen
<1>6. (bigNum % bigDen # 0) = (r # 0) /\ Sign3(2 * (bigNum % bigDen) - bigDen) = Sign3(2 * r - den)
  BY <1>2, <1>4, <1>5
<1>7. RoundedCoef(bigNum, bigDen, neg, mode) = RoundedCoef(num, den, neg, mode)
  BY <1>2, <1>6 DEF RoundedCoef, UpFrom, q, r
<1> QED
  BY <1>2, <1>3, <1>6, <1>7 DEF q, r, bigNum, bigDen

----------------------------------------------------------------------------
(* What the quotient records of exact.go and muldiv.go hold: the truncated *)
(* quotient, whether something was discarded, and how twice the discarded  *)
(* part compares with the divisor.                                         *)
IsQuotient(quot, num, den) ==
  /\ quot.fits \in BOOLEAN
  /\ quot.fits => /\ num \div den < Cap /\ quot.q = num \div den
                  /\ quot.rem = (num % den # 0)
                  /\ quot.half = Sign3(2 * (num % den) - den)
  /\ ~quot.fits => num \div den >= Cap

LEMMA QuotientScales ==
  ASSUME NEW num \in Nat, NEW den \in Nat \ {0}, NEW s \in Nat \ {0}, NEW quot
  PROVE  IsQuotient(quot, num * s, den * s) = IsQuotient(quot, num, den)
<1>1. "TowardZero" \in Modes /\ FALSE \in BOOLEAN
  BY DEF Modes
<1> QED
  BY <1>1, RoundingScales DEF IsQuotient

(* divRoundWide, and divRoundPow10 with the half of a one-word power.      *)
LEMMA DivRoundWideQuotient ==
  ASSUME NEW num \in Nat, NEW den \in 1..(Cap - 1)
  PROVE  IsQuotient(DivRoundWide(num, den), num, den)
<1> DEFINE q == num \div den
           r == num % den
           high == num \div Cap
<1>1. Cap \in Nat \ {0} /\ den \in Nat \ {0}
  BY CapFacts
<1>2. q \in Nat /\ r \in 0..(den - 1) /\ high \in Nat
  <2>1. q \in Nat /\ r \in Nat /\ r < den
    BY <1>1, DivBelow
  <2>2. high \in Nat
    BY <1>1, DivBelow
  <2> HIDE DEF q, r, high
  <2> QED BY <1>1, <2>1, <2>2
<1>3. (high >= den) <=> (q >= Cap)
  <2>1. (high >= den) <=> (num >= Cap * den)
    BY <1>1, DivBelow
  <2>2. (q >= Cap) <=> (num >= den * Cap)
    BY <1>1, DivBelow
  <2>3. Cap * den = den * Cap
    BY <1>1
  <2> QED BY <2>1, <2>2, <2>3
<1>4. CmpHalf64(r, den) = Sign3(2 * r - den) /\ CmpDouble128(r, den) = Sign3(2 * r - den)
  BY <1>2, HalfComparisons
<1>5. DivRoundWide(num, den) = IF high >= den THEN NoFit ELSE Quot(q, r # 0, Sign3(2 * r - den))
  BY <1>4 DEF DivRoundWide
<1> HIDE DEF q, r, high
<1>6. CASE high >= den
  BY <1>3, <1>5, <1>6 DEF IsQuotient, NoFit, q
<1>7. CASE ~(high >= den)
  <2>1. q < Cap
    BY <1>1, <1>2, <1>3, <1>7
  <2>2. DivRoundWide(num, den) = Quot(q, r # 0, Sign3(2 * r - den))
    BY <1>5, <1>7
  <2> QED
    BY <2>1, <2>2 DEF IsQuotient, Quot, q, r
<1> QED
  BY <1>6, <1>7

(* Powers of ten above 1 are even.                                         *)
LEMMA PowEven ==
  ASSUME NEW k \in 1..2*MaxPrec
  PROVE  /\ k \in 0..2*MaxPrec /\ Pow10[k] \in 1..(Cap - 1) /\ Pow10[k] >= 10
         /\ Pow10[k] = 2 * (Pow10[k] \div 2)
<1>1. k - 1 \in 0..(2*MaxPrec - 1) /\ k \in 0..2*MaxPrec /\ MaxPrec \in Nat
  BY PowFacts
<1>2. Pow10[k - 1] \in Nat \ {0} /\ Pow10[k] = Pow10[k - 1] * 10
  <2>1. Pow10[k - 1] \in Nat \ {0} /\ Pow10[(k - 1) + 1] = Pow10[k - 1] * 10
    BY <1>1, PowStep
  <2>2. (k - 1) + 1 = k
    BY <1>1
  <2> QED BY <2>1, <2>2
<1>3. Pow10[k] < Cap /\ Cap \in Nat
  BY <1>1, PowBounds, CapFacts
<1> DEFINE p == Pow10[k - 1]
           t == Pow10[k]
<1>4. p \in Nat \ {0} /\ t = p * 10 /\ t < Cap
  BY <1>2, <1>3
<1> HIDE DEF p, t
<1>5. t \in Nat /\ t >= 10 /\ t \in 1..(Cap - 1) /\ t = 2 * (t \div 2)
  BY <1>3, <1>4
<1> QED
  BY <1>1, <1>5 DEF t

LEMMA DivRoundPow10Quotient ==
  ASSUME NEW num \in Nat, NEW k \in 1..2*MaxPrec
  PROVE  IsQuotient(DivRoundPow10(num, k), num, Pow10[k])
<1> DEFINE t == Pow10[k]
           q == num \div t
           r == num % t
           high == num \div Cap
<1>1. t \in 1..(Cap - 1) /\ t = 2 * (t \div 2) /\ Cap \in Nat \ {0} /\ t \in Nat \ {0}
  BY PowEven, CapFacts
<1>2. CASE k > MaxPrec
  <2>1. DivRoundPow10(num, k) = DivRoundWide(num, t)
    BY <1>2 DEF DivRoundPow10
  <2> HIDE DEF t
  <2>2. IsQuotient(DivRoundWide(num, t), num, t)
    BY <1>1, DivRoundWideQuotient
  <2> QED
    BY <2>1, <2>2 DEF t
<1>3. CASE ~(k > MaxPrec)
  <2> HIDE DEF t
  <2>1. q \in Nat /\ r \in Nat /\ r < t
    BY <1>1, DivBelow
  <2>2. high \in Nat
    BY <1>1, DivBelow
  <2>3. (high >= t) <=> (q >= Cap)
    <3>1. (high >= t) <=> (num >= Cap * t)
      BY <1>1, DivBelow
    <3>2. (q >= Cap) <=> (num >= t * Cap)
      BY <1>1, DivBelow
    <3>3. Cap * t = t * Cap
      BY <1>1
    <3> QED BY <3>1, <3>2, <3>3
  <2> HIDE DEF q, r, high
  <2>4. Sign3(r - t \div 2) = Sign3(2 * r - t)
    <3> DEFINE h == t \div 2
    <3>1. h \in Int /\ t = 2 * h
      BY <1>1
    <3> HIDE DEF h
    <3>2. Sign3(r - h) = Sign3(2 * r - t)
      BY <2>1, <3>1 DEF Sign3
    <3> QED BY <3>2 DEF h
  <2>5. DivRoundPow10(num, k) = IF high >= t THEN NoFit ELSE Quot(q, r # 0, Sign3(2 * r - t))
    BY <1>3, <2>4 DEF DivRoundPow10, t, q, r, high
  <2>6. CASE high >= t
    <3>1. DivRoundPow10(num, k) = NoFit /\ num \div t >= Cap
      BY <2>3, <2>5, <2>6 DEF q
    <3>2. IsQuotient(NoFit, num, t)
      BY <3>1 DEF IsQuotient, NoFit
    <3> QED BY <3>1, <3>2 DEF t
  <2>7. CASE ~(high >= t)
    <3>1. q < Cap
      BY <1>1, <2>1, <2>3, <2>7
    <3>2. DivRoundPow10(num, k) = Quot(q, r # 0, Sign3(2 * r - t))
      BY <2>5, <2>7
    <3>3. IsQuotient(Quot(q, r # 0, Sign3(2 * r - t)), num, t)
      BY <3>1 DEF IsQuotient, Quot, q, r
    <3> QED
      BY <3>2, <3>3 DEF t
  <2> QED
    BY <2>6, <2>7
<1> QED
  BY <1>2, <1>3

(* The exponent of a rescaling moves from the denominator to the numerator *)
(* or back: 10^f/1 and 1/10^-f are the same factor 10^a/10^b.              *)
LEMMA PowBalance ==
  ASSUME NEW a \in 0..2*MaxPrec, NEW b \in 0..2*MaxPrec
  PROVE  /\ a >= b => a - b \in 0..2*MaxPrec /\ Pow10[a] = Pow10[a - b] * Pow10[b]
         /\ a < b => b - a \in 1..2*MaxPrec /\ Pow10[b] = Pow10[b - a] * Pow10[a]
         /\ Pow10[a] \in Nat \ {0} /\ Pow10[b] \in Nat \ {0}
<1>1. MaxPrec \in Nat
  BY PowFacts
<1>2. CASE a >= b
  <2>1. a - b \in 0..2*MaxPrec /\ Pow10[b] \in Nat \ {0} /\ Pow10[a] \in Nat \ {0}
        /\ Pow10[a - b] \in Nat \ {0} /\ Pow10[a] = Pow10[b] * Pow10[a - b]
    BY <1>1, <1>2, PowRatio
  <2> QED BY <1>1, <1>2, <2>1
<1>3. CASE a < b
  <2>1. b - a \in 0..2*MaxPrec /\ Pow10[b] \in Nat \ {0} /\ Pow10[a] \in Nat \ {0}
        /\ Pow10[b - a] \in Nat \ {0} /\ Pow10[b] = Pow10[a] * Pow10[b - a]
    BY <1>1, <1>3, PowRatio
  <2> QED BY <1>1, <1>3, <2>1
<1> QED
  BY <1>1, <1>2, <1>3

(* divRoundAt divides d by e at any precision, also where the divisor has  *)
(* outgrown two words and the quotient is known to be 0.                   *)
LEMMA DivRoundAtQuotient ==
  ASSUME NEW d \in Decimals, NEW e \in Decimals, e.coef # 0, NEW places \in 0..MaxPrec
  PROVE  /\ d.coef * Pow10[places + e.prec] \in Nat
         /\ e.coef * Pow10[d.prec] \in Nat \ {0}
         /\ IsQuotient(DivRoundAt(d, e, places), d.coef * Pow10[places + e.prec],
                       e.coef * Pow10[d.prec])
<1> DEFINE a == places + e.prec
           b == d.prec
           f == places + e.prec - d.prec
           quot == DivRoundAt(d, e, places)
           x == d.coef
           y == e.coef
<1>1. /\ MaxPrec \in Nat /\ Cap \in Nat
      /\ x \in Nat /\ x < Cap /\ y \in Nat /\ y < Cap /\ y # 0
      /\ d.prec \in 0..MaxPrec /\ e.prec \in 0..MaxPrec
  BY DecimalFacts, PowFacts, CapFacts
<1>2. a \in 0..2*MaxPrec /\ b \in 0..2*MaxPrec /\ f = a - b /\ -f = b - a
  BY <1>1
<1>3. Pow10[a] \in Nat \ {0} /\ Pow10[b] \in Nat \ {0}
  BY <1>2, PowBalance
<1>4. x * Pow10[a] \in Nat /\ y * Pow10[b] \in Nat \ {0}
  BY <1>1, <1>3
<1>5. CASE a >= b
  <2> DEFINE t == Pow10[a - b]
  <2>1. a - b \in 0..2*MaxPrec /\ Pow10[a] = t * Pow10[b]
    BY <1>2, <1>5, PowBalance
  <2>2. t \in Nat \ {0}
    BY <2>1, TableAssumption
  <2>3. f >= 0 /\ ~(f < 0)
    BY <1>1, <1>2, <1>5
  <2>4. quot = DivRoundWide(x * Pow10[f], y)
    BY <2>3 DEF DivRoundAt
  <2>5. x * t \in Nat /\ y \in 1..(Cap - 1) /\ y \in Nat \ {0}
    BY <1>1, <2>2
  <2>6. quot = DivRoundWide(x * t, y)
    BY <1>2, <2>4
  <2>7. (x * t) * Pow10[b] = x * Pow10[a]
    <3>1. \A p \in Nat \ {0} : (x * t) * p = x * (t * p)
      BY <1>1, <2>2
    <3> QED BY <1>3, <2>1, <3>1
  <2> HIDE DEF t, quot, x, y
  <2>8. IsQuotient(quot, x * t, y)
    BY <2>5, <2>6, DivRoundWideQuotient
  <2>9. IsQuotient(quot, (x * t) * Pow10[b], y * Pow10[b])
    BY <1>3, <2>5, <2>8, QuotientScales
  <2> QED
    BY <1>4, <2>7, <2>9 DEF x, y, quot
<1>6. CASE a < b
  <2> DEFINE t == Pow10[b - a]
             den == y * t
  <2>1. b - a \in 1..2*MaxPrec /\ Pow10[b] = t * Pow10[a]
    BY <1>2, <1>6, PowBalance
  <2>2. b - a \in 0..2*MaxPrec /\ t \in Nat \ {0}
    BY <1>1, <2>1, TableAssumption
  <2>3. f < 0 /\ ~(f >= 0)
    BY <1>1, <1>2, <1>6
  <2>4. quot = IF ZeroUpper(y * Pow10[-f]) THEN DivRoundWide(x, y * Pow10[-f])
               ELSE Quot(0, x # 0, Sign3(2 * x - y * Pow10[-f]))
    BY <2>3 DEF DivRoundAt
  <2>5. quot = IF ZeroUpper(den) THEN DivRoundWide(x, den) ELSE Quot(0, x # 0, Sign3(2 * x - den))
    BY <1>2, <2>4
  <2>6. den \in Nat \ {0}
    BY <1>1, <2>2
  <2>7. den * Pow10[a] = y * Pow10[b]
    <3>1. \A p \in Nat \ {0} : (y * t) * p = y * (t * p)
      BY <1>1, <2>2
    <3> QED BY <1>3, <2>1, <3>1
  <2> HIDE DEF den, quot, x, y
  <2>8. IsQuotient(quot, x, den)
    <3>1. CASE den < Cap
      <4>1. den \in 1..(Cap - 1) /\ quot = DivRoundWide(x, den)
        BY <1>1, <2>5, <2>6, <3>1 DEF ZeroUpper
      <4> QED
        BY <1>1, <4>1, DivRoundWideQuotient
    <3>2. CASE ~(den < Cap)
      <4>1. x \div den = 0 /\ x % den = x
        <5>1. x \in 0..(den - 1) /\ x = den * 0 + x
          BY <1>1, <2>6, <3>2
        <5> QED BY <1>1, <2>6, <5>1, DivModUnique
      <4>2. quot = Quot(0, x # 0, Sign3(2 * x - den))
        BY <2>5, <3>2 DEF ZeroUpper
      <4>3. 0 < Cap
        BY CapFacts
      <4> QED
        BY <4>1, <4>2, <4>3 DEF IsQuotient, Quot
    <3> QED BY <3>1, <3>2
  <2>9. IsQuotient(quot, x * Pow10[a], den * Pow10[a])
    BY <1>1, <1>3, <2>6, <2>8, QuotientScales
  <2> QED
    BY <1>4, <2>7, <2>9 DEF x, y, quot
<1>7. a >= b \/ a < b
  BY <1>1, <1>2
<1> QED
  BY <1>5, <1>6, <1>7

----------------------------------------------------------------------------
(* A reply to a rounding request that rounds num/den once.                 *)
RoundedReply(res, num, den, neg, places, mode) ==
  IsReply(res) /\ RoundsOnce(num, den, neg, places, mode, res.val, res.err)

LEMMA RoundedReplies ==
  ASSUME NEW num \in Nat, NEW den \in Nat \ {0}, NEW neg \in BOOLEAN, NEW mode \in Modes,
         NEW places \in 0..MaxPrec, NEW res
  PROVE  LET best == RoundedCoef(num, den, neg, mode)
         IN  /\ best >= Cap /\ res = Fail("Overflow") => RoundedReply(res, num, den, neg, places, mode)
             /\ best < Cap /\ res = Ok(NewDecimal(best, neg, places)) =>
                   RoundedReply(res, num, den, neg, places, mode)
<1> DEFINE best == RoundedCoef(num, den, neg, mode)
<1>1. best \in Nat /\ Cap \in Nat
  BY RoundsOnceMeans, CapFacts
<1>2. RoundsOnce(num, den, neg, places, mode, res.val, res.err) =
        IF best >= Cap THEN res.err = "Overflow"
        ELSE res.err = "nil" /\ res.val = NewDecimal(best, neg, places)
  BY RoundsOnceMeans
<1> HIDE DEF best
<1>3. ASSUME best >= Cap, res = Fail("Overflow")
      PROVE  RoundedReply(res, num, den, neg, places, mode)
  <2>1. IsReply(res) /\ res.err = "Overflow"
    BY <1>3, Replies DEF Errors
  <2> QED BY <1>2, <1>3, <2>1 DEF RoundedReply
<1>4. ASSUME best < Cap, res = Ok(NewDecimal(best, neg, places))
      PROVE  RoundedReply(res, num, den, neg, places, mode)
  <2>1. IsReply(res)
    BY <1>1, <1>4, MakeDecimal
  <2>2. ~(best >= Cap) /\ res.err = "nil" /\ res.val = NewDecimal(best, neg, places)
    BY <1>1, <1>4 DEF Ok
  <2> QED BY <1>2, <2>1, <2>2 DEF RoundedReply
<1> QED
  BY <1>3, <1>4 DEF best

(* A common factor of the fraction does not change what answers it.        *)
LEMMA ReplyScales ==
  ASSUME NEW num \in Nat, NEW den \in Nat \ {0}, NEW s \in Nat \ {0},
         NEW big, big = num * s, NEW bigDen, bigDen = den * s,
         NEW neg \in BOOLEAN, NEW mode \in Modes, NEW places, NEW res,
         RoundedReply(res, num, den, neg, places, mode)
  PROVE  RoundedReply(res, big, bigDen, neg, places, mode)
<1> DEFINE best == RoundedCoef(num, den, neg, mode)
           answer == IF best >= Cap THEN res.err = "Overflow"
                     ELSE res.err = "nil" /\ res.val = NewDecimal(best, neg, places)
<1>1. /\ num * s \in Nat /\ den * s \in Nat \ {0}
      /\ RoundedCoef(num * s, den * s, neg, mode) = best
  BY RoundingScales
<1>2. big \in Nat /\ bigDen \in Nat \ {0} /\ RoundedCoef(big, bigDen, neg, mode) = best
  BY <1>1
<1>3. RoundsOnce(num, den, neg, places, mode, res.val, res.err) = answer
  BY RoundsOnceMeans
<1>4. RoundsOnce(big, bigDen, neg, places, mode, res.val, res.err) =
        IF RoundedCoef(big, bigDen, neg, mode) >= Cap THEN res.err = "Overflow"
        ELSE res.err = "nil" /\ res.val = NewDecimal(RoundedCoef(big, bigDen, neg, mode), neg, places)
  BY <1>2, RoundsOnceMeans
<1>5. RoundsOnce(big, bigDen, neg, places, mode, res.val, res.err) = answer
  BY <1>2, <1>4
<1> QED
  BY <1>3, <1>5 DEF RoundedReply

(* The tail of the rounding operations, from any exact quotient.           *)
LEMMA FinishRoundOnce ==
  ASSUME NEW num \in Nat, NEW den \in Nat \ {0}, NEW quot, IsQuotient(quot, num, den),
         NEW neg \in BOOLEAN, NEW mode \in Modes, NEW places \in 0..MaxPrec
  PROVE  RoundedReply(FinishRound(quot, neg, places, mode), num, den, neg, places, mode)
<1> DEFINE q == num \div den
           r == num % den
           best == RoundedCoef(num, den, neg, mode)
           up == RoundsUp(mode, r # 0, Sign3(2 * r - den), IsOdd(q), neg)
           rounded == RoundQuotient(quot.q, quot.rem, quot.half, neg, mode)
           res == FinishRound(quot, neg, places, mode)
<1>1. Cap \in Nat /\ Cap >= 16 /\ q \in Nat
  BY CapFacts, DivBelow
<1>2. best = (IF up THEN q + 1 ELSE q) /\ best \in Nat
  BY RoundsOnceMeans DEF RoundedCoef, UpFrom
<1>3. CASE ~quot.fits
  <2>1. q >= Cap
    BY <1>3 DEF IsQuotient
  <2>2. best >= Cap
    <3> HIDE DEF q, r, best, up
    <3> QED BY <1>1, <1>2, <2>1
  <2>3. res = Fail("Overflow")
    BY <1>3 DEF FinishRound
  <2> QED BY <2>2, <2>3, RoundedReplies
<1>4. CASE quot.fits
  <2>1. q < Cap /\ quot.q = q /\ quot.rem = (r # 0) /\ quot.half = Sign3(2 * r - den)
    BY <1>4 DEF IsQuotient
  <2>2. rounded = IF ~up THEN [val |-> q, err |-> "nil"]
                  ELSE IF q = Cap - 1 THEN [val |-> 0, err |-> "Overflow"]
                  ELSE [val |-> Inc128(q), err |-> "nil"]
    <3> HIDE DEF q, r
    <3> QED BY <2>1 DEF RoundQuotient
  <2>3. q # Cap - 1 => Inc128(q) = q + 1
    <3> HIDE DEF q
    <3> QED BY <1>1, <2>1 DEF Inc128, Add128
  <2>4. res = IF rounded.err # "nil" THEN Fail(rounded.err)
              ELSE Ok(NewDecimal(rounded.val, neg, places))
    BY <1>4 DEF FinishRound
  <2> HIDE DEF q, r, up, best, rounded, res
  <2>5. CASE up /\ q = Cap - 1
    <3>1. best >= Cap
      BY <1>1, <1>2, <2>5
    <3>2. res = Fail("Overflow")
      BY <2>2, <2>4, <2>5
    <3> QED BY <3>1, <3>2, RoundedReplies DEF best, res
  <2>6. CASE ~(up /\ q = Cap - 1)
    <3>1. rounded = [val |-> best, err |-> "nil"]
      BY <1>2, <2>2, <2>3, <2>6
    <3>2. res = Ok(NewDecimal(best, neg, places))
      BY <2>4, <3>1
    <3>3. best < Cap
      BY <1>1, <1>2, <2>1, <2>6
    <3> QED BY <3>2, <3>3, RoundedReplies DEF best, res
  <2> QED
    BY <2>5, <2>6
<1>5. quot.fits \in BOOLEAN
  BY DEF IsQuotient
<1> QED
  BY <1>3, <1>4, <1>5

(* Rounding in place needs no test for overflow: a one-word numerator that *)
(* leaves a remainder has a quotient below the largest word.               *)
LEMMA RoundInPlaceOnce ==
  ASSUME NEW num \in Nat, num < Base, NEW den \in Nat \ {0}, NEW neg \in BOOLEAN,
         NEW mode \in Modes, NEW places \in 0..MaxPrec,
         NEW half, half = Sign3(2 * (num % den) - den)
  PROVE  RoundedReply(RoundInPlace(num \div den, num % den, half, neg, places, mode),
                      num, den, neg, places, mode)
<1> DEFINE q == num \div den
           r == num % den
           best == RoundedCoef(num, den, neg, mode)
           up == RoundsUp(mode, r # 0, half, IsOdd(q), neg)
           res == RoundInPlace(q, r, half, neg, places, mode)
<1>1. Cap \in Nat /\ Base \in Nat /\ Base >= 4 /\ Base < Cap
  <2>1. \A n \in Nat : n >= 4 => n < n * n /\ n * n \in Nat
    OBVIOUS
  <2> QED BY <2>1, WordAssumption DEF Cap
<1>2. q \in Nat /\ r \in Nat /\ q <= num
  BY DivBelow
<1>3. best = (IF up THEN q + 1 ELSE q) /\ best \in Nat
  BY RoundsOnceMeans DEF RoundedCoef, UpFrom
<1>4. up => r # 0
  BY DEF RoundsUp
<1>5. num = den * q + r
  BY DivMod
<1>6. res = Ok(NewDecimal(IF up THEN (q + 1) % Base ELSE q, neg, places))
  BY DEF RoundInPlace
<1> HIDE DEF q, r, best, up, res
<1>7. up => q + 1 < Base
  <2>1. q <= den * q
    BY <1>2
  <2> QED BY <1>1, <1>2, <1>4, <1>5, <2>1
<1>8. q + 1 < Base => (q + 1) % Base = q + 1
  BY <1>1, <1>2
<1>9. res = Ok(NewDecimal(best, neg, places))
  BY <1>3, <1>6, <1>7, <1>8
<1>10. best < Cap
  BY <1>1, <1>2, <1>3, <1>7
<1> QED
  BY <1>9, <1>10, RoundedReplies DEF best, res, q, r

----------------------------------------------------------------------------
(* A fraction of zero rounds to Zero.                                      *)
LEMMA ZeroRounds ==
  ASSUME NEW den \in Nat \ {0}, NEW neg \in BOOLEAN, NEW mode \in Modes,
         NEW places \in 0..MaxPrec
  PROVE  RoundedReply(Ok(Zero), 0, den, neg, places, mode)
<1>1. 0 \div den = 0 /\ 0 % den = 0
  BY 0 = den * 0 + 0, DivModUnique
<1>2. RoundedCoef(0, den, neg, mode) = 0
  BY <1>1, RoundsOnceMeans
<1>3. 0 < Cap
  BY CapFacts
<1> QED
  BY <1>2, <1>3, RoundedReplies DEF NewDecimal

(* What a rejected request answers, and what an accepted one has passed.   *)
LEMMA RoundArgs ==
  ASSUME NEW places \in Nat, NEW mode, NEW divisor
  PROVE  /\ RoundArgsError(places, mode, divisor) \in Errors
         /\ RoundArgsError(places, mode, divisor) = "nil" =>
              places \in 0..MaxPrec /\ mode \in Modes /\ divisor # 0
<1>1. MaxPrec \in Nat
  BY PowFacts
<1> QED
  BY <1>1 DEF RoundArgsError, Errors

(* The answer to any rounding request: the error of its arguments, or the  *)
(* exact fraction rounded once.                                            *)
MeetsRequest(res, args, num, den, neg, places, mode) ==
  /\ IsReply(res)
  /\ IF args # "nil" THEN res.err = args /\ res.val = Zero
     ELSE RoundsOnce(num, den, neg, places, mode, res.val, res.err)

(* DivRound rounds the exact quotient once, on its in-place path, through  *)
(* the wide division and where the divisor outgrows two words.             *)
THEOREM DivRoundOnce ==
  ASSUME NEW d \in Decimals, NEW e \in Decimals, NEW places \in Nat, NEW mode
  PROVE  MeetsRequest(DivRound(d, e, places, mode), RoundArgsError(places, mode, e.coef),
                      d.coef * Pow10[places + e.prec], e.coef * Pow10[d.prec],
                      d.neg # e.neg, places, mode)
<1> DEFINE args == RoundArgsError(places, mode, e.coef)
           neg == d.neg # e.neg
           res == DivRound(d, e, places, mode)
           num == d.coef * Pow10[places + e.prec]
           den == e.coef * Pow10[d.prec]
<1>1. CASE args # "nil"
  <2>1. res = Fail(args)
    BY <1>1 DEF DivRound
  <2>2. IsReply(res) /\ res.val = Zero /\ res.err = args
    BY <2>1, RoundArgs, Replies
  <2> QED BY <1>1, <2>2 DEF MeetsRequest
<1>2. CASE args = "nil"
  <2>1. places \in 0..MaxPrec /\ mode \in Modes /\ e.coef # 0
    BY <1>2, RoundArgs
  <2>2. /\ d.coef \in Nat /\ e.coef \in Nat \ {0} /\ neg \in BOOLEAN
        /\ d.prec \in 0..MaxPrec /\ e.prec \in 0..MaxPrec /\ MaxPrec \in Nat
    BY <2>1, DecimalFacts, PowFacts
  <2>3. num \in Nat /\ den \in Nat \ {0}
        /\ IsQuotient(DivRoundAt(d, e, places), num, den)
    BY <2>1, DivRoundAtQuotient
  <2>4. RoundedReply(res, num, den, neg, places, mode)
    <3> DEFINE f == places + e.prec - d.prec
               part == d.coef * Pow10[f]
               inPlace == /\ OneLimb(d.coef) /\ OneLimb(e.coef)
                          /\ f \in 0..MaxPrec /\ OneLimb(part)
    <3>1. CASE d.coef = 0
      <4>1. res = Ok(Zero)
        BY <1>2, <3>1 DEF DivRound
      <4>2. num = 0
        <5>1. places + e.prec \in 0..2*MaxPrec
          BY <2>1, <2>2
        <5>2. Pow10[places + e.prec] \in Nat
          BY <5>1, PowFacts
        <5> QED BY <3>1, <5>2
      <4> HIDE DEF num, den, res, neg
      <4> QED BY <2>1, <2>2, <2>3, <4>1, <4>2, ZeroRounds
    <3>2. CASE d.coef # 0 /\ inPlace
      <4> DEFINE half == CmpHalf64(part % e.coef, e.coef)
      <4>1. res = RoundInPlace(part \div e.coef, part % e.coef, half, neg, places, mode)
        BY <1>2, <3>2 DEF DivRound
      <4>2. f \in 0..2*MaxPrec /\ d.prec \in 0..2*MaxPrec /\ places + e.prec \in 0..2*MaxPrec
            /\ places + e.prec >= d.prec /\ (places + e.prec) - d.prec = f
        BY <2>1, <2>2, <3>2
      <4>3. Pow10[f] \in Nat \ {0} /\ Pow10[d.prec] \in Nat \ {0}
            /\ Pow10[places + e.prec] = Pow10[f] * Pow10[d.prec]
        BY <4>2, PowBalance
      <4>4. part \in Nat /\ part * Pow10[d.prec] = num
        <5>1. \A x, y, z \in Nat : x * y \in Nat /\ (x * y) * z = x * (y * z)
          OBVIOUS
        <5> QED BY <2>2, <4>3, <5>1
      <4>5. part < Base
        BY <3>2 DEF OneLimb
      <4> HIDE DEF part, res, neg
      <4>6. half = Sign3(2 * (part % e.coef) - e.coef)
        <5> DEFINE r == part % e.coef
        <5>1. r \in Nat
          BY <2>2, <4>4, DivBelow
        <5> HIDE DEF r
        <5>2. CmpHalf64(r, e.coef) = Sign3(2 * r - e.coef)
          BY <2>2, <5>1 DEF CmpHalf64, Sign3
        <5> QED BY <5>2 DEF r
      <4> HIDE DEF half
      <4>7. RoundedReply(res, part, e.coef, neg, places, mode)
        BY <2>1, <2>2, <4>1, <4>4, <4>5, <4>6, RoundInPlaceOnce
      <4>8. num = part * Pow10[d.prec] /\ den = e.coef * Pow10[d.prec]
        BY <4>4
      <4> HIDE DEF num, den
      <4> QED BY <2>1, <2>2, <4>3, <4>4, <4>7, <4>8, ReplyScales
    <3>3. CASE d.coef # 0 /\ ~inPlace
      <4>1. res = FinishRound(DivRoundAt(d, e, places), neg, places, mode)
        BY <1>2, <3>3 DEF DivRound
      <4> HIDE DEF num, den, res, neg
      <4> QED BY <2>1, <2>2, <2>3, <4>1, FinishRoundOnce
    <3> QED BY <3>1, <3>2, <3>3
  <2> QED
    BY <1>2, <2>4 DEF RoundedReply, MeetsRequest
<1> QED
  BY <1>1, <1>2

(* MulRound rounds the exact product once, on all its four paths.          *)
THEOREM MulRoundOnce ==
  ASSUME NEW d \in Decimals, NEW e \in Decimals, NEW places \in Nat, NEW mode
  PROVE  MeetsRequest(MulRound(d, e, places, mode), RoundArgsError(places, mode, 1),
                      d.coef * e.coef * Pow10[places], Pow10[d.prec + e.prec],
                      d.neg # e.neg, places, mode)
<1> DEFINE args == RoundArgsError(places, mode, 1)
           neg == d.neg # e.neg
           res == MulRound(d, e, places, mode)
           prod == d.coef * e.coef
           num == prod * Pow10[places]
           n == d.prec + e.prec
           den == Pow10[n]
           k == n - places
<1>1. CASE args # "nil"
  <2>1. res = Fail(args)
    BY <1>1 DEF MulRound
  <2>2. IsReply(res) /\ res.val = Zero /\ res.err = args
    BY <2>1, RoundArgs, Replies
  <2> QED BY <1>1, <2>2 DEF MeetsRequest
<1>2. CASE args = "nil"
  <2>1. places \in 0..MaxPrec /\ mode \in Modes
    BY <1>2, RoundArgs
  <2>2. /\ d.coef \in Nat /\ e.coef \in Nat /\ neg \in BOOLEAN
        /\ d.prec \in 0..MaxPrec /\ e.prec \in 0..MaxPrec
        /\ MaxPrec \in Nat /\ Cap \in Nat /\ Cap >= 16
    BY <2>1, DecimalFacts, PowFacts, CapFacts
  <2>3. n \in 0..2*MaxPrec /\ places \in 0..2*MaxPrec
    BY <2>1, <2>2
  <2>4. den \in Nat \ {0} /\ Pow10[places] \in Nat \ {0} /\ prod \in Nat
    BY <2>2, <2>3, PowBalance
  <2>5. num \in Nat
    <3> HIDE DEF prod
    <3> QED BY <2>4
  <2>6. RoundedReply(res, num, den, neg, places, mode)
    <3> DEFINE inPlace == /\ OneLimb(d.coef) /\ OneLimb(e.coef) /\ OneLimb(prod)
                          /\ k \in 1..MaxPrec
    <3>1. CASE prod = 0
      <4>1. res = Ok(Zero)
        BY <1>2, <3>1 DEF MulRound
      <4>2. num = 0
        <5> HIDE DEF prod
        <5> QED BY <2>4, <3>1
      <4> HIDE DEF num, den, res, neg
      <4> QED BY <2>1, <2>2, <2>4, <4>1, <4>2, ZeroRounds
    <3>2. CASE prod # 0 /\ ~inPlace /\ k <= 0
      <4> DEFINE t == Pow10[-k]
                 part == prod * t
      <4>1. res = IF ~ZeroUpper(prod) \/ Mul128by64(prod, Pow10[-k]).overflow # 0 THEN Fail("Overflow")
                  ELSE Ok(NewDecimal(Mul128by64(prod, Pow10[-k]).val, neg, places))
        BY <1>2, <3>2 DEF MulRound
      <4>2. -k = places - n /\ places >= n
        BY <2>1, <2>2, <2>3, <3>2
      <4>3. t \in Nat \ {0} /\ Pow10[places] = t * den
        <5>1. -k \in 0..2*MaxPrec
          BY <2>1, <2>2, <2>3, <4>2
        <5>2. t \in Nat \ {0}
          BY <5>1, TableAssumption
        <5>3. Pow10[places] = Pow10[places - n] * Pow10[n]
          BY <2>3, <4>2, PowBalance
        <5> QED BY <4>2, <5>2, <5>3
      <4> HIDE DEF prod, t, den
      <4>4. part \in Nat /\ num = part * den /\ prod <= part
        <5>1. \A y, z \in Nat : (prod * y) * z = prod * (y * z)
          BY <2>4
        <5>2. \A y \in Nat \ {0} : prod <= prod * y /\ prod * y \in Nat
          BY <2>4
        <5> QED BY <2>4, <4>3, <5>1, <5>2
      <4>5. Mul128by64(prod, t).overflow = part \div Cap /\ Mul128by64(prod, t).val = part % Cap
        BY DEF Mul128by64
      <4>6. RoundedCoef(part, 1, neg, mode) = part
        <5>1. part \div 1 = part /\ part % 1 = 0
          <6> HIDE DEF part
          <6>1. part \in Int /\ part = 1 * part + 0 /\ 0 \in 0..(1 - 1) /\ 1 \in Nat \ {0}
            BY <4>4
          <6> QED BY <6>1, DivModUnique
        <5>2. 1 \in Nat \ {0}
          OBVIOUS
        <5> HIDE DEF part, neg
        <5>3. part % 1 = 0 => RoundedCoef(part, 1, neg, mode) = part \div 1
          BY <2>1, <2>2, <4>4, <5>2, RoundsOnceMeans
        <5> QED BY <5>1, <5>3
      <4>7. (part \div Cap # 0) <=> part >= Cap
        <5>1. part \div Cap \in Nat /\ ((part \div Cap >= 1) <=> (part >= Cap * 1))
          BY <2>2, <4>4, DivBelow
        <5> HIDE DEF part
        <5> QED BY <2>2, <4>4, <5>1
      <4>8. part < Cap => part % Cap = part
        BY <2>2, <4>4
      <4>9. res = IF part >= Cap THEN Fail("Overflow") ELSE Ok(NewDecimal(part, neg, places))
        <5>1. res = IF ~(prod < Cap) \/ part \div Cap # 0 THEN Fail("Overflow")
                    ELSE Ok(NewDecimal(part % Cap, neg, places))
          BY <4>1, <4>5 DEF ZeroUpper, t
        <5> DEFINE high == part \div Cap
        <5> HIDE DEF part, res, neg, high
        <5>2. ~(prod < Cap) => part >= Cap
          BY <2>2, <2>4, <4>4
        <5>3. (high # 0) <=> part >= Cap
          BY <4>7 DEF high
        <5>4. part < Cap \/ part >= Cap
          BY <2>2, <4>4
        <5> QED BY <4>8, <5>1, <5>2, <5>3, <5>4 DEF high
      <4> HIDE DEF part, res, neg, num
      <4>10. RoundedReply(res, part, 1, neg, places, mode)
        <5>1. part < Cap \/ part >= Cap
          BY <2>2, <4>4
        <5>2. part < Cap => ~(part >= Cap)
          BY <2>2, <4>4
        <5> QED BY <2>1, <2>2, <4>4, <4>6, <4>9, <5>1, <5>2, RoundedReplies
      <4>11. den = 1 * den
        BY <2>4
      <4> QED BY <2>1, <2>2, <2>4, <4>4, <4>10, <4>11, ReplyScales
    <3>3. CASE prod # 0 /\ k > 0
      <4> DEFINE t == Pow10[k]
      <4>1. k \in 1..2*MaxPrec /\ places < n
        BY <2>1, <2>2, <2>3, <3>3
      <4>2. t \in Nat \ {0} /\ den = t * Pow10[places] /\ t = 2 * (t \div 2)
        <5>1. t \in 1..(Cap - 1) /\ t = 2 * (t \div 2)
          BY <4>1, PowEven
        <5>2. den = t * Pow10[places]
          BY <2>3, <4>1, PowBalance
        <5> QED BY <2>2, <5>1, <5>2
      <4>3. RoundedReply(res, prod, t, neg, places, mode)
        <5>1. CASE inPlace
          <6> DEFINE half == Sign3((prod % t) - t \div 2)
          <6>1. res = RoundInPlace(prod \div t, prod % t, half, neg, places, mode)
            BY <1>2, <3>3, <5>1 DEF MulRound
          <6>2. prod < Base
            BY <5>1 DEF OneLimb
          <6> HIDE DEF prod, t, res, neg
          <6>3. half = Sign3(2 * (prod % t) - t)
            <7> DEFINE r == prod % t
                       h == t \div 2
            <7>1. r \in Nat /\ h \in Int /\ t = 2 * h
              BY <2>4, <4>2, DivBelow
            <7> HIDE DEF r, h
            <7>2. Sign3(r - h) = Sign3(2 * r - t)
              BY <7>1 DEF Sign3
            <7> QED BY <7>2 DEF r, h
          <6> HIDE DEF half
          <6> QED BY <2>1, <2>2, <2>4, <4>2, <6>1, <6>2, <6>3, RoundInPlaceOnce
        <5>2. CASE ~inPlace
          <6>1. ~(k <= 0)
            BY <2>1, <2>2, <3>3
          <6>2. res = FinishRound(DivRoundPow10(prod, k), neg, places, mode)
            BY <1>2, <3>3, <5>2, <6>1 DEF MulRound
          <6>3. IsQuotient(DivRoundPow10(prod, k), prod, t)
            <7> HIDE DEF prod, k
            <7> QED BY <2>4, <4>1, DivRoundPow10Quotient
          <6> HIDE DEF prod, t, res, neg
          <6> QED BY <2>1, <2>2, <2>4, <4>2, <6>2, <6>3, FinishRoundOnce
        <5> QED BY <5>1, <5>2
      <4> HIDE DEF prod, t, res, neg, den
      <4>4. num = prod * Pow10[places]
        OBVIOUS
      <4>5. den = t * Pow10[places] /\ t \in Nat \ {0} /\ mode \in Modes /\ neg \in BOOLEAN
            /\ prod \in Nat /\ Pow10[places] \in Nat \ {0}
        BY <2>1, <2>2, <2>4, <4>2
      <4> HIDE DEF num
      <4> QED BY <4>3, <4>4, <4>5, ReplyScales
    <3>4. inPlace => k > 0
      BY <2>1, <2>2
    <3>5. k <= 0 \/ k > 0
      BY <2>1, <2>2
    <3> HIDE DEF inPlace, k, prod, num, den, res, neg
    <3> QED BY <3>1, <3>2, <3>3, <3>4, <3>5
  <2> QED
    BY <1>2, <2>6 DEF RoundedReply, MeetsRequest
<1> QED
  BY <1>1, <1>2

----------------------------------------------------------------------------
(* A u256 product that is refused does not fit, whichever multiplication   *)
(* was the one that refused it.                                            *)
LEMMA Mul256Pow10Exact ==
  ASSUME NEW u \in Nat, NEW s \in 0..2*MaxPrec
  PROVE  /\ u * Pow10[s] \in Nat
         /\ Mul256Pow10(u, s).ok \in BOOLEAN
         /\ Mul256Pow10(u, s).ok => Mul256Pow10(u, s).val = u * Pow10[s]
         /\ ~Mul256Pow10(u, s).ok => u * Pow10[s] >= Wide
<1> DEFINE first == IF s > MaxPrec THEN MaxPrec ELSE 0
           a == Pow10[first]
           b == Pow10[s - first]
           NoRoom == [ok |-> FALSE, val |-> 0]
<1>1. MaxPrec \in Nat /\ Wide \in Nat /\ Wide >= 1
  BY PowFacts, CapFacts
<1>2. first \in 0..2*MaxPrec /\ s - first \in 0..2*MaxPrec /\ first <= s
  BY <1>1
<1>3. a \in Nat \ {0} /\ b \in Nat \ {0} /\ Pow10[s] = a * b
  BY <1>1, <1>2, PowRatio
<1>4. \A x \in Nat, v \in Nat \ {0} : Mul256Fits(x, v) <=> x * v < Wide
  <2> TAKE x \in Nat, v \in Nat \ {0}
  <2>1. ((Wide - 1) \div v >= x) <=> (Wide - 1 >= v * x)
    BY <1>1, DivBelow
  <2>2. (Wide - 1) \div v \in Nat
    BY <1>1, DivBelow
  <2>3. v * x = x * v /\ x * v \in Nat
    OBVIOUS
  <2> QED BY <1>1, <2>1, <2>2, <2>3 DEF Mul256Fits
<1>5. Mul256Pow10(u, s) = IF ~Mul256Fits(u, a) THEN NoRoom
                          ELSE IF ~Mul256Fits(u * a, b) THEN NoRoom
                          ELSE [ok |-> TRUE, val |-> u * a * b]
  BY DEF Mul256Pow10
<1> HIDE DEF a, b
<1>6. u * a \in Nat /\ u * a * b = u * Pow10[s] /\ u * a * b \in Nat /\ u * a <= u * a * b
  <2>1. \A x \in Nat : x * b \in Nat /\ x <= x * b
    BY <1>3
  <2>2. u * a \in Nat /\ u * (a * b) = u * a * b
    BY <1>3
  <2> QED BY <1>3, <2>1, <2>2
<1> DEFINE ua == u * a
           uab == ua * b
<1>7. (Mul256Fits(u, a) <=> ua < Wide) /\ (Mul256Fits(ua, b) <=> uab < Wide)
  BY <1>3, <1>4, <1>6
<1>8. ua \in Nat /\ uab \in Nat /\ ua <= uab /\ uab = u * Pow10[s]
  BY <1>6
<1> HIDE DEF ua
<1> HIDE DEF uab
<1>9. Mul256Pow10(u, s) = IF ~Mul256Fits(u, a) THEN NoRoom
                          ELSE IF ~Mul256Fits(ua, b) THEN NoRoom
                          ELSE [ok |-> TRUE, val |-> uab]
  BY <1>5 DEF ua, uab
<1>10. /\ Mul256Pow10(u, s).ok \in BOOLEAN
       /\ Mul256Pow10(u, s).ok => Mul256Pow10(u, s).val = uab
       /\ ~Mul256Pow10(u, s).ok => uab >= Wide
  BY <1>1, <1>7, <1>8, <1>9
<1> QED
  BY <1>8, <1>10

(* divRoundPow10By: two divisions in a row, whose remainders together      *)
(* compare with the divisor as the remainder of a single division would.   *)
LEMMA DivRoundPow10ByQuotient ==
  ASSUME NEW num \in Nat, num < Wide, NEW t \in 1..2*MaxPrec, NEW v \in 1..(Cap - 1),
         v * Pow10[t] >= Cap
  PROVE  /\ v * Pow10[t] \in Nat \ {0}
         /\ IsQuotient(DivRoundPow10By(num, t, v), num, v * Pow10[t])
<1> DEFINE low == Smaller(t, MaxPrec)
           p == Pow10[low]
           s == Pow10[t - low]
           ten == Pow10[t]
           w == num \div ten
           r1 == num % ten
           r2 == w % v
           den == v * ten
           c == CmpDouble128(r2, v)
           half == IF c > 0 \/ (c = 0 /\ r1 # 0) THEN 1
                   ELSE IF c = 0 THEN 0
                   ELSE IF v - 2 * r2 = 1 THEN CmpDouble128(r1, ten)
                   ELSE -1
<1>1. MaxPrec \in Nat /\ Cap \in Nat \ {0} /\ Wide = Cap * Cap /\ v \in Nat \ {0}
  BY PowFacts, CapFacts
<1>2. low \in 0..2*MaxPrec /\ t \in 0..2*MaxPrec /\ low <= t
  BY <1>1 DEF Smaller
<1>3. p \in Nat \ {0} /\ s \in Nat \ {0} /\ ten = p * s
  BY <1>2, PowRatio
<1>4. ten \in 1..(Cap - 1) /\ ten \in Nat \ {0}
  BY <1>1, PowEven
<1>5. (num \div p) \div s = w /\ ((num \div p) % s) * p + (num % p) = r1
  <2> HIDE DEF p, s, ten
  <2>1. (num \div p) \div s = num \div (p * s) /\ num % (p * s) = ((num \div p) % s) * p + (num % p)
    BY <1>3, DivDiv
  <2> QED BY <1>3, <2>1
<1>6. DivRoundPow10By(num, t, v) = Quot(w \div v, r1 # 0 \/ r2 # 0, half)
  BY <1>5 DEF DivRoundPow10By
<1>7. w \in Nat /\ r1 \in 0..(ten - 1)
  <2> HIDE DEF ten
  <2>1. w \in Nat /\ r1 \in Nat /\ r1 < ten
    BY <1>4, DivBelow
  <2> HIDE DEF w, r1
  <2> QED BY <1>4, <2>1
<1>8. r2 \in 0..(v - 1) /\ w \div v \in Nat
  <2> HIDE DEF w
  <2>1. w \div v \in Nat /\ r2 \in Nat /\ r2 < v
    BY <1>1, <1>7, DivBelow
  <2> HIDE DEF r2
  <2> QED BY <1>1, <2>1
<1>9. num \div den = w \div v /\ num % den = r2 * ten + r1
  <2> HIDE DEF ten
  <2>1. (num \div ten) \div v = num \div (ten * v)
        /\ num % (ten * v) = ((num \div ten) % v) * ten + (num % ten)
    BY <1>1, <1>4, DivDiv
  <2>2. ten * v = den
    BY <1>1, <1>4
  <2> QED BY <2>1, <2>2
<1>10. c = Sign3(2 * r2 - v) /\ CmpDouble128(r1, ten) = Sign3(2 * r1 - ten)
  <2> HIDE DEF ten, r1, r2
  <2> QED BY <1>4, <1>7, <1>8, HalfComparisons
<1>11. half = Sign3(2 * (r2 * ten + r1) - v * ten)
  <2> HIDE DEF ten, r1, r2, c
  <2> DEFINE x == 2 * r2 - v
  <2>1. 2 * (r2 * ten + r1) - v * ten = x * ten + 2 * r1
    BY <1>1, <1>4, <1>7, <1>8
  <2>2. x \in Int /\ r1 \in Nat /\ ten \in Nat /\ r1 < ten /\ c = Sign3(x) /\ v - 2 * r2 = -x
    BY <1>1, <1>4, <1>7, <1>8, <1>10
  <2>3. x * ten \in Int
    BY <2>2
  <2> HIDE DEF x
  <2>4. CASE x > 0
    <3>1. x * ten >= ten
      BY <2>2, <2>4
    <3>2. Sign3(x * ten + 2 * r1) = 1
      BY <2>2, <2>3, <3>1 DEF Sign3
    <3>3. c > 0
      BY <2>2, <2>4 DEF Sign3
    <3> QED BY <2>1, <3>2, <3>3
  <2>5. CASE x = 0
    <3>1. c = 0 /\ x * ten = 0
      BY <2>2, <2>5 DEF Sign3
    <3>2. Sign3(x * ten + 2 * r1) = IF r1 # 0 THEN 1 ELSE 0
      BY <2>2, <3>1 DEF Sign3
    <3> QED BY <2>1, <3>1, <3>2
  <2>6. CASE x = -1
    <3>1. c = -1 /\ x * ten = -ten /\ v - 2 * r2 = 1
      BY <2>2, <2>6 DEF Sign3
    <3>2. Sign3(x * ten + 2 * r1) = Sign3(2 * r1 - ten)
      BY <2>2, <3>1 DEF Sign3
    <3> QED BY <1>10, <2>1, <3>1, <3>2
  <2>7. CASE x < -1
    <3>1. c = -1 /\ v - 2 * r2 # 1
      BY <2>2, <2>7 DEF Sign3
    <3>2. x * ten <= (-2) * ten
      BY <2>2, <2>7
    <3>3. Sign3(x * ten + 2 * r1) = -1
      BY <2>2, <2>3, <3>2 DEF Sign3
    <3> QED BY <2>1, <3>1, <3>3
  <2> QED BY <2>2, <2>4, <2>5, <2>6, <2>7
<1>12. (r1 # 0 \/ r2 # 0) = (r2 * ten + r1 # 0)
  <2> HIDE DEF ten, r1, r2
  <2>1. r2 * ten \in Nat /\ (r2 # 0 => r2 * ten # 0) /\ (r2 = 0 => r2 * ten = 0)
    BY <1>4, <1>8
  <2> QED BY <1>7, <1>8, <2>1
<1>13. den \in Nat \ {0} /\ den >= Cap
  <2> HIDE DEF ten
  <2> QED BY <1>1, <1>4 DEF ten
<1>14. num \div den < Cap
  <2> HIDE DEF den
  <2>1. (num \div den < Cap) <=> (num < den * Cap)
    BY <1>1, <1>13, DivBelow
  <2>2. Cap * Cap <= den * Cap
    BY <1>1, <1>13
  <2>3. Cap * Cap \in Nat /\ den * Cap \in Nat
    BY <1>1, <1>13
  <2> QED BY <1>1, <2>1, <2>2, <2>3
<1> DEFINE q == w \div v
           rest == r2 * ten + r1
<1>15. q < Cap /\ num \div den = q /\ num % den = rest /\ (r1 # 0 \/ r2 # 0) = (rest # 0)
       /\ half = Sign3(2 * rest - den)
  BY <1>9, <1>11, <1>12, <1>14
<1> HIDE DEF q, rest, den, half, r1, r2
<1>16. DivRoundPow10By(num, t, v) = Quot(q, rest # 0, Sign3(2 * rest - den))
  BY <1>6, <1>15 DEF q
<1>17. IsQuotient(Quot(q, rest # 0, Sign3(2 * rest - den)), num, den)
  BY <1>15 DEF IsQuotient, Quot
<1> QED
  BY <1>13, <1>16, <1>17 DEF den

(* MulDivRoundWide at an exponent s of ten: a 256-bit numerator, a divisor *)
(* of two words, or a divisor split in two.                                *)
LEMMA MulDivRoundWideOnce ==
  ASSUME NEW d \in Decimals, NEW e \in Decimals, NEW f \in Decimals, f.coef # 0,
         NEW places \in 0..MaxPrec, NEW mode \in Modes, NEW neg \in BOOLEAN
  PROVE  RoundedReply(MulDivRoundWide(d, e, f, places, mode, neg),
                      d.coef * e.coef * Pow10[places + f.prec],
                      f.coef * Pow10[d.prec + e.prec], neg, places, mode)
<1> DEFINE prod == d.coef * e.coef
           a == places + f.prec
           b == d.prec + e.prec
           s == places + f.prec - (d.prec + e.prec)
           v == f.coef
           num == prod * Pow10[a]
           den == v * Pow10[b]
           res == MulDivRoundWide(d, e, f, places, mode, neg)
<1>1. /\ d.coef \in Nat /\ e.coef \in Nat /\ v \in Nat /\ v # 0 /\ v < Cap
      /\ d.coef < Cap /\ e.coef < Cap
      /\ d.prec \in 0..MaxPrec /\ e.prec \in 0..MaxPrec /\ f.prec \in 0..MaxPrec
      /\ MaxPrec \in Nat /\ Cap \in Nat /\ Wide = Cap * Cap /\ Wide \in Nat
  BY DecimalFacts, PowFacts, CapFacts
<1>2. prod \in Nat /\ prod < Wide
  <2>1. \A x, y \in 0..(Cap - 1) : x * y \in Nat /\ x * y < Cap * Cap
    <3> TAKE x \in 0..(Cap - 1), y \in 0..(Cap - 1)
    <3>1. x * y <= (Cap - 1) * y /\ (Cap - 1) * y <= (Cap - 1) * Cap
      BY <1>1
    <3>2. (Cap - 1) * Cap = Cap * Cap - Cap /\ x * y \in Nat /\ Cap > 0 /\ Cap * Cap \in Nat
      BY <1>1
    <3> QED BY <1>1, <3>1, <3>2
  <2> QED BY <1>1, <2>1
<1>3. a \in 0..2*MaxPrec /\ b \in 0..2*MaxPrec /\ s = a - b /\ -s = b - a
  BY <1>1
<1>4. Pow10[a] \in Nat \ {0} /\ Pow10[b] \in Nat \ {0} /\ v \in Nat \ {0} /\ v \in 1..(Cap - 1)
  BY <1>1, <1>3, PowBalance
<1>5. CASE a >= b
  <2> DEFINE t == Pow10[a - b]
             part == prod * t
             wide == Mul256Pow10(prod, s)
  <2>1. a - b \in 0..2*MaxPrec /\ Pow10[a] = t * Pow10[b]
    BY <1>3, <1>5, PowBalance
  <2>2. t \in Nat \ {0}
    BY <2>1, TableAssumption
  <2>3. s >= 0
    BY <1>1, <1>3, <1>5
  <2>4. res = IF ~wide.ok THEN Fail("Overflow")
              ELSE FinishRound(DivRoundWide(wide.val, v), neg, places, mode)
    BY <2>3 DEF MulDivRoundWide
  <2>5. /\ part \in Nat /\ wide.ok \in BOOLEAN
        /\ wide.ok => wide.val = part
        /\ ~wide.ok => part >= Wide
    <3> HIDE DEF prod
    <3>1. s \in 0..2*MaxPrec
      BY <1>3, <2>1
    <3> HIDE DEF s
    <3>2. Pow10[s] = t
      BY <1>3
    <3> HIDE DEF t
    <3> QED BY <1>2, <3>1, <3>2, Mul256Pow10Exact
  <2> HIDE DEF prod, t, s
  <2>6. num = part * Pow10[b]
    <3>1. \A p \in Nat \ {0} : (prod * t) * p = prod * (t * p)
      BY <1>2, <2>2
    <3> QED BY <1>4, <2>1, <3>1
  <2> HIDE DEF part, wide, res
  <2>7. RoundedReply(res, part, v, neg, places, mode)
    <3>1. CASE ~wide.ok
      <4>1. res = Fail("Overflow") /\ part >= Cap * Cap
        BY <1>1, <2>4, <2>5, <3>1
      <4> DEFINE best == RoundedCoef(part, v, neg, mode)
      <4>2. part \div v \in Nat /\ ((part \div v >= Cap) <=> (part >= v * Cap))
        BY <1>1, <1>4, <2>5, DivBelow
      <4>3. v * Cap <= Cap * Cap /\ v * Cap \in Nat /\ Cap * Cap \in Nat
        BY <1>1, <1>4
      <4>4. best \in Nat /\ best \in {part \div v, part \div v + 1}
        BY <1>4, <2>5, RoundsOnceMeans
      <4> DEFINE quo == part \div v
      <4>5. quo >= Cap /\ quo \in Nat /\ best \in {quo, quo + 1}
        BY <2>5, <4>1, <4>2, <4>3, <4>4
      <4> HIDE DEF quo, best
      <4>6. best >= Cap
        BY <1>1, <4>5
      <4> QED BY <1>4, <2>5, <4>1, <4>6, RoundedReplies DEF best
    <3>2. CASE wide.ok
      <4>1. res = FinishRound(DivRoundWide(part, v), neg, places, mode)
        BY <2>4, <2>5, <3>2
      <4>2. IsQuotient(DivRoundWide(part, v), part, v)
        BY <1>4, <2>5, DivRoundWideQuotient
      <4> QED BY <1>4, <2>5, <4>1, <4>2, FinishRoundOnce
    <3> QED BY <2>5, <3>1, <3>2
  <2>8. den = v * Pow10[b]
    OBVIOUS
  <2> HIDE DEF num, den, v
  <2>9. RoundedReply(res, num, den, neg, places, mode)
    BY <1>4, <2>5, <2>6, <2>7, <2>8, ReplyScales
  <2> QED BY <2>9 DEF num, den, v, prod, res
<1>6. CASE a < b
  <2> DEFINE t == Pow10[b - a]
             part == v * t
  <2>1. b - a \in 1..2*MaxPrec /\ Pow10[b] = t * Pow10[a]
    BY <1>3, <1>6, PowBalance
  <2>2. t \in Nat \ {0}
    BY <1>1, <2>1, TableAssumption
  <2>3. ~(s >= 0)
    BY <1>1, <1>3, <1>6
  <2>4. res = FinishRound(IF ZeroUpper(v * Pow10[-s]) THEN DivRoundWide(prod, v * Pow10[-s])
                          ELSE DivRoundPow10By(prod, -s, v), neg, places, mode)
    BY <2>3 DEF MulDivRoundWide
  <2>5. res = FinishRound(IF ZeroUpper(part) THEN DivRoundWide(prod, part)
                          ELSE DivRoundPow10By(prod, b - a, v), neg, places, mode)
    BY <1>3, <2>4
  <2>6. part \in Nat \ {0}
    BY <1>4, <2>2
  <2>7. den = part * Pow10[a]
    <3>1. \A p \in Nat \ {0} : (v * t) * p = v * (t * p)
      BY <1>4, <2>2
    <3> QED BY <1>4, <2>1, <3>1
  <2>8. num = prod * Pow10[a]
    OBVIOUS
  <2> HIDE DEF res, prod, v, num, den
  <2>9. RoundedReply(res, prod, part, neg, places, mode)
    <3>1. CASE part < Cap
      <4>1. part \in 1..(Cap - 1) /\ res = FinishRound(DivRoundWide(prod, part), neg, places, mode)
        BY <1>1, <2>5, <2>6, <3>1 DEF ZeroUpper
      <4>2. IsQuotient(DivRoundWide(prod, part), prod, part)
        BY <1>2, <4>1, DivRoundWideQuotient
      <4> HIDE DEF part
      <4> QED BY <1>2, <2>6, <4>1, <4>2, FinishRoundOnce
    <3>2. CASE ~(part < Cap)
      <4> DEFINE u == b - a
      <4>1. res = FinishRound(DivRoundPow10By(prod, u, v), neg, places, mode)
        BY <2>5, <3>2 DEF ZeroUpper
      <4>2. u \in 1..2*MaxPrec /\ v * Pow10[u] >= Cap /\ v * Pow10[u] = part
        BY <1>1, <2>1, <2>6, <3>2
      <4> HIDE DEF u, part
      <4>3. IsQuotient(DivRoundPow10By(prod, u, v), prod, v * Pow10[u])
        BY <1>2, <1>4, <4>2, DivRoundPow10ByQuotient
      <4>4. IsQuotient(DivRoundPow10By(prod, u, v), prod, part)
        BY <4>2, <4>3
      <4> QED BY <1>2, <2>6, <4>1, <4>4, FinishRoundOnce
    <3> QED BY <3>1, <3>2
  <2> HIDE DEF part
  <2>10. RoundedReply(res, num, den, neg, places, mode)
    BY <1>2, <1>4, <2>6, <2>7, <2>8, <2>9, ReplyScales
  <2> QED BY <2>10 DEF num, den, v, prod, res
<1>7. a >= b \/ a < b
  BY <1>3
<1> QED
  BY <1>5, <1>6, <1>7

(* MulDivRound rounds d*e/f once, whatever fits in 128 or 256 bits.        *)
THEOREM MulDivRoundOnce ==
  ASSUME NEW d \in Decimals, NEW e \in Decimals, NEW f \in Decimals, NEW places \in Nat, NEW mode
  PROVE  MeetsRequest(MulDivRound(d, e, f, places, mode), RoundArgsError(places, mode, f.coef),
                      d.coef * e.coef * Pow10[places + f.prec],
                      f.coef * Pow10[d.prec + e.prec],
                      (d.neg # e.neg) # f.neg, places, mode)
<1> DEFINE args == RoundArgsError(places, mode, f.coef)
           neg == (d.neg # e.neg) # f.neg
           res == MulDivRound(d, e, f, places, mode)
           prod == d.coef * e.coef
           a == places + f.prec
           b == d.prec + e.prec
           num == prod * Pow10[a]
           den == f.coef * Pow10[b]
<1>1. CASE args # "nil"
  <2>1. res = Fail(args)
    BY <1>1 DEF MulDivRound
  <2>2. IsReply(res) /\ res.val = Zero /\ res.err = args
    BY <2>1, RoundArgs, Replies
  <2> QED BY <1>1, <2>2 DEF MeetsRequest
<1>2. CASE args = "nil"
  <2>1. places \in 0..MaxPrec /\ mode \in Modes /\ f.coef # 0
    BY <1>2, RoundArgs
  <2>2. /\ d.coef \in Nat /\ e.coef \in Nat /\ f.coef \in Nat /\ f.coef \in Nat \ {0}
        /\ d.prec \in 0..MaxPrec /\ e.prec \in 0..MaxPrec /\ f.prec \in 0..MaxPrec
        /\ MaxPrec \in Nat
    BY <2>1, DecimalFacts, PowFacts
  <2>3. neg \in BOOLEAN
    OBVIOUS
  <2>4. a \in 0..2*MaxPrec /\ b \in 0..2*MaxPrec
    BY <2>1, <2>2
  <2>5. Pow10[a] \in Nat \ {0} /\ Pow10[b] \in Nat \ {0} /\ den \in Nat \ {0} /\ prod \in Nat
    <3>1. Pow10[a] \in Nat \ {0} /\ Pow10[b] \in Nat \ {0}
      BY <2>4, PowBalance
    <3>2. \A x, y \in Nat \ {0} : x * y \in Nat \ {0}
      OBVIOUS
    <3>3. \A x, y \in Nat : x * y \in Nat
      OBVIOUS
    <3> QED BY <2>2, <3>1, <3>2, <3>3
  <2>6. RoundedReply(res, num, den, neg, places, mode)
    <3> DEFINE s == places + f.prec - d.prec - e.prec
               part == prod * Pow10[s]
               inPlace == /\ OneLimb(d.coef) /\ OneLimb(e.coef) /\ OneLimb(f.coef)
                          /\ s \in 0..MaxPrec /\ OneLimb(prod) /\ OneLimb(part)
    <3>1. CASE prod = 0
      <4>1. res = Ok(Zero)
        BY <1>2, <3>1 DEF MulDivRound
      <4>2. num = 0
        <5> HIDE DEF prod
        <5> QED BY <2>5, <3>1
      <4> HIDE DEF num, den, res, neg
      <4> QED BY <2>1, <2>3, <2>5, <4>1, <4>2, ZeroRounds
    <3>2. CASE prod # 0 /\ inPlace
      <4> DEFINE v == f.coef
                 half == CmpHalf64(part % v, v)
      <4>1. res = RoundInPlace(part \div v, part % v, half, neg, places, mode)
        BY <1>2, <3>2 DEF MulDivRound
      <4>2. s \in 0..2*MaxPrec /\ a >= b /\ a - b = s
        BY <2>1, <2>2, <3>2
      <4>3. Pow10[s] \in Nat \ {0} /\ Pow10[a] = Pow10[s] * Pow10[b]
        <5>1. Pow10[a] = Pow10[a - b] * Pow10[b]
          BY <2>4, <4>2, PowBalance
        <5> QED BY <4>2, <5>1, TableAssumption
      <4>4. part < Base
        BY <3>2 DEF OneLimb
      <4> HIDE DEF res, neg, v, prod
      <4>5. part \in Nat /\ num = part * Pow10[b]
        <5>1. \A x, y, z \in Nat : x * y \in Nat /\ (x * y) * z = x * (y * z)
          OBVIOUS
        <5> QED BY <2>5, <4>3, <5>1
      <4>6. v \in Nat \ {0} /\ den = v * Pow10[b]
        BY <2>2 DEF v
      <4> HIDE DEF part, num, den
      <4>7. half = Sign3(2 * (part % v) - v)
        <5> DEFINE r == part % v
        <5>1. r \in Nat
          BY <4>5, <4>6, DivBelow
        <5> HIDE DEF r
        <5>2. CmpHalf64(r, v) = Sign3(2 * r - v)
          BY <4>6, <5>1 DEF CmpHalf64, Sign3
        <5> QED BY <5>2 DEF r
      <4> HIDE DEF half
      <4>8. RoundedReply(res, part, v, neg, places, mode)
        BY <2>1, <2>3, <4>1, <4>4, <4>5, <4>6, <4>7, RoundInPlaceOnce
      <4> QED BY <2>1, <2>3, <2>5, <4>5, <4>6, <4>8, ReplyScales
    <3>3. CASE prod # 0 /\ ~inPlace
      <4>1. res = MulDivRoundWide(d, e, f, places, mode, neg)
        BY <1>2, <3>3 DEF MulDivRound
      <4> HIDE DEF res, neg
      <4>2. RoundedReply(res, d.coef * e.coef * Pow10[places + f.prec],
                         f.coef * Pow10[d.prec + e.prec], neg, places, mode)
        BY <2>1, <2>3, <4>1, MulDivRoundWideOnce
      <4> QED BY <4>2
    <3> HIDE DEF inPlace, prod, num, den, res, neg
    <3> QED BY <3>1, <3>2, <3>3
  <2> HIDE DEF res, num, den, neg, args
  <2>7. MeetsRequest(res, args, num, den, neg, places, mode)
    BY <1>2, <2>6 DEF RoundedReply, MeetsRequest
  <2> QED BY <2>7 DEF res, num, den, neg, args, prod, a, b
<1> QED
  BY <1>1, <1>2

----------------------------------------------------------------------------
(* round.go: digits dropped from a coefficient, with the decision taken.   *)
Dropped(d, places, up) ==
  LET q == d.coef \div Pow10[d.prec - places]
  IN  NewDecimal(IF ~up THEN q ELSE IF OneLimb(d.coef) THEN (q + 1) % Base ELSE Inc128(q),
                 d.neg, places)

LEMMA DropRounds ==
  ASSUME NEW d \in Decimals, NEW places \in Nat, places < d.prec, NEW mode \in Modes,
         NEW up, up = UpFrom(d.coef, Pow10[d.prec - places], d.neg, mode)
  PROVE  RoundedReply(Ok(Dropped(d, places, up)), d.coef, Pow10[d.prec - places],
                      d.neg, places, mode)
<1> DEFINE unit == Pow10[d.prec - places]
           q == d.coef \div unit
           best == RoundedCoef(d.coef, unit, d.neg, mode)
<1>1. /\ d.coef \in Nat /\ d.coef < Cap /\ d.neg \in BOOLEAN /\ d.prec \in 0..MaxPrec
      /\ MaxPrec \in Nat /\ Cap \in Nat /\ Cap >= 16
  BY DecimalFacts, PowFacts, CapFacts
<1>2. d.prec - places \in 1..2*MaxPrec /\ places \in 0..MaxPrec
  BY <1>1
<1>3. unit \in 1..(Cap - 1) /\ unit >= 10
  BY <1>2, PowEven
<1>4. unit \in Nat \ {0}
  BY <1>1, <1>3
<1>5. Base \in Nat /\ Base >= 4
  BY WordAssumption
<1> HIDE DEF unit
<1>6. q \in Nat /\ q <= d.coef
  BY <1>1, <1>4, DivBelow
<1>7. best = (IF up THEN q + 1 ELSE q) /\ best \in Nat
  BY <1>1, <1>4, RoundsOnceMeans DEF RoundedCoef, unit
<1>8. q + 1 < Cap /\ (OneLimb(d.coef) => q + 1 < Base)
  <2> DEFINE c == d.coef
             r == c % unit
  <2>1. c \in Nat /\ r \in Nat /\ c = unit * q + r /\ c < Cap
    <3>1. c \in Nat /\ c \in Int /\ c < Cap
      BY <1>1
    <3> HIDE DEF c
    <3>2. r \in Nat
      BY <1>4, <3>1, DivBelow
    <3>3. c = unit * (c \div unit) + r
      BY <1>4, <3>1, DivMod
    <3> QED BY <3>1, <3>2, <3>3 DEF q, c
  <2>2. 10 * q <= unit * q /\ unit * q \in Nat
    BY <1>3, <1>4, <1>6
  <2> HIDE DEF r, c, q
  <2>3. 10 * q <= c
    BY <1>6, <2>1, <2>2
  <2>4. q = 0 \/ q + 1 < 10 * q
    BY <1>6
  <2>5. q + 1 < Cap
    BY <1>1, <1>6, <2>1, <2>3, <2>4
  <2>6. c < Base => q + 1 < Base
    BY <1>5, <1>6, <2>1, <2>3, <2>4
  <2> QED BY <2>5, <2>6 DEF OneLimb, c
<1> HIDE DEF q, best
<1>9. OneLimb(d.coef) => (q + 1) % Base = q + 1
  BY <1>5, <1>6, <1>8
<1>10. Inc128(q) = q + 1
  BY <1>1, <1>6, <1>8 DEF Inc128, Add128
<1>11. Dropped(d, places, up) = NewDecimal(best, d.neg, places)
  BY <1>7, <1>9, <1>10 DEF Dropped, q, unit
<1>12. best < Cap
  BY <1>1, <1>6, <1>7, <1>8
<1> DEFINE neg == d.neg
           coef == d.coef
           res == Ok(Dropped(d, places, up))
<1>13. res = Ok(NewDecimal(best, neg, places)) /\ coef \in Nat /\ neg \in BOOLEAN
       /\ best = RoundedCoef(coef, unit, neg, mode)
  BY <1>1, <1>11 DEF best
<1> HIDE DEF res, coef, neg
<1>14. RoundedReply(res, coef, unit, neg, places, mode)
  BY <1>2, <1>4, <1>12, <1>13, RoundedReplies
<1> QED
  BY <1>14 DEF res, coef, neg, unit

(* Every operation of round.go drops digits by the decision of its mode.   *)
LEMMA CoresDrop ==
  ASSUME NEW d \in Decimals, NEW places \in Nat, places < d.prec
  PROVE  LET Up(mode) == UpFrom(d.coef, Pow10[d.prec - places], d.neg, mode)
         IN  /\ TruncCore(d, places) = Dropped(d, places, Up("TowardZero"))
             /\ RoundHalfAwayCore(d, places) = Dropped(d, places, Up("ToNearestAway"))
             /\ RoundBankCore(d, places) = Dropped(d, places, Up("ToNearestEven"))
             /\ DirCore(d, places, TRUE) = Dropped(d, places, Up("AwayFromZero"))
             /\ DirCore(d, places, ~d.neg) = Dropped(d, places, Up("TowardPositive"))
             /\ DirCore(d, places, d.neg) = Dropped(d, places, Up("TowardNegative"))
<1> DEFINE unit == Pow10[d.prec - places]
           coef == d.coef
           neg == d.neg
           q == coef \div unit
           r == coef % unit
           h == unit \div 2
           half == Sign3(2 * r - unit)
<1>1. /\ coef \in Nat /\ neg \in BOOLEAN /\ d.prec - places \in 1..2*MaxPrec
  <2>1. MaxPrec \in Nat
    BY PowFacts
  <2>2. d.coef \in Nat /\ d.neg \in BOOLEAN /\ d.prec \in 0..MaxPrec
    BY DecimalFacts
  <2> QED BY <2>1, <2>2
<1>2. unit \in Nat \ {0} /\ unit = 2 * h
  <2>1. unit \in 1..(Cap - 1) /\ unit = 2 * h /\ Cap \in Nat
    BY <1>1, PowEven, CapFacts
  <2> QED BY <2>1
<1>3. r \in Nat /\ h \in Int
  <2> HIDE DEF unit, coef
  <2> QED BY <1>1, <1>2, DivBelow
<1>4. /\ TruncCore(d, places) = Dropped(d, places, FALSE)
      /\ RoundHalfAwayCore(d, places) = Dropped(d, places, r >= h)
      /\ RoundBankCore(d, places) = Dropped(d, places, r > h \/ (r = h /\ IsOdd(q)))
      /\ \A p \in BOOLEAN : DirCore(d, places, p) = Dropped(d, places, p /\ r # 0)
  BY DEF TruncCore, RoundHalfAwayCore, RoundBankCore, DirCore, DropDigits, Dropped
<1>5. \A mode : UpFrom(d.coef, Pow10[d.prec - places], d.neg, mode)
                  = RoundsUp(mode, r # 0, half, IsOdd(q), neg)
  BY DEF UpFrom
<1> HIDE DEF unit, q, r, h
<1>6. /\ half >= 0 <=> r >= h
      /\ half > 0 <=> r > h
      /\ half = 0 <=> r = h
      /\ h > 0 /\ half \in Int
  BY <1>2, <1>3 DEF Sign3
<1>7. IsOdd(q) \in BOOLEAN
  BY DEF IsOdd
<1> DEFINE odd == IsOdd(q)
<1> HIDE DEF odd, half, neg
<1>8. /\ RoundsUp("TowardZero", r # 0, half, odd, neg) = FALSE
      /\ RoundsUp("AwayFromZero", r # 0, half, odd, neg) = (TRUE /\ r # 0)
      /\ RoundsUp("TowardPositive", r # 0, half, odd, neg) = (~neg /\ r # 0)
      /\ RoundsUp("TowardNegative", r # 0, half, odd, neg) = (neg /\ r # 0)
  BY <1>1 DEF RoundsUp
<1>9. RoundsUp("ToNearestAway", r # 0, half, odd, neg) = (r >= h)
  <2>1. r >= h => r # 0
    BY <1>3, <1>6
  <2>2. RoundsUp("ToNearestAway", r # 0, half, odd, neg) = (r # 0 /\ half >= 0)
    BY DEF RoundsUp
  <2> QED BY <1>6, <2>1, <2>2
<1>10. RoundsUp("ToNearestEven", r # 0, half, odd, neg) = (r > h \/ (r = h /\ odd))
  <2>1. (r > h => r # 0) /\ (r = h => r # 0)
    BY <1>3, <1>6
  <2>2. RoundsUp("ToNearestEven", r # 0, half, odd, neg)
          = (r # 0 /\ (half > 0 \/ (half = 0 /\ odd)))
    BY DEF RoundsUp
  <2> QED BY <1>6, <2>1, <2>2
<1>11. TRUE \in BOOLEAN /\ (~neg) \in BOOLEAN /\ d.neg = neg
  BY <1>1 DEF neg
<1> QED
  BY <1>1, <1>4, <1>5, <1>8, <1>9, <1>10, <1>11 DEF odd

(* What an operation of round.go answers: its receiver if it has no digits *)
(* to drop, and its receiver rounded once in the operation's mode if it    *)
(* has.                                                                    *)
RoundsReceiver(res, d, places, mode) ==
  IF places >= d.prec THEN res = Ok(d)
  ELSE RoundedReply(res, d.coef, Pow10[d.prec - places], d.neg, places, mode)

THEOREM FamilyRoundsOnce ==
  ASSUME NEW d \in Decimals, NEW places \in Nat
  PROVE  /\ RoundsReceiver(Ok(Round(d, places)), d, places, "ToNearestAway")
         /\ RoundsReceiver(Ok(RoundBank(d, places)), d, places, "ToNearestEven")
         /\ RoundsReceiver(Ok(RoundUp(d, places)), d, places, "AwayFromZero")
         /\ RoundsReceiver(Ok(RoundDown(d, places)), d, places, "TowardZero")
         /\ RoundsReceiver(Ok(RoundCeil(d, places)), d, places, "TowardPositive")
         /\ RoundsReceiver(Ok(RoundFloor(d, places)), d, places, "TowardNegative")
         /\ RoundsReceiver(Ok(Truncate(d, places)), d, places, "TowardZero")
         /\ RoundsReceiver(Ok(Ceil(d)), d, 0, "TowardPositive")
         /\ RoundsReceiver(Ok(Floor(d)), d, 0, "TowardNegative")
<1> DEFINE Drop(p, mode) == Dropped(d, p, UpFrom(d.coef, Pow10[d.prec - p], d.neg, mode))
<1>1. MaxPrec \in Nat /\ d.prec \in 0..MaxPrec
  <2>1. MaxPrec \in Nat
    BY PowFacts
  <2>2. d.prec \in 0..MaxPrec
    BY DecimalFacts
  <2> QED BY <2>1, <2>2
<1>2. ASSUME NEW p \in Nat, p < d.prec, NEW mode \in Modes
      PROVE  RoundsReceiver(Ok(Drop(p, mode)), d, p, mode)
  <2>1. ~(p >= d.prec)
    BY <1>1, <1>2
  <2> QED BY <1>2, <2>1, DropRounds DEF RoundsReceiver
<1>3. {"ToNearestAway", "ToNearestEven", "AwayFromZero", "TowardZero",
       "TowardPositive", "TowardNegative"} = Modes
  BY DEF Modes
<1>4. /\ RoundsReceiver(Ok(Round(d, places)), d, places, "ToNearestAway")
      /\ RoundsReceiver(Ok(RoundBank(d, places)), d, places, "ToNearestEven")
      /\ RoundsReceiver(Ok(RoundUp(d, places)), d, places, "AwayFromZero")
      /\ RoundsReceiver(Ok(RoundDown(d, places)), d, places, "TowardZero")
      /\ RoundsReceiver(Ok(RoundCeil(d, places)), d, places, "TowardPositive")
      /\ RoundsReceiver(Ok(RoundFloor(d, places)), d, places, "TowardNegative")
      /\ RoundsReceiver(Ok(Truncate(d, places)), d, places, "TowardZero")
  <2>1. CASE places >= d.prec
    BY <2>1 DEF RoundsReceiver, Round, RoundBank, RoundUp, RoundDown, RoundCeil, RoundFloor, Truncate
  <2>2. CASE ~(places >= d.prec)
    <3>1. places < d.prec
      BY <1>1, <2>2
    <3>2. /\ Round(d, places) = Drop(places, "ToNearestAway")
          /\ RoundBank(d, places) = Drop(places, "ToNearestEven")
          /\ RoundUp(d, places) = Drop(places, "AwayFromZero")
          /\ RoundDown(d, places) = Drop(places, "TowardZero")
          /\ RoundCeil(d, places) = Drop(places, "TowardPositive")
          /\ RoundFloor(d, places) = Drop(places, "TowardNegative")
          /\ Truncate(d, places) = Drop(places, "TowardZero")
      BY <2>2, <3>1, CoresDrop DEF Round, RoundBank, RoundUp, RoundDown, RoundCeil, RoundFloor, Truncate
    <3> QED BY <1>2, <1>3, <3>1, <3>2
  <2> QED BY <2>1, <2>2
<1>5. RoundsReceiver(Ok(Ceil(d)), d, 0, "TowardPositive")
      /\ RoundsReceiver(Ok(Floor(d)), d, 0, "TowardNegative")
  <2>1. CASE d.prec = 0
    BY <1>1, <2>1 DEF RoundsReceiver, Ceil, Floor
  <2>2. CASE d.prec # 0
    <3>1. 0 \in Nat /\ 0 < d.prec
      BY <1>1, <2>2
    <3>2. /\ Ceil(d) = Drop(0, "TowardPositive")
          /\ Floor(d) = Drop(0, "TowardNegative")
      BY <2>2, <3>1, CoresDrop DEF Ceil, Floor
    <3> QED BY <1>2, <1>3, <3>1, <3>2
  <2> QED BY <2>1, <2>2
<1> QED
  BY <1>4, <1>5

(* Rescale rounds half to even where it lowers the precision and never     *)
(* fails there; it raises the precision exactly, and fails only when the   *)
(* longer coefficient or the requested precision does not fit.             *)
Rescaled(d, prec) ==
  IF prec > MaxPrec THEN Fail("PrecOutOfRange")
  ELSE IF d.coef * Pow10[prec - d.prec] >= Cap THEN Fail("Overflow")
  ELSE Ok(NewDecimal(d.coef * Pow10[prec - d.prec], d.neg, prec))

LEMMA RescaleRounds ==
  ASSUME NEW d \in Decimals, NEW prec \in Nat
  PROVE  /\ IsReply(Rescale(d, prec))
         /\ IF prec < d.prec
            THEN /\ Rescale(d, prec).err = "nil"
                 /\ RoundedReply(Rescale(d, prec), d.coef, Pow10[d.prec - prec], d.neg,
                                 prec, "ToNearestEven")
            ELSE Rescale(d, prec) = Rescaled(d, prec)
<1> DEFINE res == Rescale(d, prec)
<1>1. /\ d.coef \in Nat /\ d.coef < Cap /\ d.neg \in BOOLEAN /\ d.prec \in 0..MaxPrec
      /\ MaxPrec \in Nat /\ Cap \in Nat
  BY DecimalFacts, PowFacts, CapFacts
<1>2. CASE prec = d.prec
  <2>1. res = Ok(d) /\ ~(prec < d.prec) /\ ~(prec > MaxPrec)
    BY <1>1, <1>2 DEF Rescale
  <2>2. d.coef * Pow10[prec - d.prec] = d.coef
    <3>1. prec - d.prec = 0 /\ Pow10[0] = 1
      BY <1>1, <1>2, PowFacts
    <3> QED BY <1>1, <3>1
  <2>3. NewDecimal(d.coef, d.neg, prec) = d
    BY <1>2, DecimalFacts DEF NewDecimal, RawDecimal
  <2>4. ~(d.coef >= Cap)
    BY <1>1
  <2>5. res = Rescaled(d, prec)
    BY <2>1, <2>2, <2>3, <2>4 DEF Rescaled
  <2> QED BY <2>1, <2>5, Replies
<1>3. CASE prec # d.prec /\ prec > MaxPrec
  <2>1. res = Fail("PrecOutOfRange") /\ ~(prec < d.prec)
    BY <1>1, <1>3 DEF Rescale, RescaleCore
  <2>2. IsReply(res)
    BY <2>1, Replies DEF Errors
  <2> QED BY <1>3, <2>1, <2>2 DEF Rescaled
<1>4. CASE prec # d.prec /\ prec <= MaxPrec /\ prec < d.prec
  <2>1. ~(prec > MaxPrec) /\ ~(prec >= d.prec)
    BY <1>1, <1>4
  <2>2. res = Ok(RoundBankCore(d, prec))
    BY <1>4, <2>1 DEF Rescale, RescaleCore
  <2>3. RoundBankCore(d, prec) = Dropped(d, prec, UpFrom(d.coef, Pow10[d.prec - prec], d.neg, "ToNearestEven"))
    BY <1>4, CoresDrop
  <2>4. "ToNearestEven" \in Modes
    BY DEF Modes
  <2>5. RoundedReply(res, d.coef, Pow10[d.prec - prec], d.neg, prec, "ToNearestEven")
    BY <1>4, <2>2, <2>3, <2>4, DropRounds
  <2>6. res.err = "nil"
    BY <2>2 DEF Ok
  <2> QED BY <1>4, <2>5, <2>6 DEF RoundedReply
<1>5. CASE prec # d.prec /\ prec <= MaxPrec /\ prec > d.prec
  <2> DEFINE t == Pow10[prec - d.prec]
             c == d.coef * t
             prod == Mul128by64(d.coef, t)
  <2>1. ~(prec > MaxPrec) /\ ~(prec < d.prec) /\ prec >= d.prec /\ prec \in 0..MaxPrec
    BY <1>1, <1>5
  <2>2. res = IF prod.overflow # 0 THEN Fail("Overflow") ELSE Ok(NewDecimal(prod.val, d.neg, prec))
    BY <1>5, <2>1 DEF Rescale, RescaleCore
  <2>3. c \in Nat
    BY <2>1, Aligned
  <2>4. prod.overflow = c \div Cap /\ prod.val = c % Cap
    BY DEF Mul128by64
  <2>5. Rescaled(d, prec) = IF c >= Cap THEN Fail("Overflow") ELSE Ok(NewDecimal(c, d.neg, prec))
    BY <2>1 DEF Rescaled
  <2> HIDE DEF c, prod, res
  <2>6. (c \div Cap # 0) <=> c >= Cap
    <3>1. c \div Cap \in Nat /\ ((c \div Cap >= 1) <=> (c >= Cap * 1))
      BY <1>1, <2>3, CapFacts, DivBelow
    <3> DEFINE high == c \div Cap
    <3>2. high \in Nat /\ (high >= 1 <=> c >= Cap * 1)
      BY <3>1
    <3> HIDE DEF high
    <3>3. high # 0 <=> c >= Cap
      BY <1>1, <2>3, <3>2
    <3> QED BY <3>3 DEF high
  <2>7. CASE c >= Cap
    <3>1. res = Fail("Overflow")
      BY <2>2, <2>4, <2>6, <2>7
    <3>2. IsReply(res) /\ res = Rescaled(d, prec)
      BY <2>5, <2>7, <3>1, Replies DEF Errors
    <3> QED BY <2>1, <3>2 DEF res
  <2>8. CASE c < Cap
    <3>1. ~(c >= Cap) /\ c % Cap = c
      BY <1>1, <2>3, <2>8
    <3>2. res = Ok(NewDecimal(c, d.neg, prec))
      BY <2>2, <2>4, <2>6, <3>1
    <3>3. IsReply(res) /\ res = Rescaled(d, prec)
      BY <1>1, <2>1, <2>3, <2>5, <2>8, <3>1, <3>2, MakeDecimal
    <3> QED BY <2>1, <3>3 DEF res
  <2>9. c < Cap \/ c >= Cap
    BY <1>1, <2>3
  <2> QED BY <2>7, <2>8, <2>9
<1>6. \/ prec = d.prec \/ (prec # d.prec /\ prec > MaxPrec)
      \/ (prec # d.prec /\ prec <= MaxPrec /\ prec < d.prec)
      \/ (prec # d.prec /\ prec <= MaxPrec /\ prec > d.prec)
  BY <1>1
<1> QED
  BY <1>2, <1>3, <1>4, <1>5, <1>6

----------------------------------------------------------------------------
(* A state of the loops that strip trailing zeros, and the Decimals that   *)
(* denote what it denotes with no trailing zero left.                      *)
TrimStates == [coef : U128, prec : 0..MaxPrec]
Stripped(s) == [coef |-> s.coef \div 10, prec |-> s.prec - 1]
Reduced(t) == t.prec = 0 \/ t.coef % 10 # 0
Units(s) == s.coef * Pow10[MaxPrec - s.prec]
TrimmedFrom(s, neg) ==
  {t \in Decimals : /\ Units(t) = Units(s) /\ Reduced(t)
                    /\ t.coef # 0 => t.neg = neg}

LEMMA TrimStateFacts ==
  ASSUME NEW s \in TrimStates
  PROVE  /\ s.coef \in Nat /\ s.coef < Cap /\ s.prec \in 0..MaxPrec /\ s.prec \in Nat
         /\ s = [coef |-> s.coef, prec |-> s.prec]
<1>1. Cap \in Nat /\ MaxPrec \in Nat
  BY CapFacts, PowFacts
<1> QED
  BY <1>1 DEF TrimStates, U128

(* Dropping a trailing zero keeps the magnitude.                           *)
LEMMA StripKeeps ==
  ASSUME NEW s \in TrimStates, s.prec > 0, s.coef % 10 = 0
  PROVE  /\ Stripped(s) \in TrimStates /\ Stripped(s).prec < s.prec
         /\ Units(Stripped(s)) = Units(s)
<1> DEFINE c == s.coef
           p == s.prec
           q == c \div 10
           k == MaxPrec - p
<1>1. c \in Nat /\ c < Cap /\ p \in 0..MaxPrec /\ p > 0 /\ Cap \in Nat /\ MaxPrec \in Nat
  BY TrimStateFacts, CapFacts, PowFacts
<1>2. q \in Nat /\ q <= c /\ c = 10 * q
  <2> HIDE DEF c
  <2>1. q \in Nat /\ q <= c /\ c = 10 * q + (c % 10)
    <3>1. c \in Nat /\ c \in Int /\ 10 \in Nat \ {0}
      BY <1>1
    <3>2. q \in Nat /\ q <= c
      BY <3>1, DivBelow
    <3>3. c = 10 * q + (c % 10)
      BY <3>1, DivMod
    <3> QED BY <3>2, <3>3
  <2> QED BY <1>1, <2>1 DEF c
<1>3. k \in 0..(2*MaxPrec - 1) /\ MaxPrec - (p - 1) = k + 1
  BY <1>1
<1>4. Pow10[k + 1] = Pow10[k] * 10 /\ Pow10[k] \in Nat
  BY <1>3, PowStep
<1>5. q * Pow10[k + 1] = c * Pow10[k]
  <2> DEFINE t == Pow10[k]
  <2>1. \A x \in Nat : q * (x * 10) = (10 * q) * x
    BY <1>2
  <2>2. t \in Nat /\ Pow10[k + 1] = t * 10
    BY <1>4
  <2> HIDE DEF t
  <2> QED BY <1>2, <2>1, <2>2 DEF t
<1>6. Stripped(s) = [coef |-> q, prec |-> p - 1] /\ q \in U128 /\ p - 1 \in 0..MaxPrec
  BY <1>1, <1>2 DEF Stripped, U128
<1> HIDE DEF q, p, c
<1>7. Stripped(s) \in TrimStates /\ Stripped(s).prec = p - 1 /\ Stripped(s).coef = q
  BY <1>6 DEF TrimStates
<1>8. Units(Stripped(s)) = q * Pow10[k + 1]
  BY <1>3, <1>7 DEF Units
<1>9. Units(s) = c * Pow10[k]
  BY DEF Units, c, p
<1> QED
  BY <1>1, <1>5, <1>7, <1>8, <1>9 DEF p

(* What the loops answer when they stop.                                   *)
LEMMA TrimStop ==
  ASSUME NEW s \in TrimStates, s.prec = 0 \/ s.coef % 10 # 0, NEW neg \in BOOLEAN
  PROVE  NewDecimal(s.coef, neg, s.prec) \in TrimmedFrom(s, neg)
<1> DEFINE t == NewDecimal(s.coef, neg, s.prec)
<1>1. s.coef \in Nat /\ s.coef < Cap /\ s.prec \in 0..MaxPrec
  BY TrimStateFacts
<1>2. t \in Decimals /\ t.coef = s.coef /\ (s.coef = 0 => t = Zero)
      /\ (s.coef # 0 => t.neg = neg /\ t.prec = s.prec)
  BY <1>1, MakeDecimal
<1> HIDE DEF t
<1>3. CASE s.coef = 0
  <2>1. t.prec = 0 /\ t.coef = 0
    BY <1>2, <1>3 DEF Zero
  <2>2. MaxPrec - s.prec \in 0..2*MaxPrec /\ MaxPrec - 0 \in 0..2*MaxPrec
    BY <1>1, PowFacts
  <2>3. Pow10[MaxPrec - s.prec] \in Nat /\ Pow10[MaxPrec - 0] \in Nat
    BY <2>2, PowFacts
  <2>4. Units(t) = Units(s)
    BY <1>3, <2>1, <2>3 DEF Units
  <2> QED BY <1>2, <2>1, <2>4 DEF TrimmedFrom, Reduced, t
<1>4. CASE s.coef # 0
  BY <1>2, <1>4 DEF TrimmedFrom, Reduced, Units, t
<1> QED
  BY <1>3, <1>4

(* Trim's two loops: what they answer from any state.                      *)
LEMMA TrimCoreReduces ==
  ASSUME NEW d \in Decimals
  PROVE  TrimCore(d) \in TrimmedFrom([coef |-> d.coef, prec |-> d.prec], d.neg)
<1> DEFINE X == TrimStates
           neg == d.neg
           Narrow(f) == [s \in X |-> IF s.prec > 0 /\ s.coef % 10 = 0 THEN f[Stripped(s)]
                                     ELSE NewDecimal(s.coef, neg, s.prec)]
           narrow == CHOOSE f : f = Narrow(f)
           WideOver(n, f) == [s \in X |-> IF s.prec = 0 \/ OneLimb(s.coef) THEN n[s]
                                          ELSE IF s.coef % 10 # 0 THEN NewDecimal(s.coef, neg, s.prec)
                                          ELSE f[Stripped(s)]]
           wide == CHOOSE f : f = WideOver(narrow, f)
           start == [coef |-> d.coef, prec |-> d.prec]
           nxt == [s \in X |-> Stripped(s)]
           m == [s \in X |-> s.prec]
           good == [s \in X |-> TrimmedFrom(s, neg)]
<1>1. TrimCore(d) = wide[start]
  BY DEF TrimCore, TrimStates, Stripped
<1>2. start \in X /\ neg \in BOOLEAN
  <2>1. d.coef \in U128 /\ d.prec \in 0..MaxPrec /\ d.neg \in BOOLEAN
    BY DEF Decimals
  <2> QED BY <2>1 DEF TrimStates
<1>3. \A s \in X : m[s] \in Nat /\ nxt[s] = Stripped(s) /\ m[s] = s.prec /\ s.prec \in Nat
                   /\ good[s] = TrimmedFrom(s, neg)
  BY TrimStateFacts
<1>4. \A s \in X : s.prec > 0 /\ s.coef % 10 = 0 =>
         /\ Stripped(s) \in X /\ Stripped(s).prec < s.prec
         /\ TrimmedFrom(Stripped(s), neg) = TrimmedFrom(s, neg)
  <2> TAKE s \in X
  <2> HAVE s.prec > 0 /\ s.coef % 10 = 0
  <2>1. Stripped(s) \in X /\ Stripped(s).prec < s.prec /\ Units(Stripped(s)) = Units(s)
    BY StripKeeps
  <2> QED BY <2>1 DEF TrimmedFrom
<1>5. \A s \in X : ~(s.prec > 0 /\ s.coef % 10 = 0) =>
         NewDecimal(s.coef, neg, s.prec) \in TrimmedFrom(s, neg)
  <2> TAKE s \in X
  <2> HAVE ~(s.prec > 0 /\ s.coef % 10 = 0)
  <2>1. s.prec = 0 \/ s.coef % 10 # 0
    BY TrimStateFacts
  <2> QED BY <1>2, <2>1, TrimStop
<1> HIDE DEF X, neg, start
<1>6. \A s \in X : narrow[s] \in TrimmedFrom(s, neg)
  <2> DEFINE Stop == {s \in X : ~(s.prec > 0 /\ s.coef % 10 = 0)}
             res == [s \in X |-> NewDecimal(s.coef, neg, s.prec)]
  <2>1. Decreases(X, Stop, nxt, m)
    <3>1. m \in [X -> Nat]
      BY <1>3
    <3>2. \A s \in X : s \notin Stop => nxt[s] \in X /\ m[nxt[s]] < m[s]
      BY <1>3, <1>4
    <3> QED BY <3>1, <3>2 DEF Decreases
  <2>2. \A f : LoopBody(X, Stop, res, nxt, f) = Narrow(f)
    BY DEF LoopBody
  <2>3. \E f : f = LoopBody(X, Stop, res, nxt, f)
    <3> HIDE DEF Stop, res, nxt, m
    <3> QED BY <2>1, LoopDefined
  <2>4. \E f : f = Narrow(f)
    <3> HIDE DEF Stop, res, nxt, m, Narrow
    <3> QED BY <2>2, <2>3
  <2>5. narrow = Narrow(narrow)
    <3> HIDE DEF Narrow
    <3> QED BY <2>4
  <2>6. narrow = LoopBody(X, Stop, res, nxt, narrow)
    <3> HIDE DEF Narrow, narrow, Stop, res, nxt
    <3> QED BY <2>2, <2>5
  <2>7. \A s \in X : s \in Stop => res[s] \in good[s]
    BY <1>3, <1>5
  <2>8. \A s \in X : s \notin Stop => good[nxt[s]] \subseteq good[s]
    BY <1>3, <1>4
  <2>9. \A s \in X : narrow[s] \in good[s]
    <3> HIDE DEF narrow, Stop, res, nxt, m, good
    <3> QED BY <2>1, <2>6, <2>7, <2>8, LoopRule
  <2> HIDE DEF narrow
  <2> QED BY <1>3, <2>9
<1> HIDE DEF narrow
<1>7. \A s \in X : wide[s] \in TrimmedFrom(s, neg)
  <2> DEFINE Going(s) == s.prec # 0 /\ ~OneLimb(s.coef) /\ s.coef % 10 = 0
             Stop == {s \in X : ~Going(s)}
             res == [s \in X |-> IF s.prec = 0 \/ OneLimb(s.coef) THEN narrow[s]
                                 ELSE NewDecimal(s.coef, neg, s.prec)]
  <2>1. \A s \in X : Going(s) => s.prec > 0 /\ s.coef % 10 = 0
    BY <1>3
  <2>2. Decreases(X, Stop, nxt, m)
    <3>1. m \in [X -> Nat]
      BY <1>3
    <3> HIDE DEF Going
    <3>2. \A s \in X : s \notin Stop => nxt[s] \in X /\ m[nxt[s]] < m[s]
      BY <1>3, <1>4, <2>1
    <3> QED BY <3>1, <3>2 DEF Decreases
  <2>3. \A f : LoopBody(X, Stop, res, nxt, f) = WideOver(narrow, f)
    BY DEF LoopBody
  <2>4. \E f : f = LoopBody(X, Stop, res, nxt, f)
    <3> HIDE DEF Stop, res, nxt, m
    <3> QED BY <2>2, LoopDefined
  <2>5. \E f : f = WideOver(narrow, f)
    <3> HIDE DEF Stop, res, nxt, m, WideOver
    <3> QED BY <2>3, <2>4
  <2>6. wide = WideOver(narrow, wide)
    <3> HIDE DEF WideOver
    <3> QED BY <2>5
  <2>7. wide = LoopBody(X, Stop, res, nxt, wide)
    <3> HIDE DEF WideOver, wide, Stop, res, nxt
    <3> QED BY <2>3, <2>6
  <2>8. \A s \in X : s \in Stop => res[s] \in good[s]
    <3> TAKE s \in X
    <3> HAVE s \in Stop
    <3>1. CASE s.prec = 0 \/ OneLimb(s.coef)
      BY <1>3, <1>6, <3>1
    <3>2. CASE ~(s.prec = 0 \/ OneLimb(s.coef))
      <4>1. s.coef % 10 # 0
        BY <3>2
      <4> QED BY <1>3, <1>5, <3>2, <4>1
    <3> QED BY <3>1, <3>2
  <2>9. \A s \in X : s \notin Stop => good[nxt[s]] \subseteq good[s]
    <3> HIDE DEF Going
    <3> QED BY <1>3, <1>4, <2>1
  <2>10. \A s \in X : wide[s] \in good[s]
    <3> HIDE DEF wide, Stop, res, nxt, m, good
    <3> QED BY <2>2, <2>7, <2>8, <2>9, LoopRule
  <2> HIDE DEF wide
  <2> QED BY <1>3, <2>10
<1> QED
  BY <1>1, <1>2, <1>7 DEF start, neg

(* What Trim answers: the value of its receiver, with no trailing zero.    *)
LEMMA TrimReduces ==
  ASSUME NEW d \in Decimals
  PROVE  /\ Trim(d) \in TrimmedFrom([coef |-> d.coef, prec |-> d.prec], d.neg)
         /\ Trim(d) \in Decimals /\ Scaled(Trim(d)) = Scaled(d) /\ Reduced(Trim(d))
<1> DEFINE start == [coef |-> d.coef, prec |-> d.prec]
           t == Trim(d)
<1>1. t \in TrimmedFrom(start, d.neg)
  <2>1. CASE d.prec = 0
    BY <2>1 DEF Trim, TrimmedFrom, Units, Reduced
  <2>2. CASE d.prec # 0
    BY <2>2, TrimCoreReduces DEF Trim
  <2> QED BY <2>1, <2>2
<1> HIDE DEF t
<1>2. /\ t \in Decimals /\ Reduced(t) /\ (t.coef # 0 => t.neg = d.neg)
      /\ t.coef * Pow10[MaxPrec - t.prec] = d.coef * Pow10[MaxPrec - d.prec]
  BY <1>1 DEF TrimmedFrom, Units
<1>3. /\ Scaled(t) = WithSign(t.coef * Pow10[MaxPrec - t.prec], t.neg)
      /\ Scaled(d) = WithSign(d.coef * Pow10[MaxPrec - d.prec], d.neg)
      /\ t.coef * Pow10[MaxPrec - t.prec] \in Nat
  BY <1>2, ScaledMagnitude
<1>4. Scaled(t) = Scaled(d)
  <2> DEFINE u == Pow10[MaxPrec - t.prec]
             m == t.coef * u
  <2>1. u \in Nat \ {0}
    BY <1>2, ScaledMagnitude
  <2>2. t.coef = 0 => m = 0
    <3> HIDE DEF u
    <3> QED BY <2>1
  <2>3. Scaled(t) = WithSign(m, t.neg) /\ Scaled(d) = WithSign(m, d.neg)
    BY <1>2, <1>3
  <2> HIDE DEF m
  <2> QED BY <1>2, <2>2, <2>3 DEF WithSign
<1> QED
  BY <1>1, <1>2, <1>4 DEF t

(* Two reduced Decimals of one value are one Decimal.                      *)
LEMMA ReducedUnique ==
  ASSUME NEW a \in Decimals, NEW b \in Decimals, Reduced(a), Reduced(b),
         Scaled(a) = Scaled(b)
  PROVE  a = b
<1>1. \A x \in Decimals :
        /\ x.coef \in Nat /\ x.neg \in BOOLEAN /\ x.prec \in 0..MaxPrec
        /\ Pow10[MaxPrec - x.prec] \in Nat \ {0} /\ x.coef * Pow10[MaxPrec - x.prec] \in Nat
        /\ Scaled(x) = WithSign(x.coef * Pow10[MaxPrec - x.prec], x.neg)
        /\ x.coef = 0 => x = Zero
        /\ x = [coef |-> x.coef, neg |-> x.neg, prec |-> x.prec]
  BY DecimalFacts, ScaledMagnitude
<1> DEFINE u == Pow10[MaxPrec - a.prec]
           v == Pow10[MaxPrec - b.prec]
           p == a.coef * u
           q == b.coef * v
<1>2. /\ u \in Nat \ {0} /\ v \in Nat \ {0} /\ p \in Nat /\ q \in Nat
      /\ a.coef \in Nat /\ b.coef \in Nat /\ a.neg \in BOOLEAN /\ b.neg \in BOOLEAN
      /\ Scaled(a) = WithSign(p, a.neg) /\ Scaled(b) = WithSign(q, b.neg)
  BY <1>1
<1>3. p = q /\ (p # 0 => a.neg = b.neg)
  <2>1. WithSign(p, a.neg) = WithSign(q, b.neg)
    BY <1>2
  <2> HIDE DEF p, q
  <2> QED BY <1>2, <2>1 DEF WithSign
<1>4. (p = 0 <=> a.coef = 0) /\ (q = 0 <=> b.coef = 0)
  <2> HIDE DEF u, v
  <2> QED BY <1>2
<1>5. CASE p = 0
  BY <1>1, <1>3, <1>4, <1>5
<1>6. CASE p # 0
  <2>1. \A x, y \in Decimals : x.prec < y.prec /\ Reduced(y) =>
           x.coef * Pow10[MaxPrec - x.prec] # y.coef * Pow10[MaxPrec - y.prec]
    <3> SUFFICES ASSUME NEW x \in Decimals, NEW y \in Decimals, x.prec < y.prec, Reduced(y),
                        x.coef * Pow10[MaxPrec - x.prec] = y.coef * Pow10[MaxPrec - y.prec]
                 PROVE  FALSE
      OBVIOUS
    <3> DEFINE k == MaxPrec - y.prec
               j == y.prec - x.prec - 1
               s == Pow10[k]
               t == Pow10[j]
    <3>1. /\ x.coef \in Nat /\ y.coef \in Nat /\ x.prec \in 0..MaxPrec /\ y.prec \in 0..MaxPrec
          /\ MaxPrec \in Nat
      BY <1>1, PowFacts
    <3>2. /\ k \in 0..2*MaxPrec /\ j \in 0..(2*MaxPrec - 1) /\ j + 1 \in 0..2*MaxPrec
          /\ MaxPrec - x.prec = (j + 1) + k /\ (j + 1) + k <= 2*MaxPrec
      BY <3>1
    <3>3. Pow10[j + 1] = t * 10 /\ t \in Nat \ {0} /\ s \in Nat \ {0}
      BY <3>2, PowStep, TableAssumption
    <3>4. Pow10[MaxPrec - x.prec] = (t * 10) * s
      <4>1. Pow10[(j + 1) + k] = Pow10[j + 1] * Pow10[k]
        BY <3>2, PowFacts
      <4> QED BY <3>2, <3>3, <4>1
    <3>5. x.coef * ((t * 10) * s) = y.coef * s
      BY <3>4
    <3> HIDE DEF s, t
    <3> DEFINE c == x.coef
               e == y.coef
               w == c * t
    <3>6. c \in Nat /\ e \in Nat /\ c * ((t * 10) * s) = e * s
      BY <3>1, <3>5
    <3> HIDE DEF c, e
    <3>7. (w * 10) * s = e * s /\ w \in Nat
      BY <3>3, <3>6
    <3> HIDE DEF w
    <3>8. e = w * 10
      <4>1. (w * 10 - e) * s = 0
        BY <3>3, <3>6, <3>7
      <4> QED BY <3>3, <3>6, <3>7, <4>1
    <3>9. e % 10 = 0
      BY <3>7, <3>8
    <3>10. y.prec # 0
      BY <3>1
    <3> QED BY <3>9, <3>10 DEF Reduced, e
  <2>2. ~(a.prec < b.prec) /\ ~(b.prec < a.prec)
    BY <1>3, <2>1
  <2>3. a.prec = b.prec
    <3>1. a.prec \in 0..MaxPrec /\ b.prec \in 0..MaxPrec /\ MaxPrec \in Nat
      BY <1>1, PowFacts
    <3> QED BY <2>2, <3>1
  <2>4. a.coef = b.coef
    <3>1. u = v
      BY <2>3
    <3> DEFINE c == a.coef
               e == b.coef
    <3>2. c * u = e * u /\ c \in Nat /\ e \in Nat /\ u \in Nat \ {0}
      BY <1>2, <1>3, <3>1
    <3> HIDE DEF c, e, u
    <3>3. (c - e) * u = 0
      BY <3>2
    <3>4. c = e
      BY <3>2, <3>3
    <3> QED BY <3>4 DEF c, e
  <2> QED BY <1>1, <1>3, <1>6, <2>3, <2>4
<1> QED
  BY <1>5, <1>6

(* What Cmp calls equal trims to one representation, and nothing else.     *)
LEMMA TrimEqual ==
  ASSUME NEW d \in Decimals, NEW e \in Decimals
  PROVE  (Cmp(d, e) = 0) <=> (Trim(d) = Trim(e))
<1>1. Scaled(d) \in Int /\ Scaled(e) \in Int
  BY ScaledInt
<1>2. (Cmp(d, e) = 0) <=> (Scaled(d) = Scaled(e))
  <2> DEFINE x == Scaled(d) - Scaled(e)
  <2>1. Cmp(d, e) = Sign3(x) /\ x \in Int
    BY <1>1, CmpIsExact
  <2>2. Sign3(x) = 0 <=> x = 0
    BY <2>1, SignFacts
  <2>3. x = 0 <=> Scaled(d) = Scaled(e)
    BY <1>1
  <2> QED BY <2>1, <2>2, <2>3
<1>3. /\ Trim(d) \in Decimals /\ Scaled(Trim(d)) = Scaled(d) /\ Reduced(Trim(d))
      /\ Trim(e) \in Decimals /\ Scaled(Trim(e)) = Scaled(e) /\ Reduced(Trim(e))
  BY TrimReduces
<1>4. ASSUME Scaled(d) = Scaled(e)
      PROVE  Trim(d) = Trim(e)
  BY <1>3, <1>4, ReducedUnique
<1>5. ASSUME Trim(d) = Trim(e)
      PROVE  Scaled(d) = Scaled(e)
  BY <1>3, <1>5
<1> QED
  BY <1>2, <1>4, <1>5

----------------------------------------------------------------------------
(* The exact operations.                                                   *)

(* num/den is c units of 10^-p, with a coefficient that fits.              *)
HitsAt(num, den, p, c) == c < Cap /\ num * Pow10[p] = c * den
Hit(num, den, p) == \E c \in Nat : HitsAt(num, den, p, c)

(* Classified, by the existence of a coefficient.                          *)
LEMMA ClassifiedMeans ==
  ASSUME NEW num \in Nat, NEW den \in Nat \ {0}, NEW neg, NEW val, NEW err
  PROVE  Classified(num, den, neg, val, err) <=>
           IF \E p \in 0..MaxPrec : Hit(num, den, p)
           THEN /\ err = "nil"
                /\ (num * Pow10[val.prec]) % den = 0 /\ (num * Pow10[val.prec]) \div den < Cap
                /\ val = NewDecimal((num * Pow10[val.prec]) \div den, neg, val.prec)
           ELSE err = IF num > MaxCoef * den THEN "Overflow"
                      ELSE IF num * Pow10[MaxPrec] < den THEN "Underflow"
                      ELSE "Inexact"
<1>1. \A p \in 0..MaxPrec :
        ((num * Pow10[p]) % den = 0 /\ (num * Pow10[p]) \div den < Cap) <=> Hit(num, den, p)
  <2> TAKE p \in 0..MaxPrec
  <2> DEFINE n == num * Pow10[p]
             q == n \div den
  <2>1. n \in Nat
    <3>1. Pow10[p] \in Nat
      BY PowBounds, PowFacts
    <3> QED BY <3>1
  <2>2. ASSUME n % den = 0, q < Cap
        PROVE  Hit(num, den, p)
    <3> HIDE DEF n
    <3>1. q \in Nat
      BY <2>1, DivBelow
    <3>2. n = den * q + (n % den)
      BY <2>1, DivMod
    <3> HIDE DEF q
    <3>3. n = q * den
      BY <2>2, <3>1, <3>2
    <3> QED BY <2>2, <3>1, <3>3 DEF Hit, HitsAt, n
  <2>3. ASSUME NEW c \in Nat, HitsAt(num, den, p, c)
        PROVE  n % den = 0 /\ q < Cap
    <3>1. n = c * den /\ c < Cap
      BY <2>3 DEF HitsAt
    <3> HIDE DEF n
    <3>2. c \in Int /\ (c * den) \div den = c /\ (c * den) % den = 0
      BY DivExactly
    <3> QED BY <3>1, <3>2
  <2> QED BY <2>2, <2>3 DEF Hit
<1>2. (\E p \in 0..MaxPrec : (num * Pow10[p]) % den = 0 /\ (num * Pow10[p]) \div den < Cap)
        <=> (\E p \in 0..MaxPrec : Hit(num, den, p))
  BY <1>1
<1> QED
  BY <1>2 DEF Classified

(* A hit answered by its Decimal is classified.                            *)
LEMMA ClassifiedHit ==
  ASSUME NEW num \in Nat, NEW den \in Nat \ {0}, NEW neg \in BOOLEAN, NEW p \in 0..MaxPrec,
         NEW c \in Nat \ {0}, HitsAt(num, den, p, c),
         NEW res, res = Ok(NewDecimal(c, neg, p))
  PROVE  /\ IsReply(res) /\ Classified(num, den, neg, res.val, res.err)
         /\ res.err = "nil" /\ res.val.coef = c /\ res.val.prec = p
<1>1. c < Cap /\ num * Pow10[p] = c * den
  BY DEF HitsAt
<1>2. (c * den) \div den = c /\ (c * den) % den = 0
  BY DivExactly
<1>3. /\ IsReply(res) /\ res.err = "nil" /\ res.val = NewDecimal(c, neg, p)
      /\ res.val.prec = p /\ res.val.coef = c
  BY <1>1, MakeDecimal DEF Ok
<1>4. Hit(num, den, p)
  BY DEF Hit
<1>5. /\ (num * Pow10[res.val.prec]) % den = 0 /\ (num * Pow10[res.val.prec]) \div den < Cap
      /\ res.val = NewDecimal((num * Pow10[res.val.prec]) \div den, neg, res.val.prec)
  BY <1>1, <1>2, <1>3
<1>6. \E k \in 0..MaxPrec : Hit(num, den, k)
  BY <1>4
<1> DEFINE val == res.val
           err == res.err
<1>7. Classified(num, den, neg, val, err)
  <2>1. /\ err = "nil"
        /\ (num * Pow10[val.prec]) % den = 0 /\ (num * Pow10[val.prec]) \div den < Cap
        /\ val = NewDecimal((num * Pow10[val.prec]) \div den, neg, val.prec)
    BY <1>3, <1>5
  <2> HIDE DEF val, err
  <2> QED BY <1>6, <2>1, ClassifiedMeans
<1> QED
  BY <1>3, <1>7

(* A failure with the right reason is classified.                          *)
LEMMA ClassifiedMiss ==
  ASSUME NEW num \in Nat, NEW den \in Nat \ {0}, NEW neg \in BOOLEAN,
         \A p \in 0..MaxPrec : ~Hit(num, den, p), NEW res,
         res = Fail(IF num > MaxCoef * den THEN "Overflow"
                    ELSE IF num * Pow10[MaxPrec] < den THEN "Underflow"
                    ELSE "Inexact")
  PROVE  IsReply(res) /\ res.err # "nil" /\ Classified(num, den, neg, res.val, res.err)
<1> DEFINE why == IF num > MaxCoef * den THEN "Overflow"
                  ELSE IF num * Pow10[MaxPrec] < den THEN "Underflow"
                  ELSE "Inexact"
<1>1. why \in Errors /\ why # "nil"
  BY DEF Errors
<1>2. IsReply(res) /\ res.err = why
  <2>1. res = Fail(why)
    OBVIOUS
  <2> HIDE DEF why
  <2> QED BY <1>1, <2>1, Replies
<1> DEFINE val == res.val
           err == res.err
<1>3. Classified(num, den, neg, val, err)
  <2>1. ~(\E p \in 0..MaxPrec : Hit(num, den, p)) /\ err = why
    BY <1>2
  <2> HIDE DEF val, err
  <2> QED BY <2>1, ClassifiedMeans
<1> QED
  BY <1>1, <1>2, <1>3

(* Once a coefficient is too large and has no trailing zero to give, or no *)
(* precision left to give it from, no other precision will do.             *)
LEMMA NoOtherHit ==
  ASSUME NEW num \in Nat, NEW den \in Nat \ {0}, NEW w \in Nat, w >= Cap,
         NEW p \in 0..MaxPrec, num * Pow10[p] = w * den, p = 0 \/ w % 10 # 0
  PROVE  \A k \in 0..MaxPrec : ~Hit(num, den, k)
<1> SUFFICES ASSUME NEW k \in 0..MaxPrec, NEW c \in Nat, HitsAt(num, den, k, c)
             PROVE  FALSE
  BY DEF Hit
<1>1. c < Cap /\ num * Pow10[k] = c * den
  BY DEF HitsAt
<1>2. MaxPrec \in Nat /\ Cap \in Nat
  BY PowFacts, CapFacts
<1>3. CASE p <= k
  <2> DEFINE t == Pow10[k - p]
             a == Pow10[p]
  <2>1. t \in Nat /\ t >= 1 /\ a \in Nat /\ Pow10[k] = a * t
    BY <1>3, PowSplit
  <2>2. num * (a * t) = c * den /\ num * a = w * den
    BY <1>1, <2>1
  <2> HIDE DEF t, a
  <2>3. (w * den) * t = c * den
    <3>1. num * (a * t) = (num * a) * t
      BY <2>1
    <3> QED BY <2>2, <3>1
  <2>4. (w * t - c) * den = 0
    BY <2>1, <2>3
  <2>5. w * t \in Nat /\ w <= w * t
    BY <2>1
  <2>6. w * t = c
    BY <2>4, <2>5
  <2> QED BY <1>1, <1>2, <2>5, <2>6
<1>4. CASE ~(p <= k)
  <2> DEFINE j == p - k - 1
             t == Pow10[j]
             a == Pow10[k]
  <2>1. j \in 0..(2*MaxPrec - 1) /\ p = k + (j + 1) /\ k \in 0..2*MaxPrec /\ j + 1 \in 0..2*MaxPrec
        /\ k + (j + 1) <= 2*MaxPrec
    BY <1>2, <1>4
  <2>2. Pow10[j + 1] = t * 10 /\ t \in Nat /\ Pow10[p] = a * Pow10[j + 1] /\ a \in Nat
    BY <2>1, PowStep, PowFacts
  <2>3. num * (a * (t * 10)) = w * den /\ num * a = c * den
    BY <1>1, <2>2
  <2> HIDE DEF t, a
  <2>4. (c * den) * (t * 10) = w * den
    <3>1. num * (a * (t * 10)) = (num * a) * (t * 10)
      BY <2>2
    <3> QED BY <2>3, <3>1
  <2>5. ((c * t) * 10 - w) * den = 0
    BY <2>2, <2>4
  <2> DEFINE x == c * t
  <2>6. x \in Nat /\ (x * 10 - w) * den = 0
    BY <2>2, <2>5
  <2> HIDE DEF x
  <2>7. w = x * 10
    BY <2>6
  <2>8. w % 10 = 0
    BY <2>6, <2>7
  <2>9. p # 0
    BY <1>4
  <2> QED BY <2>8, <2>9
<1> QED
  BY <1>3, <1>4

(* A reply to a request for an exact result: classified, and of all the    *)
(* exact representations the one with the most digits up to a limit.       *)
ExactReply(res, num, den, neg, limit) ==
  /\ IsReply(res) /\ Classified(num, den, neg, res.val, res.err)
  /\ res.err = "nil" /\ res.val # Zero =>
       res.val.prec <= limit /\ (res.val.prec < limit => res.val.coef * 10 >= Cap)

(* Where the loop of MulExact can be: the product, with some of its        *)
(* trailing zeros gone, and no more of them than the coefficient requires. *)
NarrowStates == [work : U256, prec : 0..MaxPrec]
NarrowFrom(num, n, limit) ==
  {s \in NarrowStates : /\ s.work # 0 /\ s.prec <= limit
                        /\ num * Pow10[s.prec] = s.work * Pow10[n]
                        /\ s.prec < limit => s.work * 10 >= Cap}

(* The answers of the loop where it stops.                                 *)
LEMMA NarrowStops ==
  ASSUME NEW num \in Nat, NEW n \in 0..2*MaxPrec, NEW limit \in 0..MaxPrec, NEW neg \in BOOLEAN,
         NEW s \in NarrowFrom(num, n, limit), NEW den, den = Pow10[n]
  PROVE  /\ s.work < Cap => ExactReply(Ok(NewDecimal(s.work, neg, s.prec)), num, den, neg, limit)
         /\ s.work >= Cap /\ s.prec = 0 => ExactReply(Fail("Overflow"), num, den, neg, limit)
         /\ s.work >= Cap /\ s.work % 10 # 0 =>
              ExactReply(MulExactRangeError(num, n, s.work \div 10), num, den, neg, limit)
<1> DEFINE w == s.work
           p == s.prec
           a == Pow10[p]
<1>1. /\ w \in Nat \ {0} /\ p \in 0..MaxPrec /\ p <= limit /\ num * a = w * den
      /\ p < limit => w * 10 >= Cap
  BY CapFacts DEF NarrowFrom, NarrowStates, U256
<1>2. den \in Nat \ {0} /\ a \in Nat /\ a >= 1
  BY <1>1, PowFacts
<1>3. Cap \in Nat /\ Cap >= 16 /\ MaxCoef = Cap - 1
  BY CapFacts DEF MaxCoef
<1>4. ASSUME w < Cap
      PROVE  ExactReply(Ok(NewDecimal(w, neg, p)), num, den, neg, limit)
  <2> DEFINE res == Ok(NewDecimal(w, neg, p))
  <2>1. HitsAt(num, den, p, w)
    BY <1>1, <1>4 DEF HitsAt
  <2>2. res = Ok(NewDecimal(w, neg, p))
    OBVIOUS
  <2> HIDE DEF res, w, p
  <2>3. IsReply(res) /\ Classified(num, den, neg, res.val, res.err) /\ res.val.coef = w /\ res.val.prec = p
    BY <1>1, <1>2, <2>1, <2>2, ClassifiedHit
  <2>4. ExactReply(res, num, den, neg, limit)
    BY <1>1, <2>3 DEF ExactReply
  <2> QED BY <2>2, <2>4
<1>5. ASSUME w >= Cap
      PROVE  num * Pow10[MaxPrec] >= den
  <2>1. MaxPrec - p \in 0..MaxPrec /\ Pow10[MaxPrec] \in Nat /\ a <= Pow10[MaxPrec]
    <3>1. MaxPrec \in 0..MaxPrec /\ p \in 0..MaxPrec /\ p <= MaxPrec
      BY <1>1, PowFacts
    <3> HIDE DEF p
    <3> QED BY <3>1, PowSplit
  <2> HIDE DEF w, p, a
  <2>2. num * a <= num * Pow10[MaxPrec]
    BY <1>2, <2>1
  <2>3. w * den >= den
    BY <1>1, <1>2
  <2> QED BY <1>1, <1>2, <2>1, <2>2, <2>3
<1>6. ASSUME w >= Cap, p = 0 \/ w % 10 # 0, NEW res,
             res = Fail(IF num > MaxCoef * den THEN "Overflow"
                        ELSE IF num * Pow10[MaxPrec] < den THEN "Underflow"
                        ELSE "Inexact")
      PROVE  ExactReply(res, num, den, neg, limit)
  <2> HIDE DEF w, p
  <2>1. num * Pow10[p] = w * den
    BY <1>1
  <2>2. \A k \in 0..MaxPrec : ~Hit(num, den, k)
    BY <1>1, <1>2, <1>6, <2>1, NoOtherHit
  <2>3. IsReply(res) /\ res.err # "nil" /\ Classified(num, den, neg, res.val, res.err)
    BY <1>2, <1>6, <2>2, ClassifiedMiss
  <2> QED BY <2>3 DEF ExactReply
<1>7. ASSUME w >= Cap, p = 0
      PROVE  ExactReply(Fail("Overflow"), num, den, neg, limit)
  <2>1. a = 1
    BY <1>7, PowFacts
  <2> DEFINE top == MaxCoef * den
  <2>2. num = w * den /\ top \in Int /\ top = Cap * den - den
    BY <1>1, <1>2, <1>3, <2>1
  <2> HIDE DEF w, p
  <2>3. w * den >= Cap * den
    BY <1>1, <1>2, <1>3, <1>7
  <2>4. num > top
    <3> HIDE DEF top
    <3> QED BY <1>2, <1>3, <2>2, <2>3
  <2>5. Fail("Overflow") = Fail(IF num > MaxCoef * den THEN "Overflow"
                        ELSE IF num * Pow10[MaxPrec] < den THEN "Underflow"
                        ELSE "Inexact")
    BY <2>4
  <2> QED BY <1>6, <1>7, <2>5
<1>8. ASSUME w >= Cap, w % 10 # 0
      PROVE  ExactReply(MulExactRangeError(num, n, w \div 10), num, den, neg, limit)
  <2>1. w \div 10 # 0
    BY <1>1, <1>3, <1>8
  <2>2. ~(num * Pow10[MaxPrec] < den)
    <3>1. num * Pow10[MaxPrec] \in Int /\ den \in Int
      BY <1>2, PowFacts
    <3> QED BY <1>5, <1>8, <3>1
  <2>3. MulExactRangeError(num, n, w \div 10) =
          Fail(IF num > MaxCoef * den THEN "Overflow"
               ELSE IF num * Pow10[MaxPrec] < den THEN "Underflow"
               ELSE "Inexact")
    BY <2>1, <2>2 DEF MulExactRangeError, MulMagnitudeOverflows
  <2> HIDE DEF w
  <2> QED BY <1>6, <1>8, <2>3
<1> QED
  BY <1>4, <1>7, <1>8

(* Zero is the exact answer to a fraction of zero.                         *)
LEMMA ZeroExact ==
  ASSUME NEW num, num = 0, NEW den \in Nat \ {0}, NEW neg, NEW limit
  PROVE  ExactReply(Ok(Zero), num, den, neg, limit)
<1> DEFINE res == Ok(Zero)
           val == res.val
           err == res.err
<1>1. IsReply(res) /\ val = Zero /\ err = "nil"
  BY Replies
<1>2. (0 * Pow10[0]) % den = 0 /\ (0 * Pow10[0]) \div den < Cap /\ 0 * Pow10[0] = 0 * den
      /\ (0 * Pow10[0]) \div den = 0 /\ Zero.prec = 0
  <2>1. 0 * Pow10[0] = 0 /\ 0 * den = 0
    BY PowFacts
  <2>2. 0 % den = 0 /\ 0 \div den = 0 /\ 0 < Cap
    BY CapFacts
  <2> QED BY <2>1, <2>2 DEF Zero
<1>3. Hit(num, den, 0) /\ 0 \in 0..MaxPrec
  <2>1. 0 < Cap /\ 0 \in Nat /\ 0 \in 0..MaxPrec
    BY PowFacts, CapFacts
  <2> QED BY <1>2, <2>1 DEF Hit, HitsAt
<1>4. Classified(num, den, neg, val, err)
  <2>1. val = NewDecimal((num * Pow10[val.prec]) \div den, neg, val.prec)
    BY <1>1, <1>2 DEF NewDecimal
  <2>2. (num * Pow10[val.prec]) % den = 0 /\ (num * Pow10[val.prec]) \div den < Cap
    BY <1>1, <1>2
  <2> HIDE DEF val, err
  <2> QED BY <1>1, <1>3, <2>1, <2>2, ClassifiedMeans
<1> QED
  <2>1. res.val = Zero /\ IsReply(res) /\ Classified(num, den, neg, res.val, res.err)
    BY <1>1, <1>4
  <2> HIDE DEF res
  <2>2. ExactReply(res, num, den, neg, limit)
    BY <2>1 DEF ExactReply
  <2> QED BY <2>2 DEF res

(* MulExact answers the exact product, at the greatest precision not above *)
(* its natural one at which the coefficient fits, or says why no Decimal   *)
(* is the product.                                                         *)
THEOREM MulExactIsExact ==
  ASSUME NEW d \in Decimals, NEW e \in Decimals
  PROVE  ExactReply(MulExact(d, e), d.coef * e.coef, Pow10[d.prec + e.prec], d.neg # e.neg,
                    Smaller(d.prec + e.prec, MaxPrec))
<1> DEFINE num == d.coef * e.coef
           n == d.prec + e.prec
           den == Pow10[n]
           neg == (d.neg # e.neg)
           limit == Smaller(n, MaxPrec)
           over == Larger(n - MaxPrec, 0)
           X == NarrowStates
           Pass(f) == [s \in X |->
             IF ZeroUpper(s.work) THEN Ok(NewDecimal(s.work, neg, s.prec))
             ELSE IF s.prec = 0 THEN Fail("Overflow")
             ELSE IF s.work % 10 # 0 THEN MulExactRangeError(num, n, s.work \div 10)
             ELSE f[[work |-> s.work \div 10, prec |-> s.prec - 1]]]
           narrow == CHOOSE f : f = Pass(f)
           start == [work |-> num \div Pow10[over], prec |-> n - over]
<1>1. MulExact(d, e) =
        IF num = 0 THEN Ok(Zero)
        ELSE IF num % Pow10[over] # 0 THEN MulExactRangeError(num, n, num \div Pow10[over])
        ELSE narrow[start]
  BY DEF MulExact, NarrowStates
<1>2. /\ num \in Nat /\ num < Wide /\ n \in 0..2*MaxPrec /\ neg \in BOOLEAN
      /\ limit \in 0..MaxPrec /\ over \in 0..MaxPrec /\ n = limit + over
      /\ over > 0 => limit = MaxPrec
  <2>1. /\ d.coef \in Nat /\ d.coef < Cap /\ e.coef \in Nat /\ e.coef < Cap
        /\ d.prec \in 0..MaxPrec /\ e.prec \in 0..MaxPrec /\ MaxPrec \in Nat
        /\ d.neg \in BOOLEAN /\ e.neg \in BOOLEAN
    BY DecimalFacts, PowFacts
  <2>2. num \in Nat /\ num < Wide
    <3>1. Cap \in Nat /\ Cap >= 16 /\ Wide = Cap * Cap
      BY CapFacts
    <3> DEFINE x == d.coef
               y == e.coef
               t == Cap
    <3>2. x \in Nat /\ y \in Nat /\ t \in Nat /\ x < t /\ y < t
      BY <2>1, <3>1
    <3> HIDE DEF x, y, t
    <3>3. x * y \in Nat /\ x * y <= x * t
      BY <3>2
    <3>4. x * t \in Nat /\ t * t \in Nat /\ x * t < t * t
      BY <3>2
    <3>5. x * y < t * t
      BY <3>2, <3>3, <3>4
    <3>6. num = x * y /\ Wide = t * t
      BY <3>1 DEF x, y, t
    <3> QED BY <3>3, <3>5, <3>6
  <2>3. n \in 0..2*MaxPrec
    BY <2>1
  <2>4. /\ limit \in 0..MaxPrec /\ over \in 0..MaxPrec /\ n = limit + over
        /\ over > 0 => limit = MaxPrec
    <3> HIDE DEF n
    <3> QED BY <2>1, <2>3 DEF Larger, Smaller
  <2> QED BY <2>1, <2>2, <2>3, <2>4
<1> HIDE DEF num, n
<1>3. den \in Nat \ {0} /\ MaxPrec \in Nat
  BY <1>2, PowFacts
<1>4. Pow10[over] \in Nat \ {0} /\ Pow10[limit] \in Nat \ {0} /\ den = Pow10[limit] * Pow10[over]
  <2>1. over \in 0..2*MaxPrec /\ limit \in 0..2*MaxPrec /\ limit + over <= 2*MaxPrec
    BY <1>2, <1>3
  <2> HIDE DEF over, limit
  <2>2. Pow10[limit + over] = Pow10[limit] * Pow10[over]
    BY <2>1, PowFacts
  <2>3. Pow10[over] \in Nat \ {0} /\ Pow10[limit] \in Nat \ {0}
    BY <2>1, PowFacts
  <2> QED BY <1>2, <2>2, <2>3
<1> HIDE DEF den, neg, limit, over, narrow, start
<1>5. CASE num = 0
  <2>1. ExactReply(Ok(Zero), num, den, neg, limit)
    BY <1>3, <1>5, ZeroExact
  <2>2. ExactReply(MulExact(d, e), num, den, neg, limit)
    BY <1>1, <1>5, <2>1
  <2> QED BY <2>2 DEF num, n, den, neg, limit
<1>6. CASE num # 0 /\ num % Pow10[over] # 0
  <2> DEFINE b == Pow10[over]
             res == MulExactRangeError(num, n, num \div b)
             whole == num * Pow10[MaxPrec]
  <2>1. \A k \in 0..MaxPrec : ~Hit(num, den, k)
    <3> SUFFICES ASSUME NEW k \in 0..MaxPrec, NEW c \in Nat, HitsAt(num, den, k, c)
                 PROVE  FALSE
      BY DEF Hit
    <3>1. over # 0 /\ limit = MaxPrec
      <4>1. over = 0 => Pow10[over] = 1
        BY PowFacts
      <4>2. num % 1 = 0
        BY <1>2
      <4> QED BY <1>2, <1>6, <4>1, <4>2
    <3> DEFINE a == Pow10[k]
               t == Pow10[MaxPrec - k]
    <3>2. a \in Nat \ {0} /\ t \in Nat \ {0} /\ Pow10[MaxPrec] = a * t
      <4>1. MaxPrec \in 0..MaxPrec /\ k <= MaxPrec
        BY <1>3
      <4> QED BY <4>1, PowSplit
    <3>3. num * a = c * den /\ den = (a * t) * b
      BY <1>4, <3>1, <3>2 DEF HitsAt
    <3> HIDE DEF a, t, b
    <3>4. num * a = c * ((a * t) * b) /\ b \in Nat \ {0}
      BY <1>4, <3>3 DEF b
    <3> DEFINE x == (c * t) * b
    <3>5. x \in Nat /\ c * ((a * t) * b) = x * a
      BY <3>2, <3>4
    <3> HIDE DEF x
    <3>6. (num - x) * a = 0
      BY <1>2, <3>2, <3>4, <3>5
    <3>7. num = x
      BY <1>2, <3>2, <3>5, <3>6
    <3>8. c * t \in Int
      BY <3>2
    <3>9. ((c * t) * b) % b = 0
      BY <3>4, <3>8, DivExactly
    <3> QED BY <1>6, <3>7, <3>9 DEF x, b
  <2>2. (num \div b = 0) <=> (whole < den)
    <3>1. num \div b \in Nat /\ ((num \div b < 1) <=> (num < b * 1))
      BY <1>2, <1>4, DivBelow
    <3>2. limit = MaxPrec
      <4>1. over = 0 => Pow10[over] = 1
        BY PowFacts
      <4>2. num % 1 = 0
        BY <1>2
      <4> QED BY <1>2, <1>6, <4>1, <4>2
    <3>3. den = Pow10[MaxPrec] * b /\ Pow10[MaxPrec] \in Nat \ {0} /\ b \in Nat \ {0}
      BY <1>4, <3>2
    <3> DEFINE a == Pow10[MaxPrec]
               q == num \div b
    <3> HIDE DEF a, b, q
    <3>4. (num < b) <=> (num * a < a * b)
      <4>1. a \in Nat \ {0} /\ b \in Nat \ {0}
        BY <3>3 DEF a
      <4>2. num < b => num * a < a * b
        BY <1>2, <4>1
      <4>3. num >= b => num * a >= a * b
        BY <1>2, <4>1
      <4> QED BY <1>2, <4>1, <4>2, <4>3
    <3>5. q \in Nat /\ (q < 1 <=> num < b)
      BY <3>1, <3>3 DEF q
    <3>6. whole = num * a /\ den = a * b
      BY <3>3 DEF a
    <3>7. q = 0 <=> whole < den
      BY <3>4, <3>5, <3>6
    <3> QED BY <3>7 DEF q
  <2>3. res = Fail(IF num > MaxCoef * den THEN "Overflow"
                   ELSE IF whole < den THEN "Underflow"
                   ELSE "Inexact")
    BY <2>2 DEF MulExactRangeError, MulMagnitudeOverflows, den
  <2>4. IsReply(res) /\ res.err # "nil" /\ Classified(num, den, neg, res.val, res.err)
    <3> HIDE DEF res
    <3> QED BY <1>2, <1>3, <2>1, <2>3, ClassifiedMiss
  <2>5. ExactReply(res, num, den, neg, limit)
    <3> HIDE DEF res
    <3> QED BY <2>4 DEF ExactReply
  <2>6. MulExact(d, e) = res
    BY <1>1, <1>6
  <2> HIDE DEF res
  <2>7. ExactReply(MulExact(d, e), num, den, neg, limit)
    BY <2>5, <2>6
  <2> QED BY <2>7 DEF num, n, den, neg, limit
<1>7. CASE num # 0 /\ num % Pow10[over] = 0
  <2> DEFINE Inv == NarrowFrom(num, n, limit)
             Post == {r \in [val : Decimals, err : Errors] : ExactReply(r, num, den, neg, limit)}
             Stop == {s \in X : s.work < Cap \/ s.prec = 0 \/ s.work % 10 # 0}
             res == [s \in X |->
               IF ZeroUpper(s.work) THEN Ok(NewDecimal(s.work, neg, s.prec))
               ELSE IF s.prec = 0 THEN Fail("Overflow")
               ELSE MulExactRangeError(num, n, s.work \div 10)]
             nxt == [s \in X |-> [work |-> s.work \div 10, prec |-> s.prec - 1]]
             m == [s \in X |-> s.prec]
  <2>1. \A s \in X : /\ s.work \in Nat /\ s.work < Wide /\ s.prec \in 0..MaxPrec /\ s.prec \in Nat
                     /\ m[s] = s.prec
                     /\ nxt[s] = [work |-> s.work \div 10, prec |-> s.prec - 1]
    BY <1>3, CapFacts DEF NarrowStates, U256
  <2>2. \A s \in X : s \notin Stop =>
          /\ nxt[s] \in X /\ nxt[s].prec = s.prec - 1 /\ nxt[s].work = s.work \div 10
          /\ m[nxt[s]] < m[s]
    <3> TAKE s \in X
    <3> HAVE s \notin Stop
    <3>1. s.prec # 0 /\ s.work \in Nat /\ s.work < Wide /\ s.prec \in 0..MaxPrec
      BY <2>1
    <3>2. s.work \div 10 \in U256 /\ s.prec - 1 \in 0..MaxPrec /\ s.prec - 1 < s.prec
      BY <1>3, <3>1, CapFacts DEF U256
    <3>3. nxt[s] \in X
      BY <3>2 DEF NarrowStates
    <3>4. m[nxt[s]] = s.prec - 1 /\ m[s] = s.prec
      BY <3>3
    <3> QED BY <3>2, <3>3, <3>4
  <2>3. Decreases(X, Stop, nxt, m)
    <3>1. m \in [X -> Nat]
      BY <2>1
    <3> QED BY <2>2, <3>1 DEF Decreases
  <2>4. \A f : LoopBody(X, Stop, res, nxt, f) = Pass(f)
    <3> TAKE f
    <3>1. \A s \in X : (IF s \in Stop THEN res[s] ELSE f[nxt[s]]) = Pass(f)[s]
      <4> TAKE s \in X
      <4>1. s.work \in Nat /\ Cap \in Nat
        BY <2>1, CapFacts
      <4>2. CASE s.work < Cap
        BY <4>2 DEF ZeroUpper
      <4>3. CASE ~(s.work < Cap) /\ s.prec = 0
        BY <4>3 DEF ZeroUpper
      <4>4. CASE ~(s.work < Cap) /\ s.prec # 0 /\ s.work % 10 # 0
        BY <4>4 DEF ZeroUpper
      <4>5. CASE ~(s.work < Cap) /\ s.prec # 0 /\ s.work % 10 = 0
        BY <4>5 DEF ZeroUpper
      <4> QED BY <4>2, <4>3, <4>4, <4>5
    <3> QED BY <3>1 DEF LoopBody
  <2>5. narrow = LoopBody(X, Stop, res, nxt, narrow)
    <3>1. (\E g : g = Pass(g)) => narrow = Pass(narrow)
      <4> HIDE DEF Pass
      <4> QED BY DEF narrow
    <3>2. \E g : g = LoopBody(X, Stop, res, nxt, g)
      <4> HIDE DEF X, Stop, res, nxt, m
      <4> QED BY <2>3, LoopDefined
    <3> HIDE DEF Pass, Stop, res, nxt
    <3> QED BY <2>4, <3>1, <3>2
  <2>6. \A s \in Inv : s \in Stop => res[s] \in Post
    <3> TAKE s \in Inv
    <3> HAVE s \in Stop
    <3>1. s \in X
      BY DEF NarrowFrom
    <3>2. s.work \in Nat /\ Cap \in Nat
      BY <2>1, <3>1, CapFacts
    <3>3. /\ s.work < Cap => ExactReply(Ok(NewDecimal(s.work, neg, s.prec)), num, den, neg, limit)
          /\ s.work >= Cap /\ s.prec = 0 => ExactReply(Fail("Overflow"), num, den, neg, limit)
          /\ s.work >= Cap /\ s.work % 10 # 0 =>
               ExactReply(MulExactRangeError(num, n, s.work \div 10), num, den, neg, limit)
      BY <1>2, NarrowStops DEF den
    <3>4. ExactReply(res[s], num, den, neg, limit)
      <4>1. CASE s.work < Cap
        BY <3>1, <3>3, <4>1 DEF ZeroUpper
      <4>2. CASE ~(s.work < Cap) /\ s.prec = 0
        BY <3>1, <3>2, <3>3, <4>2 DEF ZeroUpper
      <4>3. CASE ~(s.work < Cap) /\ s.prec # 0
        BY <3>1, <3>2, <3>3, <4>3 DEF ZeroUpper
      <4> QED BY <4>1, <4>2, <4>3
    <3>5. res[s] \in [val : Decimals, err : Errors]
      <4>1. res[s] = [val |-> res[s].val, err |-> res[s].err]
        BY <3>1 DEF Ok, Fail, MulExactRangeError
      <4> HIDE DEF res
      <4> QED BY <3>4, <4>1 DEF ExactReply, IsReply
    <3> HIDE DEF res
    <3> QED BY <3>4, <3>5
  <2>7. \A s \in Inv : s \notin Stop => nxt[s] \in Inv
    <3> TAKE s \in Inv
    <3> HAVE s \notin Stop
    <3> DEFINE w == s.work
               p == s.prec
               v == w \div 10
    <3>1. s \in X /\ w # 0 /\ p <= limit /\ num * Pow10[p] = w * den
      BY DEF NarrowFrom, den
    <3>2. w \in Nat /\ p \in 0..MaxPrec /\ p # 0 /\ w >= Cap /\ w % 10 = 0
      <4>1. w \in Nat /\ p \in 0..MaxPrec /\ Cap \in Nat
        BY <2>1, <3>1, CapFacts
      <4> QED BY <3>1, <4>1
    <3>3. nxt[s] \in X /\ nxt[s].prec = p - 1 /\ nxt[s].work = v
      BY <2>2, <3>1
    <3> HIDE DEF w, p
    <3>4. v \in Nat /\ w = 10 * v
      BY <3>2
    <3> HIDE DEF v
    <3> DEFINE a == Pow10[p - 1]
    <3>5. a \in Nat \ {0} /\ Pow10[p] = a * 10
      <4>1. p - 1 \in 0..(2*MaxPrec - 1) /\ (p - 1) + 1 = p
        BY <1>3, <3>2
      <4> QED BY <4>1, PowStep
    <3> HIDE DEF a
    <3>6. num * a = v * den
      <4>1. num * (a * 10) = (10 * v) * den
        BY <3>1, <3>4, <3>5
      <4> DEFINE l == num * a
                 r == v * den
      <4>2. l \in Int /\ r \in Int /\ l * 10 = r * 10
        BY <1>2, <1>3, <3>4, <3>5, <4>1
      <4> HIDE DEF l, r
      <4>3. l = r
        BY <4>2
      <4> QED BY <4>3 DEF l, r
    <3>7. v # 0 /\ v * 10 >= Cap /\ p - 1 <= limit
      BY <1>2, <3>1, <3>2, <3>4, CapFacts
    <3> HIDE DEF nxt, X
    <3> QED BY <3>3, <3>6, <3>7 DEF NarrowFrom, a, X, den
  <2>8. start \in Inv
    <3> DEFINE w == num \div Pow10[over]
               b == Pow10[over]
               a == Pow10[limit]
    <3>1. w \in Nat /\ num = b * w /\ w <= num
      <4>1. w \in Nat /\ w <= num
        BY <1>2, <1>4, DivBelow
      <4>2. num = b * w + (num % b)
        <5>1. num \in Int
          BY <1>2
        <5> QED BY <1>4, <5>1, DivMod
      <4> HIDE DEF w
      <4>3. num = b * w + 0
        BY <1>7, <4>2
      <4> QED BY <1>4, <4>1, <4>3
    <3>2. start = [work |-> w, prec |-> limit] /\ limit \in 0..MaxPrec
      BY <1>2 DEF start
    <3> HIDE DEF w
    <3>3. start \in X
      BY <1>2, <3>1, <3>2, CapFacts DEF NarrowStates, U256
    <3>4. w # 0
      BY <1>4, <1>7, <3>1
    <3> HIDE DEF a, b
    <3>5. num * a = w * den
      <4>1. den = a * b /\ a \in Nat /\ b \in Nat
        BY <1>4 DEF a, b
      <4>2. num * a = (b * w) * a
        BY <3>1
      <4> QED BY <3>1, <4>1, <4>2
    <3> QED BY <1>2, <3>2, <3>3, <3>4, <3>5 DEF NarrowFrom, a, den
  <2>9. Inv \in SUBSET X
    BY DEF NarrowFrom
  <2>10. \A s \in Inv : narrow[s] \in Post
    <3>1. Carries(X, Stop, res, nxt, Inv, Post)
      <4> HIDE DEF Inv, Post, Stop, res, nxt, X
      <4> QED BY <2>6, <2>7, <2>9 DEF Carries
    <3> HIDE DEF Inv, Post, Stop, res, nxt, m, X
    <3> QED BY <2>3, <2>5, <3>1, LoopAnswers
  <2>11. narrow[start] \in Post
    <3> HIDE DEF Inv, Post
    <3> QED BY <2>8, <2>10
  <2>12. ExactReply(MulExact(d, e), num, den, neg, limit)
    BY <1>1, <1>7, <2>11
  <2> QED BY <2>12 DEF num, n, den, neg, limit
<1> QED
  BY <1>5, <1>6, <1>7

(* The binary search of DivExact, over any set F of precisions that holds  *)
(* all those below its greatest.                                           *)
SearchStates == [lo : 0..MaxPrec, hi : -1..(MaxPrec - 1), best : -1..MaxPrec]
Bounds(lo, hi, best) == [lo |-> lo, hi |-> hi, best |-> best]
Middle(s) == (s.lo + s.hi) \div 2
Searching(F, f) ==
  [s \in SearchStates |->
     IF s.lo > s.hi THEN s.best
     ELSE IF Middle(s) \in F THEN f[Bounds(Middle(s) + 1, s.hi, Middle(s))]
     ELSE f[Bounds(s.lo, Middle(s) - 1, s.best)]]

LEMMA MiddleBetween ==
  ASSUME NEW s \in SearchStates, s.lo <= s.hi
  PROVE  Middle(s) \in s.lo..s.hi /\ Middle(s) \in 0..(MaxPrec - 1) /\ Middle(s) \in Int
<1>1. s.lo \in 0..MaxPrec /\ s.hi \in -1..(MaxPrec - 1) /\ MaxPrec \in Nat
  BY PowFacts DEF SearchStates
<1> QED
  BY <1>1 DEF Middle

(* The search stops at the greatest member of F, or at -1.                 *)
LEMMA SearchFinds ==
  ASSUME NEW F \in SUBSET (0..MaxPrec), \A p \in F : \A q \in 0..MaxPrec : q <= p => q \in F,
         MaxPrec \notin F
  PROVE  /\ \E g : g = Searching(F, g)
         /\ \A f : f = Searching(F, f) =>
              /\ f[Bounds(0, MaxPrec - 1, -1)] \in -1..(MaxPrec - 1)
              /\ \A p \in 0..MaxPrec : p \in F <=> p <= f[Bounds(0, MaxPrec - 1, -1)]
<1> DEFINE X == SearchStates
           Stop == {s \in X : s.lo > s.hi}
           res == [s \in X |-> s.best]
           nxt == [s \in X |-> IF Middle(s) \in F THEN Bounds(Middle(s) + 1, s.hi, Middle(s))
                               ELSE Bounds(s.lo, Middle(s) - 1, s.best)]
           m == [s \in X |-> IF s.lo > s.hi THEN 0 ELSE s.hi - s.lo + 1]
           Inv == {s \in X : /\ s.best = s.lo - 1 /\ s.lo <= s.hi + 1
                             /\ \A p \in 0..MaxPrec : (p < s.lo => p \in F) /\ (p > s.hi => p \notin F)}
           Post == {b \in -1..(MaxPrec - 1) : \A p \in 0..MaxPrec : p \in F <=> p <= b}
           start == Bounds(0, MaxPrec - 1, -1)
<1>1. MaxPrec \in Nat /\ MaxPrec >= 1
  BY PowFacts
<1>2. \A s \in X : /\ s.lo \in 0..MaxPrec /\ s.hi \in -1..(MaxPrec - 1) /\ s.best \in -1..MaxPrec
                   /\ s.lo \in Int /\ s.hi \in Int /\ s.best \in Int
  BY <1>1 DEF SearchStates
<1>3. \A s \in X : s \notin Stop =>
        /\ s.lo <= s.hi /\ Middle(s) \in s.lo..s.hi /\ Middle(s) \in 0..(MaxPrec - 1) /\ Middle(s) \in Int
  BY <1>2, MiddleBetween
<1>4. \A s \in X : s \notin Stop => nxt[s] \in X /\ m[nxt[s]] < m[s]
  <2> TAKE s \in X
  <2> HAVE s \notin Stop
  <2> DEFINE mid == Middle(s)
             up == Bounds(mid + 1, s.hi, mid)
             down == Bounds(s.lo, mid - 1, s.best)
  <2>1. s.lo <= s.hi /\ mid \in s.lo..s.hi /\ mid \in 0..(MaxPrec - 1) /\ mid \in Int
    BY <1>3
  <2> HIDE DEF mid
  <2>2. up \in X /\ down \in X
    BY <1>1, <1>2, <2>1 DEF SearchStates, Bounds
  <2>3. m[s] = s.hi - s.lo + 1
    BY <1>2, <2>1
  <2>4. m[up] < m[s]
    BY <1>2, <2>1, <2>2, <2>3 DEF Bounds
  <2>5. m[down] < m[s]
    BY <1>2, <2>1, <2>2, <2>3 DEF Bounds
  <2>6. nxt[s] = up \/ nxt[s] = down
    BY DEF mid
  <2> HIDE DEF up, down, m, nxt
  <2> QED BY <2>2, <2>4, <2>5, <2>6
<1>5. Decreases(X, Stop, nxt, m)
  <2>1. m \in [X -> Nat]
    BY <1>2
  <2> HIDE DEF m, nxt, Stop
  <2> QED BY <1>4, <2>1 DEF Decreases
<1>6. \A f : LoopBody(X, Stop, res, nxt, f) = Searching(F, f)
  BY DEF LoopBody, Searching
<1>7. \E g : g = LoopBody(X, Stop, res, nxt, g)
  <2> HIDE DEF X, Stop, res, nxt, m
  <2> QED BY <1>5, LoopDefined
<1>8. \A s \in Inv : s \in Stop => res[s] \in Post
  <2> TAKE s \in Inv
  <2> HAVE s \in Stop
  <2>1. /\ s \in X /\ s.lo > s.hi /\ s.best = s.lo - 1 /\ s.lo <= s.hi + 1
        /\ \A p \in 0..MaxPrec : (p < s.lo => p \in F) /\ (p > s.hi => p \notin F)
    OBVIOUS
  <2>2. s.best = s.hi /\ s.lo = s.hi + 1 /\ s.best \in -1..(MaxPrec - 1)
    BY <1>1, <1>2, <2>1
  <2> QED BY <1>1, <1>2, <2>1, <2>2
<1>9. \A s \in Inv : s \notin Stop => nxt[s] \in Inv
  <2> TAKE s \in Inv
  <2> HAVE s \notin Stop
  <2> DEFINE mid == Middle(s)
             up == Bounds(mid + 1, s.hi, mid)
             down == Bounds(s.lo, mid - 1, s.best)
  <2>1. /\ s \in X /\ s.best = s.lo - 1
        /\ \A p \in 0..MaxPrec : (p < s.lo => p \in F) /\ (p > s.hi => p \notin F)
    OBVIOUS
  <2>2. s.lo <= s.hi /\ mid \in s.lo..s.hi /\ mid \in 0..(MaxPrec - 1) /\ mid \in Int
    BY <1>3, <2>1
  <2>3. nxt[s] \in X
    <3> HIDE DEF nxt, X
    <3> QED BY <1>4, <2>1
  <2> HIDE DEF mid
  <2>4. CASE mid \in F
    <3>1. nxt[s] = up /\ up.lo = mid + 1 /\ up.hi = s.hi /\ up.best = mid
      BY <2>1, <2>4 DEF mid, Bounds
    <3>2. \A p \in 0..MaxPrec : (p < mid + 1 => p \in F) /\ (p > s.hi => p \notin F)
      BY <1>1, <2>1, <2>2, <2>4
    <3> HIDE DEF nxt, up
    <3>3. up \in X /\ up.best = up.lo - 1 /\ up.lo <= up.hi + 1
      BY <1>2, <2>1, <2>2, <2>3, <3>1
    <3> QED BY <3>1, <3>2, <3>3
  <2>5. CASE mid \notin F
    <3>1. nxt[s] = down /\ down.lo = s.lo /\ down.hi = mid - 1 /\ down.best = s.best
      BY <2>1, <2>5 DEF mid, Bounds
    <3>2. \A p \in 0..MaxPrec : (p < s.lo => p \in F) /\ (p > mid - 1 => p \notin F)
      BY <1>1, <2>1, <2>2, <2>5
    <3> HIDE DEF nxt, down
    <3>3. down \in X /\ down.best = down.lo - 1 /\ down.lo <= down.hi + 1
      BY <1>2, <2>1, <2>2, <2>3, <3>1
    <3> QED BY <3>1, <3>2, <3>3
  <2> QED BY <2>4, <2>5
<1>10. start \in Inv
  <2>1. start.lo = 0 /\ start.hi = MaxPrec - 1 /\ start.best = -1
    BY DEF Bounds
  <2>2. start \in X
    BY <1>1 DEF SearchStates, Bounds
  <2> HIDE DEF start
  <2> QED BY <1>1, <2>1, <2>2
<1>11. ASSUME NEW f, f = Searching(F, f)
       PROVE  f[start] \in Post
  <2>1. Carries(X, Stop, res, nxt, Inv, Post)
    <3>1. Inv \subseteq X
      OBVIOUS
    <3> HIDE DEF Inv, Post, Stop, res, nxt, X
    <3> QED BY <1>8, <1>9, <3>1 DEF Carries
  <2>2. f = LoopBody(X, Stop, res, nxt, f)
    <3> HIDE DEF Stop, res, nxt, X
    <3> QED BY <1>6, <1>11
  <2>3. \A s \in Inv : f[s] \in Post
    <3> HIDE DEF Inv, Post, Stop, res, nxt, m, X
    <3> QED BY <1>5, <2>1, <2>2, LoopAnswers
  <2> HIDE DEF start, Inv, Post
  <2> QED BY <1>10, <2>3
<1>12. \E g : g = Searching(F, g)
  <2> HIDE DEF Stop, res, nxt, X
  <2> QED BY <1>6, <1>7
<1>13. \A f : f = Searching(F, f) =>
              /\ f[start] \in -1..(MaxPrec - 1)
              /\ \A p \in 0..MaxPrec : p \in F <=> p <= f[start]
  <2> HIDE DEF start
  <2> QED BY <1>11
<1> QED
  BY <1>12, <1>13

(* What DivExact makes of the quotient at the greatest precision that      *)
(* fits: the exact answer, or the reason why there is none.                *)
LEMMA FinishAnswers ==
  ASSUME NEW num \in Nat \ {0}, NEW den \in Nat \ {0}, NEW neg \in BOOLEAN,
         NEW places \in 0..MaxPrec, NEW n, n = num * Pow10[places], NEW q, q = n \div den, q < Cap,
         \A p \in 0..MaxPrec : p > places => num * Pow10[p] >= den * Cap,
         NEW rem, rem = (n % den # 0), NEW res, res = FinishDivExact(q, rem, places, neg)
  PROVE  ExactReply(res, num, den, neg, MaxPrec)
<1>1. MaxPrec \in Nat /\ MaxPrec >= 1 /\ Cap \in Nat /\ Cap >= 16 /\ MaxCoef = Cap - 1
  BY PowFacts, CapFacts DEF MaxCoef
<1> DEFINE a == Pow10[places]
<1>2. a \in Nat \ {0} /\ n = num * a
  BY <1>1, PowFacts
<1>3. n \in Nat /\ n >= num /\ n \in Int
  <2> HIDE DEF a
  <2> QED BY <1>2
<1>4. q \in Nat
  BY <1>3, DivBelow
<1>5. n = den * q + (n % den) /\ n % den \in 0..(den - 1)
  BY <1>3, DivMod
<1>6. places < MaxPrec => /\ places + 1 \in 0..MaxPrec /\ Pow10[places + 1] = a * 10
                          /\ (n * 10 >= den * Cap)
  <2>1. places < MaxPrec => places + 1 \in 0..MaxPrec /\ places \in 0..(2*MaxPrec - 1) /\ places + 1 > places
    BY <1>1
  <2>2. places < MaxPrec => Pow10[places + 1] = a * 10 /\ num * Pow10[places + 1] >= den * Cap
    BY <2>1, PowStep
  <2> HIDE DEF a
  <2>3. num * (a * 10) = n * 10
    BY <1>2
  <2> QED BY <2>1, <2>2, <2>3
<1>7. CASE n % den = 0
  <2>1. n = q * den /\ q # 0
    <3>1. n = den * q + 0
      BY <1>5, <1>7
    <3>2. n = q * den
      BY <1>4, <3>1
    <3>3. n # 0
      BY <1>3
    <3>4. q = 0 => q * den = 0
      OBVIOUS
    <3> QED BY <3>2, <3>3, <3>4
  <2>2. res = Ok(NewDecimal(q, neg, places))
    BY <1>7 DEF FinishDivExact
  <2>3. HitsAt(num, den, places, q)
    BY <2>1 DEF HitsAt
  <2>4. IsReply(res) /\ Classified(num, den, neg, res.val, res.err) /\ res.val.coef = q /\ res.val.prec = places
    BY <1>4, <2>1, <2>2, <2>3, ClassifiedHit
  <2>5. places < MaxPrec => q * 10 >= Cap
    <3> SUFFICES ASSUME places < MaxPrec, ~(q * 10 >= Cap)
                 PROVE  FALSE
      OBVIOUS
    <3> DEFINE x == q * 10
    <3>1. x \in Nat /\ x < Cap
      BY <1>1, <1>4
    <3>2. x * den >= den * Cap
      <4>1. (q * den) * 10 = x * den
        BY <1>4
      <4> QED BY <1>6, <2>1, <4>1
    <3> HIDE DEF x
    <3> QED BY <1>1, <3>1, <3>2
  <2>6. places <= MaxPrec
    OBVIOUS
  <2> QED BY <2>4, <2>5, <2>6 DEF ExactReply
<1>8. CASE n % den # 0
  <2> DEFINE whole == num * Pow10[MaxPrec]
             top == MaxCoef * den
             limit == den * Cap
  <2>1. \A k \in 0..MaxPrec : ~Hit(num, den, k)
    <3> SUFFICES ASSUME NEW k \in 0..MaxPrec, NEW c \in Nat, HitsAt(num, den, k, c)
                 PROVE  FALSE
      BY DEF Hit
    <3>1. c < Cap /\ num * Pow10[k] = c * den
      BY DEF HitsAt
    <3>2. k <= places
      <4>1. c * den < den * Cap
        BY <1>1, <3>1
      <4>2. c * den \in Int /\ den * Cap \in Int
        BY <1>1
      <4>3. ~(num * Pow10[k] >= den * Cap)
        BY <3>1, <4>1, <4>2
      <4> QED BY <4>3
    <3> DEFINE t == Pow10[places - k]
               b == Pow10[k]
    <3>3. t \in Nat /\ a = b * t /\ b \in Nat
      BY <3>2, PowSplit
    <3>4. n = num * (b * t) /\ num * b = c * den
      BY <1>2, <3>1, <3>3
    <3> HIDE DEF t, b
    <3>5. n = (c * t) * den
      <4>1. num * (b * t) = (num * b) * t
        BY <3>3
      <4>2. (c * den) * t = (c * t) * den
        BY <3>3
      <4> QED BY <3>4, <4>1, <4>2
    <3>6. c * t \in Int
      BY <3>3
    <3>7. ((c * t) * den) % den = 0
      BY <3>6, DivExactly
    <3> QED BY <1>8, <3>5, <3>7
  <2>2. /\ top \in Int /\ limit \in Int /\ top = limit - den /\ whole \in Nat
        /\ limit >= 16 * den
    BY <1>1, PowFacts
  <2>3. n < limit
    <3>1. (n \div den < Cap) <=> (n < den * Cap)
      BY <1>1, <1>3, DivBelow
    <3> QED BY <3>1
  <2>4. num > top <=> (places = 0 /\ q = MaxCoef)
    <3>1. ASSUME places = 0, q = MaxCoef
          PROVE  num > top
      <4>1. n = num
        BY <1>2, <3>1, PowFacts
      <4>2. n = top + (n % den)
        <5> DEFINE r == n % den
        <5> HIDE DEF r
        <5>1. n = den * MaxCoef + r /\ r \in Int
          BY <1>5, <3>1 DEF r
        <5> QED BY <1>1, <5>1 DEF r
      <4> HIDE DEF top
      <4>3. n % den >= 1 /\ n % den \in Int
        BY <1>5, <1>8
      <4> QED BY <1>3, <2>2, <4>1, <4>2, <4>3
    <3>2. ASSUME num > top
          PROVE  places = 0
      <4> SUFFICES ASSUME places # 0
                   PROVE  FALSE
        OBVIOUS
      <4>0. places \in 1..2*MaxPrec
        BY <1>1
      <4>1. a >= 10
        BY <4>0, PowEven
      <4> HIDE DEF a, top, limit
      <4>2. n >= num * 10
        BY <1>2, <4>1
      <4> QED BY <1>3, <2>2, <2>3, <3>2, <4>2
    <3>3. ASSUME num > top
          PROVE  q = MaxCoef
      <4>1. n > top
        <5> HIDE DEF top
        <5> QED BY <1>3, <2>2, <3>3
      <4> DEFINE c == MaxCoef
      <4>0. c \in Nat
        BY <1>1
      <4> HIDE DEF c
      <4>2. c \in Nat /\ ((n \div den >= c) <=> (n >= den * c))
        BY <1>3, <4>0, DivBelow
      <4>3. n >= den * c
        <5>1. top = den * c
          BY <4>2 DEF c
        <5> HIDE DEF top
        <5> QED BY <1>3, <2>2, <4>1, <5>1
      <4> QED BY <1>1, <1>4, <4>2, <4>3 DEF c
    <3> HIDE DEF top
    <3> QED BY <3>1, <3>2, <3>3
  <2>5. q = 0 <=> whole < den
    <3>1. q < 1 <=> n < den * 1
      BY <1>3, DivBelow
    <3>2. ASSUME q = 0
          PROVE  places = MaxPrec
      <4> HIDE DEF limit
      <4>1. n < den /\ (places < MaxPrec => n * 10 >= limit)
        BY <1>3, <1>6, <3>1, <3>2 DEF limit
      <4> QED BY <1>1, <1>3, <2>2, <4>1
    <3>3. ASSUME whole < den
          PROVE  places = MaxPrec
      <4>1. MaxPrec > places => whole >= den * Cap
        BY <1>1
      <4>2. MaxPrec > places => whole >= limit
        BY <4>1
      <4> HIDE DEF whole, limit
      <4> QED BY <1>1, <2>2, <3>3, <4>2
    <3>4. places = MaxPrec => n = whole
      OBVIOUS
    <3> HIDE DEF whole
    <3> QED BY <1>3, <1>4, <3>1, <3>2, <3>3, <3>4
  <2>6. res = Fail(IF num > MaxCoef * den THEN "Overflow"
                   ELSE IF num * Pow10[MaxPrec] < den THEN "Underflow"
                   ELSE "Inexact")
    <3>1. rem = TRUE
      BY <1>8
    <3> HIDE DEF top, whole
    <3>2. res = Fail(IF num > top THEN "Overflow" ELSE IF whole < den THEN "Underflow" ELSE "Inexact")
      BY <2>4, <2>5, <3>1 DEF FinishDivExact
    <3> QED BY <3>2 DEF top, whole
  <2>7. IsReply(res) /\ res.err # "nil" /\ Classified(num, den, neg, res.val, res.err)
    BY <2>1, <2>6, ClassifiedMiss
  <2> QED BY <2>7 DEF ExactReply
<1> QED
  BY <1>7, <1>8

(* DivExact answers the exact quotient, at the greatest precision at which *)
(* the truncated quotient fits, or says why no Decimal is the quotient.    *)
THEOREM DivExactIsExact ==
  ASSUME NEW d \in Decimals, NEW e \in Decimals
  PROVE  /\ IsReply(DivExact(d, e))
         /\ e.coef = 0 => DivExact(d, e).err = "DivideByZero"
         /\ e.coef # 0 => ExactReply(DivExact(d, e), d.coef * Pow10[e.prec],
                                     e.coef * Pow10[d.prec], d.neg # e.neg, MaxPrec)
<1> DEFINE At(p) == DivRoundAt(d, e, p)
           neg == (d.neg # e.neg)
           num == d.coef * Pow10[e.prec]
           den == e.coef * Pow10[d.prec]
           F == {p \in 0..MaxPrec : At(p).fits}
           Pass(f) == [s \in SearchStates |->
             IF s.lo > s.hi THEN s.best
             ELSE IF At((s.lo + s.hi) \div 2).fits
                  THEN f[Bounds((s.lo + s.hi) \div 2 + 1, s.hi, (s.lo + s.hi) \div 2)]
             ELSE f[Bounds(s.lo, ((s.lo + s.hi) \div 2) - 1, s.best)]]
           search == CHOOSE f : f = Pass(f)
           places == IF At(MaxPrec).fits THEN MaxPrec ELSE search[Bounds(0, MaxPrec - 1, -1)]
           quot == At(places)
           res == FinishDivExact(quot.q, quot.rem, places, neg)
<1>1. DivExact(d, e) =
        IF e.coef = 0 THEN Fail("DivideByZero")
        ELSE IF d.coef = 0 THEN Ok(Zero)
        ELSE IF places = -1 THEN Fail("Overflow")
        ELSE res
  <2>1. CASE e.coef = 0
    BY <2>1 DEF DivExact
  <2>2. CASE e.coef # 0 /\ d.coef = 0
    BY <2>2 DEF DivExact
  <2>3. CASE e.coef # 0 /\ d.coef # 0
    BY <2>3 DEF DivExact, SearchStates, Bounds
  <2> QED BY <2>1, <2>2, <2>3
<1>2. CASE e.coef = 0
  <2>1. DivExact(d, e) = Fail("DivideByZero")
    BY <1>1, <1>2
  <2>2. IsReply(Fail("DivideByZero")) /\ Fail("DivideByZero").err = "DivideByZero"
    BY Replies DEF Errors
  <2> QED BY <1>2, <2>1, <2>2
<1>3. CASE e.coef # 0
  <2>1. /\ d.coef \in Nat /\ e.coef \in Nat \ {0} /\ d.prec \in 0..MaxPrec /\ e.prec \in 0..MaxPrec
        /\ MaxPrec \in Nat /\ neg \in BOOLEAN
    BY <1>3, DecimalFacts, PowFacts
  <2>2. Pow10[e.prec] \in Nat \ {0} /\ Pow10[d.prec] \in Nat \ {0}
    BY <2>1, PowFacts
  <2>3. num \in Nat /\ den \in Nat \ {0} /\ (d.coef # 0 => num # 0)
    BY <2>1, <2>2
  <2>4. ASSUME NEW p \in 0..MaxPrec
        PROVE  /\ num * Pow10[p] \in Nat /\ IsQuotient(At(p), num * Pow10[p], den)
               /\ At(p).fits <=> num * Pow10[p] < den * Cap
    <3>1. Pow10[p + e.prec] = Pow10[p] * Pow10[e.prec] /\ Pow10[p] \in Nat
      <4>1. p \in 0..2*MaxPrec /\ e.prec \in 0..2*MaxPrec /\ p + e.prec <= 2*MaxPrec
        BY <2>1
      <4> QED BY <4>1, PowFacts
    <3> DEFINE n == num * Pow10[p]
    <3>2. n = d.coef * Pow10[p + e.prec] /\ n \in Nat
      BY <2>1, <2>2, <3>1
    <3>3. IsQuotient(At(p), n, den)
      <4>1. IsQuotient(At(p), d.coef * Pow10[p + e.prec], e.coef * Pow10[d.prec])
        BY <1>3, DivRoundAtQuotient
      <4> QED BY <3>2, <4>1
    <3> HIDE DEF n, den, At
    <3>4. (n \div den < Cap) <=> (n < den * Cap)
      BY <2>3, <3>2, CapFacts, DivBelow
    <3>5. n \div den \in Nat /\ Cap \in Nat
      BY <2>3, <3>2, CapFacts, DivBelow
    <3>6. At(p).fits <=> n < den * Cap
      BY <3>3, <3>4, <3>5 DEF IsQuotient
    <3> QED BY <3>2, <3>3, <3>6 DEF n
  <2>5. CASE d.coef = 0
    <3>1. num = 0 /\ DivExact(d, e) = Ok(Zero)
      BY <1>1, <1>3, <2>2, <2>5
    <3> HIDE DEF num, den, neg
    <3>2. ExactReply(DivExact(d, e), num, den, neg, MaxPrec)
      BY <2>3, <3>1, ZeroExact
    <3>3. IsReply(DivExact(d, e))
      BY <3>2 DEF ExactReply
    <3> QED BY <1>3, <3>2, <3>3 DEF num, den, neg
  <2>6. CASE d.coef # 0
    <3>1. \A p \in F : \A q \in 0..MaxPrec : q <= p => q \in F
      <4> SUFFICES ASSUME NEW p \in F, NEW q \in 0..MaxPrec, q <= p
                   PROVE  q \in F
        OBVIOUS
      <4>1. p \in 0..MaxPrec /\ num * Pow10[p] < den * Cap
        BY <2>4
      <4>2. Pow10[q] <= Pow10[p] /\ Pow10[p] \in Nat /\ Pow10[q] \in Nat
        BY <4>1, PowSplit
      <4>3. num * Pow10[q] <= num * Pow10[p]
        <5> HIDE DEF num
        <5> QED BY <2>3, <4>2
      <4>4. den * Cap \in Nat /\ num * Pow10[q] \in Nat /\ num * Pow10[p] \in Nat
        <5> HIDE DEF num, den, At
        <5> QED BY <2>3, <2>4, <4>1, CapFacts
      <4>5. num * Pow10[q] < den * Cap
        <5> HIDE DEF num, den
        <5> QED BY <4>1, <4>3, <4>4
      <4> HIDE DEF num, den, At
      <4> QED BY <2>4, <4>5
    <3>2. /\ places \in -1..MaxPrec
          /\ \A p \in 0..MaxPrec : p \in F <=> p <= places
      <4>1. CASE At(MaxPrec).fits
        <5>1. places = MaxPrec /\ MaxPrec \in 0..MaxPrec /\ MaxPrec \in F
          BY <2>1, <4>1
        <5>2. \A p \in 0..MaxPrec : p \in F /\ p <= MaxPrec
          <6> HIDE DEF F
          <6> QED BY <3>1, <5>1
        <5> HIDE DEF F, places
        <5> QED BY <2>1, <5>1, <5>2
      <4>2. CASE ~At(MaxPrec).fits
        <5>1. MaxPrec \notin F /\ F \in SUBSET (0..MaxPrec)
          BY <4>2
        <5>2. \A f : Pass(f) = Searching(F, f)
          <6> TAKE f
          <6>1. \A s \in SearchStates : s.lo <= s.hi => (Middle(s) \in F <=> At(Middle(s)).fits)
            <7> TAKE s \in SearchStates
            <7> HAVE s.lo <= s.hi
            <7>1. Middle(s) \in 0..MaxPrec
              BY <2>1, MiddleBetween
            <7> HIDE DEF At
            <7> QED BY <7>1
          <6>2. \A s \in SearchStates : Pass(f)[s] = Searching(F, f)[s]
            <7> TAKE s \in SearchStates
            <7>1. s.lo \in Int /\ s.hi \in Int
              BY <2>1 DEF SearchStates
            <7>2. CASE s.lo > s.hi
              BY <7>2 DEF Searching
            <7>3. CASE ~(s.lo > s.hi)
              <8>1. Middle(s) \in F <=> At(Middle(s)).fits
                BY <6>1, <7>1, <7>3
              <8> HIDE DEF At, F
              <8> QED BY <7>3, <8>1 DEF Searching, Middle
            <7> QED BY <7>2, <7>3
          <6> HIDE DEF At, F
          <6> QED BY <6>2 DEF Searching
        <5>3. /\ \E g : g = Searching(F, g)
              /\ \A f : f = Searching(F, f) =>
                   /\ f[Bounds(0, MaxPrec - 1, -1)] \in -1..(MaxPrec - 1)
                   /\ \A p \in 0..MaxPrec : p \in F <=> p <= f[Bounds(0, MaxPrec - 1, -1)]
          <6> HIDE DEF F
          <6> QED BY <3>1, <5>1, SearchFinds
        <5>4. search = Searching(F, search)
          <6> HIDE DEF Pass, F
          <6> QED BY <5>2, <5>3
        <5> HIDE DEF search, F
        <5>5. places = search[Bounds(0, MaxPrec - 1, -1)]
          BY <4>2
        <5>6. /\ places \in -1..(MaxPrec - 1)
              /\ \A p \in 0..MaxPrec : p \in F <=> p <= places
          <6> HIDE DEF places
          <6> QED BY <5>3, <5>4, <5>5
        <5> HIDE DEF places
        <5> QED BY <2>1, <5>6
      <4> QED BY <4>1, <4>2
    <3> HIDE DEF places
    <3>3. \A p \in 0..MaxPrec : p > places => num * Pow10[p] >= den * Cap
      <4> TAKE p \in 0..MaxPrec
      <4> HAVE p > places
      <4>1. ~At(p).fits
        <5> HIDE DEF At
        <5> QED BY <2>1, <3>2
      <4>2. ~(num * Pow10[p] < den * Cap)
        BY <2>4, <4>1
      <4>3. num * Pow10[p] \in Nat /\ den * Cap \in Nat
        <5> HIDE DEF num, den, At
        <5> QED BY <2>3, <2>4, CapFacts
      <4> HIDE DEF num, den
      <4> QED BY <4>2, <4>3
    <3>4. num \in Nat \ {0}
      BY <2>3, <2>6
    <3>5. CASE places = -1
      <4>1. num >= den * Cap
        <5>1. num * Pow10[0] >= den * Cap /\ Pow10[0] = 1 /\ 0 \in 0..MaxPrec
          BY <2>1, <3>3, <3>5, PowFacts
        <5> HIDE DEF num, den
        <5> QED BY <3>4, <5>1
      <4> DEFINE reply == Fail("Overflow")
      <4>2. \A k \in 0..MaxPrec : ~Hit(num, den, k)
        <5> SUFFICES ASSUME NEW k \in 0..MaxPrec, NEW c \in Nat, HitsAt(num, den, k, c)
                     PROVE  FALSE
          BY DEF Hit
        <5>1. num * Pow10[k] >= den * Cap
          BY <3>3, <3>5
        <5> HIDE DEF num, den
        <5>2. c < Cap /\ c * den >= den * Cap
          BY <5>1 DEF HitsAt
        <5> QED BY <2>3, <5>2, CapFacts
      <4>3. num > MaxCoef * den
        <5> HIDE DEF num, den
        <5> QED BY <2>3, <4>1, CapFacts DEF MaxCoef
      <4>4. reply = Fail(IF num > MaxCoef * den THEN "Overflow"
                         ELSE IF num * Pow10[MaxPrec] < den THEN "Underflow"
                         ELSE "Inexact")
        BY <4>3
      <4>5. DivExact(d, e) = reply
        BY <1>1, <1>3, <2>6, <3>5
      <4> HIDE DEF num, den, neg, reply
      <4>6. IsReply(reply) /\ reply.err # "nil" /\ Classified(num, den, neg, reply.val, reply.err)
        BY <2>1, <2>3, <4>2, <4>4, ClassifiedMiss
      <4>7. ExactReply(DivExact(d, e), num, den, neg, MaxPrec) /\ IsReply(DivExact(d, e))
        BY <4>5, <4>6 DEF ExactReply
      <4> QED BY <1>3, <4>7 DEF num, den, neg
    <3>6. CASE places # -1
      <4>1. places \in 0..MaxPrec /\ places \in F
        <5>1. places \in 0..MaxPrec
          BY <2>1, <3>2, <3>6
        <5> HIDE DEF F
        <5> QED BY <2>1, <3>2, <5>1
      <4> DEFINE n == num * Pow10[places]
      <4>2. IsQuotient(quot, n, den) /\ quot.fits
        BY <2>4, <4>1
      <4> HIDE DEF quot, n
      <4>3. quot.q = n \div den /\ quot.q < Cap /\ quot.rem = (n % den # 0)
        BY <4>2 DEF IsQuotient
      <4>4. DivExact(d, e) = res
        BY <1>1, <1>3, <2>6, <3>6 DEF quot
      <4> DEFINE q == quot.q
                 rem == quot.rem
      <4>5. res = FinishDivExact(q, rem, places, neg) /\ n = num * Pow10[places]
        BY DEF n
      <4>6. q = n \div den /\ q < Cap /\ rem = (n % den # 0)
        BY <4>3
      <4> HIDE DEF res, q, rem, num, den, neg
      <4>7. ExactReply(res, num, den, neg, MaxPrec)
        BY <2>1, <2>3, <3>3, <3>4, <4>1, <4>5, <4>6, FinishAnswers
      <4>8. ExactReply(DivExact(d, e), num, den, neg, MaxPrec) /\ IsReply(DivExact(d, e))
        BY <4>4, <4>7 DEF ExactReply
      <4> QED BY <1>3, <4>8 DEF num, den, neg
    <3> QED BY <3>5, <3>6
  <2> QED BY <2>5, <2>6
<1> QED
  BY <1>2, <1>3

(* The exact answer to New: v * 10^exp at its precision, once the digits   *)
(* below 10^-MaxPrec are zeros.  A power above the tables is more than any *)
(* coefficient.                                                            *)
IntegerReply(res, v, exp) ==
  LET places == IF exp < 0 THEN Smaller(-exp, MaxPrec) ELSE 0
      up == Larger(exp, 0)
      down == Larger(-exp - places, 0)
      num == Abs(v) * Pow10[up]
  IN  /\ IsReply(res)
      /\ IF up > 2*MaxPrec THEN res.err = "Overflow"
         ELSE IF down > 2*MaxPrec \/ num % Pow10[down] # 0 THEN res.err = "PrecOutOfRange"
         ELSE IF num \div Pow10[down] >= Cap THEN res.err = "Overflow"
         ELSE res.err = "nil" /\ res.val = NewDecimal(num \div Pow10[down], v < 0, places)

LEMMA IntegerFacts ==
  ASSUME NEW v \in Int64
  PROVE  /\ v \in Int /\ Abs(v) \in Nat /\ Abs(v) < Base /\ Abs(v) \in U64 /\ Abs(v) < Cap
         /\ (v < 0) \in BOOLEAN /\ (v # 0 => Abs(v) # 0)
<1>1. Base \in Nat /\ Base >= 4
  BY WordAssumption
<1>2. Base \div 2 \in Nat /\ Base \div 2 < Base
  BY <1>1
<1>3. v \in Int /\ -(Base \div 2) <= v /\ v <= Base \div 2
  BY <1>2 DEF Int64
<1>4. Base < Cap
  BY <1>1 DEF Cap
<1> QED
  BY <1>1, <1>2, <1>3, <1>4, CapFacts DEF Abs, U64

(* The states of New's loop: trailing zeros of mag0 taken off, one for     *)
(* each digit of scale0 above MaxPrec that is gone.                        *)
StripStates == [mag : U64, scale : Nat]
StripFrom(mag0, scale0) ==
  {s \in StripStates : /\ s.mag # 0 /\ s.scale <= scale0 /\ scale0 - s.scale \in 0..MaxPrec
                       /\ s.mag * Pow10[scale0 - s.scale] = mag0
                       /\ s.scale = scale0 \/ s.scale >= MaxPrec}
StripReply(r, mag0, scale0, neg) ==
  LET places == Smaller(scale0, MaxPrec)
      down == scale0 - places
  IN  IF down > 2*MaxPrec \/ mag0 % Pow10[down] # 0 THEN r = Fail("PrecOutOfRange")
      ELSE r = Ok(NewDecimal(mag0 \div Pow10[down], neg, places))
LEMMA StripStops ==
  ASSUME NEW mag0 \in U64, NEW scale0 \in Nat, NEW neg \in BOOLEAN, NEW s \in StripFrom(mag0, scale0)
  PROVE  /\ s.scale > MaxPrec /\ s.mag % 10 # 0 => StripReply(Fail("PrecOutOfRange"), mag0, scale0, neg)
         /\ s.scale <= MaxPrec => StripReply(Ok(NewDecimal(s.mag, neg, s.scale)), mag0, scale0, neg)
<1> DEFINE w == s.mag
           c == s.scale
           j == scale0 - c
           a == Pow10[j]
           places == Smaller(scale0, MaxPrec)
           down == scale0 - places
<1>1. /\ w \in Nat \ {0} /\ c \in Nat /\ c <= scale0 /\ j \in 0..MaxPrec /\ w * a = mag0
      /\ c = scale0 \/ c >= MaxPrec
  BY WordAssumption DEF StripFrom, StripStates, U64
<1>2. MaxPrec \in Nat /\ MaxPrec >= 1 /\ mag0 \in Nat
  BY PowFacts, WordAssumption DEF U64
<1>3. a \in Nat \ {0} /\ j \in 0..2*MaxPrec
  BY <1>1, <1>2, PowFacts
<1>4. ASSUME c <= MaxPrec
      PROVE  StripReply(Ok(NewDecimal(w, neg, c)), mag0, scale0, neg)
  <2>1. places = c /\ down = j
    BY <1>1, <1>2, <1>4 DEF Smaller
  <2>2. mag0 \div a = w /\ mag0 % a = 0
    <3> HIDE DEF w, a
    <3>1. w \in Int
      BY <1>1
    <3> QED BY <1>1, <1>3, <3>1, DivExactly
  <2>3. ~(down > 2*MaxPrec) /\ ~(mag0 % Pow10[down] # 0)
    <3>1. j <= 2*MaxPrec /\ j \in Int
      BY <1>3
    <3> HIDE DEF j
    <3> QED BY <1>2, <2>1, <2>2, <3>1
  <2> HIDE DEF w, c, a
  <2> QED BY <2>1, <2>2, <2>3 DEF StripReply, a
<1>5. ASSUME c > MaxPrec, w % 10 # 0
      PROVE  StripReply(Fail("PrecOutOfRange"), mag0, scale0, neg)
  <2>1. places = MaxPrec /\ down > j /\ down \in Nat
    BY <1>1, <1>2, <1>5 DEF Smaller
  <2> HIDE DEF places, down
  <2>2. ASSUME ~(down > 2*MaxPrec), mag0 % Pow10[down] = 0
        PROVE  FALSE
    <3> DEFINE i == down - j - 1
               t == Pow10[i]
               b == Pow10[down]
               q == mag0 \div b
    <3>1. i \in 0..(2*MaxPrec - 1) /\ i + 1 \in 0..2*MaxPrec /\ down = j + (i + 1) /\ j + (i + 1) <= 2*MaxPrec
          /\ down \in 0..2*MaxPrec
      BY <1>2, <1>3, <2>1, <2>2
    <3>2. b = a * Pow10[i + 1] /\ b \in Nat \ {0}
      <4> HIDE DEF i, j
      <4>1. Pow10[j + (i + 1)] = Pow10[j] * Pow10[i + 1]
        BY <1>3, <3>1, PowFacts
      <4>2. b \in Nat \ {0}
        BY <3>1, PowFacts
      <4> QED BY <3>1, <4>1, <4>2
    <3>3. Pow10[i + 1] = t * 10 /\ t \in Nat
      BY <3>1, PowStep
    <3>4. mag0 = b * q + (mag0 % b) /\ q \in Nat
      <4>1. mag0 \in Int
        BY <1>2
      <4> HIDE DEF b
      <4> QED BY <1>2, <3>2, <4>1, DivMod, DivBelow
    <3>5. mag0 % b = 0
      BY <2>2
    <3> HIDE DEF i, t, b, q, w, a
    <3>6. w * a = (a * (t * 10)) * q
      BY <1>1, <3>2, <3>3, <3>4, <3>5
    <3> DEFINE x == t * q
    <3>7. x \in Nat /\ (a * (t * 10)) * q = (x * 10) * a
      BY <1>3, <3>3, <3>4
    <3> HIDE DEF x
    <3>8. (w - x * 10) * a = 0
      BY <1>1, <1>3, <3>6, <3>7
    <3>9. w = x * 10
      BY <1>1, <1>3, <3>7, <3>8
    <3> QED BY <1>5, <3>7, <3>9
  <2> QED BY <2>2 DEF StripReply, places, down
<1> QED
  BY <1>4, <1>5

(* New answers v * 10^exp exactly, or the reason why it cannot.            *)
THEOREM NewIsExact ==
  ASSUME NEW value \in Int64, value # 0, NEW exp \in Int
  PROVE  IntegerReply(New(value, exp), value, exp)
<1> DEFINE neg == (value < 0)
           mag == Abs(value)
           X == StripStates
           Pass(f) == [s \in X |->
             IF s.scale > MaxPrec /\ s.mag % 10 = 0
             THEN f[[mag |-> s.mag \div 10, scale |-> s.scale - 1]]
             ELSE IF s.scale > MaxPrec THEN Fail("PrecOutOfRange")
             ELSE Ok(NewDecimal(s.mag, neg, s.scale))]
           strip == CHOOSE f : f = Pass(f)
           start == [mag |-> mag, scale |-> -exp]
           prod == Mul128by64(Pow10[exp], mag)
           places == IF exp < 0 THEN Smaller(-exp, MaxPrec) ELSE 0
           up == Larger(exp, 0)
           down == Larger(-exp - places, 0)
           num == mag * Pow10[up]
<1>1. /\ value \in Int /\ mag \in Nat \ {0} /\ mag < Base /\ mag \in U64 /\ mag < Cap
      /\ neg \in BOOLEAN /\ MaxPrec \in Nat /\ MaxPrec >= 1
  BY IntegerFacts, PowFacts
<1>2. CASE exp > 2*MaxPrec
  <2>1. New(value, exp) = Fail("Overflow")
    BY <1>1, <1>2 DEF New
  <2>2. up > 2*MaxPrec
    BY <1>1, <1>2 DEF Larger
  <2>3. IsReply(Fail("Overflow")) /\ Fail("Overflow").err = "Overflow"
    BY Replies DEF Errors
  <2> QED BY <2>1, <2>2, <2>3 DEF IntegerReply
<1>3. CASE exp \in 0..2*MaxPrec
  <2>1. New(value, exp) = IF prod.overflow # 0 THEN Fail("Overflow")
                          ELSE Ok(NewDecimal(prod.val, neg, 0))
    <3>1. ~(exp > 2*MaxPrec) /\ ~(exp < 0)
      BY <1>1, <1>3
    <3> QED BY <1>3, <3>1 DEF New
  <2>2. up = exp /\ places = 0 /\ down = 0 /\ ~(up > 2*MaxPrec) /\ ~(down > 2*MaxPrec)
    BY <1>1, <1>3 DEF Larger
  <2> DEFINE n == mag * Pow10[exp]
  <2>3. Pow10[exp] \in Nat /\ n \in Nat /\ num = n
    BY <1>1, <1>3, <2>2, PowFacts
  <2>4. Pow10[down] = 1 /\ num % 1 = 0 /\ num \div 1 = num
    BY <2>2, <2>3, PowFacts
  <2>5. prod.val = n % Cap /\ prod.overflow = n \div Cap
    <3>1. Pow10[exp] * mag = n
      BY <1>1, <2>3
    <3> QED BY <3>1 DEF Mul128by64
  <2> HIDE DEF n, prod, num, neg, mag, up, places, down
  <2>6. Cap \in Nat \ {0} /\ n \div Cap \in Nat /\ n % Cap \in Nat /\ n % Cap < Cap
        /\ n = Cap * (n \div Cap) + (n % Cap) /\ (n \div Cap >= 1 <=> n >= Cap * 1)
    <3>1. Cap \in Nat \ {0} /\ n \in Int
      BY <2>3, CapFacts
    <3>2. n \div Cap \in Nat /\ n % Cap \in Nat /\ n % Cap < Cap /\ (n \div Cap >= 1 <=> n >= Cap * 1)
      BY <2>3, <3>1, DivBelow
    <3>3. n = Cap * (n \div Cap) + (n % Cap)
      BY <3>1, DivMod
    <3> QED BY <3>1, <3>2, <3>3
  <2>7. CASE n >= Cap
    <3>1. New(value, exp) = Fail("Overflow")
      BY <2>1, <2>5, <2>6, <2>7
    <3>2. IsReply(Fail("Overflow")) /\ Fail("Overflow").err = "Overflow"
      BY Replies DEF Errors
    <3>3. ~(num % Pow10[down] # 0) /\ num \div Pow10[down] >= Cap
      BY <2>3, <2>4, <2>7
    <3> QED BY <2>2, <3>1, <3>2, <3>3 DEF IntegerReply, num, neg, mag, up, places, down
  <2>8. CASE ~(n >= Cap)
    <3> DEFINE q == n \div Cap
    <3>1. q = 0 /\ n < Cap
      BY <2>3, <2>6, <2>8
    <3>2. n % Cap = n
      <4> DEFINE r == n % Cap
      <4>1. n = Cap * q + r /\ r \in Nat /\ Cap \in Nat
        BY <2>6
      <4> HIDE DEF q, r
      <4>2. n = r
        BY <3>1, <4>1
      <4> QED BY <4>2 DEF r
    <3>3. New(value, exp) = Ok(NewDecimal(n, neg, 0))
      BY <2>1, <2>5, <3>1, <3>2
    <3>4. 0 \in 0..MaxPrec
      BY <1>1
    <3> DEFINE v == NewDecimal(n, neg, 0)
    <3>5. IsReply(Ok(v)) /\ Ok(v).val = v /\ Ok(v).err = "nil"
      BY <1>1, <2>3, <3>1, <3>4, MakeDecimal DEF Ok
    <3>6. ~(num % Pow10[down] # 0) /\ ~(num \div Pow10[down] >= Cap)
          /\ v = NewDecimal(num \div Pow10[down], neg, places)
      BY <2>2, <2>3, <2>4, <2>8
    <3> HIDE DEF v
    <3>7. New(value, exp) = Ok(v)
      BY <3>3 DEF v
    <3> QED BY <2>2, <3>5, <3>6, <3>7 DEF IntegerReply, num, neg, mag, up, places, down
  <2> QED BY <2>7, <2>8
<1>4. CASE exp < 0
  <2> DEFINE scale0 == -exp
  <2>1. New(value, exp) = strip[start]
    <3>1. ~(exp > 2*MaxPrec) /\ ~(exp \in 0..2*MaxPrec)
      BY <1>1, <1>4
    <3> QED BY <1>4, <3>1 DEF New, StripStates
  <2>2. scale0 \in Nat /\ scale0 # 0
    BY <1>4
  <2> DEFINE Inv == StripFrom(mag, scale0)
             Post == {r \in [val : Decimals, err : Errors] : StripReply(r, mag, scale0, neg)}
             Stop == {s \in X : ~(s.scale > MaxPrec /\ s.mag % 10 = 0)}
             res == [s \in X |-> IF s.scale > MaxPrec THEN Fail("PrecOutOfRange")
                                 ELSE Ok(NewDecimal(s.mag, neg, s.scale))]
             nxt == [s \in X |-> [mag |-> s.mag \div 10, scale |-> s.scale - 1]]
             m == [s \in X |-> s.scale]
  <2>3. \A s \in X : s.mag \in Nat /\ s.mag < Base /\ s.mag < Cap /\ s.scale \in Nat
    <3>1. Base \in Nat /\ Base >= 4
      BY WordAssumption
    <3>2. Cap \in Nat /\ Base < Cap
      BY <3>1 DEF Cap
    <3> QED BY <3>1, <3>2 DEF StripStates, U64
  <2>4. \A s \in X : s \notin Stop =>
          /\ nxt[s] \in X /\ nxt[s].scale = s.scale - 1 /\ nxt[s].mag = s.mag \div 10
          /\ m[nxt[s]] < m[s]
    <3> TAKE s \in X
    <3> HAVE s \notin Stop
    <3>1. s.scale > MaxPrec /\ s.mag \in Nat /\ s.mag < Base /\ s.scale \in Nat
      BY <2>3
    <3>2. s.mag \div 10 \in U64 /\ s.scale - 1 \in Nat /\ s.scale - 1 < s.scale
      BY <1>1, <3>1, WordAssumption DEF U64
    <3>3. nxt[s] \in X
      BY <3>2 DEF StripStates
    <3> QED BY <3>2, <3>3
  <2>5. Decreases(X, Stop, nxt, m)
    <3>1. m \in [X -> Nat]
      BY <2>3
    <3> QED BY <2>4, <3>1 DEF Decreases
  <2>6. \A f : LoopBody(X, Stop, res, nxt, f) = Pass(f)
    BY DEF LoopBody
  <2>7. strip = LoopBody(X, Stop, res, nxt, strip)
    <3>1. (\E g : g = Pass(g)) => strip = Pass(strip)
      <4> HIDE DEF Pass
      <4> QED OBVIOUS
    <3>2. \E g : g = LoopBody(X, Stop, res, nxt, g)
      <4> HIDE DEF X, Stop, res, nxt, m
      <4> QED BY <2>5, LoopDefined
    <3> HIDE DEF Pass, Stop, res, nxt, strip
    <3> QED BY <2>6, <3>1, <3>2
  <2> HIDE DEF strip, mag, neg, scale0
  <2>8. \A s \in Inv : s \in Stop => res[s] \in Post
    <3> TAKE s \in Inv
    <3> HAVE s \in Stop
    <3>1. s \in X
      BY DEF StripFrom
    <3>2. s.mag \in Nat /\ s.mag < Cap /\ s.scale \in Nat /\ ~(s.scale > MaxPrec /\ s.mag % 10 = 0)
      BY <2>3, <3>1
    <3>3. /\ s.scale > MaxPrec /\ s.mag % 10 # 0 => StripReply(Fail("PrecOutOfRange"), mag, scale0, neg)
          /\ s.scale <= MaxPrec => StripReply(Ok(NewDecimal(s.mag, neg, s.scale)), mag, scale0, neg)
      BY <1>1, <2>2, StripStops
    <3>4. CASE s.scale > MaxPrec
      <4>1. res[s] = Fail("PrecOutOfRange") /\ IsReply(Fail("PrecOutOfRange"))
        BY <3>1, <3>4, Replies DEF Errors
      <4>2. Fail("PrecOutOfRange") \in [val : Decimals, err : Errors]
        BY <4>1 DEF IsReply, Fail
      <4> HIDE DEF res
      <4> QED BY <3>2, <3>3, <3>4, <4>1, <4>2
    <3>5. CASE ~(s.scale > MaxPrec)
      <4> DEFINE v == NewDecimal(s.mag, neg, s.scale)
      <4>1. s.scale \in 0..MaxPrec
        BY <1>1, <3>2, <3>5
      <4>2. res[s] = Ok(v) /\ v \in Decimals
        BY <1>1, <3>1, <3>2, <3>5, <4>1, MakeDecimal
      <4>3. StripReply(Ok(v), mag, scale0, neg)
        BY <3>3, <4>1
      <4> HIDE DEF v
      <4>4. Ok(v) \in [val : Decimals, err : Errors]
        BY <4>2 DEF Ok, Errors
      <4> HIDE DEF res
      <4> QED BY <4>2, <4>3, <4>4
    <3> QED BY <3>4, <3>5
  <2>9. \A s \in Inv : s \notin Stop => nxt[s] \in Inv
    <3> TAKE s \in Inv
    <3> HAVE s \notin Stop
    <3> DEFINE w == s.mag
               c == s.scale
               v == w \div 10
               j == scale0 - c
               a == Pow10[j]
    <3>1. /\ s \in X /\ w # 0 /\ c <= scale0 /\ j \in 0..MaxPrec /\ w * a = mag
          /\ c = scale0 \/ c >= MaxPrec
      BY DEF StripFrom
    <3>2. c > MaxPrec /\ w % 10 = 0 /\ w \in Nat /\ c \in Nat /\ w < Base
      BY <2>3, <3>1
    <3>3. nxt[s] \in X /\ nxt[s].scale = c - 1 /\ nxt[s].mag = v
      BY <2>4, <3>1
    <3> HIDE DEF w, c
    <3>4. v \in Nat /\ w = 10 * v
      BY <3>2
    <3> HIDE DEF v
    <3>5. j \in 0..(2*MaxPrec - 1) /\ scale0 - (c - 1) = j + 1
      BY <1>1, <2>2, <3>1, <3>2
    <3> HIDE DEF j
    <3>6. a \in Nat \ {0} /\ Pow10[j + 1] = a * 10
      BY <3>5, PowStep
    <3> HIDE DEF a
    <3>7. v * (a * 10) = mag /\ v # 0
      BY <3>1, <3>4, <3>6
    <3>8. j + 1 \in 0..MaxPrec
      <4> SUFFICES ASSUME j = MaxPrec
                   PROVE  FALSE
        BY <1>1, <3>1
      <4>1. Base < 10 * a /\ Base \in Nat
        BY TableAssumption, WordAssumption DEF a
      <4>2. v * (a * 10) >= a * 10
        BY <3>4, <3>6, <3>7
      <4> QED BY <1>1, <3>6, <3>7, <4>1, <4>2
    <3>9. c - 1 <= scale0 /\ c - 1 >= MaxPrec
      BY <1>1, <2>2, <3>1, <3>2
    <3>10. v * Pow10[j + 1] = mag
      BY <3>6, <3>7
    <3>11. nxt[s].mag # 0 /\ nxt[s].scale <= scale0 /\ scale0 - nxt[s].scale \in 0..MaxPrec
           /\ nxt[s].mag * Pow10[scale0 - nxt[s].scale] = mag /\ nxt[s].scale >= MaxPrec
      <4> HIDE DEF nxt
      <4> QED BY <3>3, <3>5, <3>7, <3>8, <3>9, <3>10
    <3> HIDE DEF nxt, X
    <3> QED BY <3>3, <3>11 DEF StripFrom, X
  <2>10. start \in Inv
    <3>1. start = [mag |-> mag, scale |-> scale0] /\ scale0 - scale0 = 0 /\ Pow10[0] = 1 /\ mag * 1 = mag
          /\ 0 \in 0..MaxPrec /\ scale0 <= scale0
      BY <1>1, <2>2, PowFacts DEF scale0
    <3>2. start \in X /\ start.mag = mag /\ start.scale = scale0
      BY <1>1, <2>2, <3>1 DEF StripStates
    <3> HIDE DEF start, X
    <3> QED BY <1>1, <3>1, <3>2 DEF StripFrom, X
  <2>11. Carries(X, Stop, res, nxt, Inv, Post)
    <3>1. Inv \subseteq X
      BY DEF StripFrom
    <3> HIDE DEF Inv, Post, Stop, res, nxt, X
    <3> QED BY <2>8, <2>9, <3>1 DEF Carries
  <2>12. strip[start] \in Post
    <3>1. \A s \in Inv : strip[s] \in Post
      <4> HIDE DEF Inv, Post, Stop, res, nxt, m, X
      <4> QED BY <2>5, <2>7, <2>11, LoopAnswers
    <3> HIDE DEF Inv, Post, start
    <3> QED BY <2>10, <3>1
  <2> DEFINE r == New(value, exp)
  <2>13. r \in [val : Decimals, err : Errors] /\ StripReply(r, mag, scale0, neg)
    BY <2>1, <2>12
  <2> HIDE DEF r, start, Inv, Post, Stop, res, nxt, m
  <2>14. up = 0 /\ places = Smaller(scale0, MaxPrec) /\ down = scale0 - places /\ ~(up > 2*MaxPrec)
         /\ places \in 0..MaxPrec
    BY <1>1, <1>4, <2>2 DEF Larger, Smaller, scale0
  <2> HIDE DEF up, places, down
  <2>15. num = mag
    BY <1>1, <2>14, PowFacts
  <2> HIDE DEF num
  <2>16. IsReply(r)
    BY <2>13 DEF IsReply
  <2>17. IF down > 2*MaxPrec \/ num % Pow10[down] # 0 THEN r.err = "PrecOutOfRange"
         ELSE IF num \div Pow10[down] >= Cap THEN r.err = "Overflow"
         ELSE r.err = "nil" /\ r.val = NewDecimal(num \div Pow10[down], neg, places)
    <3>1. CASE down > 2*MaxPrec \/ num % Pow10[down] # 0
      <4>1. r = Fail("PrecOutOfRange")
        BY <2>13, <2>14, <2>15, <3>1 DEF StripReply
      <4> QED BY <3>1, <4>1 DEF Fail
    <3>2. CASE ~(down > 2*MaxPrec \/ num % Pow10[down] # 0)
      <4>1. r = Ok(NewDecimal(num \div Pow10[down], neg, places))
        BY <2>13, <2>14, <2>15, <3>2 DEF StripReply
      <4>2. ~(num \div Pow10[down] >= Cap)
        <5>1. down \in 0..2*MaxPrec
          <6>1. ~(down > 2*MaxPrec) /\ down = scale0 - places /\ scale0 \in Nat /\ places \in 0..MaxPrec
            BY <2>2, <2>14, <3>2
          <6>2. places <= scale0
            BY <1>1, <2>2, <2>14 DEF Smaller
          <6> QED BY <1>1, <6>1, <6>2
        <5>2. Pow10[down] \in Nat \ {0}
          BY <5>1, PowFacts
        <5> DEFINE b == Pow10[down]
        <5> HIDE DEF b
        <5>3. num \div b \in Nat /\ num \div b <= num
          BY <1>1, <2>15, <5>2, DivBelow DEF b
        <5> QED BY <1>1, <2>15, <5>3, CapFacts DEF b
      <4> QED BY <3>2, <4>1, <4>2 DEF Ok
    <3> QED BY <3>1, <3>2
  <2>18. IntegerReply(r, value, exp)
    BY <2>14, <2>16, <2>17 DEF IntegerReply, up, places, down, num, mag, neg
  <2> QED BY <2>18 DEF r
<1> QED
  <2>1. exp > 2*MaxPrec \/ exp \in 0..2*MaxPrec \/ exp < 0
    BY <1>1
  <2> QED BY <1>2, <1>3, <1>4, <2>1

(* Div computes d/e at a precision p as a quotient of (num * 10^p) by den, *)
(* and knows whether its coefficient fits without computing it.            *)
DivNum(d, e) == d.coef * Pow10[e.prec]
DivDen(d, e) == e.coef * Pow10[d.prec]
DivFits(d, e, p) == DivNum(d, e) * Pow10[p] < DivDen(d, e) * Cap
LEMMA DivCoefAtQuotient ==
  ASSUME NEW d \in Decimals, NEW e \in Decimals, e.coef # 0, NEW p \in 0..MaxPrec,
         NEW f, f = p + e.prec - d.prec
  PROVE  /\ DivNum(d, e) * Pow10[p] \in Nat /\ DivDen(d, e) \in Nat \ {0}
         /\ DivNum(d, e) * Pow10[p] = d.coef * Pow10[p + e.prec]
         /\ DivCoefAt(d, e, p).ok \in BOOLEAN
         /\ DivCoefAt(d, e, p).ok <=> DivFits(d, e, p)
         /\ DivCoefAt(d, e, p).ok =>
              DivCoefAt(d, e, p).q = (DivNum(d, e) * Pow10[p]) \div DivDen(d, e)
         /\ f <= 0 => DivCoefAt(d, e, p).ok
         /\ f > 0 => /\ f \in 1..2*MaxPrec
                     /\ DivCoefAt(d, e, p).ok <=> d.coef * Pow10[f] < Cap * e.coef
<1> DEFINE c == d.coef
           v == e.coef
           i == p + e.prec
           n == DivNum(d, e) * Pow10[p]
           den == DivDen(d, e)
           r == DivCoefAt(d, e, p)
<1>1. /\ c \in Nat /\ c < Cap /\ v \in Nat \ {0} /\ d.prec \in 0..MaxPrec /\ e.prec \in 0..MaxPrec
      /\ MaxPrec \in Nat /\ Cap \in Nat \ {0} /\ v < Cap
  <2>1. /\ c \in Nat /\ c < Cap /\ v \in Nat /\ v < Cap
        /\ d.prec \in 0..MaxPrec /\ e.prec \in 0..MaxPrec
    BY DecimalFacts
  <2>2. MaxPrec \in Nat /\ Cap \in Nat \ {0} /\ v # 0
    BY PowFacts, CapFacts
  <2> QED BY <2>1, <2>2
<1>2. /\ p \in 0..2*MaxPrec /\ e.prec \in 0..2*MaxPrec /\ d.prec \in 0..2*MaxPrec /\ i \in 0..2*MaxPrec
      /\ p + e.prec <= 2*MaxPrec
  BY <1>1
<1>3. Pow10[i] = Pow10[p] * Pow10[e.prec] /\ Pow10[p] \in Nat /\ Pow10[e.prec] \in Nat /\ Pow10[d.prec] \in Nat \ {0}
  BY <1>2, PowFacts
<1> DEFINE t == Pow10[d.prec]
           b == Pow10[i]
<1>4. n = c * b /\ n \in Nat
  <2> DEFINE x == Pow10[p]
             y == Pow10[e.prec]
  <2>1. n = (c * y) * x /\ b = x * y /\ x \in Nat /\ y \in Nat
    BY <1>3 DEF DivNum
  <2> HIDE DEF n, c, b, x, y
  <2> QED BY <1>1, <2>1
<1>5. den = v * t /\ den \in Nat \ {0} /\ t \in Nat \ {0}
  BY <1>1, <1>3 DEF DivDen
<1>6. f = i - d.prec
  BY <1>1
<1>7. (n \div den < Cap) <=> DivFits(d, e, p)
  <2>1. DivFits(d, e, p) <=> n < den * Cap
    BY DEF DivFits
  <2> HIDE DEF n, den
  <2> QED BY <1>1, <1>4, <1>5, <2>1, DivBelow
<1> HIDE DEF n, den, c, v, t, b
<1>8. CASE f >= 0
  <2> DEFINE a == Pow10[f]
             m == c * a
  <2>1. f \in 0..2*MaxPrec /\ b = a * t /\ a \in Nat \ {0}
    <3>1. i >= d.prec
      BY <1>1, <1>2, <1>6, <1>8
    <3>2. i - d.prec \in 0..2*MaxPrec /\ Pow10[i] = Pow10[i - d.prec] * Pow10[d.prec]
      BY <1>2, <3>1, PowBalance
    <3>3. f \in 0..2*MaxPrec
      BY <1>6, <3>2
    <3> QED BY <1>6, <3>2, <3>3, PowFacts DEF b, t
  <2>2. r = IF m \div Cap < v THEN [ok |-> TRUE, q |-> m \div v] ELSE [ok |-> FALSE, q |-> 0]
    <3>1. ~(f < 0) /\ f >= 0
      BY <1>8, <2>1
    <3> QED BY <3>1 DEF DivCoefAt, c, v
  <2> HIDE DEF r, a, m
  <2>3. m \in Nat /\ n = m * t
    <3>1. m = c * a
      BY DEF m
    <3> QED BY <1>1, <1>4, <1>5, <2>1, <3>1
  <2>4. n \div den = m \div v
    BY <1>1, <1>5, <2>3, DivScale
  <2>5. (m \div Cap < v) <=> (m < Cap * v)
    BY <1>1, <2>3, DivBelow
  <2>6. (m \div v < Cap) <=> (m < v * Cap)
    BY <1>1, <2>3, DivBelow
  <2>7. v * Cap = Cap * v
    BY <1>1
  <2>8. (r.ok <=> m < Cap * v) /\ r.ok \in BOOLEAN /\ (r.ok => r.q = m \div v)
    BY <2>2, <2>5
  <2>9. (r.ok <=> DivFits(d, e, p)) /\ (r.ok => r.q = n \div den)
    BY <1>7, <2>4, <2>6, <2>7, <2>8
  <2>10. f <= 0 => r.ok
    <3> HAVE f <= 0
    <3>1. a = 1
      BY <1>8, <2>1, PowFacts DEF a
    <3>2. m = c
      BY <1>1, <3>1 DEF m
    <3>3. Cap * v >= Cap
      BY <1>1
    <3> QED BY <1>1, <2>8, <3>2, <3>3
  <2>11. f > 0 => f \in 1..2*MaxPrec /\ (r.ok <=> m < Cap * v)
    BY <2>1, <2>8
  <2> QED BY <1>4, <1>5, <2>8, <2>9, <2>10, <2>11 DEF n, den, r, m, a, c, v, b
<1>9. CASE ~(f >= 0)
  <2> DEFINE a == Pow10[-f]
             w == v * a
  <2>1. -f \in 0..2*MaxPrec /\ t = a * b /\ a \in Nat \ {0} /\ b \in Nat \ {0}
    <3>1. i < d.prec
      BY <1>1, <1>2, <1>6, <1>9
    <3>2. d.prec - i \in 1..2*MaxPrec /\ Pow10[d.prec] = Pow10[d.prec - i] * Pow10[i]
      BY <1>2, <3>1, PowBalance
    <3>3. d.prec - i = -f /\ -f \in 0..2*MaxPrec
      BY <1>1, <1>2, <1>6, <3>2
    <3>4. Pow10[i] \in Nat \ {0} /\ Pow10[-f] \in Nat \ {0}
      BY <1>2, <3>3, PowFacts
    <3> QED BY <3>2, <3>3, <3>4 DEF b, t
  <2>2. r = [ok |-> TRUE, q |-> IF w >= Cap THEN 0 ELSE c \div w]
    <3>1. ~(f >= 0) /\ f < 0
      BY <1>1, <1>9
    <3> QED BY <3>1 DEF DivCoefAt, c, v
  <2> HIDE DEF r, a, w
  <2>3. w \in Nat \ {0} /\ den = w * b
    <3>1. w = v * a
      BY DEF w
    <3>2. w \in Nat \ {0}
      BY <1>1, <2>1, <3>1
    <3>3. v * (a * b) = w * b
      BY <1>1, <2>1, <3>1
    <3> QED BY <1>5, <2>1, <3>2, <3>3
  <2>4. n \div den = c \div w
    BY <1>1, <1>4, <2>1, <2>3, DivScale
  <2>5. c \div w \in Nat /\ c \div w <= c /\ ((c \div w < 1) <=> c < w * 1)
    BY <1>1, <2>3, DivBelow
  <2>6. r.ok = TRUE /\ r.q = c \div w
    <3>1. w >= Cap => c \div w = 0
      BY <1>1, <2>3, <2>5
    <3> QED BY <2>2, <3>1
  <2>7. n \div den < Cap
    BY <1>1, <2>4, <2>5
  <2>8. ~(f > 0) /\ r.ok \in BOOLEAN /\ DivFits(d, e, p) /\ r.ok
    <3>1. f \in Int
      BY <1>1
    <3>2. ~(f > 0)
      BY <1>9, <3>1
    <3> QED BY <1>7, <2>6, <2>7, <3>2
  <2> QED BY <1>4, <1>5, <2>4, <2>6, <2>8 DEF n, den, r, c, b
<1> QED
  BY <1>8, <1>9

(* The bit lengths of the operands and of a power of ten decide whether    *)
(* the scaled dividend is below the divisor times 2^128, up to a factor of *)
(* four.                                                                   *)
LEMMA BitEstimate ==
  ASSUME NEW c \in Nat \ {0}, c < Cap, NEW v \in Nat \ {0}, v < Cap, NEW f \in 1..2*MaxPrec,
         NEW bound, bound = 2*WordBits - 1 + BitLen128(v) - BitLen128(c)
  PROVE  /\ BitLen10(f) <= bound => c * Pow10[f] < Cap * v
         /\ ~(BitLen10(f) <= bound) => c * Pow10[f] * 10 >= Cap * v
<1> DEFINE a == Pow10[f]
           i == BitLen10(f)
           j == BitLen128(c)
           k == BitLen128(v)
           w == 2*WordBits
           n == c * a
<1>1. a \in Nat \ {0} /\ a < Cap /\ w \in Nat /\ Cap \in Nat
  <2>1. f \in 0..2*MaxPrec
    BY PowFacts
  <2> QED BY <2>1, PowFacts, PowBounds, WordAssumption, CapFacts
<1>2. i \in 0..w /\ a < Two(i) /\ i >= 1 /\ a >= Two(i - 1)
  <2> HIDE DEF a
  <2>1. i = BitLen128(a)
    BY DEF BitLen10, a
  <2> QED BY <1>1, <2>1, BitLengths
<1>3. j \in 0..w /\ c < Two(j) /\ j >= 1 /\ c >= Two(j - 1)
  BY BitLengths
<1>4. k \in 0..w /\ v < Two(k) /\ k >= 1 /\ v >= Two(k - 1)
  BY BitLengths
<1>5. Cap = Two(w)
  <2>1. WordBits \in Nat /\ Base = Two(WordBits) /\ Cap = Base * Base
    BY WordAssumption DEF Two, Cap
  <2>2. Two(WordBits + WordBits) = Two(WordBits) * Two(WordBits)
    BY <2>1, TwoAdds
  <2>3. w = WordBits + WordBits
    BY <2>1
  <2> HIDE DEF w
  <2> QED BY <2>1, <2>2, <2>3
<1>6. n \in Nat /\ bound = w - 1 + k - j
  BY <1>1
<1> HIDE DEF a, i, j, k, w, n
<1>7. i \in Nat /\ j \in Nat /\ k \in Nat
  BY <1>1, <1>2, <1>3, <1>4
<1>8. ASSUME i <= bound
      PROVE  n < Cap * v
  <2> DEFINE x == Two(i)
             y == Two(j)
             z == Two(k - 1)
             top == Two(w + (k - 1))
  <2>1. x \in Nat /\ y \in Nat /\ z \in Nat /\ Two(i + j) = x * y
    <3>1. k - 1 \in Nat
      BY <1>4, <1>7
    <3> QED BY <1>7, <3>1, TwoDoubles, TwoAdds
  <2>2. top \in Nat /\ Two(i + j) <= top /\ top = Cap * z
    <3>1. i + j \in Nat /\ w + (k - 1) \in Nat /\ i + j <= w + (k - 1) /\ k - 1 \in Nat
      BY <1>1, <1>4, <1>6, <1>7, <1>8
    <3>2. top = Two(w) * z
      BY <1>1, <3>1, TwoAdds
    <3> HIDE DEF top
    <3>3. top \in Nat /\ Two(i + j) <= top
      BY <3>1, TwoGrows DEF top
    <3> QED BY <1>5, <3>2, <3>3
  <2>3. c < y /\ a < x /\ v >= z
    BY <1>2, <1>3, <1>4
  <2> HIDE DEF x, y, z, top
  <2>4. n < x * y
    <3>1. c * a <= y * a
      BY <1>1, <2>1, <2>3
    <3>2. y * a < y * x
      BY <1>1, <2>1, <2>3
    <3>3. c * a \in Int /\ y * a \in Int /\ y * x \in Int /\ y * x = x * y
      BY <1>1, <2>1
    <3> QED BY <3>1, <3>2, <3>3 DEF n
  <2>5. Cap * z <= Cap * v /\ Cap * v \in Int
    BY <1>1, <2>1, <2>3
  <2>6. x * y \in Int /\ Cap * z \in Int
    BY <1>1, <2>1
  <2> QED BY <1>6, <2>1, <2>2, <2>4, <2>5, <2>6
<1>9. ASSUME ~(i <= bound)
      PROVE  n * 10 >= Cap * v
  <2> DEFINE x == Two(i - 1)
             y == Two(j - 1)
             z == Two(k)
             low == Two((i - 1) + (j - 1))
             two == Two((i - 1) + (j - 1) + 1)
             four == Two((i - 1) + (j - 1) + 1 + 1)
             top == Two(w + k)
  <2>1. x \in Nat /\ y \in Nat /\ z \in Nat /\ low = x * y
    <3>1. i - 1 \in Nat /\ j - 1 \in Nat
      BY <1>2, <1>3, <1>7
    <3> QED BY <1>7, <3>1, TwoDoubles, TwoAdds
  <2>2. top = Cap * z /\ top <= four /\ four = two + two /\ two = low + low /\ top \in Nat /\ low \in Nat
    <3>1. (i - 1) + (j - 1) \in Nat /\ (i - 1) + (j - 1) + 1 \in Nat /\ (i - 1) + (j - 1) + 1 + 1 \in Nat
          /\ w + k \in Nat /\ w + k <= (i - 1) + (j - 1) + 1 + 1
      BY <1>1, <1>2, <1>3, <1>6, <1>7, <1>9
    <3>2. top = Two(w) * z
      BY <1>1, <1>7, TwoAdds
    <3>3. four = two + two /\ two = low + low /\ low \in Nat
      BY <3>1, TwoDoubles
    <3>4. top \in Nat /\ top <= four
      BY <3>1, TwoGrows
    <3> HIDE DEF top, four, two, low
    <3> QED BY <1>5, <3>2, <3>3, <3>4
  <2>3. c >= y /\ a >= x /\ v < z
    BY <1>2, <1>3, <1>4
  <2> HIDE DEF x, y, z, low, two, four, top
  <2>4. n >= x * y
    <3>1. c * a >= y * a
      BY <1>1, <2>1, <2>3
    <3>2. y * a >= y * x
      BY <1>1, <2>1, <2>3
    <3>3. c * a \in Int /\ y * a \in Int /\ y * x \in Int /\ y * x = x * y
      BY <1>1, <2>1
    <3> QED BY <3>1, <3>2, <3>3 DEF n
  <2>5. Cap * v <= Cap * z /\ Cap * v \in Int /\ Cap * z \in Int
    BY <1>1, <2>1, <2>3
  <2>6. n >= low
    BY <2>1, <2>4
  <2> HIDE DEF n
  <2>7. top <= 4 * low
    BY <2>2
  <2>8. n * 10 >= 4 * low
    BY <1>6, <2>2, <2>6
  <2>9. n * 10 \in Int /\ 4 * low \in Int
    BY <1>6, <2>2
  <2> QED BY <2>2, <2>5, <2>7, <2>8, <2>9
<1> QED
  BY <1>8, <1>9 DEF i, n, a

(* A precision below one that fits does, too.                              *)
LEMMA FitsBelow ==
  ASSUME NEW d \in Decimals, NEW e \in Decimals, e.coef # 0, NEW p \in 0..MaxPrec, NEW q \in 0..MaxPrec,
         q <= p, DivCoefAt(d, e, p).ok
  PROVE  DivCoefAt(d, e, q).ok
<1> DEFINE num == DivNum(d, e)
           den == DivDen(d, e)
           a == Pow10[p]
           b == Pow10[q]
<1>1. num * a \in Nat /\ num * b \in Nat /\ den \in Nat \ {0} /\ num * a < den * Cap
  BY DivCoefAtQuotient DEF DivFits
<1>2. num \in Nat
  <2>1. d.coef \in Nat /\ e.prec \in 0..2*MaxPrec
    <3>1. d.coef \in Nat /\ e.prec \in 0..MaxPrec
      BY DecimalFacts
    <3>2. MaxPrec \in Nat
      BY PowFacts
    <3> QED BY <3>1, <3>2
  <2>2. Pow10[e.prec] \in Nat
    BY <2>1, PowFacts
  <2> QED BY <2>1, <2>2 DEF DivNum
<1>3. b <= a /\ a \in Nat /\ b \in Nat
  BY PowSplit
<1> HIDE DEF num, den, a, b
<1>4. num * b <= num * a
  BY <1>2, <1>3
<1>5. num * b < den * Cap
  BY <1>1, <1>4, CapFacts
<1>6. DivFits(d, e, q)
  BY <1>5 DEF DivFits, num, den, b
<1> QED
  BY <1>6, DivCoefAtQuotient

(* The estimate that Div descends to fits unless nothing does, and no      *)
(* precision more than one above it fits.                                  *)
LEMMA EstimateIsTight ==
  ASSUME NEW d \in Decimals, NEW e \in Decimals, d.coef # 0, e.coef # 0
  PROVE  LET estimate == DivEstimate(d, e)
         IN  /\ estimate \in 0..(DefaultPrec - 1)
             /\ DivCoefAt(d, e, estimate).ok \/ estimate = 0
             /\ \A p \in (estimate + 2)..DefaultPrec : ~DivCoefAt(d, e, p).ok
<1> DEFINE bound == 2*WordBits - 1 + BitLen128(e.coef) - BitLen128(d.coef)
           F(p) == p + e.prec - d.prec
           SurelyFits(p) == IF F(p) <= 0 THEN TRUE ELSE BitLen10(F(p)) <= bound
           Stop(p) == p = 0 \/ SurelyFits(p)
           P == 0..(DefaultPrec - 1)
           Is(p) == Stop(p) /\ \A q \in (p + 1)..(DefaultPrec - 1) : ~Stop(q)
           est == DivEstimate(d, e)
           T == {p \in P : Stop(p)}
<1>1. /\ DefaultPrec \in Nat /\ DefaultPrec >= 1 /\ DefaultPrec <= MaxPrec /\ MaxPrec \in Nat
      /\ d.prec \in 0..MaxPrec /\ e.prec \in 0..MaxPrec
      /\ d.coef \in Nat \ {0} /\ e.coef \in Nat \ {0} /\ d.coef < Cap /\ e.coef < Cap
  <2>1. DefaultPrec \in Nat /\ DefaultPrec >= 1 /\ DefaultPrec <= MaxPrec /\ MaxPrec \in Nat
    BY DefaultPrecAssumption, PowFacts
  <2> QED BY <2>1, DecimalFacts
<1>2. est = CHOOSE p \in P : Is(p)
  BY DEF DivEstimate
<1> HIDE DEF bound, est, SurelyFits
<1>3. T \in SUBSET Nat /\ 0 \in T /\ \A p \in T : p <= DefaultPrec - 1
  BY <1>1
<1>4. \E p \in P : Is(p)
  <2> HIDE DEF T
  <2>1. PICK p \in T : \A y \in T : y <= p
    <3>1. DefaultPrec - 1 \in Nat /\ T # {}
      BY <1>1, <1>3
    <3> QED BY <1>3, <3>1, GreatestNatural
  <2>2. p \in P /\ Stop(p)
    BY DEF T
  <2>3. \A q \in (p + 1)..(DefaultPrec - 1) : ~Stop(q)
    <3> TAKE q \in (p + 1)..(DefaultPrec - 1)
    <3>1. q \in P /\ ~(q <= p)
      BY <1>1, <2>2
    <3>2. q \notin T
      BY <2>1, <3>1
    <3> QED BY <3>1, <3>2 DEF T
  <2> QED BY <2>2, <2>3
<1>5. est \in P /\ Is(est)
  <2> HIDE DEF Is, P
  <2> QED BY <1>2, <1>4
<1>6. \A p \in 0..MaxPrec : F(p) \in Int /\ (F(p) > 0 => F(p) \in 1..2*MaxPrec)
  BY <1>1
<1>7. ASSUME NEW p \in 0..MaxPrec, SurelyFits(p)
      PROVE  DivCoefAt(d, e, p).ok
  <2> DEFINE f == F(p)
  <2>1. f \in Int /\ (f > 0 => f \in 1..2*MaxPrec)
    BY <1>6
  <2>2. CASE f <= 0
    BY <1>1, <2>2, DivCoefAtQuotient
  <2>3. CASE f > 0
    <3>1. BitLen10(f) <= bound
      <4>1. ~(f <= 0)
        BY <2>1, <2>3
      <4> QED BY <1>7, <4>1 DEF SurelyFits
    <3>2. f \in 1..2*MaxPrec
      BY <2>1, <2>3
    <3>3. DivCoefAt(d, e, p).ok <=> d.coef * Pow10[f] < Cap * e.coef
      BY <1>1, <2>3, DivCoefAtQuotient
    <3> HIDE DEF f
    <3>4. d.coef * Pow10[f] < Cap * e.coef
      BY <1>1, <3>1, <3>2, BitEstimate DEF bound
    <3> QED BY <3>3, <3>4
  <2> QED BY <2>1, <2>2, <2>3
<1>8. DivCoefAt(d, e, est).ok \/ est = 0
  <2>1. est \in 0..MaxPrec /\ Stop(est)
    BY <1>1, <1>5
  <2> QED BY <1>7, <2>1
<1>9. ASSUME NEW p \in (est + 2)..DefaultPrec
      PROVE  ~DivCoefAt(d, e, p).ok
  <2> DEFINE q == est + 1
             f == F(q)
             n == d.coef * Pow10[f]
  <2>1. /\ est \in Nat /\ q \in (est + 1)..(DefaultPrec - 1) /\ q \in 0..MaxPrec /\ q + 1 \in 0..MaxPrec
        /\ q # 0 /\ q + 1 <= p /\ p \in 0..MaxPrec
    BY <1>1, <1>5
  <2>2. ~SurelyFits(q)
    BY <1>5, <2>1
  <2>3. f \in 1..2*MaxPrec /\ ~(BitLen10(f) <= bound)
    <3>1. ~(f <= 0) /\ ~(BitLen10(f) <= bound)
      BY <2>2 DEF SurelyFits
    <3> QED BY <1>6, <2>1, <3>1
  <2>4. F(q + 1) = f + 1 /\ f + 1 > 0
    BY <1>1, <2>1, <2>3
  <2>5. /\ f + 1 \in 1..2*MaxPrec
        /\ DivCoefAt(d, e, q + 1).ok <=> d.coef * Pow10[f + 1] < Cap * e.coef
    <3> DEFINE i == q + 1
               g == f + 1
    <3>1. g = i + e.prec - d.prec /\ i \in 0..MaxPrec /\ g > 0
      BY <2>1, <2>4
    <3> HIDE DEF q, f, i, g
    <3>2. g \in 1..2*MaxPrec /\ (DivCoefAt(d, e, i).ok <=> d.coef * Pow10[g] < Cap * e.coef)
      BY <1>1, <3>1, DivCoefAtQuotient
    <3> QED BY <3>2 DEF i, g
  <2> HIDE DEF q, f
  <2>6. n * 10 >= Cap * e.coef
    BY <1>1, <2>3, BitEstimate DEF bound
  <2>7. Pow10[f + 1] = Pow10[f] * 10 /\ Pow10[f] \in Nat
    <3>1. f \in 0..(2*MaxPrec - 1)
      BY <1>1, <2>3, <2>5
    <3> QED BY <3>1, PowStep
  <2>8. d.coef * Pow10[f + 1] = n * 10
    <3> DEFINE c == d.coef
               a == Pow10[f]
    <3>1. c \in Nat /\ a \in Nat /\ n = c * a /\ d.coef * Pow10[f + 1] = c * (a * 10)
      BY <1>1, <2>7
    <3> HIDE DEF c, a, n
    <3> QED BY <3>1
  <2>9. ~(d.coef * Pow10[f + 1] < Cap * e.coef)
    <3>1. n * 10 \in Int /\ Cap * e.coef \in Int
      BY <1>1, <2>7, CapFacts
    <3> HIDE DEF n
    <3> QED BY <2>6, <2>8, <3>1
  <2>10. ~DivCoefAt(d, e, q + 1).ok
    BY <2>5, <2>9
  <2> QED BY <1>1, <2>1, <2>10, FitsBelow
<1> QED
  BY <1>5, <1>8, <1>9 DEF est

(* Div answers the quotient truncated at the greatest precision up to      *)
(* DefaultPrec at which it fits, and overflows only where none does.       *)
GreatestQuotient(res, d, e) ==
  LET Quotient(p) == (d.coef * Pow10[p + e.prec]) \div (e.coef * Pow10[d.prec])
      fitting == {p \in 0..DefaultPrec : Quotient(p) < Cap}
  IN  IF fitting = {} THEN res.err = "Overflow"
      ELSE \E p \in fitting :
             /\ \A q \in fitting : q <= p
             /\ res.err = "nil"
             /\ res.val = NewDecimal(Quotient(p), d.neg # e.neg, p)
THEOREM DivIsGreatest ==
  ASSUME NEW d \in Decimals, NEW e \in Decimals
  PROVE  /\ IsReply(Div(d, e))
         /\ d.coef # 0 /\ e.coef # 0 => GreatestQuotient(Div(d, e), d, e)
<1> DEFINE neg == (d.neg # e.neg)
           At(p) == DivCoefAt(d, e, p)
           start == DivEstimate(d, e)
           Is(p) == /\ At(p).ok \/ p = 0
                    /\ \A q \in (p + 1)..start : ~At(q).ok
           backstop == CHOOSE p \in 0..start : Is(p)
           probe == backstop + 1
           Result(p) == Ok(NewDecimal(At(p).q, neg, p))
<1>1. Div(d, e) =
        IF e.coef = 0 THEN Fail("DivideByZero")
        ELSE IF d.coef = 0 THEN Ok(Zero)
        ELSE IF At(DefaultPrec).ok THEN Result(DefaultPrec)
        ELSE IF ~At(backstop).ok THEN Fail("Overflow")
        ELSE IF probe < DefaultPrec /\ At(probe).ok THEN Result(probe)
        ELSE Result(backstop)
  <2>1. CASE e.coef = 0
    BY <2>1 DEF Div
  <2>2. CASE e.coef # 0 /\ d.coef = 0
    BY <2>2 DEF Div
  <2>3. CASE e.coef # 0 /\ d.coef # 0
    BY <2>3 DEF Div
  <2> QED BY <2>1, <2>2, <2>3
<1>2. CASE e.coef = 0 \/ d.coef = 0
  <2>1. Div(d, e) = Fail("DivideByZero") \/ Div(d, e) = Ok(Zero)
    BY <1>1, <1>2
  <2>2. IsReply(Fail("DivideByZero")) /\ IsReply(Ok(Zero))
    BY Replies DEF Errors
  <2> QED BY <1>2, <2>1, <2>2
<1>3. CASE e.coef # 0 /\ d.coef # 0
  <2> DEFINE Fit == {p \in 0..DefaultPrec : At(p).ok}
  <2>1. DefaultPrec \in Nat /\ DefaultPrec >= 1 /\ DefaultPrec <= MaxPrec /\ MaxPrec \in Nat /\ neg \in BOOLEAN
    BY DefaultPrecAssumption, PowFacts, DecimalFacts
  <2>2. ASSUME NEW p \in 0..DefaultPrec
        PROVE  LET q == (d.coef * Pow10[p + e.prec]) \div (e.coef * Pow10[d.prec])
               IN  /\ q \in Nat /\ (q < Cap <=> At(p).ok) /\ (At(p).ok => At(p).q = q)
    <3> DEFINE n == DivNum(d, e) * Pow10[p]
               den == DivDen(d, e)
    <3>1. p \in 0..MaxPrec
      BY <2>1
    <3>2. /\ n \in Nat /\ den \in Nat \ {0} /\ n = d.coef * Pow10[p + e.prec]
          /\ (At(p).ok <=> n < den * Cap) /\ (At(p).ok => At(p).q = n \div den)
      BY <1>3, <3>1, DivCoefAtQuotient DEF DivFits
    <3>3. den = e.coef * Pow10[d.prec]
      BY DEF DivDen
    <3> HIDE DEF n, den, At
    <3>4. n \div den \in Nat /\ (n \div den < Cap <=> n < den * Cap)
      BY <3>2, CapFacts, DivBelow
    <3> QED BY <3>2, <3>3, <3>4
  <2>3. ASSUME NEW best \in 0..DefaultPrec, At(best).ok, \A q \in 0..DefaultPrec : At(q).ok => q <= best
        PROVE  IsReply(Result(best)) /\ GreatestQuotient(Result(best), d, e)
    <3> DEFINE Quotient(p) == (d.coef * Pow10[p + e.prec]) \div (e.coef * Pow10[d.prec])
               fitting == {p \in 0..DefaultPrec : Quotient(p) < Cap}
               res == Result(best)
    <3>1. At(best).q = Quotient(best) /\ Quotient(best) \in Nat /\ Quotient(best) < Cap
      BY <2>2, <2>3
    <3>2. best \in 0..MaxPrec
      BY <2>1
    <3>3. IsReply(res) /\ res.err = "nil" /\ res.val = NewDecimal(Quotient(best), neg, best)
      <4> HIDE DEF Quotient, At, neg
      <4>1. res = Ok(NewDecimal(Quotient(best), neg, best))
        BY <3>1
      <4>2. IsReply(Ok(NewDecimal(Quotient(best), neg, best)))
        BY <2>1, <3>1, <3>2, MakeDecimal
      <4> HIDE DEF res
      <4> QED BY <4>1, <4>2 DEF Ok
    <3>4. best \in fitting /\ \A q \in fitting : q <= best
      <4>1. \A q \in 0..DefaultPrec : Quotient(q) < Cap => At(q).ok
        BY <2>2
      <4> HIDE DEF Quotient, At
      <4> QED BY <2>3, <3>1, <4>1
    <3> HIDE DEF res
    <3>5. GreatestQuotient(res, d, e)
      <4>1. GreatestQuotient(res, d, e) <=>
              IF fitting = {} THEN res.err = "Overflow"
              ELSE \E p \in fitting : /\ \A q \in fitting : q <= p
                                      /\ res.err = "nil"
                                      /\ res.val = NewDecimal(Quotient(p), neg, p)
        BY DEF GreatestQuotient
      <4> HIDE DEF fitting, Quotient, neg
      <4> QED BY <3>3, <3>4, <4>1
    <3> QED BY <3>3, <3>5 DEF res
  <2>4. ASSUME NEW p \in 0..DefaultPrec, NEW q \in 0..DefaultPrec, q <= p, At(p).ok
        PROVE  At(q).ok
    <3>1. p \in 0..MaxPrec /\ q \in 0..MaxPrec
      BY <2>1
    <3> QED BY <1>3, <2>4, <3>1, FitsBelow
  <2>5. /\ start \in 0..(DefaultPrec - 1)
        /\ \A p \in (start + 2)..DefaultPrec : ~At(p).ok
    BY <1>3, EstimateIsTight
  <2>6. backstop \in 0..start /\ Is(backstop)
    <3> DEFINE T == {p \in 0..start : At(p).ok \/ p = 0}
    <3> HIDE DEF At, start
    <3>1. start \in Nat
      BY <2>1, <2>5
    <3>2. T \in SUBSET Nat /\ 0 \in T /\ \A p \in T : p <= start
      BY <3>1
    <3>3. PICK p \in T : \A y \in T : y <= p
      <4> HIDE DEF T
      <4>1. T # {}
        BY <3>2
      <4> QED BY <3>1, <3>2, <4>1, GreatestNatural
    <3>4. p \in 0..start /\ Is(p)
      <4>1. p \in 0..start /\ (At(p).ok \/ p = 0) /\ p \in Nat
        BY <3>2, <3>3
      <4>2. \A q \in (p + 1)..start : ~At(q).ok
        <5> TAKE q \in (p + 1)..start
        <5>1. q \in 0..start /\ ~(q <= p)
          BY <3>1, <4>1
        <5> QED BY <3>3, <5>1
      <4> QED BY <4>1, <4>2
    <3> HIDE DEF Is
    <3> QED BY <3>4
  <2> HIDE DEF backstop, start
  <2>7. CASE At(DefaultPrec).ok
    <3>1. DefaultPrec \in 0..DefaultPrec /\ \A q \in 0..DefaultPrec : q <= DefaultPrec
      BY <2>1
    <3>2. IsReply(Result(DefaultPrec)) /\ GreatestQuotient(Result(DefaultPrec), d, e)
      <4> HIDE DEF Result, At
      <4> QED BY <2>3, <2>7, <3>1
    <3>3. Div(d, e) = Result(DefaultPrec)
      <4> HIDE DEF Result, At
      <4> QED BY <1>1, <1>3, <2>7
    <3> HIDE DEF Result
    <3> QED BY <3>2, <3>3
  <2>8. CASE ~At(DefaultPrec).ok /\ ~At(backstop).ok
    <3>1. Div(d, e) = Fail("Overflow")
      <4> HIDE DEF Result, At
      <4> QED BY <1>1, <1>3, <2>8
    <3>2. \A p \in 0..DefaultPrec : ~At(p).ok
      <4> SUFFICES ASSUME NEW p \in 0..DefaultPrec, At(p).ok
                   PROVE  FALSE
        OBVIOUS
      <4>1. backstop = 0
        BY <2>6, <2>8
      <4>2. 0 \in 0..DefaultPrec /\ 0 <= p
        BY <2>1
      <4>3. At(0).ok
        <5> HIDE DEF At
        <5> QED BY <2>4, <4>2
      <4> QED BY <2>8, <4>1, <4>3
    <3>3. IsReply(Fail("Overflow")) /\ Fail("Overflow").err = "Overflow"
      BY Replies DEF Errors
    <3>4. GreatestQuotient(Fail("Overflow"), d, e)
      <4>1. \A p \in 0..DefaultPrec :
              ~((d.coef * Pow10[p + e.prec]) \div (e.coef * Pow10[d.prec]) < Cap)
        BY <2>2, <3>2
      <4> QED BY <3>3, <4>1 DEF GreatestQuotient
    <3> QED BY <3>1, <3>3, <3>4
  <2>9. CASE ~At(DefaultPrec).ok /\ At(backstop).ok
    <3> HIDE DEF At
    <3>1. /\ start \in Nat /\ start <= DefaultPrec - 1 /\ backstop \in Nat /\ backstop <= start
          /\ backstop \in 0..DefaultPrec
      BY <2>1, <2>5, <2>6
    <3>2. \A q \in 0..DefaultPrec : At(q).ok => q <= backstop + 1 /\ q # DefaultPrec
      <4> TAKE q \in 0..DefaultPrec
      <4> HAVE At(q).ok
      <4>1. q # DefaultPrec
        BY <2>9
      <4>2. ~(q \in (start + 2)..DefaultPrec)
        BY <2>5
      <4>3. ~(q \in (backstop + 1)..start)
        BY <2>6
      <4>4. q = start + 1 => backstop = start
        <5> HAVE q = start + 1
        <5>1. start \in 0..DefaultPrec /\ start <= q
          BY <2>1, <3>1
        <5>2. At(start).ok
          BY <2>4, <5>1
        <5>3. ~(start \in (backstop + 1)..start)
          BY <2>6, <5>2
        <5> QED BY <3>1, <5>3
      <4> QED BY <2>1, <3>1, <4>1, <4>2, <4>3, <4>4
    <3>3. CASE probe < DefaultPrec /\ At(probe).ok
      <4>1. Div(d, e) = Result(probe)
        <5> HIDE DEF Result, probe
        <5> QED BY <1>1, <1>3, <2>9, <3>3
      <4>2. probe \in 0..DefaultPrec /\ \A q \in 0..DefaultPrec : At(q).ok => q <= probe
        BY <2>1, <3>1, <3>2, <3>3
      <4> HIDE DEF probe, Result
      <4>3. IsReply(Result(probe)) /\ GreatestQuotient(Result(probe), d, e)
        BY <2>3, <3>3, <4>2
      <4> QED BY <4>1, <4>3
    <3>4. CASE ~(probe < DefaultPrec /\ At(probe).ok)
      <4>1. Div(d, e) = Result(backstop)
        <5> HIDE DEF Result, probe
        <5> QED BY <1>1, <1>3, <2>9, <3>4
      <4>2. \A q \in 0..DefaultPrec : At(q).ok => q <= backstop
        <5> TAKE q \in 0..DefaultPrec
        <5> HAVE At(q).ok
        <5>1. q <= backstop + 1 /\ q # DefaultPrec /\ q \in Nat
          BY <3>2
        <5>2. q # probe
          BY <2>1, <3>4, <5>1
        <5> QED BY <3>1, <5>1, <5>2
      <4> HIDE DEF Result
      <4>3. IsReply(Result(backstop)) /\ GreatestQuotient(Result(backstop), d, e)
        BY <2>3, <2>9, <3>1, <4>2
      <4> QED BY <4>1, <4>3
    <3> QED BY <3>3, <3>4
  <2> QED BY <1>3, <2>7, <2>8, <2>9
<1> QED
  BY <1>2, <1>3
=============================================================================
