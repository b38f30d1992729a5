---------------------------- MODULE ParserProofs ----------------------------
(***************************************************************************)
(* That the parser answers what the literal spells, for every word size    *)
(* and every literal.                                                      *)
(***************************************************************************)
EXTENDS Parser, ArithProofs, SequenceTheorems

Runs == Seq(0..9)

----------------------------------------------------------------------------
(* Runs of digits and the numbers they denote.                             *)

(* Going up from a to b.                                                   *)
LEMMA Stepwise ==
  ASSUME NEW a \in Nat, NEW b \in Nat, NEW T,
         a \in T, \A k \in a..(b - 1) : k \in T => k + 1 \in T
  PROVE  \A k \in a..b : k \in T
<1> DEFINE Bad == {k \in a..b : k \notin T}
<1>1. SUFFICES ASSUME Bad # {} PROVE FALSE
  OBVIOUS
<1>2. Bad \in SUBSET Nat
  OBVIOUS
<1>3. PICK m \in Bad : \A k \in Bad : m <= k
  <2> HIDE DEF Bad
  <2> QED BY <1>1, <1>2, LeastNatural
<1>4. m \in a..b /\ m # a /\ m \notin T
  BY <1>3
<1>5. m - 1 \in a..(b - 1) /\ m - 1 \in a..b /\ (m - 1) + 1 = m
  BY <1>4
<1>6. m - 1 \in T
  BY <1>3, <1>5
<1> QED BY <1>4, <1>5, <1>6

(* The values a recursive function over the positions of a run takes, each *)
(* from the one before.                                                    *)
Values(g, m, v) ==
  /\ v \in [0..m -> Nat] /\ v[0] = 0
  /\ \A i \in 1..m : v[i] = g[i][v[i - 1]]

Steps(g, m) == \A i \in 1..m : \A x \in Nat : g[i][x] \in Nat

(* There are such values, whatever the step.                               *)
LEMMA ValuesExist ==
  ASSUME NEW n \in Nat, NEW g, Steps(g, n)
  PROVE  \A m \in 0..n : \E v : Values(g, m, v)
<1> DEFINE Bad == {m \in 0..n : ~\E v : Values(g, m, v)}
<1>1. SUFFICES ASSUME Bad # {} PROVE FALSE
  OBVIOUS
<1>2. Bad \in SUBSET Nat
  OBVIOUS
<1>3. PICK m \in Bad : \A k \in Bad : m <= k
  <2> HIDE DEF Bad
  <2> QED BY <1>1, <1>2, LeastNatural
<1>4. m # 0
  <2> DEFINE v == [i \in 0..0 |-> 0]
  <2>1. Values(g, 0, v)
    BY DEF Values
  <2> QED BY <1>3, <2>1
<1>5. m \in 1..n /\ m - 1 \in 0..n /\ m - 1 \notin Bad
  BY <1>3, <1>4
<1>6. PICK v : Values(g, m - 1, v)
  BY <1>5
<1> DEFINE w == [i \in 0..m |-> IF i < m THEN v[i] ELSE g[m][v[m - 1]]]
<1>7. Values(g, m, w)
  <2>1. v \in [0..(m - 1) -> Nat] /\ v[0] = 0 /\ \A i \in 1..(m - 1) : v[i] = g[i][v[i - 1]]
    BY <1>6 DEF Values
  <2>2. v[m - 1] \in Nat /\ g[m][v[m - 1]] \in Nat
    BY <1>5, <2>1 DEF Steps
  <2>3. w \in [0..m -> Nat] /\ w[0] = 0
    BY <1>5, <2>1, <2>2
  <2>4. ASSUME NEW i \in 1..m PROVE w[i] = g[i][w[i - 1]]
    BY <1>5, <2>1, <2>2
  <2> QED BY <2>3, <2>4 DEF Values
<1> QED BY <1>3, <1>7

(* The number of a run is the last of the values read off it.              *)
Digitwise(s, m, v) ==
  /\ v \in [0..m -> Nat] /\ v[0] = 0
  /\ \A i \in 1..m : v[i] = 10 * v[i - 1] + s[i]

(* Every run has values read off it digit by digit.                        *)
LEMMA DigitwiseExists ==
  ASSUME NEW s \in Runs
  PROVE  \E v : Digitwise(s, Len(s), v)
<1> DEFINE n == Len(s)
           g == [i \in 1..n |-> [x \in Nat |-> 10 * x + s[i]]]
<1>1. n \in Nat /\ \A i \in 1..n : s[i] \in 0..9
  BY DEF Runs
<1> HIDE DEF n
<1>2. Steps(g, n)
  BY <1>1 DEF Steps
<1>3. \E v : Values(g, n, v)
  <2>1. n \in 0..n
    BY <1>1
  <2> HIDE DEF g
  <2> QED BY <1>1, <1>2, <2>1, ValuesExist
<1>4. PICK v : Values(g, n, v)
  BY <1>3
<1>5. v \in [0..n -> Nat] /\ v[0] = 0 /\ \A i \in 1..n : v[i] = g[i][v[i - 1]]
  BY <1>4 DEF Values
<1>6. ASSUME NEW i \in 1..n PROVE v[i] = 10 * v[i - 1] + s[i]
  <2>1. v[i - 1] \in Nat
    BY <1>1, <1>5
  <2> QED BY <1>5, <2>1
<1>7. Digitwise(s, n, v)
  BY <1>5, <1>6 DEF Digitwise
<1> QED BY <1>7 DEF n

(* They end in what the model calls its number.                            *)
LEMMA DigitsValIs ==
  ASSUME NEW s \in Runs, NEW v, Digitwise(s, Len(s), v)
  PROVE  DigitsVal(s) = v[Len(s)] /\ DigitsVal(s) \in Nat
<1> DEFINE n == Len(s)
           Body(f) == [i \in 0..n |-> IF i = 0 THEN 0 ELSE 10 * f[i - 1] + s[i]]
           h == CHOOSE f : f = Body(f)
<1>1. n \in Nat
  BY DEF Runs
<1>2. v \in [0..n -> Nat] /\ v[0] = 0 /\ \A i \in 1..n : v[i] = 10 * v[i - 1] + s[i]
  BY DEF Digitwise
<1>3. v = Body(v)
  <2> HIDE DEF n
  <2>1. \A i \in 0..n : v[i] = IF i = 0 THEN 0 ELSE 10 * v[i - 1] + s[i]
    BY <1>1, <1>2
  <2> QED BY <1>2, <2>1
<1>4. h = Body(h)
  <2> HIDE DEF Body
  <2> QED BY <1>3
<1>5. DigitsVal(s) = h[n]
  BY DEF DigitsVal
<1> HIDE DEF h, n
<1>6. \A i \in 0..n : h[i] = IF i = 0 THEN 0 ELSE 10 * h[i - 1] + s[i]
  <2>1. h = [i \in 0..n |-> IF i = 0 THEN 0 ELSE 10 * h[i - 1] + s[i]]
    BY <1>4
  <2> QED BY <2>1
<1> HIDE DEF Body
<1> DEFINE T == {i \in 0..n : h[i] = v[i]}
<1>7. 0 \in T
  BY <1>1, <1>2, <1>6
<1>8. ASSUME NEW k \in 0..(n - 1), k \in T
      PROVE  k + 1 \in T
  <2>1. k + 1 \in 0..n /\ k + 1 \in 1..n /\ (k + 1) - 1 = k /\ k + 1 # 0 /\ h[k] = v[k]
    BY <1>1, <1>8
  <2> QED BY <1>2, <1>6, <2>1
<1>9. n \in T
  <2>1. 0 \in Nat /\ n \in 0..n
    BY <1>1
  <2> HIDE DEF T
  <2> QED BY <1>1, <1>7, <1>8, <2>1, Stepwise
<1>10. h[n] = v[n] /\ v[n] \in Nat
  BY <1>1, <1>2, <1>9
<1> QED BY <1>5, <1>10 DEF n

(* The number of the first digits of a run.                                *)
Upto(s, k) == DigitsVal(SubSeq(s, 1, k))

(* A slice of a run is a run of the digits it takes.                       *)
LEMMA Cutting ==
  ASSUME NEW s \in Runs, NEW a \in 0..Len(s), NEW b \in a..Len(s)
  PROVE  LET t == SubSeq(s, a + 1, b)
         IN  /\ t \in Runs /\ Len(t) = b - a /\ Len(t) \in Nat /\ Len(s) \in Nat
             /\ \A i \in 1..(b - a) : t[i] = s[a + i] /\ t[i] \in 0..9
<1>1. Len(s) \in Nat /\ \A i \in 1..Len(s) : s[i] \in 0..9
  BY DEF Runs
<1>2. \A i \in (a + 1)..b : s[i] \in 0..9
  BY <1>1
<1>3. a + 1 \in Int /\ b \in Int
  BY <1>1
<1>4. /\ SubSeq(s, a + 1, b) \in Seq(0..9)
      /\ Len(SubSeq(s, a + 1, b)) = IF a + 1 <= b THEN b - (a + 1) + 1 ELSE 0
      /\ \A i \in 1..(b - (a + 1) + 1) : SubSeq(s, a + 1, b)[i] = s[a + 1 + i - 1]
  BY <1>2, <1>3, SubSeqProperties
<1>5. \A i \in 1..(b - a) : SubSeq(s, a + 1, b)[i] = s[a + i] /\ s[a + i] \in 0..9
  BY <1>1, <1>4
<1> QED
  BY <1>1, <1>4, <1>5 DEF Runs

(* Prefixes, digit by digit.                                               *)
LEMMA DigitByDigit ==
  ASSUME NEW s \in Runs
  PROVE  /\ Upto(s, 0) = 0 /\ Upto(s, Len(s)) = DigitsVal(s) /\ Len(s) \in Nat
         /\ \A k \in 0..Len(s) : Upto(s, k) \in Nat
         /\ \A k \in 0..(Len(s) - 1) : s[k + 1] \in 0..9 /\ Upto(s, k + 1) = 10 * Upto(s, k) + s[k + 1]
<1> DEFINE n == Len(s)
<1>1. n \in Nat /\ \A i \in 1..n : s[i] \in 0..9
  BY DEF Runs
<1>2. PICK v : Digitwise(s, n, v)
  BY DigitwiseExists
<1>3. ASSUME NEW k \in 0..n
      PROVE  Upto(s, k) = v[k] /\ v[k] \in Nat
  <2> DEFINE t == SubSeq(s, 1, k)
             w == [i \in 0..k |-> v[i]]
  <2>1. t \in Runs /\ Len(t) = k /\ \A i \in 1..k : t[i] = s[i]
    <3>1. 0 \in 0..n /\ k \in 0..n /\ 0 + 1 = 1 /\ k - 0 = k
      BY <1>1
    <3>2. /\ SubSeq(s, 0 + 1, k) \in Runs /\ Len(SubSeq(s, 0 + 1, k)) = k - 0
          /\ \A i \in 1..(k - 0) : SubSeq(s, 0 + 1, k)[i] = s[0 + i]
      BY <3>1, Cutting
    <3> QED BY <1>1, <3>1, <3>2
  <2> HIDE DEF t
  <2>2. Digitwise(t, k, w)
    <3>1. v \in [0..n -> Nat] /\ v[0] = 0 /\ \A i \in 1..n : v[i] = 10 * v[i - 1] + s[i]
      BY <1>2 DEF Digitwise
    <3>2. w \in [0..k -> Nat] /\ w[0] = 0
      BY <1>1, <3>1
    <3>3. ASSUME NEW i \in 1..k PROVE w[i] = 10 * w[i - 1] + t[i]
      <4>1. i \in 1..n /\ i \in 0..k /\ i - 1 \in 0..k /\ t[i] = s[i]
        BY <1>1, <2>1
      <4> QED BY <3>1, <4>1
    <3> QED BY <3>2, <3>3 DEF Digitwise
  <2>3. DigitsVal(t) = w[k] /\ DigitsVal(t) \in Nat
    <3>1. Digitwise(t, Len(t), w)
      BY <2>1, <2>2
    <3> HIDE DEF w
    <3> QED BY <2>1, <3>1, DigitsValIs
  <2> QED BY <1>1, <2>3 DEF Upto, t
<1>4. SubSeq(s, 1, n) = s
  BY SubSeqFull DEF Runs
<1>5. Upto(s, n) = DigitsVal(s)
  BY <1>4 DEF Upto
<1>6. Upto(s, 0) = 0
  BY <1>1, <1>2, <1>3 DEF Digitwise
<1>7. ASSUME NEW k \in 0..(n - 1)
      PROVE  s[k + 1] \in 0..9 /\ Upto(s, k + 1) = 10 * Upto(s, k) + s[k + 1]
  <2>1. k \in 0..n /\ k + 1 \in 1..n /\ k + 1 \in 0..n /\ (k + 1) - 1 = k
    BY <1>1
  <2>2. v[k + 1] = 10 * v[(k + 1) - 1] + s[k + 1]
    BY <1>2, <2>1 DEF Digitwise
  <2> QED BY <1>1, <1>3, <2>1, <2>2
<1> QED BY <1>1, <1>3, <1>5, <1>6, <1>7

(* Prefixes of the same digits are the same number.                        *)
LEMMA SamePrefix ==
  ASSUME NEW s \in Runs, NEW t \in Runs, NEW k \in 0..Len(s), k <= Len(t),
         \A i \in 1..k : s[i] = t[i]
  PROVE  Upto(s, k) = Upto(t, k)
<1>1. Len(s) \in Nat /\ Len(t) \in Nat
  BY DEF Runs
<1>2. 0 \in 0..Len(s) /\ 0 \in 0..Len(t) /\ k \in 0..Len(s) /\ k \in 0..Len(t) /\ k - 0 = k /\ 0 + 1 = 1
  BY <1>1
<1> DEFINE x == SubSeq(s, 1, k)
           y == SubSeq(t, 1, k)
<1>3. x \in Runs /\ Len(x) = k /\ \A i \in 1..k : x[i] = s[0 + i]
  <2>1. LET z == SubSeq(s, 0 + 1, k) IN z \in Runs /\ Len(z) = k - 0 /\ \A i \in 1..(k - 0) : z[i] = s[0 + i]
    BY <1>2, Cutting
  <2> QED BY <1>2, <2>1
<1>4. y \in Runs /\ Len(y) = k /\ \A i \in 1..k : y[i] = t[0 + i]
  <2>1. LET z == SubSeq(t, 0 + 1, k) IN z \in Runs /\ Len(z) = k - 0 /\ \A i \in 1..(k - 0) : z[i] = t[0 + i]
    BY <1>2, Cutting
  <2> QED BY <1>2, <2>1
<1> HIDE DEF x, y
<1>5. x = y
  <2>1. Len(x) = Len(y) /\ \A i \in 1..Len(x) : x[i] = y[i]
    BY <1>2, <1>3, <1>4
  <2> QED BY <1>3, <1>4, <2>1, SeqEqual DEF Runs
<1> QED BY <1>5 DEF x, y, Upto

(* Further digits never make the number smaller, and only zeros leave      *)
(* nothing of it.                                                          *)
LEMMA NeverFalls ==
  ASSUME NEW s \in Runs, NEW a \in 0..Len(s), NEW b \in a..Len(s)
  PROVE  /\ Upto(s, a) <= Upto(s, b) /\ Upto(s, a) \in Nat /\ Upto(s, b) \in Nat
         /\ Upto(s, a) = 0 /\ (\A i \in (a + 1)..b : s[i] = 0) => Upto(s, b) = 0
<1> DEFINE n == Len(s)
           u == [k \in 0..n |-> Upto(s, k)]
<1>1. n \in Nat /\ \A k \in 0..n : u[k] \in Nat
  BY DigitByDigit
<1>2. \A k \in 0..(n - 1) : s[k + 1] \in 0..9 /\ u[k + 1] = 10 * u[k] + s[k + 1]
  BY <1>1, DigitByDigit
<1>3. a \in 0..n /\ b \in a..n
  OBVIOUS
<1> HIDE DEF n, u
<1> DEFINE T == {k \in a..b : u[a] <= u[k] /\
                     (u[a] = 0 /\ (\A i \in (a + 1)..k : s[i] = 0) => u[k] = 0)}
<1>4. a \in T
  BY <1>1, <1>3
<1>5. ASSUME NEW k \in a..(b - 1), k \in T
      PROVE  k + 1 \in T
  <2>1. k \in 0..(n - 1) /\ k \in 0..n /\ k + 1 \in 0..n /\ k + 1 \in a..b
    BY <1>1, <1>3
  <2>2. u[k] \in Nat /\ u[k + 1] = 10 * u[k] + s[k + 1] /\ s[k + 1] \in Nat /\ u[a] \in Nat
    BY <1>1, <1>2, <1>3, <2>1
  <2>3. u[a] <= u[k] /\ (u[a] = 0 /\ (\A i \in (a + 1)..k : s[i] = 0) => u[k] = 0)
    BY <1>5
  <2>4. u[a] <= u[k + 1]
    BY <2>2, <2>3
  <2>5. ASSUME u[a] = 0, \A i \in (a + 1)..(k + 1) : s[i] = 0
        PROVE  u[k + 1] = 0
    <3>1. s[k + 1] = 0 /\ \A i \in (a + 1)..k : s[i] = 0
      BY <1>1, <1>3, <2>1, <2>5
    <3> QED BY <2>2, <2>3, <2>5, <3>1
  <2> QED BY <2>1, <2>4, <2>5
<1>6. b \in T
  <2>1. a \in Nat /\ b \in Nat /\ b \in a..b
    BY <1>1, <1>3
  <2> HIDE DEF T
  <2> QED BY <1>4, <1>5, <2>1, Stepwise
<1>7. a \in 0..n /\ b \in 0..n
  BY <1>1, <1>3
<1>8. u[a] \in Nat /\ u[b] \in Nat
  BY <1>1, <1>7
<1>9. u[a] = Upto(s, a) /\ u[b] = Upto(s, b)
  BY <1>7 DEF u
<1> QED BY <1>6, <1>8, <1>9

(* A run cut in two: the front moves up by the length of the back.         *)
LEMMA Slice ==
  ASSUME NEW s \in Runs, NEW a \in 0..Len(s), NEW b \in a..Len(s), b - a <= 2*MaxPrec
  PROVE  LET back == DigitsVal(SubSeq(s, a + 1, b))
         IN  /\ b - a \in 0..2*MaxPrec /\ Pow10[b - a] \in Nat \ {0}
             /\ back \in Nat /\ back < Pow10[b - a]
             /\ Upto(s, a) \in Nat /\ Upto(s, b) = Upto(s, a) * Pow10[b - a] + back
<1> DEFINE n == b - a
           t == SubSeq(s, a + 1, b)
           u == [k \in 0..n |-> Upto(s, a + k)]
           w == [k \in 0..n |-> Upto(t, k)]
           p == [k \in 0..n |-> Pow10[k]]
<1>1. MaxPrec \in Nat /\ Len(s) \in Nat /\ a \in Nat /\ b \in Nat /\ n \in 0..2*MaxPrec
  BY PowFacts, DigitByDigit
<1>2. t \in Runs /\ Len(t) = n /\ \A i \in 1..n : t[i] = s[a + i] /\ t[i] \in 0..9
  BY Cutting
<1> HIDE DEF t
<1>3. /\ \A k \in 0..n : u[k] \in Nat /\ w[k] \in Nat /\ p[k] \in Nat \ {0}
      /\ u[0] = Upto(s, a) /\ u[n] = Upto(s, b) /\ w[0] = 0 /\ p[0] = 1
      /\ w[n] = DigitsVal(t) /\ p[n] = Pow10[n]
  <2>1. \A k \in 0..n : a + k \in 0..Len(s) /\ k \in 0..2*MaxPrec /\ k \in 0..Len(t)
    BY <1>1, <1>2
  <2>2. \A k \in 0..n : u[k] \in Nat
    BY <2>1, DigitByDigit
  <2>3. (\A k \in 0..n : w[k] \in Nat) /\ w[0] = 0 /\ w[n] = DigitsVal(t)
    BY <1>1, <1>2, <2>1, DigitByDigit
  <2>4. (\A k \in 0..n : p[k] \in Nat \ {0}) /\ p[0] = 1 /\ p[n] = Pow10[n]
    <3>1. 0 \in 0..n /\ n \in 0..n
      BY <1>1
    <3>2. \A k \in 0..2*MaxPrec : Pow10[k] \in Nat \ {0}
      BY <1>1, TableAssumption
    <3>3. Pow10[0] = 1
      BY TableAssumption
    <3> HIDE DEF n
    <3> QED BY <2>1, <3>1, <3>2, <3>3
  <2>5. u[0] = Upto(s, a) /\ u[n] = Upto(s, b)
    <3>1. a + 0 = a /\ a + n = b /\ 0 \in 0..n /\ n \in 0..n
      BY <1>1
    <3> HIDE DEF n
    <3> QED BY <3>1
  <2> QED BY <2>2, <2>3, <2>4, <2>5
<1>4. ASSUME NEW k \in 0..(n - 1)
      PROVE  /\ u[k + 1] = 10 * u[k] + t[k + 1] /\ w[k + 1] = 10 * w[k] + t[k + 1]
             /\ p[k + 1] = 10 * p[k] /\ t[k + 1] \in 0..9 /\ k \in 0..n /\ k + 1 \in 0..n
  <2>1. /\ k \in 0..n /\ k + 1 \in 0..n /\ k + 1 \in 1..n /\ k \in 0..(2*MaxPrec - 1)
        /\ a + k \in 0..(Len(s) - 1) /\ a + (k + 1) = (a + k) + 1 /\ k \in 0..(Len(t) - 1)
    BY <1>1, <1>2
  <2>2. t[k + 1] = s[(a + k) + 1] /\ t[k + 1] \in 0..9
    BY <1>2, <2>1
  <2>3. Upto(s, (a + k) + 1) = 10 * Upto(s, a + k) + s[(a + k) + 1]
    BY <2>1, DigitByDigit
  <2>4. Upto(t, k + 1) = 10 * Upto(t, k) + t[k + 1]
    BY <1>2, <2>1, DigitByDigit
  <2>5. Pow10[k + 1] = 10 * Pow10[k]
    BY <2>1, PowStep
  <2>6. u[k + 1] = 10 * u[k] + t[k + 1]
    BY <2>1, <2>2, <2>3
  <2> QED BY <2>1, <2>2, <2>4, <2>5, <2>6
<1> DEFINE c == Upto(s, a)
<1>5. n \in Nat
  BY <1>1
<1> HIDE DEF n, u, w, p, c
<1>6. c \in Nat /\ u[0] = c
  BY <1>3, <1>5 DEF c
<1> DEFINE T == {k \in 0..n : w[k] < p[k] /\ u[k] = c * p[k] + w[k]}
<1>7. 0 \in T
  BY <1>3, <1>5, <1>6
<1>8. ASSUME NEW k \in 0..(n - 1), k \in T
      PROVE  k + 1 \in T
  <2>1. w[k] < p[k] /\ u[k] = c * p[k] + w[k] /\ w[k] \in Nat /\ p[k] \in Nat
    BY <1>3, <1>4, <1>8
  <2> DEFINE x == p[k]
             y == w[k]
             d == t[k + 1]
             z == c * x
  <2>2. x \in Nat /\ y \in Nat /\ d \in 0..9
    BY <1>4, <2>1
  <2>3. u[k + 1] = 10 * u[k] + d /\ w[k + 1] = 10 * y + d /\ p[k + 1] = 10 * x
    BY <1>4
  <2>4. y < x /\ u[k] = z + y
    BY <2>1
  <2> HIDE DEF x, y, d
  <2>5. z \in Nat /\ c * (10 * x) = 10 * z
    BY <1>6, <2>2
  <2> HIDE DEF z
  <2>6. w[k + 1] < p[k + 1]
    BY <2>2, <2>3, <2>4
  <2>7. u[k + 1] = c * p[k + 1] + w[k + 1]
    BY <2>2, <2>3, <2>4, <2>5
  <2>8. k + 1 \in 0..n
    BY <1>4
  <2> QED BY <2>6, <2>7, <2>8
<1>9. n \in T
  <2>1. 0 \in Nat /\ n \in 0..n
    BY <1>5
  <2> HIDE DEF T
  <2> QED BY <1>5, <1>7, <1>8, <2>1, Stepwise
<1>10. w[n] < p[n] /\ u[n] = c * p[n] + w[n] /\ w[n] \in Nat /\ p[n] \in Nat \ {0}
  BY <1>3, <1>5, <1>9
<1> QED
  BY <1>1, <1>3, <1>6, <1>10 DEF n, t, c

(* Zeros in front are skipped, however many.                               *)
LEMMA SkipZeros ==
  ASSUME NEW s \in Runs, NEW a \in 0..Len(s), NEW b \in a..Len(s),
         \A i \in 1..a : s[i] = 0
  PROVE  Upto(s, b) = DigitsVal(SubSeq(s, a + 1, b))
<1> DEFINE n == b - a
           t == SubSeq(s, a + 1, b)
<1>1. Len(s) \in Nat /\ a \in Nat /\ b \in Nat /\ n \in Nat
  BY DigitByDigit
<1>2. t \in Runs /\ Len(t) = n /\ \A i \in 1..n : t[i] = s[a + i]
  BY Cutting
<1> HIDE DEF t
<1>3. Upto(s, a) = 0
  <2>1. 0 \in 0..Len(s) /\ a \in 0..Len(s) /\ \A i \in (0 + 1)..a : s[i] = 0
    BY <1>1
  <2>2. Upto(s, 0) = 0
    BY DigitByDigit
  <2> QED BY <2>1, <2>2, NeverFalls
<1> DEFINE T == {k \in 0..n : Upto(s, a + k) = Upto(t, k)}
<1>4. 0 \in T
  <2>1. a + 0 = a /\ 0 \in 0..n /\ Upto(t, 0) = 0
    BY <1>1, <1>2, DigitByDigit
  <2> QED BY <1>3, <2>1
<1>5. ASSUME NEW k \in 0..(n - 1), k \in T
      PROVE  k + 1 \in T
  <2>1. a + k \in 0..(Len(s) - 1) /\ a + (k + 1) = (a + k) + 1 /\ k \in 0..(Len(t) - 1)
        /\ k + 1 \in 0..n /\ k + 1 \in 1..n
    BY <1>1, <1>2
  <2>2. t[k + 1] = s[(a + k) + 1]
    BY <1>2, <2>1
  <2>3. Upto(s, (a + k) + 1) = 10 * Upto(s, a + k) + s[(a + k) + 1]
    BY <2>1, DigitByDigit
  <2>4. Upto(t, k + 1) = 10 * Upto(t, k) + t[k + 1]
    BY <1>2, <2>1, DigitByDigit
  <2> QED BY <1>5, <2>1, <2>2, <2>3, <2>4
<1>6. n \in T
  <2>1. 0 \in Nat /\ n \in 0..n
    BY <1>1
  <2> HIDE DEF T
  <2> QED BY <1>1, <1>4, <1>5, <2>1, Stepwise
<1>7. Upto(s, b) = Upto(t, n)
  <2>1. a + n = b
    BY <1>1
  <2> HIDE DEF n
  <2> QED BY <1>6, <2>1
<1>8. Upto(t, n) = DigitsVal(t)
  BY <1>2, DigitByDigit
<1> QED BY <1>7, <1>8 DEF t

(* The zeros at the end of a run.                                          *)
LEMMA EndZerosFacts ==
  ASSUME NEW s \in Runs
  PROVE  /\ EndZeros(s) \in 0..Len(s) /\ Len(s) \in Nat
         /\ \A i \in (Len(s) - EndZeros(s) + 1)..Len(s) : s[i] = 0
         /\ EndZeros(s) < Len(s) => s[Len(s) - EndZeros(s)] # 0
<1> DEFINE n == Len(s)
           S == {0} \cup {i \in 1..n : s[i] # 0}
<1>1. n \in Nat
  BY DEF Runs
<1> HIDE DEF n
<1>2. S \in SUBSET Nat /\ S # {} /\ \A i \in S : i <= n
  BY <1>1
<1>3. \E g \in S : \A i \in S : i <= g
  <2> HIDE DEF S
  <2> QED BY <1>1, <1>2, GreatestNatural
<1> DEFINE g == CHOOSE x \in S : \A y \in S : x >= y
<1>4. g \in S /\ \A i \in S : g >= i
  <2>1. \E x \in S : \A y \in S : x >= y
    <3> HIDE DEF S
    <3> QED BY <1>2, <1>3
  <2> HIDE DEF S
  <2> QED BY <2>1
<1>5. EndZeros(s) = n - g
  BY DEF EndZeros, Max, n
<1> HIDE DEF g
<1>6. g \in 0..n /\ (g # 0 => s[g] # 0) /\ \A i \in (g + 1)..n : s[i] = 0
  BY <1>1, <1>4
<1>7. n - (n - g) = g /\ n - g \in 0..n /\ (n - g < n <=> g # 0)
  BY <1>1, <1>6
<1> QED BY <1>1, <1>5, <1>6, <1>7 DEF n

(* The zeros at the end, told by what stands before them.                  *)
LEMMA EndZerosAre ==
  ASSUME NEW s \in Runs, NEW z \in 0..Len(s), \A i \in ((Len(s) - z) + 1)..Len(s) : s[i] = 0,
         z # Len(s) => s[Len(s) - z] # 0
  PROVE  EndZeros(s) = z
<1> DEFINE n == Len(s)
           y == EndZeros(s)
<1>1. /\ y \in 0..n /\ n \in Nat
      /\ \A i \in (n - y + 1)..n : s[i] = 0
      /\ y < n => s[n - y] # 0
  BY EndZerosFacts
<1> HIDE DEF n, y
<1>2. /\ z \in 0..n /\ \A i \in ((n - z) + 1)..n : s[i] = 0
      /\ z # n => s[n - z] # 0
  BY DEF n
<1>3. ~(y < z)
  <2> SUFFICES ASSUME y < z PROVE FALSE
    OBVIOUS
  <2>1. y < n /\ n - y \in ((n - z) + 1)..n
    BY <1>1, <1>2
  <2> QED BY <1>1, <1>2, <2>1
<1>4. ~(z < y)
  <2> SUFFICES ASSUME z < y PROVE FALSE
    OBVIOUS
  <2>1. z # n /\ n - z \in (n - y + 1)..n
    BY <1>1, <1>2
  <2> QED BY <1>1, <1>2, <2>1
<1> QED BY <1>1, <1>2, <1>3, <1>4 DEF y

(* More than 2*MaxPrec + 1 digits, the first not zero, do not fit.         *)
LEMMA ManyDigits ==
  ASSUME NEW s \in Runs, Len(s) > 2*MaxPrec + 1, s[1] # 0
  PROVE  DigitsVal(s) >= Cap
<1> DEFINE m == 2*MaxPrec
           p == Pow10[m]
           x == Upto(s, 1)
           y == Upto(s, m + 1)
<1>1. m \in Nat /\ Len(s) \in Nat /\ m \in 0..2*MaxPrec
  BY PowFacts, DigitByDigit
<1>2. p \in Nat /\ Cap < 10 * p /\ Cap \in Nat
  BY <1>1, TableAssumption, CapFacts
<1>3. x = s[1] /\ x \in Nat /\ x >= 1
  <2>1. 0 \in 0..(Len(s) - 1) /\ 0 + 1 = 1
    BY <1>1
  <2>2. Upto(s, 0 + 1) = 10 * Upto(s, 0) + s[0 + 1] /\ s[0 + 1] \in 0..9 /\ Upto(s, 0) = 0
    BY <2>1, DigitByDigit
  <2> QED BY <2>1, <2>2
<1>4. y \in Nat /\ y >= p
  <2>1. 1 \in 0..Len(s) /\ m + 1 \in 1..Len(s) /\ (m + 1) - 1 = m
    BY <1>1
  <2>2. \E back \in Nat : y = x * Pow10[(m + 1) - 1] + back
    BY <1>1, <2>1, Slice
  <2>3. PICK back \in Nat : y = x * p + back
    BY <2>1, <2>2
  <2> HIDE DEF p, x, y
  <2>4. x * p \in Nat /\ x * p >= p
    BY <1>2, <1>3
  <2> QED BY <1>2, <2>3, <2>4
<1>5. Upto(s, m + 2) >= 10 * y /\ Upto(s, m + 2) \in Nat
  <2>1. m + 1 \in 0..(Len(s) - 1) /\ (m + 1) + 1 = m + 2 /\ m + 2 \in 0..Len(s)
    BY <1>1
  <2>2. Upto(s, (m + 1) + 1) = 10 * y + s[(m + 1) + 1] /\ s[(m + 1) + 1] \in 0..9
    BY <2>1, DigitByDigit
  <2> HIDE DEF y
  <2> QED BY <1>4, <2>1, <2>2
<1>6. Upto(s, m + 2) <= DigitsVal(s) /\ DigitsVal(s) \in Nat
  <2>1. m + 2 \in 0..Len(s) /\ Len(s) \in (m + 2)..Len(s)
    BY <1>1
  <2>2. Upto(s, m + 2) <= Upto(s, Len(s)) /\ Upto(s, Len(s)) \in Nat
    BY <2>1, NeverFalls
  <2> QED BY <2>2, DigitByDigit
<1> HIDE DEF m, p, y
<1> QED BY <1>2, <1>4, <1>5, <1>6

(* A run without the zeros at its end: its last digit is not zero, and the *)
(* zeros scale it up, past 128 bits when they are more than the table.     *)
Stem(s) == SubSeq(s, 1, Len(s) - EndZeros(s))
(* The stem is worth nothing, or does not end in zero.                     *)
LEMMA StemFacts ==
  ASSUME NEW s \in Runs
  PROVE  /\ EndZeros(s) \in Nat /\ Len(s) - EndZeros(s) \in 0..Len(s) /\ Len(s) \in Nat
         /\ DigitsVal(Stem(s)) \in Nat
         /\ ((Len(s) - EndZeros(s) = 0) => (DigitsVal(Stem(s)) = 0 /\ DigitsVal(s) = 0))
         /\ ((Len(s) - EndZeros(s) # 0) => (DigitsVal(Stem(s)) # 0 /\ DigitsVal(Stem(s)) % 10 # 0))
         /\ ((EndZeros(s) <= 2*MaxPrec) => (DigitsVal(s) = DigitsVal(Stem(s)) * Pow10[EndZeros(s)]))
         /\ ((EndZeros(s) > 2*MaxPrec /\ Len(s) - EndZeros(s) # 0) => (DigitsVal(s) >= Cap))
<1> DEFINE n == Len(s)
           z == EndZeros(s)
           k == n - z
           m == Upto(s, k)
<1>1. /\ z \in 0..n /\ n \in Nat /\ MaxPrec \in Nat
      /\ \A i \in (k + 1)..n : s[i] = 0
      /\ z < n => s[k] # 0
  BY EndZerosFacts, PowFacts
<1> HIDE DEF z, n
<1>2. k \in 0..n /\ m \in Nat /\ n \in k..n /\ n - k = z /\ z \in Nat
  BY <1>1, DigitByDigit DEF n
<1>3. m = 0 => DigitsVal(s) = 0
  <2>1. Upto(s, k) = 0 => Upto(s, n) = 0
    BY <1>1, <1>2, NeverFalls DEF n
  <2> QED BY <2>1, DigitByDigit DEF n
<1>4. k = 0 => m = 0
  BY DigitByDigit
<1>5. ASSUME k # 0
      PROVE  m # 0 /\ m % 10 # 0
  <2> DEFINE j == k - 1
             x == Upto(s, j)
             d == s[k]
  <2>1. j \in 0..(n - 1) /\ j + 1 = k /\ d # 0 /\ j \in 0..n
    BY <1>1, <1>2, <1>5
  <2>2. s[j + 1] \in 0..9 /\ Upto(s, j + 1) = 10 * Upto(s, j) + s[j + 1]
    BY <2>1, DigitByDigit DEF n
  <2>3. m = 10 * x + d /\ d \in 1..9 /\ x \in Nat
    <3>1. x \in Nat
      BY <2>1, DigitByDigit DEF n
    <3>2. m = Upto(s, j + 1) /\ d = s[j + 1]
      BY <2>1
    <3> HIDE DEF m, d, j, x
    <3>3. d \in 1..9
      BY <2>1, <2>2, <3>2
    <3> QED BY <2>2, <3>1, <3>2, <3>3 DEF x
  <2> HIDE DEF m, d, x
  <2> QED BY <2>3
<1>6. ASSUME z <= 2*MaxPrec
      PROVE  DigitsVal(s) = m * Pow10[z]
  <2> DEFINE t == SubSeq(s, k + 1, n)
  <2>1. t \in Runs /\ Len(t) = n - k /\ \A i \in 1..(n - k) : t[i] = s[k + i]
    BY <1>2, Cutting DEF n
  <2>2. Upto(s, n) = m * Pow10[n - k] + DigitsVal(t)
    BY <1>2, <1>6, Slice DEF n
  <2> HIDE DEF t
  <2>3. DigitsVal(t) = 0
    <3>1. \A i \in (0 + 1)..z : t[i] = 0
      <4> SUFFICES ASSUME NEW i \in 1..z PROVE t[i] = 0
        OBVIOUS
      <4>1. k + i \in (k + 1)..n /\ i \in 1..(n - k)
        BY <1>1, <1>2
      <4> QED BY <1>1, <2>1, <4>1
    <3>2. 0 \in 0..Len(t) /\ z \in 0..Len(t) /\ Len(t) = z
      BY <1>2, <2>1
    <3>3. Upto(t, 0) = 0 /\ Upto(t, z) = DigitsVal(t)
      BY <2>1, <3>2, DigitByDigit
    <3> QED BY <2>1, <3>1, <3>2, <3>3, NeverFalls
  <2>4. Upto(s, n) = DigitsVal(s)
    BY DigitByDigit DEF n
  <2>5. Pow10[z] \in Nat
    <3>1. z \in 0..2*MaxPrec
      BY <1>1, <1>2, <1>6
    <3> QED BY <3>1, PowFacts
  <2> HIDE DEF m
  <2> QED BY <1>2, <2>2, <2>3, <2>4, <2>5
<1>7. ASSUME z > 2*MaxPrec, k # 0
      PROVE  DigitsVal(s) >= Cap
  <2> DEFINE h == 2*MaxPrec
             e == k + h
             p == Pow10[h]
             y == Upto(s, e)
  <2>1. h \in Nat /\ e \in k..n /\ e \in 0..n /\ e \in 0..(n - 1) /\ e + 1 \in 0..n /\ n \in (e + 1)..n
        /\ e - k = h /\ h \in 0..2*MaxPrec
    BY <1>1, <1>2, <1>7
  <2>2. p \in Nat /\ Cap < 10 * p /\ Cap \in Nat
    BY <2>1, TableAssumption, CapFacts
  <2>3. \E back \in Nat : Upto(s, e) = m * Pow10[e - k] + back
    <3>1. k \in 0..Len(s) /\ e \in k..Len(s) /\ e - k <= 2*MaxPrec
      BY <1>2, <2>1 DEF n
    <3> QED BY <3>1, Slice
  <2>4. \E back \in Nat : y = m * p + back
    BY <2>1, <2>3
  <2>5. Upto(s, e + 1) >= 10 * y /\ y \in Nat /\ Upto(s, e + 1) \in Nat
    <3>1. Upto(s, e + 1) = 10 * Upto(s, e) + s[e + 1] /\ s[e + 1] \in 0..9 /\ Upto(s, e) \in Nat
      BY <2>1, DigitByDigit DEF n
    <3> HIDE DEF e
    <3> QED BY <3>1
  <2>6. Upto(s, e + 1) <= DigitsVal(s) /\ DigitsVal(s) \in Nat
    <3>1. e + 1 \in 0..Len(s) /\ Len(s) \in (e + 1)..Len(s)
      BY <2>1 DEF n
    <3>2. Upto(s, e + 1) <= Upto(s, Len(s)) /\ Upto(s, Len(s)) \in Nat
      BY <3>1, NeverFalls
    <3> QED BY <3>2, DigitByDigit
  <2>7. m >= 1 /\ m \in Nat
    BY <1>2, <1>5, <1>7
  <2> HIDE DEF h, e, p, y, m
  <2>8. m * p \in Nat /\ m * p >= p
    BY <2>2, <2>7
  <2>9. y >= p
    BY <2>2, <2>4, <2>5, <2>8
  <2> QED BY <2>2, <2>5, <2>6, <2>9
<1>8. /\ z \in Nat /\ k \in 0..n /\ m \in Nat /\ n \in Nat
      /\ k = 0 => m = 0 /\ DigitsVal(s) = 0
      /\ k # 0 => m # 0 /\ m % 10 # 0
      /\ z <= 2*MaxPrec => DigitsVal(s) = m * Pow10[z]
      /\ z > 2*MaxPrec /\ k # 0 => DigitsVal(s) >= Cap
  <2> HIDE DEF k, m
  <2> QED BY <1>1, <1>2, <1>3, <1>4, <1>5, <1>6, <1>7
<1>9. z = EndZeros(s) /\ n = Len(s) /\ k = n - z
  BY DEF n, z, k
<1>10. m = DigitsVal(Stem(s))
  BY DEF m, Upto, Stem, n, z, k
<1> HIDE DEF k, m
<1> QED
  BY <1>8, <1>9, <1>10

(* A run without the zeros in front.                                       *)
Unled(s) == SubSeq(s, Min({Len(s) + 1} \cup {i \in 1..Len(s) : s[i] # 0}), Len(s))
(* What stands before the first digit that is not zero.                    *)
LEMMA UnledIs ==
  ASSUME NEW s \in Runs
  PROVE  \E d \in 0..Len(s) : /\ Unled(s) = SubSeq(s, d + 1, Len(s)) /\ (\A i \in 1..d : s[i] = 0)
                              /\ d # Len(s) => s[d + 1] # 0
<1> DEFINE n == Len(s)
           S == {n + 1} \cup {i \in 1..n : s[i] # 0}
           f == CHOOSE x \in S : \A y \in S : x <= y
<1>1. n \in Nat
  BY DEF Runs
<1>2. Unled(s) = SubSeq(s, f, n)
  BY DEF Unled, Min
<1> HIDE DEF n
<1>3. S \in SUBSET Nat /\ S # {}
  BY <1>1
<1>4. \E x \in S : \A y \in S : x <= y
  <2> HIDE DEF S
  <2> QED BY <1>3, LeastNatural
<1>5. f \in S /\ \A y \in S : f <= y
  <2> HIDE DEF S
  <2> QED BY <1>4
<1> HIDE DEF f
<1>6. f \in 1..(n + 1) /\ (f <= n => s[f] # 0) /\ \A i \in 1..(f - 1) : s[i] = 0
  BY <1>1, <1>5
<1> DEFINE d == f - 1
<1>7. d \in 0..n /\ d + 1 = f /\ (d # n => f <= n)
  BY <1>1, <1>6
<1>8. \A i \in 1..d : s[i] = 0
  BY <1>6
<1> HIDE DEF d
<1> QED BY <1>2, <1>6, <1>7, <1>8 DEF n

(* Zeros in front are worth nothing.                                       *)
LEMMA UnledFacts ==
  ASSUME NEW s \in Runs
  PROVE  /\ Unled(s) \in Runs /\ Len(Unled(s)) \in Nat /\ DigitsVal(Unled(s)) = DigitsVal(s)
         /\ Unled(s) # <<>> => Unled(s)[1] # 0 /\ Unled(s)[Len(Unled(s))] = s[Len(s)]
         /\ Unled(s) = <<>> => \A i \in 1..Len(s) : s[i] = 0
         /\ Len(Unled(s)) <= Len(s)
<1> DEFINE n == Len(s)
<1>1. n \in Nat
  BY DEF Runs
<1>2. PICK a \in 0..n : /\ Unled(s) = SubSeq(s, a + 1, n) /\ (\A i \in 1..a : s[i] = 0)
                        /\ a # n => s[a + 1] # 0
  BY UnledIs
<1> HIDE DEF n
<1> DEFINE t == SubSeq(s, a + 1, n)
<1>3. n \in a..n
  BY <1>1
<1>4. t \in Runs /\ Len(t) = n - a /\ Len(t) \in Nat /\ \A i \in 1..(n - a) : t[i] = s[a + i]
  BY <1>3, Cutting DEF n
<1>5. DigitsVal(t) = DigitsVal(s)
  <2>1. Upto(s, n) = DigitsVal(t)
    BY <1>2, <1>3, SkipZeros DEF n
  <2> QED BY <2>1, DigitByDigit DEF n
<1> HIDE DEF t
<1>6. ASSUME t # <<>> PROVE t[1] # 0 /\ t[Len(t)] = s[n]
  <2>1. Len(t) # 0
    BY <1>4, <1>6, EmptySeq DEF Runs
  <2>2. 1 \in 1..(n - a) /\ n - a \in 1..(n - a) /\ a + (n - a) = n /\ a # n
    BY <1>1, <1>4, <2>1
  <2> QED BY <1>2, <1>4, <2>2
<1>7. ASSUME t = <<>> PROVE \A i \in 1..n : s[i] = 0
  <2>1. n - a = 0
    BY <1>4, <1>7
  <2>2. a = n
    BY <1>1, <2>1
  <2> QED BY <1>2, <2>2
<1>8. Len(t) <= n
  BY <1>1, <1>4
<1>9. t = Unled(s)
  BY <1>2 DEF t
<1> QED
  BY <1>4, <1>5, <1>6, <1>7, <1>8, <1>9 DEF n

----------------------------------------------------------------------------
(* The states of a call: what each path knows of the literal when it is    *)
(* taken, and what it has made of it so far.                               *)
Admitted(l) == Bytes(l) \in 1..MaxParseLen /\ ~(Bytes(l) = 1 /\ l.sign # "")
Digits(l) == l.int \o l.frac

(* The answers: what TruncCutsOff asks of a truncating call, what Text says *)
(* to a strict one.                                                        *)
CutResult(l) ==
  LET cut == CutOff(l)
      trim == Smaller(EndZeros(cut), MaxPrec)
      shown == SubSeq(cut, 1, Len(cut) - trim)
      fits == Len(shown) <= 2*MaxPrec + 1 /\ DigitsVal(shown) < Cap
  IN  IF GrammarErr(l) # "nil" THEN Fail(GrammarErr(l))
      ELSE IF Significant(l) = <<>> \/ EndZeros(cut) = Len(cut) THEN Ok(Zero)
      ELSE IF fits THEN Ok(NewDecimal(DigitsVal(shown), IsNeg(l), MaxPrec - trim))
      ELSE Fail("Overflow")
Right == IF trunc THEN CutResult(lit) ELSE ParseCore(Spelled(lit))

(* The first digits of s are in the coefficient, those up to j still wait. *)
Partway(s, j) ==
  \E k \in 0..j : coef = Upto(s, k) /\ coef < Cap /\ rest = SubSeq(s, k + 1, j)
KeptInt(l) == Smaller(Len(Kept(l)), Len(IntRun(l)))

(* Of the first i digits of s the coefficient holds k.  One more does not  *)
(* fit, and of those that were dropped the first that is not zero is       *)
(* remembered.                                                             *)
FirstDropped(s, k, i, nz) ==
  \/ nz = 0 /\ \A q \in (k + 1)..i : s[q] = 0
  \/ nz \in 1..(i - k) /\ s[k + nz] # 0 /\ \A q \in (k + 1)..(k + nz - 1) : s[q] = 0
Filled(s, k, i, c, n, nz) ==
  /\ c = Upto(s, k) /\ c < Cap /\ n = i - k
  /\ i # k => Upto(s, k + 1) >= Cap
  /\ FirstDropped(s, k, i, nz)
Accumulated(s, j, c, n, nz, r) ==
  \E k \in 0..j : \E i \in k..j : Filled(s, k, i, c, n, nz) /\ r = SubSeq(s, i + 1, j)

(* The digits that were dropped and would be kept are zeros, and no more   *)
(* of them than precision takes up.                                        *)
Stops(s, k, shift) ==
  k < Len(s) => shift <= MaxPrec /\ \A q \in (k + 1)..Len(s) : q <= k + shift => s[q] = 0

AtShort == Remaining(lit) < ShortCut
AtWindow == Remaining(lit) \in ShortCut..(MaxPrec + 1)
AtLong == Remaining(lit) > MaxPrec + 1
AtShortExp ==
  /\ AtShort /\ lit.tail = "exp" /\ ~NoInt(lit) /\ (lit.dot => lit.frac # <<>>)
  /\ coef = DigitsVal(Digits(lit)) /\ frac = Len(lit.frac)
AtLongInt == AtLong /\ ~LongDeclines(lit) /\ Partway(lit.int, Len(lit.int))
InExact == ~Ungrammatical(lit) /\ Kept(lit) # <<>> /\ exp = ExpOf(lit)
AtExactInt == InExact /\ Partway(Kept(lit), KeptInt(lit))
AtExactFrac == InExact /\ Partway(Kept(lit), Len(Kept(lit)))
AtAccumInt ==
  Accumulated(Mantissa(lit), Len(IntRun(lit)), coef, dropped, dropNZ, rest)
AtAccumFrac ==
  /\ ~NoInt(lit) /\ lit.dot /\ lit.frac # <<>>
  /\ Accumulated(Mantissa(lit), Len(Mantissa(lit)), coef, dropped, dropNZ, rest)
AtDrop ==
  /\ ~Ungrammatical(lit) /\ exp = ExpOf(lit) /\ frac = Len(lit.frac)
  /\ \E k \in 0..Len(Mantissa(lit)) :
       Filled(Mantissa(lit), k, Len(Mantissa(lit)), coef, dropped, dropNZ)
AtScale ==
  /\ ~Ungrammatical(lit) /\ exp = ExpOf(lit) /\ frac = Len(lit.frac) - dropped
  /\ \E k \in 0..Len(Mantissa(lit)) :
       /\ Filled(Mantissa(lit), k, Len(Mantissa(lit)), coef, dropped, dropNZ)
       /\ Stops(Mantissa(lit), k, MaxPrec - EffPrec)

(* Which paths a mode takes; nothing is dropped before the last ones.      *)
StrictOnly == {"shortExp", "exact", "exactInt", "exactFrac"}
TruncOnly == {"accumInt", "accumFrac", "drop", "scale"}
Fresh == trunc \in BOOLEAN /\ dropped = 0 /\ dropNZ = 0
ModesHold ==
  /\ pc \in StrictOnly => ~trunc
  /\ pc \in TruncOnly => trunc
  /\ pc \notin TruncOnly \cup {"done"} => Fresh

PathsKnow ==
  /\ pc \in {"core", "done", "short", "window", "long", "longInt"} \cup StrictOnly \cup TruncOnly
  /\ pc \notin {"core", "done"} => Admitted(lit)
  /\ pc = "short" => AtShort
  /\ pc = "window" => AtWindow
  /\ pc = "long" => AtLong
  /\ pc = "shortExp" => AtShortExp
  /\ pc = "longInt" => AtLongInt
  /\ pc = "exactInt" => AtExactInt
  /\ pc = "exactFrac" => AtExactFrac
  /\ pc = "accumInt" => AtAccumInt
  /\ pc = "accumFrac" => AtAccumFrac
  /\ pc = "drop" => AtDrop
  /\ pc = "scale" => AtScale
  /\ pc = "done" => out = Right
ParserInv == IsLiteral(lit) /\ trunc \in BOOLEAN /\ ModesHold /\ PathsKnow

----------------------------------------------------------------------------
(* Folding a run chunk by chunk.                                           *)

(* A slice of a slice.                                                     *)
LEMMA Reslice ==
  ASSUME NEW s \in Runs, NEW a \in 0..Len(s), NEW b \in a..Len(s),
         NEW c \in 0..(b - a), NEW d \in c..(b - a)
  PROVE  SubSeq(SubSeq(s, a + 1, b), c + 1, d) = SubSeq(s, (a + c) + 1, a + d)
<1> DEFINE t == SubSeq(s, a + 1, b)
           u == SubSeq(t, c + 1, d)
           v == SubSeq(s, (a + c) + 1, a + d)
<1>1. t \in Runs /\ Len(t) = b - a /\ (\A i \in 1..(b - a) : t[i] = s[a + i]) /\ Len(s) \in Nat
  BY Cutting
<1>2. c \in 0..Len(t) /\ d \in c..Len(t) /\ a + c \in 0..Len(s) /\ a + d \in (a + c)..Len(s)
      /\ (a + d) - (a + c) = d - c
  BY <1>1
<1> HIDE DEF t
<1>3. u \in Runs /\ Len(u) = d - c /\ \A i \in 1..(d - c) : u[i] = t[c + i]
  BY <1>1, <1>2, Cutting
<1>4. v \in Runs /\ Len(v) = d - c /\ \A i \in 1..(d - c) : v[i] = s[(a + c) + i]
  <2> DEFINE e == a + c
             f == a + d
  <2>1. e \in 0..Len(s) /\ f \in e..Len(s) /\ f - e = d - c
    BY <1>2
  <2> HIDE DEF e, f
  <2>2. SubSeq(s, e + 1, f) \in Runs /\ Len(SubSeq(s, e + 1, f)) = f - e
        /\ \A i \in 1..(f - e) : SubSeq(s, e + 1, f)[i] = s[e + i]
    BY <2>1, Cutting
  <2> QED BY <2>1, <2>2 DEF e, f
<1>5. \A i \in 1..(d - c) : u[i] = v[i]
  <2> SUFFICES ASSUME NEW i \in 1..(d - c) PROVE u[i] = v[i]
    OBVIOUS
  <2>1. c + i \in 1..(b - a) /\ a + (c + i) = (a + c) + i
    BY <1>1, <1>2
  <2> HIDE DEF u, v
  <2> QED BY <1>1, <1>3, <1>4, <2>1
<1> HIDE DEF u, v
<1>6. u = v
  BY <1>3, <1>4, <1>5, SeqEqual DEF Runs
<1> QED BY <1>6 DEF t, u, v

(* Multiplying by a chunk's power of ten and adding the chunk: exact, or   *)
(* flagged as past 128 bits.                                               *)
LEMMA FoldMeans ==
  ASSUME NEW c \in Nat, c < Cap, NEW digits \in Runs, Len(digits) <= MaxPrec
  PROVE  LET whole == c * Pow10[Len(digits)] + DigitsVal(digits)
         IN  /\ whole \in Nat /\ Fold(c, digits).over \in BOOLEAN
             /\ Fold(c, digits).over <=> whole >= Cap
             /\ whole < Cap => Fold(c, digits).val = whole
<1> DEFINE p == Pow10[Len(digits)]
           v == DigitsVal(digits)
           x == c * p
<1>1. p \in Nat \ {0} /\ v \in Nat /\ v < p /\ p < Cap /\ Cap \in Nat \ {0}
  <2>1. Len(digits) \in Nat /\ MaxPrec \in Nat /\ 0 \in 0..Len(digits) /\ Len(digits) \in 0..Len(digits)
    BY PowFacts, DigitByDigit
  <2>2. Len(digits) \in 0..2*MaxPrec /\ Len(digits) - 0 <= 2*MaxPrec
    BY <2>1
  <2>3. SubSeq(digits, 0 + 1, Len(digits)) = digits
    BY SubSeqFull DEF Runs
  <2>4. Len(digits) - 0 = Len(digits)
    BY <2>1
  <2>5. LET back == DigitsVal(SubSeq(digits, 0 + 1, Len(digits)))
        IN  /\ Pow10[Len(digits) - 0] \in Nat \ {0}
            /\ back \in Nat /\ back < Pow10[Len(digits) - 0]
    BY <2>1, <2>2, Slice
  <2>6. p \in Nat \ {0} /\ v \in Nat /\ v < p
    BY <2>3, <2>4, <2>5
  <2> QED BY <2>2, <2>6, PowBounds, CapFacts
<1>2. x \in Nat
  BY <1>1
<1> HIDE DEF p, v, x
<1>3. /\ x \div Cap \in Nat /\ x % Cap \in Nat /\ x % Cap < Cap
      /\ x < Cap => x \div Cap = 0 /\ x % Cap = x
      /\ x >= Cap => x \div Cap # 0
  <2>1. x \in Int
    BY <1>2
  <2>2. x \div Cap \in Nat /\ x % Cap \in Nat /\ x % Cap < Cap /\ x = Cap * (x \div Cap) + (x % Cap)
        /\ (x \div Cap < 1 <=> x < Cap * 1)
    BY <1>1, <1>2, <2>1, DivBelow, DivMod
  <2> DEFINE q == x \div Cap
             r == x % Cap
  <2> HIDE DEF q, r
  <2>3. q \in Nat /\ r \in Nat /\ x = Cap * q + r /\ (q < 1 <=> x < Cap)
    BY <1>1, <2>2 DEF q, r
  <2>4. x < Cap => q = 0 /\ r = x
    <3>1. q = 0 => Cap * q = 0
      BY <1>1
    <3> QED BY <1>1, <1>2, <2>3, <3>1
  <2>5. x >= Cap => q # 0
    BY <1>1, <1>2, <2>3
  <2> QED BY <2>2, <2>4, <2>5 DEF q, r
<1> DEFINE prod == [val |-> x % Cap, overflow |-> x \div Cap]
           sum == Add128(prod.val, v)
<1>4. Fold(c, digits) = [val |-> sum.val, over |-> prod.overflow # 0 \/ sum.carry # 0]
  BY DEF Fold, Mul128by64, x, p, v
<1>5. prod.val = x % Cap /\ prod.overflow = x \div Cap
  OBVIOUS
<1> HIDE DEF prod
<1>6. /\ x + v < Cap => sum.val = x + v /\ sum.carry = 0
      /\ x + v >= Cap /\ x < Cap => sum.carry = 1
  <2> DEFINE y == x % Cap
  <2> HIDE DEF y
  <2>1. prod.val = y /\ (x < Cap => y = x) /\ y \in Nat
    BY <1>3, <1>5 DEF y
  <2>2. /\ y + v < Cap => Add128(y, v).val = y + v /\ Add128(y, v).carry = 0
        /\ y + v >= Cap => Add128(y, v).carry = 1
    <3>1. y + v < Cap => Add128(y, v) = [val |-> y + v, carry |-> 0]
      BY DEF Add128
    <3>2. y + v >= Cap => Add128(y, v) = [val |-> y + v - Cap, carry |-> 1]
      BY <1>1, <2>1 DEF Add128
    <3> QED BY <3>1, <3>2
  <2>3. x + v < Cap => x < Cap
    BY <1>1, <1>2
  <2> HIDE DEF sum
  <2>4. sum = Add128(y, v)
    BY <2>1 DEF sum
  <2> QED BY <2>1, <2>2, <2>3, <2>4
<1> HIDE DEF sum
<1>7. /\ Fold(c, digits).val = sum.val
      /\ Fold(c, digits).over = (prod.overflow # 0 \/ sum.carry # 0)
  BY <1>4
<1> DEFINE Summed == /\ Fold(c, digits).over <=> x + v >= Cap
                     /\ x + v < Cap => Fold(c, digits).val = x + v
<1>8. Summed
  <2>1. CASE x + v < Cap
    <3>1. x < Cap
      BY <1>1, <1>2, <2>1
    <3>2. prod.overflow = 0 /\ sum.carry = 0 /\ sum.val = x + v
      BY <1>3, <1>5, <1>6, <2>1, <3>1
    <3>3. ~(x + v >= Cap)
      BY <1>1, <1>2, <2>1
    <3> QED BY <1>7, <3>2, <3>3
  <2>2. CASE x + v >= Cap /\ x < Cap
    <3>1. sum.carry # 0 /\ ~(x + v < Cap)
      BY <1>1, <1>2, <1>6, <2>2
    <3>2. Fold(c, digits).over = TRUE
      BY <1>7, <3>1
    <3> QED BY <2>2, <3>1, <3>2
  <2>3. CASE x >= Cap
    <3>1. prod.overflow # 0 /\ x + v >= Cap /\ ~(x + v < Cap)
      BY <1>1, <1>2, <1>3, <1>5, <2>3
    <3> QED BY <1>7, <3>1
  <2>4. x + v < Cap \/ (x + v >= Cap /\ x < Cap) \/ x >= Cap
    BY <1>1, <1>2
  <2> HIDE DEF Summed
  <2> QED BY <2>1, <2>2, <2>3, <2>4
<1>9. Fold(c, digits).over \in BOOLEAN
  BY <1>7
<1> QED BY <1>1, <1>2, <1>8, <1>9 DEF x, p, v

(* One chunk further into a run: either the coefficient holds one chunk    *)
(* more of its digits, or the run denotes a number past 128 bits.          *)
LEMMA FoldChunk ==
  ASSUME NEW s \in Runs, NEW j \in 0..Len(s), NEW k \in 0..j, Upto(s, k) < Cap,
         NEW r, r = SubSeq(s, k + 1, j)
  PROVE  LET grown == Fold(Upto(s, k), Chunk(r))
         IN  /\ grown.over \in BOOLEAN
             /\ grown.over => Upto(s, j) >= Cap
             /\ ~grown.over => \E n \in k..j : /\ grown.val = Upto(s, n) /\ Upto(s, n) < Cap
                                               /\ Beyond(r) = SubSeq(s, n + 1, j)
<1> DEFINE n == Smaller(j - k, MaxPrec)
           chunk == SubSeq(s, k + 1, k + n)
<1>1. MaxPrec \in Nat /\ Len(s) \in Nat /\ k \in 0..Len(s) /\ j \in k..Len(s) /\ Upto(s, k) \in Nat
  <2>1. MaxPrec \in Nat /\ Len(s) \in Nat
    BY PowFacts, DigitByDigit
  <2>2. k \in 0..Len(s) /\ j \in k..Len(s)
    BY <2>1
  <2> QED BY <2>1, <2>2, DigitByDigit
<1>2. n \in 0..(j - k) /\ n <= MaxPrec /\ n \in Nat
  BY <1>1 DEF Smaller
<1>3. r \in Runs /\ Len(r) = j - k
  BY <1>1, Cutting
<1> HIDE DEF n
<1>4. k + n \in k..Len(s) /\ (k + n) - k = n /\ n <= 2*MaxPrec /\ k + n \in 0..Len(s) /\ j \in (k + n)..Len(s)
      /\ 0 \in 0..(j - k) /\ n \in 0..(j - k) /\ n \in n..(j - k) /\ j - k \in n..(j - k) /\ k + (j - k) = j
      /\ k + n \in k..j /\ k + 0 = k
  BY <1>1, <1>2
<1>5. Chunk(r) = chunk /\ chunk \in Runs /\ Len(chunk) = n
  <2>1. Chunk(r) = SubSeq(r, 0 + 1, n)
    <3>1. Smaller(Len(r), MaxPrec) = n
      BY <1>3 DEF n
    <3>2. Chunk(r) = SubSeq(r, 1, n)
      BY <3>1, Zenon DEF Chunk
    <3>3. 0 + 1 = 1
      OBVIOUS
    <3> QED BY <3>2, <3>3
  <2>2. SubSeq(r, 0 + 1, n) = SubSeq(s, (k + 0) + 1, k + n)
    BY <1>1, <1>4, Reslice
  <2>3. chunk \in Runs /\ Len(chunk) = (k + n) - k
    BY <1>1, <1>4, Cutting
  <2> QED BY <1>4, <2>1, <2>2, <2>3
<1>6. Upto(s, k + n) = Upto(s, k) * Pow10[n] + DigitsVal(chunk)
  <2>1. Upto(s, k + n) = Upto(s, k) * Pow10[(k + n) - k] + DigitsVal(chunk)
    BY <1>1, <1>4, Slice
  <2> QED BY <1>4, <2>1
<1>7. Beyond(r) = SubSeq(s, (k + n) + 1, j)
  <2>1. Beyond(r) = SubSeq(r, n + 1, j - k)
    BY <1>3, <1>5 DEF Beyond
  <2>2. SubSeq(r, n + 1, j - k) = SubSeq(s, (k + n) + 1, k + (j - k))
    BY <1>1, <1>4, Reslice
  <2> QED BY <1>4, <2>1, <2>2
<1> HIDE DEF chunk
<1> DEFINE whole == Upto(s, k) * Pow10[n] + DigitsVal(chunk)
           grown == Fold(Upto(s, k), Chunk(r))
<1>8. /\ whole \in Nat /\ grown.over \in BOOLEAN
      /\ grown.over <=> whole >= Cap
      /\ whole < Cap => grown.val = whole
  BY <1>1, <1>2, <1>5, FoldMeans
<1>9. Upto(s, k + n) <= Upto(s, j) /\ Upto(s, j) \in Nat
  BY <1>4, NeverFalls
<1> HIDE DEF grown
<1>10. whole = Upto(s, k + n)
  BY <1>6
<1> HIDE DEF whole
<1>11. grown.over => Upto(s, j) >= Cap
  BY <1>8, <1>9, <1>10, CapFacts
<1>12. ~grown.over => grown.val = Upto(s, k + n) /\ Upto(s, k + n) < Cap
  BY <1>8, <1>10, CapFacts
<1> QED BY <1>4, <1>7, <1>8, <1>11, <1>12 DEF grown

----------------------------------------------------------------------------
(* The runs of a literal, and what it spells.                              *)

(* The bytes of a literal are its parts; what ends plainly has no tail.    *)
LEMMA LiteralBytes ==
  ASSUME NEW l, IsLiteral(l)
  PROVE  /\ l.int \in Runs /\ l.frac \in Runs /\ l.exp \in Runs /\ l.dot \in BOOLEAN
         /\ l.zeros \in Nat /\ Len(l.int) \in Nat /\ Len(l.frac) \in Nat /\ Len(l.exp) \in Nat
         /\ TailLen(l) \in Nat /\ Remaining(l) \in Nat /\ Bytes(l) \in Nat
         /\ (EndsPlain(l) => TailLen(l) = 0 /\ l.exp = <<>> /\ l.expSign = "" /\ ~BadExponent(l))
         /\ (l.tail = "exp" => TailLen(l) >= 1)
         /\ (l.dot => Remaining(l) = Len(l.int) + 1 + Len(l.frac) + TailLen(l))
         /\ (~l.dot => l.frac = <<>> /\ Len(l.frac) = 0 /\ Remaining(l) = Len(l.int) + TailLen(l))
         /\ \E sign \in 0..1 : /\ Bytes(l) = sign + l.zeros + Remaining(l)
                               /\ (sign = 0 <=> l.sign = "")
         /\ l.zeros + Len(l.int) + Len(l.frac) <= Bytes(l)
         /\ (NoInt(l) <=> l.zeros + Len(l.int) = 0)
         /\ IsNeg(l) \in BOOLEAN
<1>1. /\ l.int \in Runs /\ l.frac \in Runs /\ l.exp \in Runs /\ l.dot \in BOOLEAN
      /\ l.zeros \in Nat /\ l.junk \in Nat
  BY DEF IsLiteral, Runs
<1>2. Len(l.int) \in Nat /\ Len(l.frac) \in Nat /\ Len(l.exp) \in Nat
  BY <1>1, LenProperties DEF Runs
<1>3. \A c \in BOOLEAN : One(c) \in 0..1 /\ (One(c) = 0 <=> ~c)
  BY DEF One
<1>4. TailLen(l) \in Nat /\ (l.tail = "exp" => TailLen(l) >= 1)
      /\ (EndsPlain(l) => TailLen(l) = 0 /\ l.exp = <<>> /\ l.expSign = "" /\ ~BadExponent(l))
  <2> DEFINE o == One(l.expSign # "")
             e == Len(l.exp)
             j == l.junk
  <2>1. o \in 0..1
    BY <1>3
  <2>2. TailLen(l) = j + IF l.tail = "exp" THEN 1 + o + e ELSE 0
    BY DEF TailLen
  <2>3. EndsPlain(l) => l.tail = "end" /\ j = 0 /\ l.exp = <<>> /\ l.expSign = ""
    BY DEF EndsPlain, IsLiteral
  <2>4. EndsPlain(l) => ~BadExponent(l)
    BY <2>3 DEF BadExponent
  <2> HIDE DEF o, e, j
  <2>5. e \in Nat /\ j \in Nat
    BY <1>1, <1>2 DEF e, j
  <2>6. l.tail = "end" => l.tail # "exp"
    OBVIOUS
  <2>7. l.tail = "exp" => TailLen(l) = j + (1 + o + e)
    BY <2>2
  <2>8. l.tail # "exp" => TailLen(l) = j + 0
    BY <2>2
  <2>9. (l.tail = "exp" => TailLen(l) \in Nat /\ TailLen(l) >= 1) /\ (l.tail # "exp" => TailLen(l) = j)
    BY <2>1, <2>5, <2>7, <2>8
  <2>10. TailLen(l) \in Nat
    BY <2>5, <2>9
  <2> QED BY <2>3, <2>4, <2>6, <2>9, <2>10
<1>5. (l.dot => PointLen(l) = 1 + Len(l.frac)) /\ (~l.dot => PointLen(l) = 0)
  BY DEF PointLen
<1>6. ~l.dot => l.frac = <<>> /\ Len(l.frac) = 0
  BY <1>1, EmptySeq DEF IsLiteral
<1>7. Remaining(l) = Len(l.int) + PointLen(l) + TailLen(l)
  BY DEF Remaining
<1>8. Bytes(l) = One(l.sign # "") + l.zeros + Remaining(l)
  BY DEF Bytes
<1>9. One(l.sign # "") \in 0..1 /\ (One(l.sign # "") = 0 <=> l.sign = "")
  BY <1>3
<1>10. NoInt(l) <=> l.zeros + Len(l.int) = 0
  <2>1. l.int = <<>> <=> Len(l.int) = 0
    BY <1>1, EmptySeq DEF Runs
  <2> QED BY <1>1, <1>2, <2>1 DEF NoInt
<1>11. IsNeg(l) \in BOOLEAN
  BY DEF IsNeg
<1> DEFINE p == PointLen(l)
           t == TailLen(l)
           r == Remaining(l)
           o == One(l.sign # "")
           b == Bytes(l)
           a == Len(l.int)
           f == Len(l.frac)
           z == l.zeros
<1>12. /\ t \in Nat /\ o \in 0..1 /\ a \in Nat /\ f \in Nat /\ z \in Nat /\ l.dot \in BOOLEAN
       /\ r = a + p + t /\ b = o + z + r
       /\ (l.dot => p = 1 + f) /\ (~l.dot => p = 0 /\ f = 0)
  BY <1>1, <1>2, <1>4, <1>5, <1>6, <1>7, <1>8, <1>9
<1> HIDE DEF p, t, r, o, b, a, f, z
<1>13. /\ r \in Nat /\ b \in Nat /\ (l.dot => r = a + 1 + f + t) /\ (~l.dot => r = a + t)
       /\ z + a + f <= b
  BY <1>12
<1>14. \E sign \in 0..1 : b = sign + z + r /\ (sign = 0 <=> l.sign = "")
  BY <1>9, <1>12 DEF o
<1> QED
  BY <1>1, <1>2, <1>4, <1>6, <1>10, <1>11, <1>13, <1>14 DEF b, r, z, a, f, t

(* Two runs in a row.                                                      *)
LEMMA RunsJoin ==
  ASSUME NEW s \in Runs, NEW t \in Runs
  PROVE  /\ s \o t \in Runs /\ Len(s \o t) = Len(s) + Len(t)
         /\ Len(s) \in Nat /\ Len(t) \in Nat
         /\ \A i \in 1..Len(s) : (s \o t)[i] = s[i]
         /\ \A i \in 1..Len(t) : (s \o t)[Len(s) + i] = t[i]
<1> USE DEF Runs
<1>1. Len(s) \in Nat /\ Len(t) \in Nat
  BY LenProperties
<1>2. s \o t \in Runs /\ Len(s \o t) = Len(s) + Len(t)
  BY ConcatProperties
<1>3. \A i \in 1..(Len(s) + Len(t)) : (s \o t)[i] = IF i <= Len(s) THEN s[i] ELSE t[i - Len(s)]
  BY ConcatProperties
<1> DEFINE u == s \o t
           a == Len(s)
           b == Len(t)
<1> HIDE DEF u, a, b
<1>4. \A i \in 1..a : u[i] = s[i]
  BY <1>1, <1>3 DEF u, a, b
<1>5. \A i \in 1..b : u[a + i] = t[i]
  <2> SUFFICES ASSUME NEW i \in 1..b PROVE u[a + i] = t[i]
    OBVIOUS
  <2>1. a + i \in 1..(a + b) /\ ~(a + i <= a) /\ (a + i) - a = i
    BY <1>1 DEF a, b
  <2> QED BY <1>3, <2>1 DEF u, a, b
<1> QED BY <1>1, <1>2, <1>4, <1>5 DEF u, a, b

(* The digits of a literal behind its leading zeros denote its mantissa.   *)
LEMMA MantissaFacts ==
  ASSUME NEW l, IsLiteral(l)
  PROVE  /\ IntRun(l) \in Runs /\ Mantissa(l) \in Runs /\ Digits(l) \in Runs
         /\ Len(IntRun(l)) = l.zeros + Len(l.int)
         /\ Len(Mantissa(l)) = l.zeros + Len(l.int) + Len(l.frac)
         /\ Len(Digits(l)) = Len(l.int) + Len(l.frac)
         /\ DigitsVal(Mantissa(l)) = DigitsVal(Digits(l)) /\ DigitsVal(Digits(l)) \in Nat
<1> DEFINE z == l.zeros
           x == l.int
           y == l.frac
           noughts == Zeros(z)
           m == Mantissa(l)
           n == Len(m)
           d == Digits(l)
<1>1. z \in Nat /\ x \in Runs /\ y \in Runs
  BY LiteralBytes
<1>2. IntRun(l) = noughts \o x /\ m = (noughts \o x) \o y /\ d = x \o y
  BY DEF IntRun, Mantissa, Digits
<1> HIDE DEF x, y
<1>3. noughts \in Runs /\ Len(noughts) = z /\ \A i \in 1..z : noughts[i] = 0
  <2> HIDE DEF z
  <2> QED BY <1>1 DEF Zeros, Runs
<1> HIDE DEF noughts
<1>4. IntRun(l) \in Runs /\ Len(IntRun(l)) = z + Len(x)
  <2>1. noughts \o x \in Runs /\ Len(noughts \o x) = Len(noughts) + Len(x)
    BY <1>1, <1>3, RunsJoin
  <2> QED BY <1>2, <1>3, <2>1
<1>5. d \in Runs /\ Len(d) = Len(x) + Len(y) /\ Len(x) \in Nat /\ Len(y) \in Nat
  BY <1>1, <1>2, RunsJoin
<1>6. m = noughts \o d
  <2>1. (noughts \o x) \o y = noughts \o (x \o y)
    BY <1>1, <1>3, ConcatAssociative DEF Runs
  <2> QED BY <1>2, <2>1
<1> HIDE DEF d, m, z
<1>7. m \in Runs /\ Len(m) = z + Len(d)
      /\ (\A i \in 1..z : m[i] = noughts[i])
      /\ (\A i \in 1..Len(d) : m[z + i] = d[i])
  <2>1. /\ noughts \o d \in Runs /\ Len(noughts \o d) = Len(noughts) + Len(d)
        /\ \A i \in 1..Len(noughts) : (noughts \o d)[i] = noughts[i]
        /\ \A i \in 1..Len(d) : (noughts \o d)[Len(noughts) + i] = d[i]
    BY <1>3, <1>5, RunsJoin
  <2> QED BY <1>3, <1>6, <2>1
<1>8. Len(d) \in Nat
  BY <1>5, DigitByDigit
<1> DEFINE e == Len(d)
<1> HIDE DEF e
<1>9. z \in 0..n /\ n \in z..n /\ n \in Nat /\ n - z = e /\ n = z + e
  <2> HIDE DEF n
  <2>1. n = z + e /\ e \in Nat
    BY <1>7, <1>8 DEF n, e
  <2> QED BY <1>1, <2>1
<1>10. \A i \in 1..z : m[i] = 0
  BY <1>3, <1>7
<1>11. SubSeq(m, z + 1, n) = d
  <2> DEFINE t == SubSeq(m, z + 1, n)
  <2>1. t \in Runs /\ Len(t) = n - z /\ \A i \in 1..(n - z) : t[i] = m[z + i]
    BY <1>7, <1>9, Cutting DEF n
  <2> HIDE DEF t, n
  <2>2. \A i \in 1..e : t[i] = d[i]
    BY <1>7, <1>9, <2>1 DEF e
  <2> QED BY <1>5, <1>9, <2>1, <2>2, SeqEqual DEF Runs, e, t
<1>12. DigitsVal(m) = DigitsVal(d)
  <2>1. Upto(m, n) = DigitsVal(SubSeq(m, z + 1, n))
    BY <1>7, <1>9, <1>10, SkipZeros DEF n
  <2> QED BY <1>7, <1>11, <2>1, DigitByDigit DEF n
<1>13. DigitsVal(d) \in Nat
  BY <1>5, DigitByDigit
<1>14. Len(m) = z + Len(x) + Len(y)
  <2> DEFINE a == Len(x)
             b == Len(y)
  <2> HIDE DEF a, b
  <2>1. Len(m) = z + (a + b) /\ a \in Nat /\ b \in Nat
    BY <1>5, <1>7 DEF a, b
  <2>2. Len(m) = z + a + b
    BY <1>1, <2>1
  <2> QED BY <2>2 DEF a, b
<1> QED
  BY <1>4, <1>5, <1>7, <1>12, <1>13, <1>14 DEF m, d, z, x, y

(* Integer digits and fraction digits side by side.                        *)
LEMMA Joined ==
  ASSUME NEW l, IsLiteral(l), Len(l.frac) <= 2*MaxPrec
  PROVE  /\ Len(l.frac) \in 0..2*MaxPrec
         /\ DigitsVal(Digits(l)) = DigitsVal(l.int) * Pow10[Len(l.frac)] + DigitsVal(l.frac)
<1> DEFINE x == l.int
           y == l.frac
           d == x \o y
           a == Len(x)
           f == Len(y)
           n == Len(d)
<1>1. x \in Runs /\ y \in Runs /\ f <= 2*MaxPrec /\ d = Digits(l)
  BY LiteralBytes DEF Digits
<1> HIDE DEF x, y
<1>2. /\ d \in Runs /\ n = a + f /\ a \in Nat /\ f \in Nat
      /\ \A i \in 1..a : d[i] = x[i]
      /\ \A i \in 1..f : d[a + i] = y[i]
  BY <1>1, RunsJoin
<1>3. MaxPrec \in Nat
  BY PowFacts
<1> HIDE DEF d, a, f, n
<1>4. a \in 0..n /\ n \in a..n /\ n - a = f /\ a <= n /\ f \in 0..2*MaxPrec /\ a \in 0..a
  BY <1>1, <1>2, <1>3
<1>5. Upto(d, a) = DigitsVal(x)
  <2>1. \A i \in 1..a : x[i] = d[i]
    BY <1>2
  <2>2. Upto(x, a) = Upto(d, a)
    BY <1>1, <1>2, <1>4, <2>1, SamePrefix DEF a, n
  <2> QED BY <1>1, <2>2, DigitByDigit DEF a
<1>6. SubSeq(d, a + 1, n) = y
  <2> DEFINE t == SubSeq(d, a + 1, n)
  <2>1. t \in Runs /\ Len(t) = n - a /\ \A i \in 1..(n - a) : t[i] = d[a + i]
    BY <1>2, <1>4, Cutting DEF n
  <2> HIDE DEF t
  <2>2. \A i \in 1..f : t[i] = y[i]
    BY <1>2, <1>4, <2>1
  <2> QED BY <1>1, <1>4, <2>1, <2>2, SeqEqual DEF Runs, t, f
<1>7. Upto(d, n) = Upto(d, a) * Pow10[n - a] + DigitsVal(SubSeq(d, a + 1, n))
  BY <1>1, <1>2, <1>4, Slice DEF n
<1>8. Upto(d, n) = DigitsVal(d)
  BY <1>2, DigitByDigit DEF n
<1>9. DigitsVal(d) = DigitsVal(x) * Pow10[f] + DigitsVal(y)
  BY <1>4, <1>5, <1>6, <1>7, <1>8
<1> QED BY <1>1, <1>4, <1>9 DEF f, x, y

(* The mantissa without the zeros at its end.                              *)
LEMMA KeptFacts ==
  ASSUME NEW l, IsLiteral(l)
  PROVE  /\ Kept(l) \in Runs /\ Len(Kept(l)) \in Nat /\ EndZeros(Mantissa(l)) \in Nat
         /\ EndZeros(Mantissa(l)) <= Bytes(l) /\ Len(Kept(l)) + EndZeros(Mantissa(l)) = Len(Mantissa(l))
         /\ DigitsVal(Kept(l)) \in Nat
         /\ ((Kept(l) = <<>>) => (DigitsVal(Kept(l)) = 0 /\ DigitsVal(Digits(l)) = 0))
         /\ ((Kept(l) # <<>>) => (DigitsVal(Kept(l)) # 0 /\ DigitsVal(Kept(l)) % 10 # 0
                                  /\ DigitsVal(Digits(l)) # 0))
         /\ ((EndZeros(Mantissa(l)) <= 2*MaxPrec) =>
               (DigitsVal(Digits(l)) = DigitsVal(Kept(l)) * Pow10[EndZeros(Mantissa(l))]))
         /\ ((EndZeros(Mantissa(l)) > 2*MaxPrec /\ Kept(l) # <<>>) => (DigitsVal(Digits(l)) >= Cap))
<1> DEFINE m == Mantissa(l)
           z == EndZeros(m)
           n == Len(m)
           k == Kept(l)
           v == DigitsVal(k)
           w == DigitsVal(m)
<1>1. m \in Runs /\ w = DigitsVal(Digits(l)) /\ n <= Bytes(l) /\ Bytes(l) \in Nat
  BY MantissaFacts, LiteralBytes
<1>2. k = Stem(m)
  BY DEF Kept, Stem
<1> HIDE DEF m, k
<1>3. /\ z \in Nat /\ n - z \in 0..n /\ n \in Nat /\ v \in Nat
      /\ ((n - z = 0) => (v = 0 /\ w = 0))
      /\ ((n - z # 0) => (v # 0 /\ v % 10 # 0))
      /\ ((z <= 2*MaxPrec) => (w = v * Pow10[z]))
      /\ ((z > 2*MaxPrec /\ n - z # 0) => (w >= Cap))
  BY <1>1, <1>2, StemFacts
<1>4. k \in Runs /\ Len(k) = n - z
  <2>1. 0 \in 0..n /\ n - z \in 0..n
    BY <1>3
  <2>2. SubSeq(m, 0 + 1, n - z) \in Runs /\ Len(SubSeq(m, 0 + 1, n - z)) = (n - z) - 0
    BY <1>1, <2>1, Cutting
  <2>3. k = SubSeq(m, 0 + 1, n - z) /\ (n - z) - 0 = n - z
    <3> HIDE DEF n, z
    <3>1. (n - z) - 0 = n - z /\ 0 + 1 = 1
      BY <1>3
    <3> QED BY <1>2, <3>1 DEF Stem, n, z
  <2> QED BY <2>2, <2>3
<1>5. k = <<>> <=> n - z = 0
  BY <1>4, EmptySeq DEF Runs
<1> HIDE DEF n, z, v, w
<1>6. Len(k) \in Nat /\ z <= Bytes(l) /\ Len(k) + z = n
  BY <1>1, <1>3, <1>4
<1>7. k # <<>> => w # 0
  <2>1. CASE k # <<>> /\ z <= 2*MaxPrec
    <3> DEFINE p == Pow10[z]
    <3>1. z \in 0..2*MaxPrec
      BY <1>3, <2>1, PowFacts
    <3>2. p \in Nat /\ p >= 1
      BY <3>1, PowFacts
    <3>3. w = v * p /\ v \in Nat /\ v # 0
      BY <1>3, <1>5, <2>1
    <3> HIDE DEF p
    <3> QED BY <3>2, <3>3
  <2>2. CASE k # <<>> /\ z > 2*MaxPrec
    BY <1>3, <1>5, <2>2, CapFacts
  <2>3. z <= 2*MaxPrec \/ z > 2*MaxPrec
    BY <1>3, PowFacts
  <2> QED BY <2>1, <2>2, <2>3
<1> QED
  BY <1>1, <1>3, <1>4, <1>5, <1>6, <1>7 DEF m, n, k, z, v, w

(* Text's answer for the number a literal spells, by its digits.           *)
LEMMA SpelledMeans ==
  ASSUME IsLiteral(lit)
  PROVE  LET answer == ParseCore(Spelled(lit))
             eff == Len(lit.frac) - Exp10(lit) - EndZeros(Mantissa(lit))
         IN  /\ (GrammarErr(lit) # "nil") => (answer = Fail(GrammarErr(lit)))
             /\ (GrammarErr(lit) = "nil" /\ Kept(lit) = <<>>) => (answer = Ok(Zero))
             /\ (GrammarErr(lit) = "nil" /\ DigitsVal(Kept(lit)) >= Cap) => (answer = Fail("Overflow"))
             /\ (GrammarErr(lit) = "nil" /\ Kept(lit) # <<>> /\ DigitsVal(Kept(lit)) < Cap) =>
                   (answer = Canonical(DigitsVal(Kept(lit)), eff))
<1> DEFINE answer == ParseCore(Spelled(lit))
           k == Kept(lit)
           u == Unled(k)
           m == DigitsVal(k)
           z == EndZeros(Mantissa(lit))
           x == Len(lit.frac) - Exp10(lit)
           sig == IF Len(u) > 2*MaxPrec + 1 THEN Cap ELSE DigitsVal(u)
           zeros == IF k = <<>> THEN 0 ELSE z
           num == Number(IsNeg(lit), sig, zeros, x)
<1>1. Significant(lit) = u
  BY DEF Significant, Unled
<1>2. k \in Runs /\ m \in Nat /\ (k = <<>> => m = 0) /\ (k # <<>> => m # 0)
  BY KeptFacts
<1> HIDE DEF k
<1>3. u \in Runs /\ Len(u) \in Nat /\ DigitsVal(u) = m /\ (u # <<>> => u[1] # 0)
      /\ Len(u) <= Len(k)
  BY <1>2, UnledFacts
<1> HIDE DEF u
<1>4. /\ (k = <<>> => sig = 0) /\ (m >= Cap => sig >= Cap)
      /\ (m < Cap => sig = m) /\ (sig # 0 <=> k # <<>>)
  <2>1. MaxPrec \in Nat /\ Cap \in Nat /\ Cap >= 16
    BY PowFacts, CapFacts
  <2>2. CASE Len(u) > 2*MaxPrec + 1
    <3>1. Len(u) # 0
      BY <1>3, <2>1, <2>2
    <3>2. u # <<>>
      BY <3>1, EmptySeq
    <3>3. m >= Cap /\ sig = Cap
      BY <1>3, <2>2, <3>2, ManyDigits
    <3> HIDE DEF m, sig
    <3> QED BY <1>2, <2>1, <3>3
  <2>3. CASE ~(Len(u) > 2*MaxPrec + 1)
    <3>1. sig = m
      BY <1>3, <2>3
    <3> HIDE DEF m, sig
    <3> QED BY <1>2, <3>1
  <2> QED BY <2>2, <2>3
<1>5. GrammarErr(lit) \in {"nil", "EmptyString", "MaxStrLen", "InvalidFormat"}
  BY DEF GrammarErr
<1>6. ASSUME GrammarErr(lit) # "nil" PROVE answer = Fail(GrammarErr(lit))
  <2>1. CASE GrammarErr(lit) = "EmptyString"
    BY <2>1 DEF Spelled, ParseCore, Empty, NotNumber, Number
  <2>2. CASE GrammarErr(lit) = "MaxStrLen"
    BY <2>2 DEF Spelled, ParseCore, TooLong, NotNumber, Number
  <2>3. CASE GrammarErr(lit) = "InvalidFormat"
    BY <2>3 DEF Spelled, ParseCore, Malformed, NotNumber, Number
  <2> QED BY <1>5, <1>6, <2>1, <2>2, <2>3
<1>7. ASSUME GrammarErr(lit) = "nil" PROVE answer = ParseNumber(num)
  <2>1. Spelled(lit) = num
    <3> HIDE DEF z, x, u
    <3> QED BY <1>1, <1>7 DEF Spelled, z, x, k
  <2>2. num.form = "number"
    BY DEF Number
  <2> HIDE DEF num
  <2> QED BY <2>1, <2>2 DEF ParseCore
<1>8. num.neg = IsNeg(lit) /\ num.sig = sig /\ num.zeros = zeros /\ num.scale = x
  BY DEF Number
<1> HIDE DEF num, sig, m
<1>9. GrammarErr(lit) = "nil" /\ k = <<>> => answer = Ok(Zero)
  BY <1>4, <1>7, <1>8 DEF ParseNumber
<1>10. GrammarErr(lit) = "nil" /\ m >= Cap => answer = Fail("Overflow")
  BY <1>2, <1>4, <1>7, <1>8, CapFacts DEF ParseNumber
<1>11. GrammarErr(lit) = "nil" /\ k # <<>> /\ m < Cap => answer = Canonical(m, x - z)
  <2> SUFFICES ASSUME GrammarErr(lit) = "nil", k # <<>>, m < Cap
               PROVE  answer = Canonical(m, x - z)
    OBVIOUS
  <2>1. sig = m /\ sig # 0 /\ ~(sig >= Cap) /\ zeros = z
    BY <1>2, <1>4, CapFacts
  <2>2. num.sig = m /\ num.sig # 0 /\ ~(num.sig >= Cap) /\ num.scale - num.zeros = x - z
    BY <1>8, <2>1
  <2> HIDE DEF x, z, zeros, answer
  <2>3. answer = ParseNumber(num)
    BY <1>7
  <2> QED BY <1>8, <2>2, <2>3 DEF ParseNumber, Canonical
<1> QED
  BY <1>6, <1>9, <1>10, <1>11 DEF k, m

----------------------------------------------------------------------------
(* The two ways to the canonical form: zeros trimmed into the precision,   *)
(* and a coefficient without zeros given its precision or scaled up.       *)

(* Which powers of ten divide m * 10^z, when 10 does not divide m.         *)
LEMMA TenPowersDividing ==
  ASSUME NEW m \in Nat, m % 10 # 0, NEW z \in 0..2*MaxPrec, NEW c, c = m * Pow10[z],
         NEW k \in 0..2*MaxPrec
  PROVE  /\ k <= z => c % Pow10[k] = 0 /\ c \div Pow10[k] = m * Pow10[z - k] /\ z - k \in 0..2*MaxPrec
         /\ k > z => c % Pow10[k] # 0
<1>1. ASSUME k <= z
      PROVE  c % Pow10[k] = 0 /\ c \div Pow10[k] = m * Pow10[z - k] /\ z - k \in 0..2*MaxPrec
  <2> DEFINE p == Pow10[k]
             q == Pow10[z - k]
             x == m * q
  <2>1. z - k \in 0..2*MaxPrec /\ p \in Nat \ {0} /\ q \in Nat \ {0} /\ Pow10[z] = p * q
    BY <1>1, PowRatio
  <2> HIDE DEF p, q
  <2>2. x \in Int /\ c = x * p
    BY <2>1
  <2> HIDE DEF x
  <2>3. (x * p) \div p = x /\ (x * p) % p = 0
    BY <2>1, <2>2, DivExactly
  <2> QED BY <2>1, <2>2, <2>3 DEF p, q, x
<1>2. ASSUME k > z
      PROVE  c % Pow10[k] # 0
  <2> DEFINE p == Pow10[z]
             h == (k - z) - 1
             q == Pow10[h]
             r == Pow10[k]
             x == c \div r
  <2>1. MaxPrec \in Nat
    BY PowFacts
  <2>2. h \in 0..(2*MaxPrec - 1) /\ h + 1 = k - z /\ z <= k
    BY <1>2, <2>1
  <2>3. q \in Nat \ {0} /\ Pow10[h + 1] = q * 10
    BY <2>2, PowStep
  <2>4. p \in Nat \ {0} /\ r \in Nat \ {0} /\ r = p * Pow10[k - z]
    BY <2>2, PowRatio
  <2>5. r = p * (q * 10)
    BY <2>2, <2>3, <2>4
  <2> HIDE DEF p, q, r, h
  <2>6. c \in Nat /\ c \in Int /\ c = m * p
    BY <2>4 DEF p
  <2>7. x \in Nat /\ c = r * x + (c % r)
    BY <2>4, <2>6, DivMod, DivBelow
  <2> HIDE DEF x
  <2>8. SUFFICES ASSUME c % r = 0 PROVE FALSE
    BY DEF r
  <2>9. m * p = (p * (q * 10)) * x
    BY <2>4, <2>5, <2>6, <2>7, <2>8
  <2> DEFINE y == q * x
  <2>10. y \in Nat /\ m * p = (y * 10) * p
    BY <2>3, <2>4, <2>7, <2>9
  <2> HIDE DEF y
  <2>11. m = y * 10
    BY <2>4, <2>10
  <2>12. y \in Int /\ (y * 10) % 10 = 0
    BY <2>10, DivExactly
  <2> QED BY <2>11, <2>12
<1> QED BY <1>1, <1>2

(* Trimming gives the canonical form of the number.                        *)
LEMMA TrimmedIs ==
  ASSUME NEW m \in Nat, m % 10 # 0, NEW z \in 0..2*MaxPrec, NEW c, c = m * Pow10[z], c < Cap,
         NEW prec \in 0..MaxPrec
  PROVE  Trimmed(c, prec) = Canonical(m, prec - z)
<1> DEFINE Cut(t) == c % Pow10[t] = 0 /\ (t = prec \/ c % Pow10[t + 1] # 0)
           cut == CHOOSE t \in 0..prec : Cut(t)
           t0 == Smaller(z, prec)
<1>1. MaxPrec \in Nat /\ Cap \in Nat
  BY PowFacts, CapFacts
<1>2. t0 \in 0..prec /\ t0 <= z /\ (t0 = prec \/ (t0 = z /\ t0 < prec))
  BY <1>1 DEF Smaller
<1>3. \A k \in 0..2*MaxPrec :
        /\ k <= z => c % Pow10[k] = 0 /\ c \div Pow10[k] = m * Pow10[z - k] /\ z - k \in 0..2*MaxPrec
        /\ k > z => c % Pow10[k] # 0
  <2> TAKE k \in 0..2*MaxPrec
  <2>1. m \in Nat /\ m % 10 # 0 /\ z \in 0..2*MaxPrec /\ c = m * Pow10[z]
    OBVIOUS
  <2> QED BY <2>1, TenPowersDividing, ZenonT(30)
<1> HIDE DEF t0
<1>4. \A k \in 0..prec : k \in 0..2*MaxPrec /\ (k # prec => k + 1 \in 0..2*MaxPrec) /\ k \in Nat
  BY <1>1
<1>5. Cut(t0)
  <2>1. c % Pow10[t0] = 0
    BY <1>2, <1>3, <1>4
  <2>2. t0 # prec => c % Pow10[t0 + 1] # 0
    <3> SUFFICES ASSUME t0 # prec PROVE c % Pow10[t0 + 1] # 0
      OBVIOUS
    <3>1. t0 + 1 \in 0..2*MaxPrec /\ t0 + 1 > z
      BY <1>1, <1>2, <1>4
    <3> QED BY <1>3, <3>1
  <2> QED BY <2>1, <2>2
<1>6. ASSUME NEW t \in 0..prec, Cut(t) PROVE t = t0
  <2>1. t <= z
    BY <1>1, <1>3, <1>4, <1>6
  <2>2. t # prec => t >= z
    <3> SUFFICES ASSUME t # prec, ~(t >= z) PROVE FALSE
      OBVIOUS
    <3>1. t + 1 \in 0..2*MaxPrec /\ t + 1 <= z
      BY <1>1, <1>4
    <3> QED BY <1>3, <1>6, <3>1
  <2> QED BY <1>1, <1>2, <2>1, <2>2
<1>7. cut = t0
  <2> HIDE DEF Cut
  <2> QED BY <1>2, <1>5, <1>6
<1>8. Trimmed(c, prec) = Ok(NewDecimal(c \div Pow10[t0], IsNeg(lit), prec - t0))
  BY <1>7 DEF Trimmed
<1>9. c \div Pow10[t0] = m * Pow10[z - t0] /\ z - t0 \in 0..2*MaxPrec
  BY <1>2, <1>3, <1>4
<1> HIDE DEF cut, Cut
<1>10. CASE t0 = z
  <2>1. Pow10[z - t0] = 1 /\ prec - z \in 0..MaxPrec /\ prec - t0 = prec - z
    <3>1. z - t0 = 0
      BY <1>10
    <3>2. prec - z \in 0..MaxPrec /\ prec - t0 = prec - z
      BY <1>1, <1>2, <1>10
    <3> QED BY <3>1, <3>2, PowFacts
  <2>2. ~(prec - z > MaxPrec) /\ prec - z >= 0
    BY <1>1, <2>1
  <2>3. c \div Pow10[t0] = m
    BY <1>9, <2>1
  <2>4. Canonical(m, prec - z) = Ok(NewDecimal(m, IsNeg(lit), prec - z))
    BY <2>2 DEF Canonical
  <2> QED BY <1>8, <2>1, <2>3, <2>4
<1>11. CASE t0 = prec /\ t0 < z
  <2> DEFINE up == -(prec - z)
  <2>1. up = z - t0 /\ up \in Nat /\ up <= 2*MaxPrec /\ ~(prec - z > MaxPrec) /\ ~(prec - z >= 0)
        /\ prec - t0 = 0 /\ t0 \in 0..2*MaxPrec
    BY <1>1, <1>2, <1>11
  <2>2. m * Pow10[up] \in Nat /\ m * Pow10[up] < Cap
    <3> DEFINE p == Pow10[z]
               q == Pow10[z - t0]
    <3>1. p \in Nat \ {0} /\ q \in Nat \ {0} /\ q <= p
      BY <1>9, <2>1, PowRatio
    <3> HIDE DEF p, q
    <3>2. m * q \in Nat /\ m * q <= m * p
      BY <3>1
    <3>3. m * p < Cap /\ m * p \in Nat
      BY <3>1 DEF p
    <3>4. m * q < Cap
      BY <1>1, <3>2, <3>3
    <3> QED BY <2>1, <3>2, <3>4 DEF q
  <2>3. ScaleUpExact(m, up) = [val |-> m * Pow10[up], err |-> "nil"]
    <3> HIDE DEF up
    <3> QED BY <2>1, <2>2, ScaleUpExactly
  <2>4. Canonical(m, prec - z) = Ok(NewDecimal(m * Pow10[up], IsNeg(lit), 0))
    BY <2>1, <2>3 DEF Canonical
  <2> QED BY <1>8, <1>9, <2>1, <2>4
<1>12. t0 = z \/ (t0 = prec /\ t0 < z)
  BY <1>1, <1>2
<1> QED BY <1>10, <1>11, <1>12

(* Zero has one form.                                                      *)
LEMMA TrimmedZero ==
  ASSUME NEW prec \in 0..MaxPrec
  PROVE  Trimmed(0, prec) = Ok(Zero)
<1> DEFINE Cut(t) == 0 % Pow10[t] = 0 /\ (t = prec \/ 0 % Pow10[t + 1] # 0)
           cut == CHOOSE t \in 0..prec : Cut(t)
<1>1. \A k \in 0..prec : k \in 0..2*MaxPrec
  BY PowFacts
<1>2. \A k \in 0..prec : 0 % Pow10[k] = 0 /\ 0 \div Pow10[k] = 0
  <2> SUFFICES ASSUME NEW k \in 0..prec PROVE 0 % Pow10[k] = 0 /\ 0 \div Pow10[k] = 0
    OBVIOUS
  <2> DEFINE p == Pow10[k]
  <2>1. p \in Nat \ {0}
    <3>1. p \in Nat /\ p >= 1
      BY <1>1, PowFacts
    <3> HIDE DEF p
    <3> QED BY <3>1
  <2> HIDE DEF p
  <2>2. (0 * p) \div p = 0 /\ (0 * p) % p = 0 /\ 0 * p = 0
    BY <2>1, DivExactly
  <2> QED BY <2>2 DEF p
<1>3. prec \in 0..prec /\ Cut(prec)
  BY <1>2, PowFacts
<1>4. cut \in 0..prec
  <2> HIDE DEF Cut
  <2> QED BY <1>3
<1> HIDE DEF cut
<1>5. 0 \div Pow10[cut] = 0
  BY <1>2, <1>4
<1>6. Trimmed(0, prec) = Ok(NewDecimal(0 \div Pow10[cut], IsNeg(lit), prec - cut))
  BY DEF Trimmed, cut
<1> QED BY <1>5, <1>6 DEF NewDecimal

(* The exponent read is the one written, unless both are past the bound    *)
(* where only the sign still matters.                                      *)
LEMMA ExponentRead ==
  ASSUME NEW l, IsLiteral(l)
  PROVE  /\ ExpOf(l) \in Int /\ Exp10(l) \in Int
         /\ \/ ExpOf(l) = Exp10(l)
            \/ ExpOf(l) > ExpCap /\ Exp10(l) > ExpCap
            \/ ExpOf(l) < -ExpCap /\ Exp10(l) < -ExpCap
         /\ l.exp = <<>> => Exp10(l) = 0
<1> DEFINE s == l.exp
           n == Len(s)
           cap == ExpCap
           Grow(x, d) == IF x <= cap THEN 10 * x + d ELSE x
           g == [i \in 1..n |-> [x \in Nat |-> Grow(x, s[i])]]
           Body(f) == [i \in 0..n |-> IF i = 0 THEN 0 ELSE Grow(f[i - 1], s[i])]
           h == CHOOSE f : f = Body(f)
<1>1. s \in Runs
  BY LiteralBytes
<1>2. n \in Nat /\ cap \in Nat /\ \A i \in 1..n : s[i] \in 0..9
  <2>1. cap \in Nat
    BY PowFacts, ParserAssumption DEF ExpCap
  <2> QED BY <1>1, <2>1 DEF Runs
<1>3. ExpOf(l) = IF l.expSign = "-" THEN -h[n] ELSE h[n]
  BY DEF ExpOf
<1>4. Exp10(l) = (IF l.expSign = "-" THEN -1 ELSE 1) * DigitsVal(s)
  BY DEF Exp10
<1> HIDE DEF s, n, cap
<1>5. \A x \in Nat : \A d \in 0..9 : Grow(x, d) \in Nat
  BY <1>2
<1>6. Steps(g, n)
  <2> HIDE DEF Grow
  <2> QED BY <1>2, <1>5 DEF Steps
<1>7. \E v : Values(g, n, v)
  <2>1. n \in 0..n
    BY <1>2
  <2> HIDE DEF g
  <2> QED BY <1>2, <1>6, <2>1, ValuesExist
<1>8. PICK v : Values(g, n, v)
  BY <1>7
<1>9. v \in [0..n -> Nat] /\ v[0] = 0 /\ \A i \in 1..n : v[i] = Grow(v[i - 1], s[i])
  <2>1. v \in [0..n -> Nat] /\ v[0] = 0 /\ \A i \in 1..n : v[i] = g[i][v[i - 1]]
    BY <1>8 DEF Values
  <2> HIDE DEF Grow
  <2>2. ASSUME NEW i \in 1..n PROVE v[i] = Grow(v[i - 1], s[i])
    <3>1. v[i - 1] \in Nat
      BY <1>2, <2>1
    <3> QED BY <2>1, <3>1
  <2> QED BY <2>1, <2>2
<1> HIDE DEF g
<1>10. v = Body(v)
  <2> HIDE DEF Grow
  <2>1. \A i \in 0..n : v[i] = IF i = 0 THEN 0 ELSE Grow(v[i - 1], s[i])
    BY <1>2, <1>9
  <2> QED BY <1>9, <2>1
<1>11. h = Body(h)
  <2> HIDE DEF Body
  <2> QED BY <1>10
<1> HIDE DEF h
<1>12. \A i \in 0..n : h[i] = IF i = 0 THEN 0 ELSE Grow(h[i - 1], s[i])
  <2> HIDE DEF Grow
  <2>1. h = [i \in 0..n |-> IF i = 0 THEN 0 ELSE Grow(h[i - 1], s[i])]
    BY <1>11
  <2> QED BY <2>1
<1> HIDE DEF Body
<1>13. h[n] = v[n]
  <2> DEFINE T == {i \in 0..n : h[i] = v[i]}
  <2>1. 0 \in T
    BY <1>2, <1>9, <1>12
  <2>2. ASSUME NEW k \in 0..(n - 1), k \in T
        PROVE  k + 1 \in T
    <3>1. k + 1 \in 0..n /\ k + 1 \in 1..n /\ (k + 1) - 1 = k /\ k + 1 # 0 /\ h[k] = v[k]
      BY <1>2, <2>2
    <3>2. h[k + 1] = Grow(h[k], s[k + 1])
      <4> HIDE DEF Grow
      <4> QED BY <1>12, <3>1
    <3>3. v[k + 1] = Grow(v[k], s[k + 1])
      <4> HIDE DEF Grow
      <4> QED BY <1>9, <3>1
    <3> HIDE DEF Grow
    <3> QED BY <3>1, <3>2, <3>3
  <2>3. 0 \in Nat /\ n \in 0..n
    BY <1>2
  <2> HIDE DEF T
  <2>4. n \in T
    BY <1>2, <2>1, <2>2, <2>3, Stepwise
  <2> QED BY <2>4 DEF T
<1> DEFINE u == [i \in 0..n |-> Upto(s, i)]
<1>14. u[0] = 0 /\ u[n] = DigitsVal(s) /\ (\A i \in 0..n : u[i] \in Nat)
       /\ \A i \in 0..(n - 1) : i + 1 \in 1..n /\ i \in 0..n /\ s[i + 1] \in 0..9 /\ u[i + 1] = 10 * u[i] + s[i + 1]
  <2>1. /\ Upto(s, 0) = 0 /\ Upto(s, n) = DigitsVal(s) /\ n \in Nat
        /\ \A k \in 0..n : Upto(s, k) \in Nat
        /\ \A k \in 0..(n - 1) : s[k + 1] \in 0..9 /\ Upto(s, k + 1) = 10 * Upto(s, k) + s[k + 1]
    BY <1>1, DigitByDigit DEF n
  <2>2. 0 \in 0..n /\ n \in 0..n
    BY <2>1
  <2>3. \A i \in 0..(n - 1) : i \in 0..n /\ i + 1 \in 0..n /\ i + 1 \in 1..n
    BY <2>1
  <2> QED BY <2>1, <2>2, <2>3
<1> HIDE DEF u
<1>15. v[n] = u[n] \/ (v[n] > cap /\ u[n] > cap)
  <2> DEFINE T == {i \in 0..n : v[i] = u[i] \/ (v[i] > cap /\ u[i] > cap)}
  <2>1. 0 \in T
    BY <1>2, <1>9, <1>14
  <2>2. ASSUME NEW k \in 0..(n - 1), k \in T
        PROVE  k + 1 \in T
    <3> DEFINE a == v[k]
               b == u[k]
               d == s[k + 1]
               a1 == v[k + 1]
               b1 == u[k + 1]
    <3>1. k + 1 \in 1..n /\ k + 1 \in 0..n /\ (k + 1) - 1 = k /\ k \in 0..n
      BY <1>2
    <3>2. a \in Nat /\ b \in Nat /\ d \in 0..9 /\ b1 = 10 * b + d
      BY <1>9, <1>14, <3>1
    <3>3. a1 = Grow(a, d)
      <4> HIDE DEF Grow
      <4> QED BY <1>9, <3>1
    <3>4. a = b \/ (a > cap /\ b > cap)
      BY <2>2
    <3> HIDE DEF a, b, d, a1, b1
    <3>5. a1 = b1 \/ (a1 > cap /\ b1 > cap)
      <4>1. CASE a <= cap
        BY <1>2, <3>2, <3>3, <3>4, <4>1
      <4>2. CASE ~(a <= cap)
        <5>1. a1 = a /\ a > cap /\ b > cap
          BY <1>2, <3>2, <3>3, <3>4, <4>2
        <5> QED BY <1>2, <3>2, <5>1
      <4> QED BY <4>1, <4>2
    <3> QED BY <3>1, <3>5 DEF a1, b1
  <2>3. 0 \in Nat /\ n \in 0..n
    BY <1>2
  <2> HIDE DEF T
  <2>4. n \in T
    BY <1>2, <2>1, <2>2, <2>3, Stepwise
  <2> QED BY <2>4 DEF T
<1> DEFINE e == h[n]
           x == DigitsVal(s)
<1>16. e \in Nat /\ x \in Nat /\ (e = x \/ (e > cap /\ x > cap))
  <2>1. n \in 0..n
    BY <1>2
  <2> QED BY <1>9, <1>13, <1>14, <1>15, <2>1
<1>17. s = <<>> => x = 0
  <2>1. s = <<>> => n = 0
    BY DEF n
  <2> QED BY <1>14, <2>1
<1> HIDE DEF e, x, Grow
<1>18. CASE l.expSign = "-"
  <2>1. ExpOf(l) = -e /\ Exp10(l) = (-1) * x
    BY <1>3, <1>4, <1>18 DEF e, x
  <2>2. (-1) * x = -x
    BY <1>16
  <2> QED BY <1>2, <1>16, <1>17, <2>1, <2>2 DEF cap, s
<1>19. CASE l.expSign # "-"
  <2>1. ExpOf(l) = e /\ Exp10(l) = 1 * x
    BY <1>3, <1>4, <1>19 DEF e, x
  <2>2. 1 * x = x
    BY <1>16
  <2> QED BY <1>2, <1>16, <1>17, <2>1, <2>2 DEF cap, s
<1> QED BY <1>18, <1>19

(* What the bound leaves out decides nothing: beyond it every coefficient  *)
(* is refused, and for the same reason.                                    *)
LEMMA CappedExponent ==
  ASSUME NEW m \in Nat, NEW k \in Int, k <= MaxParseLen, -k <= MaxParseLen,
         IsLiteral(lit)
  PROVE  Canonical(m, k - ExpOf(lit)) = Canonical(m, k - Exp10(lit))
<1> DEFINE e == ExpOf(lit)
           x == Exp10(lit)
           cap == ExpCap
<1>1. /\ e \in Int /\ x \in Int
      /\ e = x \/ (e > cap /\ x > cap) \/ (e < -cap /\ x < -cap)
  BY ExponentRead
<1>2. cap = MaxParseLen + 2*MaxPrec + 1 /\ MaxPrec \in Nat /\ MaxParseLen \in Nat
  BY PowFacts, ParserAssumption DEF ExpCap
<1> HIDE DEF e, x, cap
<1>3. ASSUME NEW y \in Int, y > cap PROVE Canonical(m, k - y) = Fail("Overflow")
  <2> DEFINE up == -(k - y)
  <2>1. up \in Nat /\ up > 2*MaxPrec /\ ~(k - y > MaxPrec) /\ ~(k - y >= 0)
    BY <1>2, <1>3
  <2> HIDE DEF up
  <2>2. ScaleUpExact(m, up).err = "Overflow"
    BY <2>1 DEF ScaleUpExact
  <2> QED BY <2>1, <2>2 DEF Canonical, up
<1>4. ASSUME NEW y \in Int, y < -cap PROVE Canonical(m, k - y) = Fail("PrecOutOfRange")
  <2>1. k - y > MaxPrec
    BY <1>2, <1>4
  <2> QED BY <2>1 DEF Canonical
<1>5. CASE e = x
  BY <1>5 DEF e, x
<1>6. CASE e > cap /\ x > cap
  BY <1>1, <1>3, <1>6 DEF e, x
<1>7. CASE e < -cap /\ x < -cap
  BY <1>1, <1>4, <1>7 DEF e, x
<1> QED BY <1>1, <1>5, <1>6, <1>7

----------------------------------------------------------------------------
(* Truncation, by the digits: what stands before the zeros that may be     *)
(* trimmed, down to the last place kept.                                   *)

(* Dividing away the zeros trimmed leaves what stands before them.         *)
LEMMA TrimmedCut ==
  ASSUME NEW v \in Nat, NEW prec \in 0..MaxPrec, NEW t \in 0..prec, t = prec \/ v % 10 # 0
  PROVE  Trimmed(v * Pow10[t], prec) = Ok(NewDecimal(v, IsNeg(lit), prec - t))
<1> DEFINE c == v * Pow10[t]
           Cut(u) == c % Pow10[u] = 0 /\ (u = prec \/ c % Pow10[u + 1] # 0)
           cut == CHOOSE u \in 0..prec : Cut(u)
<1>1. MaxPrec \in Nat
  BY PowFacts
<1>2. \A k \in 0..prec : k \in 0..2*MaxPrec /\ (k # prec => k + 1 \in 0..2*MaxPrec /\ k + 1 \in 0..prec)
                         /\ k \in Nat
  BY <1>1
<1>3. ASSUME NEW k \in 0..t
      PROVE  c % Pow10[k] = 0 /\ (k = t => c \div Pow10[k] = v)
  <2> DEFINE p == Pow10[k]
             q == Pow10[t - k]
             x == v * q
  <2>1. t \in 0..2*MaxPrec /\ k \in 0..2*MaxPrec /\ k <= t /\ t \in Nat
    BY <1>1
  <2>2. p \in Nat \ {0} /\ q \in Nat \ {0} /\ Pow10[t] = p * q
    BY <2>1, PowRatio
  <2>3. k = t => q = 1
    <3>1. k = t => t - k = 0
      BY <2>1
    <3> QED BY <3>1, PowFacts
  <2> HIDE DEF p, q
  <2>4. x \in Int /\ c = x * p /\ (k = t => x = v)
    BY <2>2, <2>3
  <2> HIDE DEF x, c
  <2>5. (x * p) \div p = x /\ (x * p) % p = 0
    BY <2>2, <2>4, DivExactly
  <2> QED BY <2>4, <2>5 DEF p
<1>4. ASSUME NEW k \in 0..prec, k > t
      PROVE  c % Pow10[k] # 0
  <2>1. k \in 0..2*MaxPrec /\ t \in 0..2*MaxPrec /\ t # prec
    BY <1>1, <1>4
  <2>2. v % 10 # 0
    BY <2>1
  <2> HIDE DEF c
  <2>3. c = v * Pow10[t]
    BY DEF c
  <2> QED BY <1>4, <2>1, <2>2, <2>3, TenPowersDividing
<1> HIDE DEF c
<1>5. Cut(t)
  <2>1. t \in 0..t
    OBVIOUS
  <2>2. c % Pow10[t] = 0
    BY <1>3, <2>1
  <2>3. t # prec => c % Pow10[t + 1] # 0
    <3> SUFFICES ASSUME t # prec PROVE c % Pow10[t + 1] # 0
      OBVIOUS
    <3>1. t + 1 \in 0..prec /\ t + 1 > t
      BY <1>1
    <3> QED BY <1>4, <3>1
  <2> QED BY <2>2, <2>3
<1>6. ASSUME NEW u \in 0..prec, Cut(u) PROVE u = t
  <2>1. ~(u > t)
    BY <1>4, <1>6
  <2>2. ~(u < t)
    <3> SUFFICES ASSUME u < t PROVE FALSE
      OBVIOUS
    <3>1. u + 1 \in 0..t /\ u # prec
      BY <1>1
    <3> QED BY <1>3, <1>6, <3>1
  <2> QED BY <1>1, <2>1, <2>2
<1>7. cut = t
  <2> HIDE DEF Cut
  <2> QED BY <1>5, <1>6
<1>8. Trimmed(c, prec) = Ok(NewDecimal(c \div Pow10[t], IsNeg(lit), prec - t))
  BY <1>7 DEF Trimmed
<1>9. c \div Pow10[t] = v
  <2>1. t \in 0..t
    OBVIOUS
  <2> QED BY <1>3, <2>1
<1> QED BY <1>8, <1>9 DEF c

(* Zeros further on scale a number up, past 128 bits when they are more    *)
(* than the table has powers.                                              *)
LEMMA ZerosScale ==
  ASSUME NEW s \in Runs, NEW a \in 0..Len(s), NEW b \in a..Len(s), b - a <= 2*MaxPrec,
         \A i \in (a + 1)..b : s[i] = 0
  PROVE  Upto(s, b) = Upto(s, a) * Pow10[b - a]
<1> DEFINE t == SubSeq(s, a + 1, b)
<1>1. b - a \in 0..2*MaxPrec /\ Pow10[b - a] \in Nat \ {0} /\ Upto(s, a) \in Nat
      /\ Upto(s, b) = Upto(s, a) * Pow10[b - a] + DigitsVal(t)
  BY Slice
<1>2. t \in Runs /\ Len(t) = b - a /\ \A i \in 1..(b - a) : t[i] = s[a + i]
  BY Cutting
<1>3. Len(s) \in Nat /\ a \in Nat /\ b \in Nat
  BY DigitByDigit
<1>4. \A i \in (0 + 1)..(b - a) : t[i] = 0
  <2> SUFFICES ASSUME NEW i \in (0 + 1)..(b - a) PROVE t[i] = 0
    OBVIOUS
  <2>1. i \in 1..(b - a) /\ a + i \in (a + 1)..b
    BY <1>3
  <2> HIDE DEF t
  <2> QED BY <1>2, <2>1
<1> HIDE DEF t
<1>5. DigitsVal(t) = 0
  <2>1. 0 \in 0..Len(t) /\ Len(t) \in 0..Len(t) /\ Upto(t, 0) = 0 /\ Upto(t, Len(t)) = DigitsVal(t)
    BY <1>1, <1>2, DigitByDigit
  <2>2. \A i \in (0 + 1)..Len(t) : t[i] = 0
    BY <1>2, <1>4
  <2> QED BY <1>2, <2>1, <2>2, NeverFalls
<1> QED BY <1>1, <1>5

(* A number that is not zero, so many digits further on.                   *)
LEMMA FarUp ==
  ASSUME NEW s \in Runs, NEW a \in 0..Len(s), NEW b \in a..Len(s), b - a > 2*MaxPrec,
         Upto(s, a) # 0
  PROVE  Upto(s, b) >= Cap
<1> DEFINE m == 2*MaxPrec
           p == Pow10[m]
           x == Upto(s, a)
           y == Upto(s, a + m)
           z == Upto(s, (a + m) + 1)
<1>1. m \in Nat /\ Len(s) \in Nat /\ m \in 0..2*MaxPrec /\ a \in Nat /\ b \in Nat
  BY PowFacts, DigitByDigit
<1>2. p \in Nat /\ Cap < 10 * p /\ Cap \in Nat
  BY <1>1, TableAssumption, CapFacts
<1>3. x \in Nat /\ x >= 1
  BY DigitByDigit
<1>4. a + m \in a..Len(s) /\ (a + m) - a = m /\ a + m \in 0..(Len(s) - 1) /\ (a + m) - a <= 2*MaxPrec
      /\ (a + m) + 1 \in 0..Len(s) /\ b \in ((a + m) + 1)..Len(s)
  BY <1>1
<1>5. y \in Nat /\ y >= p
  <2>1. \E back \in Nat : y = x * Pow10[(a + m) - a] + back
    BY <1>4, Slice
  <2>2. PICK back \in Nat : y = x * p + back
    BY <1>4, <2>1
  <2> HIDE DEF p, x, y
  <2>3. x * p \in Nat /\ x * p >= p
    BY <1>2, <1>3
  <2> QED BY <1>2, <2>2, <2>3
<1>6. z >= 10 * y /\ z \in Nat
  <2>1. z = 10 * y + s[(a + m) + 1] /\ s[(a + m) + 1] \in 0..9
    BY <1>4, DigitByDigit
  <2> HIDE DEF y, z
  <2> QED BY <1>5, <2>1
<1>7. z <= Upto(s, b) /\ Upto(s, b) \in Nat
  BY <1>4, NeverFalls
<1> HIDE DEF m, p, y, z
<1> QED BY <1>2, <1>5, <1>6, <1>7

(* The first p digits of a number whose digits are s, with zeros where s   *)
(* has ended, and what truncating parsing gives when the last of these     *)
(* digits stands at the last place kept.                                   *)
Extended(s, p) == [i \in 1..p |-> IF i <= Len(s) THEN s[i] ELSE 0]
Trims(r) == Smaller(EndZeros(r), MaxPrec)
CutAnswer(r) ==
  IF EndZeros(r) = Len(r) THEN Ok(Zero)
  ELSE IF Upto(r, Len(r) - Trims(r)) < Cap
       THEN Ok(NewDecimal(Upto(r, Len(r) - Trims(r)), IsNeg(lit), MaxPrec - Trims(r)))
       ELSE Fail("Overflow")

(* A run of zeros is worth nothing.                                        *)
LEMMA AllZeros ==
  ASSUME NEW s \in Runs, NEW b \in 0..Len(s), EndZeros(s) >= Len(s)
  PROVE  Upto(s, b) = 0
<1>1. EndZeros(s) \in 0..Len(s) /\ Len(s) \in Nat /\ \A i \in (Len(s) - EndZeros(s) + 1)..Len(s) : s[i] = 0
  BY EndZerosFacts
<1>2. 0 \in 0..Len(s) /\ Upto(s, 0) = 0 /\ b \in 0..Len(s) /\ Len(s) - EndZeros(s) = 0
  BY <1>1, DigitByDigit
<1>3. \A i \in (0 + 1)..b : s[i] = 0
  <2> SUFFICES ASSUME NEW i \in (0 + 1)..b PROVE s[i] = 0
    OBVIOUS
  <2>1. i \in (Len(s) - EndZeros(s) + 1)..Len(s)
    BY <1>1, <1>2
  <2> QED BY <1>1, <2>1
<1> QED BY <1>2, <1>3, NeverFalls

(* How much is trimmed: zeros only, and no further than the last digit     *)
(* that is not zero unless precision is used up.                           *)
LEMMA TrimsFacts ==
  ASSUME NEW r \in Runs, EndZeros(r) # Len(r)
  PROVE  /\ Len(r) \in Nat /\ Trims(r) \in 0..MaxPrec /\ Len(r) - Trims(r) \in 1..Len(r)
         /\ \A i \in ((Len(r) - Trims(r)) + 1)..Len(r) : r[i] = 0
         /\ Trims(r) # MaxPrec => r[Len(r) - Trims(r)] # 0
         /\ \A i \in 1..Len(r) : r[i] # 0 => i <= Len(r) - Trims(r)
<1> DEFINE n == Len(r)
           z == EndZeros(r)
           t == Trims(r)
<1>1. /\ z \in 0..n /\ n \in Nat /\ z # n
      /\ \A i \in (n - z + 1)..n : r[i] = 0
      /\ z < n => r[n - z] # 0
  BY EndZerosFacts
<1>2. MaxPrec \in Nat
  BY PowFacts
<1>3. t = IF z <= MaxPrec THEN z ELSE MaxPrec
  BY <1>1, <1>2 DEF Smaller, Trims
<1> HIDE DEF n, z, t
<1>4. t \in 0..MaxPrec /\ n - t \in 1..n /\ t <= z /\ t \in Nat
  BY <1>1, <1>2, <1>3
<1>5. ASSUME NEW i \in ((n - t) + 1)..n PROVE r[i] = 0
  <2>1. i \in (n - z + 1)..n
    BY <1>1, <1>4
  <2> QED BY <1>1, <2>1
<1>6. ASSUME t # MaxPrec PROVE r[n - t] # 0
  <2>1. t = z /\ z < n
    BY <1>1, <1>3, <1>6
  <2> QED BY <1>1, <2>1
<1>7. ASSUME NEW i \in 1..n, r[i] # 0 PROVE i <= n - t
  <2> SUFFICES ASSUME ~(i <= n - t) PROVE FALSE
    OBVIOUS
  <2>1. i \in ((n - t) + 1)..n
    BY <1>1, <1>4
  <2> QED BY <1>5, <1>7, <2>1
<1> QED BY <1>1, <1>4, <1>5, <1>6, <1>7 DEF n, t

(* Trimming the number that stands before zeros gives the same.            *)
LEMMA AnswersTrimmed ==
  ASSUME NEW r \in Runs, NEW prec \in 0..MaxPrec, NEW j \in 0..Len(r),
         j = Len(r) - (MaxPrec - prec), Upto(r, j) < Cap, \A i \in (j + 1)..Len(r) : r[i] = 0
  PROVE  CutAnswer(r) = Trimmed(Upto(r, j), prec)
<1> DEFINE n == Len(r)
           t == Trims(r)
           k == n - t
           cut == t - (MaxPrec - prec)
           v == Upto(r, k)
<1>1. n \in Nat /\ MaxPrec \in Nat /\ Cap \in Nat
  BY DigitByDigit, PowFacts, CapFacts
<1>2. CASE EndZeros(r) = n
  <2>1. EndZeros(r) >= Len(r)
    BY <1>1, <1>2
  <2>2. Upto(r, j) = 0
    BY <2>1, AllZeros
  <2>3. CutAnswer(r) = Ok(Zero)
    BY <1>2 DEF CutAnswer
  <2> QED BY <2>2, <2>3, TrimmedZero
<1>3. CASE EndZeros(r) # n
  <2>1. /\ t \in 0..MaxPrec /\ k \in 1..n
        /\ \A i \in (k + 1)..n : r[i] = 0
        /\ t # MaxPrec => r[k] # 0
    BY <1>3, TrimsFacts
  <2>2. k <= j
    <3> SUFFICES ASSUME ~(k <= j) PROVE FALSE
      OBVIOUS
    <3>1. t # MaxPrec /\ k \in (j + 1)..n
      <4> HIDE DEF t
      <4> QED BY <1>1, <2>1
    <3> HIDE DEF k, t
    <3> QED BY <2>1, <3>1
  <2>3. cut \in 0..prec /\ cut = j - k /\ (cut # prec => t # MaxPrec) /\ k \in 0..n /\ j \in k..n
        /\ j - k <= 2*MaxPrec /\ MaxPrec - t = prec - cut
    <3> HIDE DEF t
    <3> QED BY <1>1, <2>1, <2>2
  <2>4. Upto(r, j) = v * Pow10[cut]
    <3>1. \A i \in (k + 1)..j : r[i] = 0
      <4> SUFFICES ASSUME NEW i \in (k + 1)..j PROVE r[i] = 0
        OBVIOUS
      <4>1. i \in (k + 1)..n
        <5> HIDE DEF k
        <5> QED BY <1>1, <2>3
      <4> HIDE DEF k
      <4> QED BY <2>1, <4>1
    <3> HIDE DEF k, cut
    <3>2. Upto(r, j) = Upto(r, k) * Pow10[j - k]
      BY <2>3, <3>1, ZerosScale DEF n
    <3> QED BY <2>3, <3>2
  <2>5. v \in Nat /\ v < Cap
    <3> HIDE DEF k
    <3>1. v <= Upto(r, j) /\ v \in Nat /\ Upto(r, j) \in Nat
      BY <2>3, NeverFalls
    <3> HIDE DEF v
    <3> QED BY <1>1, <3>1
  <2>6. cut # prec => v % 10 # 0
    <3> SUFFICES ASSUME cut # prec PROVE v % 10 # 0
      OBVIOUS
    <3> DEFINE h == k - 1
               x == Upto(r, h)
    <3>1. h \in 0..(n - 1) /\ h + 1 = k /\ h \in 0..n
      <4> HIDE DEF t
      <4> QED BY <1>1, <2>1
    <3> HIDE DEF h, k
    <3>2. v = 10 * x + r[k] /\ r[k] \in 0..9 /\ x \in Nat /\ r[k] # 0
      <4>1. Upto(r, h + 1) = 10 * Upto(r, h) + r[h + 1] /\ r[h + 1] \in 0..9
        BY <3>1, DigitByDigit
      <4>2. x \in Nat
        BY <3>1, DigitByDigit
      <4> QED BY <2>1, <2>3, <3>1, <4>1, <4>2
    <3> DEFINE d == r[k]
    <3> HIDE DEF v, x, d
    <3>3. v = 10 * x + d /\ d \in 1..9 /\ x \in Nat
      BY <3>2 DEF d
    <3>4. v % 10 = d
      <4>1. v \in Int /\ x \in Int /\ d \in 0..(10 - 1) /\ 10 \in Nat \ {0}
        BY <3>3
      <4> QED BY <3>3, <4>1, DivModUnique
    <3> QED BY <3>3, <3>4
  <2>7. Trimmed(v * Pow10[cut], prec) = Ok(NewDecimal(v, IsNeg(lit), prec - cut))
    <3> HIDE DEF v, cut
    <3> QED BY <2>3, <2>5, <2>6, TrimmedCut
  <2>8. CutAnswer(r) = Ok(NewDecimal(v, IsNeg(lit), MaxPrec - t))
    BY <1>3, <2>5 DEF CutAnswer
  <2> HIDE DEF v, cut, t
  <2> QED BY <2>3, <2>4, <2>7, <2>8
<1> QED BY <1>2, <1>3

(* What is past 128 bits before the digits that may be trimmed stays so.   *)
LEMMA AnswersOverflow ==
  ASSUME NEW r \in Runs, NEW j \in 0..Len(r), Upto(r, j) >= Cap,
         \/ j <= Len(r) - MaxPrec
         \/ \E i \in j..Len(r) : r[i] # 0 /\ i \in 1..Len(r)
  PROVE  CutAnswer(r) = Fail("Overflow")
<1> DEFINE n == Len(r)
           t == Trims(r)
           k == n - t
           v == Upto(r, k)
           u == Upto(r, j)
<1>1. n \in Nat /\ MaxPrec \in Nat /\ Cap \in Nat /\ Cap >= 16 /\ EndZeros(r) \in 0..n /\ u \in Nat
  <2>1. n \in Nat /\ u \in Nat /\ EndZeros(r) \in 0..n
    BY DigitByDigit, EndZerosFacts
  <2>2. MaxPrec \in Nat
    BY PowFacts
  <2> QED BY <2>1, <2>2, CapFacts
<1>2. EndZeros(r) # n
  <2> SUFFICES ASSUME EndZeros(r) = n PROVE FALSE
    OBVIOUS
  <2>1. u = 0
    BY <1>1, AllZeros
  <2> HIDE DEF u
  <2>2. u >= Cap
    BY DEF u
  <2> QED BY <1>1, <2>1, <2>2
<1>3. /\ t \in 0..MaxPrec /\ k \in 1..n
      /\ \A i \in 1..n : r[i] # 0 => i <= k
  BY <1>2, TrimsFacts
<1>4. j <= k /\ k \in 0..n /\ k \in j..n
  <2>1. CASE j <= n - MaxPrec
    <3> HIDE DEF t
    <3> QED BY <1>1, <1>3, <2>1
  <2>2. CASE \E i \in j..Len(r) : r[i] # 0 /\ i \in 1..Len(r)
    <3>1. PICK i \in j..n : r[i] # 0 /\ i \in 1..n
      BY <2>2
    <3>2. i <= k
      <4> HIDE DEF k
      <4> QED BY <1>3, <3>1
    <3> HIDE DEF t
    <3> QED BY <1>1, <1>3, <3>1, <3>2
  <2> QED BY <2>1, <2>2
<1>5. u <= v /\ v \in Nat
  <2> HIDE DEF k
  <2> QED BY <1>4, NeverFalls
<1>6. ~(v < Cap)
  <2> HIDE DEF u, v
  <2>1. u >= Cap
    BY DEF u
  <2> QED BY <1>1, <1>5, <2>1
<1> QED BY <1>2, <1>6 DEF CutAnswer

(* Digits of a number extended or cut short.                               *)
LEMMA ExtendedIs ==
  ASSUME NEW s \in Runs, NEW p \in Int
  PROVE  /\ Extended(s, p) \in Runs /\ Len(Extended(s, p)) \in Nat /\ Len(s) \in Nat
         /\ p >= 0 => Len(Extended(s, p)) = p
         /\ p <= 0 => Len(Extended(s, p)) = 0
         /\ \A i \in 1..p : i <= Len(s) => Extended(s, p)[i] = s[i]
         /\ \A i \in 1..p : ~(i <= Len(s)) => Extended(s, p)[i] = 0
<1> DEFINE digit(i) == IF i <= Len(s) THEN s[i] ELSE 0
<1>1. Len(s) \in Nat /\ \A i \in 1..Len(s) : s[i] \in 0..9
  BY DEF Runs
<1>2. \A i \in Nat \ {0} : digit(i) \in 0..9
  <2> SUFFICES ASSUME NEW i \in Nat \ {0} PROVE digit(i) \in 0..9
    OBVIOUS
  <2>1. CASE i <= Len(s)
    <3>1. i \in 1..Len(s)
      BY <1>1, <2>1
    <3> QED BY <1>1, <2>1, <3>1
  <2>2. CASE ~(i <= Len(s))
    BY <2>2
  <2> QED BY <2>1, <2>2
<1> HIDE DEF digit
<1>3. PICK n \in Nat : 1..p = 1..n /\ (p >= 0 => n = p) /\ (p <= 0 => n = 0)
  <2>1. CASE p >= 0
    BY <2>1
  <2>2. CASE ~(p >= 0)
    <3>1. 1..p = 1..0
      BY <2>2
    <3> QED BY <2>2, <3>1
  <2> QED BY <2>1, <2>2
<1>4. Extended(s, p) = [i \in 1..n |-> digit(i)]
  BY <1>3 DEF Extended, digit
<1> DEFINE e == [i \in 1..n |-> digit(i)]
<1>5. e \in Runs /\ Len(e) = n
  <2>1. \A i \in 1..n : digit(i) \in 0..9
    BY <1>2
  <2> QED BY <2>1 DEF Runs
<1>6. \A i \in 1..p : e[i] = digit(i)
  BY <1>3
<1> HIDE DEF e
<1>7. \A i \in 1..p : (i <= Len(s) => e[i] = s[i]) /\ (~(i <= Len(s)) => e[i] = 0)
  BY <1>6 DEF digit
<1>8. Extended(s, p) = e
  BY <1>4 DEF e
<1> QED BY <1>1, <1>3, <1>5, <1>7, <1>8

(* How many digits there are down to the last place kept, under the       *)
(* exponent x.                                                             *)
CutPlaces(x) == (Len(Mantissa(lit)) - Len(lit.frac)) + x + MaxPrec
(* The digits of the property are those of the whole mantissa, without the *)
(* zeros in front.                                                         *)
LEMMA CutOffStands ==
  ASSUME IsLiteral(lit)
  PROVE  LET sig == Significant(lit)
             cut == CutOff(lit)
             p == CutPlaces(Exp10(lit))
             r == Extended(Mantissa(lit), p)
         IN  /\ sig \in Runs /\ cut \in Runs /\ p \in Int
             /\ \E d \in Nat : /\ \A i \in 1..Len(r) : i <= d => r[i] = 0
                               /\ p <= d => Len(cut) = 0
                               /\ p > d => /\ cut = SubSeq(r, d + 1, p)
                                           /\ sig = <<>> => \A i \in 1..Len(cut) : cut[i] = 0
                                           /\ sig # <<>> => cut[1] # 0
<1> DEFINE M == Mantissa(lit)
           L == Len(M)
           Z == EndZeros(M)
           K == Kept(lit)
           sig == Significant(lit)
           e == Exp10(lit)
           f == Len(lit.frac)
           p == CutPlaces(e)
           r == Extended(M, p)
           places == Len(sig) + Z - f + e + MaxPrec
           cut == Extended(sig, places)
<1>1. M \in Runs /\ K = Stem(M) /\ sig = Unled(K) /\ CutOff(lit) = cut
  BY MantissaFacts DEF Kept, Stem, Significant, Unled, CutOff, Extended
<1>2. /\ Z \in 0..L /\ L \in Nat /\ e \in Int /\ f \in Nat /\ MaxPrec \in Nat
      /\ \A i \in (L - Z + 1)..L : M[i] = 0
  BY <1>1, EndZerosFacts, ExponentRead, LiteralBytes, PowFacts
<1>3. K \in Runs /\ Len(K) = L - Z /\ \A i \in 1..(L - Z) : K[i] = M[i]
  <2>1. 0 \in 0..L /\ L - Z \in 0..L /\ 0 + 1 = 1 /\ (L - Z) - 0 = L - Z /\ \A i \in 1..(L - Z) : 0 + i = i
    <3> HIDE DEF L, Z
    <3> QED BY <1>2
  <2>2. K = SubSeq(M, 0 + 1, L - Z)
    BY <1>1, <2>1 DEF Stem
  <2> HIDE DEF K, M
  <2>3. K \in Runs /\ Len(K) = (L - Z) - 0 /\ \A i \in 1..((L - Z) - 0) : K[i] = M[0 + i]
    BY <1>1, <2>1, <2>2, Cutting
  <2> QED BY <2>1, <2>3
<1>4. PICK d \in 0..Len(K) : /\ sig = SubSeq(K, d + 1, Len(K)) /\ (\A i \in 1..d : K[i] = 0)
                             /\ d # Len(K) => K[d + 1] # 0
  BY <1>1, <1>3, UnledIs
<1>5. sig \in Runs /\ Len(sig) = (L - Z) - d /\ \A i \in 1..((L - Z) - d) : sig[i] = K[d + i]
  <2>1. Len(K) \in d..Len(K)
    BY <1>2, <1>3
  <2> HIDE DEF K, sig
  <2>2. sig \in Runs /\ Len(sig) = Len(K) - d /\ \A i \in 1..(Len(K) - d) : sig[i] = K[d + i]
    BY <1>3, <1>4, <2>1, Cutting
  <2> QED BY <1>3, <2>2
<1> DEFINE k == Len(sig)
<1>6. /\ d \in Nat /\ k \in Nat /\ d + k = L - Z /\ p \in Int /\ places \in Int /\ places = p - d
      /\ d + k <= L
  <2>1. d \in 0..(L - Z) /\ k = (L - Z) - d
    BY <1>3, <1>4, <1>5
  <2>2. p = (L - f) + e + MaxPrec /\ places = k + Z - f + e + MaxPrec
    BY DEF CutPlaces
  <2> HIDE DEF L, Z, e, f, k, p, places
  <2> QED BY <1>2, <2>1, <2>2
<1>7. /\ r \in Runs /\ (p >= 0 => Len(r) = p) /\ (p <= 0 => Len(r) = 0)
      /\ \A i \in 1..p : i <= L => r[i] = M[i]
      /\ \A i \in 1..p : ~(i <= L) => r[i] = 0
  <2> HIDE DEF M, p
  <2> QED BY <1>1, <1>6, ExtendedIs
<1>8. /\ cut \in Runs /\ (places >= 0 => Len(cut) = places) /\ (places <= 0 => Len(cut) = 0)
      /\ \A i \in 1..places : i <= k => cut[i] = sig[i]
      /\ \A i \in 1..places : ~(i <= k) => cut[i] = 0
  <2> HIDE DEF sig, places
  <2> QED BY <1>5, <1>6, ExtendedIs
<1>9. sig = <<>> <=> k = 0
  <2> HIDE DEF sig
  <2> QED BY <1>5, EmptySeq DEF Runs
<1> HIDE DEF M, L, Z, K, sig, e, f, p, r, places, cut, k
<1>10. ASSUME NEW i \in 1..d PROVE i \in 1..L /\ M[i] = 0
  <2>1. i \in 1..(L - Z) /\ i \in 1..L
    BY <1>2, <1>6
  <2> QED BY <1>3, <1>4, <2>1
<1>11. ASSUME NEW i \in 1..Len(r), i <= d PROVE r[i] = 0
  <2>1. i \in 1..d /\ i \in 1..p
    BY <1>6, <1>7, <1>11
  <2>2. i <= L
    BY <1>2, <1>6, <1>11
  <2> QED BY <1>7, <1>10, <2>1, <2>2
<1>12. p <= d => Len(cut) = 0
  BY <1>6, <1>8
<1>13. ASSUME p > d
       PROVE  /\ cut = SubSeq(r, d + 1, p)
              /\ sig = <<>> => \A i \in 1..Len(cut) : cut[i] = 0
              /\ sig # <<>> => cut[1] # 0
  <2>1. Len(r) = p /\ Len(cut) = p - d /\ d \in 0..Len(r) /\ p \in d..Len(r) /\ places = p - d
    BY <1>6, <1>7, <1>8, <1>13
  <2> DEFINE w == SubSeq(r, d + 1, p)
  <2>2. w \in Runs /\ Len(w) = p - d /\ \A i \in 1..(p - d) : w[i] = r[d + i]
    BY <1>7, <2>1, Cutting
  <2>3. ASSUME NEW i \in 1..(p - d) PROVE cut[i] = r[d + i]
    <3>1. d + i \in 1..p /\ i \in 1..places /\ i \in Nat
      BY <1>6, <2>1
    <3>2. CASE i <= k
      <4>1. i \in 1..((L - Z) - d) /\ d + i \in 1..(L - Z) /\ d + i <= L
        BY <1>2, <1>6, <3>1, <3>2
      <4>2. cut[i] = sig[i] /\ sig[i] = K[d + i] /\ K[d + i] = M[d + i] /\ r[d + i] = M[d + i]
        BY <1>3, <1>5, <1>7, <1>8, <3>1, <3>2, <4>1
      <4> QED BY <4>2
    <3>3. CASE ~(i <= k)
      <4>1. cut[i] = 0
        BY <1>8, <3>1, <3>3
      <4>2. CASE d + i <= L
        <5>1. d + i \in (L - Z + 1)..L
          BY <1>2, <1>6, <3>1, <3>3, <4>2
        <5> QED BY <1>2, <1>7, <3>1, <4>1, <4>2, <5>1
      <4>3. CASE ~(d + i <= L)
        BY <1>7, <3>1, <4>1, <4>3
      <4> QED BY <4>2, <4>3
    <3> QED BY <3>2, <3>3
  <2>4. cut = w
    <3> HIDE DEF w
    <3>1. Len(cut) = Len(w) /\ cut \in Seq(0..9) /\ w \in Seq(0..9)
      BY <1>8, <2>1, <2>2 DEF Runs
    <3>2. \A i \in 1..Len(cut) : cut[i] = w[i]
      BY <2>1, <2>2, <2>3
    <3> QED BY <3>1, <3>2, SeqEqual
  <2>5. ASSUME sig = <<>> PROVE \A i \in 1..Len(cut) : cut[i] = 0
    <3>1. k = 0
      BY <1>9, <2>5
    <3>2. \A i \in 1..places : ~(i <= k)
      BY <1>6, <3>1
    <3> QED BY <1>8, <2>1, <3>2
  <2>6. ASSUME sig # <<>> PROVE cut[1] # 0
    <3>1. k # 0
      BY <1>9, <2>6
    <3>2. 1 \in 1..places /\ 1 <= k /\ 1 \in 1..((L - Z) - d) /\ d # L - Z
      BY <1>2, <1>6, <1>13, <2>1, <3>1
    <3> QED BY <1>3, <1>4, <1>5, <1>8, <3>2
  <2> QED BY <2>4, <2>5, <2>6
<1> QED
  BY <1>1, <1>5, <1>6, <1>8, <1>11, <1>12, <1>13 DEF M, sig, cut, p, r, e

(* So the property asks for what stands before the zeros that may be       *)
(* trimmed, whatever zeros the number begins with.                         *)
LEMMA CutOffMeans ==
  ASSUME IsLiteral(lit), GrammarErr(lit) = "nil"
  PROVE  CutResult(lit) = CutAnswer(Extended(Mantissa(lit), CutPlaces(Exp10(lit))))
<1> DEFINE sig == Significant(lit)
           cut == CutOff(lit)
           p == CutPlaces(Exp10(lit))
           r == Extended(Mantissa(lit), p)
           trim == Smaller(EndZeros(cut), MaxPrec)
           shown == SubSeq(cut, 1, Len(cut) - trim)
           v == DigitsVal(shown)
           answer == IF sig = <<>> \/ EndZeros(cut) = Len(cut) THEN Ok(Zero)
                     ELSE IF Len(shown) <= 2*MaxPrec + 1 /\ v < Cap
                          THEN Ok(NewDecimal(v, IsNeg(lit), MaxPrec - trim))
                          ELSE Fail("Overflow")
<1>1. CutResult(lit) = answer
  BY DEF CutResult
<1>2. /\ sig \in Runs /\ cut \in Runs /\ p \in Int
      /\ \E d \in Nat : /\ \A i \in 1..Len(r) : i <= d => r[i] = 0
                        /\ p <= d => Len(cut) = 0
                        /\ p > d => /\ cut = SubSeq(r, d + 1, p)
                                    /\ sig = <<>> => \A i \in 1..Len(cut) : cut[i] = 0
                                    /\ sig # <<>> => cut[1] # 0
  BY CutOffStands
<1>3. PICK d \in Nat : /\ \A i \in 1..Len(r) : i <= d => r[i] = 0
                       /\ p <= d => Len(cut) = 0
                       /\ p > d => /\ cut = SubSeq(r, d + 1, p)
                                   /\ sig = <<>> => \A i \in 1..Len(cut) : cut[i] = 0
                                   /\ sig # <<>> => cut[1] # 0
  BY <1>2
<1>4. r \in Runs /\ Len(r) \in Nat /\ (p >= 0 => Len(r) = p) /\ (p <= 0 => Len(r) = 0)
  <2>1. Mantissa(lit) \in Runs
    BY MantissaFacts
  <2> HIDE DEF p
  <2> QED BY <1>2, <2>1, ExtendedIs
<1>5. EndZeros(cut) \in 0..Len(cut) /\ Len(cut) \in Nat /\ MaxPrec \in Nat /\ Cap \in Nat
  BY <1>2, EndZerosFacts, PowFacts, CapFacts
<1> HIDE DEF sig, cut, p, r
<1>6. ASSUME \A i \in 1..Len(r) : r[i] = 0 PROVE CutAnswer(r) = Ok(Zero)
  <2>1. Len(r) \in 0..Len(r) /\ \A i \in ((Len(r) - Len(r)) + 1)..Len(r) : r[i] = 0
    <3>1. \A i \in ((Len(r) - Len(r)) + 1)..Len(r) : i \in 1..Len(r)
      BY <1>4
    <3> QED BY <1>4, <1>6, <3>1
  <2>2. EndZeros(r) = Len(r)
    BY <1>4, <2>1, EndZerosAre
  <2> QED BY <2>2 DEF CutAnswer
<1>7. CASE p <= d
  <2>1. \A i \in 1..Len(r) : i <= d
    BY <1>2, <1>4, <1>7
  <2>2. CutAnswer(r) = Ok(Zero)
    BY <1>3, <1>6, <2>1
  <2>3. EndZeros(cut) = Len(cut)
    BY <1>3, <1>5, <1>7
  <2>4. answer = Ok(Zero)
    BY <2>3
  <2> HIDE DEF answer
  <2> QED BY <1>1, <2>2, <2>4 DEF r, p
<1>8. CASE p > d
  <2> DEFINE n == p - d
  <2>1. p \in Nat /\ Len(r) = p /\ d \in 0..Len(r) /\ p \in d..Len(r) /\ n \in Nat /\ n >= 1
    BY <1>2, <1>4, <1>8
  <2>2. /\ cut = SubSeq(r, d + 1, p) /\ Len(cut) = n
        /\ \A i \in 1..n : cut[i] = r[d + i]
    <3> DEFINE w == SubSeq(r, d + 1, p)
    <3>1. Len(w) = p - d /\ \A i \in 1..(p - d) : w[i] = r[d + i]
      BY <1>4, <2>1, Cutting
    <3>2. cut = w
      BY <1>3, <1>8
    <3> QED BY <3>1, <3>2
  <2> HIDE DEF n
  <2>3. n = p - d
    BY DEF n
  <2>4. ASSUME EndZeros(cut) = Len(cut)
        PROVE  CutAnswer(r) = Ok(Zero)
    <3>1. \A i \in ((Len(cut) - EndZeros(cut)) + 1)..Len(cut) : cut[i] = 0
      BY <1>2, EndZerosFacts
    <3>2. ASSUME NEW i \in 1..Len(r) PROVE r[i] = 0
      <4>1. CASE i <= d
        BY <1>3, <4>1
      <4>2. CASE ~(i <= d)
        <5>1. i - d \in 1..n /\ d + (i - d) = i
          BY <2>1, <2>3, <4>2
        <5>2. i - d \in ((Len(cut) - EndZeros(cut)) + 1)..Len(cut)
          <6>1. (Len(cut) - EndZeros(cut)) + 1 = 1 /\ Len(cut) = n
            <7>1. Len(cut) = n
              BY <2>2, Zenon
            <7>2. EndZeros(cut) = n
              BY <2>4, <7>1, Zenon
            <7>3. n - n + 1 = 1
              BY <2>1
            <7> QED BY <7>1, <7>2, <7>3, Zenon
          <6> QED BY <5>1, <6>1
        <5> QED BY <2>2, <3>1, <5>1, <5>2
      <4> QED BY <4>1, <4>2
    <3> QED BY <1>6, <3>2
  <2>5. CASE sig = <<>> \/ EndZeros(cut) = Len(cut)
    <3>1. EndZeros(cut) = Len(cut)
      <4> SUFFICES ASSUME sig = <<>> PROVE EndZeros(cut) = Len(cut)
        BY <2>5
      <4>1. \A i \in 1..Len(cut) : cut[i] = 0
        BY <1>3, <1>8
      <4>2. Len(cut) \in 0..Len(cut) /\ \A i \in ((Len(cut) - Len(cut)) + 1)..Len(cut) : cut[i] = 0
        <5>1. \A i \in ((Len(cut) - Len(cut)) + 1)..Len(cut) : i \in 1..Len(cut)
          BY <1>5
        <5> QED BY <1>5, <4>1, <5>1
      <4> QED BY <1>2, <4>2, EndZerosAre
    <3>2. answer = Ok(Zero)
      BY <3>1
    <3> HIDE DEF answer
    <3> QED BY <1>1, <2>4, <3>1, <3>2 DEF r, p
  <2>6. CASE ~(sig = <<>> \/ EndZeros(cut) = Len(cut))
    <3> DEFINE z == EndZeros(cut)
    <3>1. /\ z \in 0..n /\ z < n /\ \A i \in ((n - z) + 1)..n : cut[i] = 0
          /\ cut[n - z] # 0 /\ cut[1] # 0
      <4>1. z \in 0..n /\ z < n
        <5>1. EndZeros(cut) # Len(cut) /\ Len(cut) = n
          BY <2>2, <2>6
        <5> QED BY <1>5, <2>1, <5>1
      <4>2. (\A i \in ((n - z) + 1)..n : cut[i] = 0) /\ cut[n - z] # 0
        BY <1>2, <2>2, <4>1, EndZerosFacts
      <4> QED BY <1>3, <1>8, <2>6, <4>1, <4>2
    <3> HIDE DEF z
    <3>2. EndZeros(r) = z
      <4>1. z \in 0..Len(r) /\ z # Len(r) /\ Len(r) - z = d + (n - z) /\ n - z \in 1..n
        BY <2>1, <2>3, <3>1
      <4>2. r[Len(r) - z] # 0
        BY <2>2, <3>1, <4>1
      <4>3. ASSUME NEW i \in ((Len(r) - z) + 1)..Len(r) PROVE r[i] = 0
        <5>1. i - d \in ((n - z) + 1)..n /\ d + (i - d) = i /\ i - d \in 1..n
          BY <2>1, <2>3, <3>1
        <5> QED BY <2>2, <3>1, <5>1
      <4> QED BY <1>4, <4>1, <4>2, <4>3, EndZerosAre
    <3>3. trim = Trims(r) /\ trim = IF z <= MaxPrec THEN z ELSE MaxPrec
      BY <3>2 DEF Trims, z, Smaller
    <3> HIDE DEF trim
    <3> DEFINE k == n - trim
    <3>4. trim \in Nat /\ k \in 1..n /\ Len(r) - trim = d + k /\ d + k \in d..Len(r) /\ k \in 0..(p - d) /\ 0 \in 0..k
          /\ k \in 0..Len(cut)
      BY <1>5, <2>1, <2>2, <2>3, <3>1, <3>3
    <3> HIDE DEF k
    <3>5. shown = SubSeq(cut, 1, k)
      BY <2>2 DEF k
    <3>6. v = Upto(r, Len(r) - trim)
      <4>1. shown = SubSeq(r, d + 1, d + k)
        <5>1. SubSeq(SubSeq(r, d + 1, p), 0 + 1, k) = SubSeq(r, (d + 0) + 1, d + k)
          <6>1. 0 \in 0..(p - d) /\ k \in 0..(p - d)
            BY <2>1, <3>4
          <6> QED BY <1>4, <2>1, <6>1, Reslice
        <5>2. d + 0 = d /\ 0 + 1 = 1
          BY <2>1
        <5> QED BY <2>2, <3>5, <5>1, <5>2
      <4>2. \A i \in 1..d : r[i] = 0
        <5>1. \A i \in 1..d : i \in 1..Len(r) /\ i <= d
          BY <2>1
        <5> QED BY <1>3, <5>1
      <4>3. Upto(r, d + k) = DigitsVal(SubSeq(r, d + 1, d + k))
        BY <1>4, <2>1, <3>4, <4>2, SkipZeros
      <4> QED BY <3>4, <4>1, <4>3
    <3>7. (Len(shown) <= 2*MaxPrec + 1 /\ v < Cap) <=> v < Cap
      <4>1. shown \in Runs /\ Len(shown) = k /\ shown[1] = cut[1]
        <5>1. k \in 0..Len(cut) /\ 0 \in 0..Len(cut) /\ 0 + 1 = 1 /\ k - 0 = k /\ 1 \in 1..k /\ k \in 0..Len(cut)
          BY <1>5, <3>4
        <5> DEFINE w == SubSeq(cut, 0 + 1, k)
        <5>2. w \in Runs /\ Len(w) = k - 0 /\ \A i \in 1..(k - 0) : w[i] = cut[0 + i]
          BY <1>2, <5>1, Cutting
        <5>3. w = shown
          BY <3>5, <5>1
        <5> HIDE DEF w, shown
        <5>4. w[1] = cut[0 + 1] /\ Len(w) = k
          BY <5>1, <5>2
        <5>5. w[1] = cut[1]
          BY <5>1, <5>4
        <5> QED BY <5>2, <5>3, <5>4, <5>5
      <4>2. ASSUME ~(Len(shown) <= 2*MaxPrec + 1) PROVE ~(v < Cap)
        <5> HIDE DEF shown
        <5>1. Len(shown) > 2*MaxPrec + 1
          BY <1>5, <3>4, <4>1, <4>2
        <5>2. v >= Cap
          BY <3>1, <4>1, <5>1, ManyDigits
        <5>3. v \in Nat
          BY <4>1, DigitByDigit
        <5> HIDE DEF v
        <5> QED BY <1>5, <5>2, <5>3
      <4> QED BY <4>2
    <3> HIDE DEF v
    <3>8. answer = IF v < Cap THEN Ok(NewDecimal(v, IsNeg(lit), MaxPrec - trim)) ELSE Fail("Overflow")
      BY <2>6, <3>7
    <3>9. CutAnswer(r) = IF v < Cap THEN Ok(NewDecimal(v, IsNeg(lit), MaxPrec - trim)) ELSE Fail("Overflow")
      <4>1. EndZeros(r) # Len(r)
        BY <2>1, <2>3, <3>1, <3>2
      <4> QED BY <3>3, <3>6, <4>1 DEF CutAnswer
    <3> HIDE DEF answer
    <3> QED BY <1>1, <3>8, <3>9 DEF r, p
  <2> QED BY <2>5, <2>6
<1> QED
  <2>1. p <= d \/ p > d
    BY <1>2
  <2> QED BY <1>7, <1>8, <2>1

(* Those digits.                                                           *)
Placed(x) == Extended(Mantissa(lit), CutPlaces(x))
(* They are those of the mantissa, then zeros.                             *)
LEMMA PlacedIs ==
  ASSUME IsLiteral(lit), GrammarErr(lit) = "nil", NEW x \in Int
  PROVE  LET M == Mantissa(lit)
             L == Len(M)
             f == Len(lit.frac)
             p == CutPlaces(x)
             r == Placed(x)
         IN  /\ M \in Runs /\ L \in Nat /\ L <= MaxParseLen /\ f \in 0..L /\ MaxParseLen \in Nat
             /\ p \in Int /\ p = (L - f) + x + MaxPrec
             /\ r \in Runs /\ Len(r) \in Nat /\ (p >= 0 => Len(r) = p) /\ (p <= 0 => Len(r) = 0)
             /\ \A i \in 1..Len(r) : i <= L => r[i] = M[i]
             /\ \A i \in 1..Len(r) : ~(i <= L) => r[i] = 0
             /\ \A j \in 0..Len(r) : j <= L => Upto(r, j) = Upto(M, j)
<1> DEFINE M == Mantissa(lit)
           L == Len(M)
           f == Len(lit.frac)
           n == Bytes(lit)
           p == CutPlaces(x)
           r == Placed(x)
<1>1. M \in Runs /\ L = lit.zeros + Len(lit.int) + f /\ f \in Nat /\ lit.zeros \in Nat /\ Len(lit.int) \in Nat
      /\ lit.zeros + Len(lit.int) + f <= n /\ n \in Nat
  BY MantissaFacts, LiteralBytes
<1>2. MaxParseLen \in Nat /\ MaxPrec \in Nat
  BY ParserAssumption, PowFacts
<1>3. ~(n > MaxParseLen)
  BY DEF GrammarErr
<1>4. p = (L - f) + x + MaxPrec
  BY DEF CutPlaces
<1> HIDE DEF L, f, n, p
<1>5. L \in Nat /\ L <= MaxParseLen /\ f \in 0..L
  BY <1>1, <1>2, <1>3
<1>6. p \in Int
  BY <1>2, <1>4, <1>5
<1>7. /\ r \in Runs /\ Len(r) \in Nat /\ (p >= 0 => Len(r) = p) /\ (p <= 0 => Len(r) = 0)
      /\ \A i \in 1..p : i <= Len(M) => r[i] = M[i]
      /\ \A i \in 1..p : ~(i <= Len(M)) => r[i] = 0
  <2>1. r = Extended(M, p)
    BY DEF Placed, p
  <2> HIDE DEF r, M
  <2> QED BY <1>1, <1>6, <2>1, ExtendedIs
<1>8. L = Len(M)
  BY DEF L
<1> HIDE DEF r, M
<1>9. \A i \in 1..Len(r) : (i <= L => r[i] = M[i]) /\ (~(i <= L) => r[i] = 0)
  <2>1. \A i \in 1..Len(r) : i \in 1..p
    BY <1>6, <1>7
  <2> QED BY <1>7, <1>8, <2>1
<1>10. ASSUME NEW j \in 0..Len(r), j <= L PROVE Upto(r, j) = Upto(M, j)
  <2>1. \A i \in 1..j : i \in 1..Len(r) /\ i <= L
    BY <1>5, <1>7, <1>10
  <2>2. \A i \in 1..j : r[i] = M[i]
    BY <1>9, <2>1
  <2> QED BY <1>1, <1>7, <1>8, <1>10, <2>2, SamePrefix
<1> QED BY <1>1, <1>2, <1>4, <1>5, <1>6, <1>7, <1>9, <1>10 DEF M, L, f, p, r

(* No digit of a negative place is kept.                                   *)
LEMMA AnswersNothing ==
  ASSUME IsLiteral(lit), GrammarErr(lit) = "nil", NEW x \in Int, CutPlaces(x) <= 0
  PROVE  CutAnswer(Placed(x)) = Ok(Zero)
<1> DEFINE r == Placed(x)
<1>1. r \in Runs /\ Len(r) = 0
  BY PlacedIs
<1> HIDE DEF r
<1>2. EndZeros(r) = 0
  BY <1>1, EndZerosFacts
<1>3. CutAnswer(r) = Ok(Zero)
  BY <1>1, <1>2 DEF CutAnswer
<1> QED BY <1>3 DEF r

(* Places left over behind the digits: the coefficient is what they show.  *)
LEMMA InRangeAnswer ==
  ASSUME IsLiteral(lit), GrammarErr(lit) = "nil", NEW x \in Int,
         NEW k \in 0..Len(Mantissa(lit)), Upto(Mantissa(lit), k) < Cap,
         NEW eff \in 0..MaxPrec, CutPlaces(x) = k + (MaxPrec - eff), Stops(Mantissa(lit), k, MaxPrec - eff)
  PROVE  CutAnswer(Placed(x)) = Trimmed(Upto(Mantissa(lit), k), eff)
<1> DEFINE M == Mantissa(lit)
           L == Len(M)
           p == CutPlaces(x)
           r == Placed(x)
<1>1. /\ M \in Runs /\ L \in Nat /\ p \in Int
      /\ r \in Runs /\ Len(r) \in Nat /\ (p >= 0 => Len(r) = p)
      /\ \A i \in 1..Len(r) : i <= L => r[i] = M[i]
      /\ \A i \in 1..Len(r) : ~(i <= L) => r[i] = 0
      /\ \A j \in 0..Len(r) : j <= L => Upto(r, j) = Upto(M, j)
  BY PlacedIs
<1>2. MaxPrec \in Nat /\ k \in 0..L /\ p = k + (MaxPrec - eff)
  BY PowFacts
<1>3. k < L => \A q \in (k + 1)..L : q <= k + (MaxPrec - eff) => M[q] = 0
  BY DEF Stops
<1>4. Upto(M, k) < Cap
  OBVIOUS
<1> HIDE DEF M, L, p, r
<1>5. Len(r) = p /\ k \in 0..Len(r) /\ k <= L /\ k = Len(r) - (MaxPrec - eff)
  BY <1>1, <1>2
<1>6. Upto(r, k) = Upto(M, k)
  BY <1>1, <1>5
<1>7. ASSUME NEW i \in (k + 1)..Len(r) PROVE r[i] = 0
  <2>1. i \in 1..Len(r)
    BY <1>2, <1>5
  <2>2. CASE i <= L
    <3>1. k < L /\ i \in (k + 1)..L /\ i <= k + (MaxPrec - eff)
      BY <1>1, <1>2, <1>5, <2>2
    <3> QED BY <1>1, <1>3, <2>1, <2>2, <3>1
  <2>3. CASE ~(i <= L)
    BY <1>1, <2>1, <2>3
  <2> QED BY <2>2, <2>3
<1>8. CutAnswer(r) = Trimmed(Upto(r, k), eff)
  <2>1. Upto(r, k) < Cap
    BY <1>4, <1>6
  <2> QED BY <1>1, <1>5, <1>7, <2>1, AnswersTrimmed
<1> QED BY <1>6, <1>8 DEF M, r

(* More places than are kept: what is left of the coefficient once the     *)
(* digits of the others are divided away.                                  *)
LEMMA ExcessAnswer ==
  ASSUME IsLiteral(lit), GrammarErr(lit) = "nil", NEW x \in Int,
         NEW k \in 0..Len(Mantissa(lit)), NEW c, c = Upto(Mantissa(lit), k), c < Cap,
         NEW excess \in Nat \ {0}, CutPlaces(x) = k - excess
  PROVE  /\ excess > 2*MaxPrec => CutAnswer(Placed(x)) = Ok(Zero)
         /\ excess <= 2*MaxPrec => CutAnswer(Placed(x)) = Trimmed(c \div Pow10[excess], MaxPrec)
<1> DEFINE M == Mantissa(lit)
           L == Len(M)
           p == CutPlaces(x)
           r == Placed(x)
           g == excess
<1>1. /\ M \in Runs /\ L \in Nat /\ p \in Int
      /\ r \in Runs /\ Len(r) \in Nat /\ (p >= 0 => Len(r) = p)
      /\ \A j \in 0..Len(r) : j <= L => Upto(r, j) = Upto(M, j)
  BY PlacedIs
<1>2. MaxPrec \in Nat /\ Cap \in Nat /\ k \in 0..L /\ k \in Nat /\ p = k - g /\ c = Upto(M, k) /\ c \in Nat
  <2>1. c \in Nat
    BY <1>1, DigitByDigit
  <2>2. MaxPrec \in Nat /\ Cap \in Nat
    BY PowFacts, CapFacts
  <2> QED BY <1>1, <2>1, <2>2
<1>3. MaxPrec \in 0..MaxPrec
  BY <1>2
<1>4. p <= 0 => CutAnswer(r) = Ok(Zero)
  BY AnswersNothing
<1> HIDE DEF M, L, p, r
<1>5. CASE p >= 0
  <2> DEFINE u == Upto(M, p)
  <2>1. Len(r) = p /\ p \in 0..Len(r) /\ p \in 0..L /\ p <= L /\ k \in p..L /\ k - p = g /\ p = Len(r) - (MaxPrec - MaxPrec)
    BY <1>1, <1>2, <1>5
  <2>2. Upto(r, p) = u
    BY <1>1, <2>1
  <2>3. u <= c /\ u \in Nat
    BY <1>1, <1>2, <2>1, NeverFalls DEF L
  <2>4. u < Cap
    <3> HIDE DEF u
    <3>1. c < Cap
      OBVIOUS
    <3> QED BY <1>2, <2>3, <3>1
  <2>5. CutAnswer(r) = Trimmed(u, MaxPrec)
    <3>1. \A i \in (p + 1)..Len(r) : r[i] = 0
      BY <1>1, <2>1
    <3> HIDE DEF u
    <3>2. Upto(r, p) < Cap
      BY <2>2, <2>4
    <3> QED BY <1>1, <1>3, <2>1, <2>2, <3>1, <3>2, AnswersTrimmed
  <2>6. ASSUME g > 2*MaxPrec PROVE u = 0
    <3> SUFFICES ASSUME u # 0 PROVE FALSE
      OBVIOUS
    <3>1. k - p > 2*MaxPrec
      BY <2>1, <2>6
    <3>2. Upto(M, k) >= Cap
      BY <1>1, <2>1, <3>1, FarUp DEF L
    <3> HIDE DEF u
    <3>3. c >= Cap /\ c < Cap
      BY <1>2, <3>2
    <3> QED BY <1>2, <3>3
  <2>7. ASSUME g <= 2*MaxPrec PROVE c \div Pow10[g] = u
    <3> DEFINE back == DigitsVal(SubSeq(M, p + 1, k))
               w == Pow10[g]
    <3>1. w \in Nat \ {0} /\ back \in Nat /\ back < w /\ c = u * w + back
      BY <1>1, <1>2, <2>1, <2>7, Slice DEF L
    <3> HIDE DEF u, back, w
    <3>2. c \in Int /\ u \in Int /\ back \in 0..(w - 1) /\ c = w * u + back
      BY <1>2, <2>3, <3>1
    <3>3. c \div w = u
      BY <3>1, <3>2, DivModUnique
    <3> QED BY <3>3 DEF w
  <2> HIDE DEF u
  <2>8. g > 2*MaxPrec => CutAnswer(r) = Ok(Zero)
    BY <1>3, <2>5, <2>6, TrimmedZero
  <2> QED BY <2>5, <2>7, <2>8 DEF r
<1>6. CASE ~(p >= 0)
  <2>1. CutAnswer(r) = Ok(Zero)
    BY <1>1, <1>4, <1>6
  <2>2. ASSUME g <= 2*MaxPrec PROVE c \div Pow10[g] = 0
    <3> DEFINE w == Pow10[k]
               y == Pow10[g]
    <3>1. k < g /\ k \in 0..2*MaxPrec /\ g \in 0..2*MaxPrec /\ k <= g /\ 0 \in 0..L /\ k \in 0..L /\ k - 0 = k
          /\ k - 0 <= 2*MaxPrec
      BY <1>1, <1>2, <1>6, <2>2
    <3>2. w \in Nat /\ y \in Nat \ {0} /\ w <= y
      BY <3>1, PowRatio
    <3>3. c < w
      <4> DEFINE back == DigitsVal(SubSeq(M, 0 + 1, k))
      <4>1. back \in Nat /\ back < Pow10[k - 0] /\ Upto(M, k) = Upto(M, 0) * Pow10[k - 0] + back
            /\ Pow10[k - 0] \in Nat \ {0}
        BY <1>1, <3>1, Slice DEF L
      <4>2. Upto(M, 0) = 0
        BY <1>1, DigitByDigit
      <4> HIDE DEF back
      <4>3. Pow10[k - 0] = w
        BY <3>1
      <4> HIDE DEF w
      <4>4. c = 0 * w + back /\ back < w
        BY <1>2, <4>1, <4>2, <4>3
      <4> QED BY <3>2, <4>1, <4>4
    <3> HIDE DEF w, y
    <3>4. c \in Int /\ 0 \in Int /\ c \in 0..(y - 1) /\ c = y * 0 + c
      BY <1>2, <3>2, <3>3
    <3>5. c \div y = 0
      BY <3>2, <3>4, DivModUnique
    <3> QED BY <3>5 DEF y
  <2>3. g <= 2*MaxPrec => CutAnswer(r) = Trimmed(c \div Pow10[g], MaxPrec)
    BY <1>3, <2>1, <2>2, TrimmedZero
  <2> QED BY <2>1, <2>3 DEF r
<1> QED BY <1>5, <1>6

(* Fewer places than none: the whole mantissa scaled up.                   *)
LEMMA ScaleUpAnswer ==
  ASSUME IsLiteral(lit), GrammarErr(lit) = "nil", NEW x \in Int,
         NEW c, c = DigitsVal(Mantissa(lit)),
         NEW up \in Nat \ {0}, CutPlaces(x) = Len(Mantissa(lit)) + MaxPrec + up
  PROVE  /\ c = 0 => CutAnswer(Placed(x)) = Ok(Zero)
         /\ (c # 0 /\ up > 2*MaxPrec) => CutAnswer(Placed(x)) = Fail("Overflow")
         /\ (c # 0 /\ up <= 2*MaxPrec /\ c * Pow10[up] >= Cap) => CutAnswer(Placed(x)) = Fail("Overflow")
         /\ (c # 0 /\ up <= 2*MaxPrec /\ c * Pow10[up] < Cap) => CutAnswer(Placed(x)) = Trimmed(c * Pow10[up], 0)
<1> DEFINE M == Mantissa(lit)
           L == Len(M)
           p == CutPlaces(x)
           r == Placed(x)
           j == L + up
           u == Upto(r, j)
<1>1. /\ M \in Runs /\ L \in Nat /\ p \in Int
      /\ r \in Runs /\ Len(r) \in Nat /\ (p >= 0 => Len(r) = p)
      /\ \A i \in 1..Len(r) : ~(i <= L) => r[i] = 0
      /\ \A i \in 0..Len(r) : i <= L => Upto(r, i) = Upto(M, i)
  BY PlacedIs
<1>2. MaxPrec \in Nat /\ Cap \in Nat /\ Cap >= 16 /\ p = L + MaxPrec + up
  BY PowFacts, CapFacts
<1>3. c = Upto(M, L) /\ c \in Nat
  BY <1>1, DigitByDigit
<1> HIDE DEF M, L, p, r
<1>4. /\ Len(r) = p /\ L \in 0..Len(r) /\ L <= L /\ j \in L..Len(r) /\ j - L = up /\ j \in 0..Len(r)
      /\ j = Len(r) - (MaxPrec - 0) /\ j <= Len(r) - MaxPrec /\ 0 \in 0..MaxPrec
  BY <1>1, <1>2
<1>5. Upto(r, L) = c
  BY <1>1, <1>3, <1>4
<1>6. (\A i \in (L + 1)..j : r[i] = 0) /\ (\A i \in (j + 1)..Len(r) : r[i] = 0)
  <2>1. \A i \in (L + 1)..j : i \in 1..Len(r) /\ ~(i <= L)
    BY <1>1, <1>4
  <2>2. \A i \in (j + 1)..Len(r) : i \in 1..Len(r) /\ ~(i <= L)
    BY <1>1, <1>4
  <2> QED BY <1>1, <2>1, <2>2
<1> HIDE DEF j
<1>7. u \in Nat
  BY <1>1, <1>4, DigitByDigit
<1>8. u < Cap => CutAnswer(r) = Trimmed(u, 0)
  BY <1>1, <1>4, <1>6, AnswersTrimmed
<1>9. u >= Cap => CutAnswer(r) = Fail("Overflow")
  BY <1>1, <1>4, AnswersOverflow
<1>10. ASSUME c = 0 PROVE CutAnswer(r) = Ok(Zero)
  <2>1. u = 0
    BY <1>1, <1>4, <1>5, <1>6, <1>10, NeverFalls
  <2>2. u < Cap
    <3> HIDE DEF u
    <3> QED BY <1>2, <2>1
  <2> QED BY <1>4, <1>8, <2>1, <2>2, TrimmedZero
<1>11. ASSUME c # 0, up > 2*MaxPrec PROVE CutAnswer(r) = Fail("Overflow")
  <2>1. j - L > 2*MaxPrec
    BY <1>4, <1>11
  <2>2. u >= Cap
    BY <1>1, <1>4, <1>5, <1>11, <2>1, FarUp
  <2> QED BY <1>9, <2>2
<1>12. ASSUME up <= 2*MaxPrec PROVE u = c * Pow10[up]
  <2>1. j - L <= 2*MaxPrec
    BY <1>4, <1>12
  <2>2. u = Upto(r, L) * Pow10[j - L]
    BY <1>1, <1>4, <1>6, <2>1, ZerosScale
  <2> QED BY <1>4, <1>5, <2>2
<1> HIDE DEF u
<1> QED BY <1>8, <1>9, <1>10, <1>11, <1>12 DEF r

(* Dropped digits that would be kept and do not all vanish into precision. *)
LEMMA DroppedAnswer ==
  ASSUME IsLiteral(lit), GrammarErr(lit) = "nil", NEW x \in Int,
         NEW k \in 0..(Len(Mantissa(lit)) - 1), Upto(Mantissa(lit), k + 1) >= Cap,
         NEW shift \in Nat \ {0}, CutPlaces(x) = k + shift,
         shift > MaxPrec \/ \E nz \in 1..shift : k + nz <= Len(Mantissa(lit)) /\ Mantissa(lit)[k + nz] # 0
  PROVE  CutAnswer(Placed(x)) = Fail("Overflow")
<1> DEFINE M == Mantissa(lit)
           L == Len(M)
           p == CutPlaces(x)
           r == Placed(x)
           j == k + 1
<1>1. /\ M \in Runs /\ L \in Nat /\ p \in Int
      /\ r \in Runs /\ Len(r) \in Nat /\ (p >= 0 => Len(r) = p)
      /\ \A i \in 1..Len(r) : i <= L => r[i] = M[i]
      /\ \A i \in 0..Len(r) : i <= L => Upto(r, i) = Upto(M, i)
  BY PlacedIs
<1>2. /\ MaxPrec \in Nat /\ p = k + shift /\ k \in 0..(L - 1) /\ Upto(M, j) >= Cap
      /\ shift > MaxPrec \/ \E nz \in 1..shift : k + nz <= L /\ M[k + nz] # 0
  BY PowFacts
<1> HIDE DEF M, L, p, r
<1>3. Len(r) = p /\ j \in 0..Len(r) /\ j <= L
  BY <1>1, <1>2
<1> HIDE DEF j
<1>4. Upto(r, j) >= Cap
  BY <1>1, <1>2, <1>3
<1>5. j <= Len(r) - MaxPrec \/ \E i \in j..Len(r) : r[i] # 0 /\ i \in 1..Len(r)
  <2>1. CASE shift > MaxPrec
    BY <1>1, <1>2, <1>3, <2>1 DEF j
  <2>2. CASE \E nz \in 1..shift : k + nz <= L /\ M[k + nz] # 0
    <3>1. PICK nz \in 1..shift : k + nz <= L /\ M[k + nz] # 0
      BY <2>2
    <3>2. k + nz \in j..Len(r) /\ k + nz \in 1..Len(r)
      BY <1>1, <1>2, <1>3 DEF j
    <3>3. r[k + nz] # 0
      BY <1>1, <3>1, <3>2
    <3> QED BY <3>2, <3>3
  <2> QED BY <1>2, <2>1, <2>2
<1>6. CutAnswer(r) = Fail("Overflow")
  BY <1>1, <1>3, <1>4, <1>5, AnswersOverflow
<1> QED BY <1>6 DEF r

(* The exponent as it is read gives what the one written gives.            *)
LEMMA CappedPlaces ==
  ASSUME IsLiteral(lit), GrammarErr(lit) = "nil"
  PROVE  CutAnswer(Placed(ExpOf(lit))) = CutAnswer(Placed(Exp10(lit)))
<1> DEFINE M == Mantissa(lit)
           L == Len(M)
           f == Len(lit.frac)
           c == DigitsVal(M)
           Far(x) == x \in Int /\ x > ExpCap
           Near(x) == x \in Int /\ x < -ExpCap
<1>1. \/ ExpOf(lit) = Exp10(lit)
      \/ Far(ExpOf(lit)) /\ Far(Exp10(lit))
      \/ Near(ExpOf(lit)) /\ Near(Exp10(lit))
  BY ExponentRead
<1>2. MaxPrec \in Nat /\ ExpCap = MaxParseLen + 2*MaxPrec + 1
  BY PowFacts DEF ExpCap
<1>3. ASSUME NEW x, Far(x)
      PROVE  CutAnswer(Placed(x)) = IF c = 0 THEN Ok(Zero) ELSE Fail("Overflow")
  <2> DEFINE p == CutPlaces(x)
             up == x - f
  <2>1. /\ M \in Runs /\ L \in Nat /\ L <= MaxParseLen /\ f \in 0..L /\ MaxParseLen \in Nat
        /\ p \in Int /\ p = (L - f) + x + MaxPrec /\ x \in Int
    <3>1. x \in Int
      BY <1>3
    <3> QED BY <3>1, PlacedIs
  <2>2. x > ExpCap
    BY <1>3
  <2> HIDE DEF p, L, f, Far
  <2>3. up \in Nat \ {0} /\ up > 2*MaxPrec /\ p = L + MaxPrec + up
    BY <1>2, <2>1, <2>2
  <2> HIDE DEF up
  <2>4. /\ c = 0 => CutAnswer(Placed(x)) = Ok(Zero)
        /\ (c # 0 /\ up > 2*MaxPrec) => CutAnswer(Placed(x)) = Fail("Overflow")
    BY <2>1, <2>3, ScaleUpAnswer DEF p, L
  <2> QED BY <2>3, <2>4
<1>4. ASSUME NEW x, Near(x)
      PROVE  CutAnswer(Placed(x)) = Ok(Zero)
  <2> DEFINE p == CutPlaces(x)
  <2>1. /\ L \in Nat /\ L <= MaxParseLen /\ f \in 0..L /\ MaxParseLen \in Nat
        /\ p \in Int /\ p = (L - f) + x + MaxPrec /\ x \in Int
    <3>1. x \in Int
      BY <1>4
    <3> QED BY <3>1, PlacedIs
  <2>2. x < -ExpCap
    BY <1>4
  <2> HIDE DEF p, L, f, Near
  <2>3. p <= 0
    BY <1>2, <2>1, <2>2
  <2> QED BY <2>1, <2>3, AnswersNothing DEF p
<1> HIDE DEF Far, Near, c
<1>5. CASE ExpOf(lit) = Exp10(lit)
  BY <1>5
<1>6. CASE Far(ExpOf(lit)) /\ Far(Exp10(lit))
  <2>1. CutAnswer(Placed(ExpOf(lit))) = IF c = 0 THEN Ok(Zero) ELSE Fail("Overflow")
    BY <1>3, <1>6
  <2>2. CutAnswer(Placed(Exp10(lit))) = IF c = 0 THEN Ok(Zero) ELSE Fail("Overflow")
    BY <1>3, <1>6
  <2> QED BY <2>1, <2>2
<1>7. CASE Near(ExpOf(lit)) /\ Near(Exp10(lit))
  <2>1. CutAnswer(Placed(ExpOf(lit))) = Ok(Zero) /\ CutAnswer(Placed(Exp10(lit))) = Ok(Zero)
    BY <1>4, <1>7
  <2> QED BY <2>1
<1> QED BY <1>1, <1>5, <1>6, <1>7

(* So every answer of the truncating parser can be told from the exponent  *)
(* it has read.                                                            *)
LEMMA CutAnswers ==
  ASSUME IsLiteral(lit), GrammarErr(lit) = "nil"
  PROVE  CutResult(lit) = CutAnswer(Placed(ExpOf(lit)))
  BY CutOffMeans, CappedPlaces DEF Placed

----------------------------------------------------------------------------
(* The answers of the paths, compared with what is right.                  *)

(* Both modes refuse what the grammar refuses.                             *)
LEMMA RefusedRight ==
  ASSUME IsLiteral(lit), GrammarErr(lit) # "nil"
  PROVE  Right = Fail(GrammarErr(lit))
<1>1. CASE trunc
  BY <1>1 DEF Right, CutResult
<1>2. CASE ~trunc
  BY <1>2, SpelledMeans DEF Right
<1> QED BY <1>1, <1>2

(* Trimming an integer leaves it alone.                                    *)
LEMMA TrimmedInteger ==
  ASSUME NEW c \in Nat
  PROVE  Trimmed(c, 0) = Ok(NewDecimal(c, IsNeg(lit), 0))
<1> DEFINE Cut(t) == c % Pow10[t] = 0 /\ (t = 0 \/ c % Pow10[t + 1] # 0)
           cut == CHOOSE t \in 0..0 : Cut(t)
<1>1. Pow10[0] = 1
  BY PowFacts
<1>2. c % 1 = 0 /\ c \div 1 = c
  <2>1. c \in Int /\ c = c * 1
    OBVIOUS
  <2> QED BY <2>1, DivExactly
<1>3. Cut(0) /\ 0 \in 0..0
  BY <1>1, <1>2
<1>4. cut \in 0..0
  <2> HIDE DEF Cut
  <2> QED BY <1>3
<1>5. Trimmed(c, 0) = Ok(NewDecimal(c \div Pow10[cut], IsNeg(lit), 0 - cut))
  BY DEF Trimmed
<1> HIDE DEF cut
<1>6. cut = 0
  BY <1>4
<1>7. 0 - 0 = 0
  OBVIOUS
<1> QED BY <1>1, <1>2, <1>5, <1>6, <1>7

(* The places before the exponent is taken away are few.                   *)
LEMMA PlacesBound ==
  ASSUME IsLiteral(lit), GrammarErr(lit) = "nil", NEW z \in Nat, z <= Len(Mantissa(lit))
  PROVE  LET k == Len(lit.frac) - z
         IN  /\ k \in Int /\ k <= MaxParseLen /\ -k <= MaxParseLen
             /\ (Len(lit.frac) - ExpOf(lit)) - z = k - ExpOf(lit)
             /\ (Len(lit.frac) - Exp10(lit)) - z = k - Exp10(lit)
<1> DEFINE f == Len(lit.frac)
           m == Len(Mantissa(lit))
           b == Bytes(lit)
           e == ExpOf(lit)
           x == Exp10(lit)
<1>1. e \in Int /\ x \in Int
  BY ExponentRead
<1>2. f \in Nat /\ b \in Nat /\ m <= b /\ f <= b /\ m \in Nat
  <2>1. /\ lit.zeros \in Nat /\ Len(lit.int) \in Nat /\ f \in Nat /\ b \in Nat
        /\ lit.zeros + Len(lit.int) + f <= b
    BY LiteralBytes
  <2>2. m = lit.zeros + Len(lit.int) + f
    BY MantissaFacts
  <2> HIDE DEF f, m, b
  <2> QED BY <2>1, <2>2
<1>3. b <= MaxParseLen /\ MaxParseLen \in Nat
  BY <1>2, ParserAssumption DEF GrammarErr
<1>4. z <= m
  OBVIOUS
<1> HIDE DEF f, m, b, e, x
<1>5. f - z \in Int /\ f - z <= MaxParseLen /\ -(f - z) <= MaxParseLen
      /\ (f - e) - z = (f - z) - e /\ (f - x) - z = (f - z) - x
  BY <1>1, <1>2, <1>3, <1>4
<1> QED BY <1>5 DEF f, e, x

(* The general exact parser's answer.                                      *)
LEMMA ExactAnswer ==
  ASSUME ~trunc, IsLiteral(lit), GrammarErr(lit) = "nil", Kept(lit) # <<>>,
         DigitsVal(Kept(lit)) < Cap
  PROVE  Canonical(DigitsVal(Kept(lit)), Len(lit.frac) - ExpOf(lit) - EndZeros(Mantissa(lit))) = Right
<1> DEFINE z == EndZeros(Mantissa(lit))
           m == DigitsVal(Kept(lit))
           k == Len(lit.frac) - z
<1>1. m \in Nat /\ z \in Nat /\ z <= Len(Mantissa(lit))
  <2>1. m \in Nat /\ z \in Nat /\ Len(Kept(lit)) \in Nat /\ Len(Kept(lit)) + z = Len(Mantissa(lit))
    BY KeptFacts
  <2> HIDE DEF m, z
  <2> QED BY <2>1
<1>2. Right = Canonical(m, (Len(lit.frac) - Exp10(lit)) - z)
  BY SpelledMeans DEF Right
<1> HIDE DEF z, m
<1>3. /\ k \in Int /\ k <= MaxParseLen /\ -k <= MaxParseLen
      /\ (Len(lit.frac) - ExpOf(lit)) - z = k - ExpOf(lit)
      /\ (Len(lit.frac) - Exp10(lit)) - z = k - Exp10(lit)
  BY <1>1, PlacesBound
<1> HIDE DEF k
<1>4. Canonical(m, k - ExpOf(lit)) = Canonical(m, k - Exp10(lit))
  BY <1>1, <1>3, CappedExponent
<1> QED BY <1>2, <1>3, <1>4 DEF m, z

(* What a coefficient below 2^128 tells of the mantissa: none of its       *)
(* digits is left when it is zero, and else its trailing zeros are the     *)
(* mantissa's.                                                             *)
LEMMA CoefficientTells ==
  ASSUME IsLiteral(lit), NEW c, c = DigitsVal(Digits(lit)), c < Cap
  PROVE  LET z == EndZeros(Mantissa(lit))
             m == DigitsVal(Kept(lit))
         IN  /\ c \in Nat /\ (c = 0 <=> Kept(lit) = <<>>)
             /\ (c # 0) => /\ m \in Nat /\ m % 10 # 0 /\ z \in 0..2*MaxPrec /\ c = m * Pow10[z] /\ m < Cap
                           /\ TrailingZeros(c) = z /\ c \div Pow10[z] = m
<1> DEFINE z == EndZeros(Mantissa(lit))
           m == DigitsVal(Kept(lit))
           p == Pow10[z]
<1>1. c \in Nat /\ Cap \in Nat /\ MaxPrec \in Nat
  BY MantissaFacts, CapFacts, PowFacts
<1>2. /\ m \in Nat /\ z \in Nat
      /\ (Kept(lit) = <<>> => c = 0)
      /\ (Kept(lit) # <<>> => m # 0 /\ m % 10 # 0 /\ c # 0)
      /\ (z <= 2*MaxPrec => c = m * p)
      /\ (z > 2*MaxPrec /\ Kept(lit) # <<>> => c >= Cap)
  BY KeptFacts
<1>3. ASSUME c # 0
      PROVE  /\ m \in Nat /\ m % 10 # 0 /\ z \in 0..2*MaxPrec /\ c = m * p /\ m < Cap
             /\ TrailingZeros(c) = z /\ c \div p = m
  <2>1. Kept(lit) # <<>> /\ z \in 0..2*MaxPrec
    <3>1. Kept(lit) # <<>>
      BY <1>2, <1>3
    <3> HIDE DEF z, p, m
    <3> QED BY <1>1, <1>2, <3>1
  <2>2. p \in Nat /\ p >= 1
    BY <2>1, PowFacts
  <2>3. m % 10 # 0 /\ c = m * p /\ m * p < Cap
    BY <1>1, <1>2, <2>1
  <2>4. TrailingZeros(m * p) = z /\ (m * p) \div p = m
    <3> HIDE DEF z, m
    <3> QED BY <1>2, <2>1, <2>3, TrailingZerosUnique
  <2> HIDE DEF z, m, p
  <2>5. m < Cap
    <3>1. m <= m * p /\ m * p \in Nat
      BY <1>2, <2>2
    <3> QED BY <1>1, <1>2, <2>3, <3>1
  <2> QED BY <1>2, <2>1, <2>3, <2>4, <2>5
<1> QED BY <1>1, <1>2, <1>3

(* The answer of a path that assembled a plain literal in one coefficient. *)
LEMMA PlainAnswer ==
  ASSUME IsLiteral(lit), GrammarErr(lit) = "nil", EndsPlain(lit), Len(lit.frac) <= MaxPrec,
         NEW c, c = DigitsVal(Digits(lit)), c < Cap
  PROVE  /\ Trimmed(c, Len(lit.frac)) = Right
         /\ lit.frac = <<>> => Ok(NewDecimal(c, IsNeg(lit), 0)) = Right
<1> DEFINE z == EndZeros(Mantissa(lit))
           m == DigitsVal(Kept(lit))
           f == Len(lit.frac)
<1>1. /\ c \in Nat /\ (c = 0 <=> Kept(lit) = <<>>)
      /\ c # 0 => /\ m \in Nat /\ m % 10 # 0 /\ z \in 0..2*MaxPrec /\ c = m * Pow10[z] /\ m < Cap
  BY CoefficientTells
<1>2. f \in 0..MaxPrec /\ f \in Nat
  <2>1. f \in Nat /\ MaxPrec \in Nat
    BY LiteralBytes, PowFacts
  <2> QED BY <2>1
<1>3. Exp10(lit) = 0
  BY LiteralBytes, ExponentRead
<1>4. Trimmed(c, f) = Right
  <2>1. CASE ~trunc
    <3>1. CASE c = 0
      <4>1. Right = Ok(Zero)
        BY <1>1, <2>1, <3>1, SpelledMeans DEF Right
      <4>2. Trimmed(0, f) = Ok(Zero)
        BY <1>2, TrimmedZero
      <4> QED BY <3>1, <4>1, <4>2
    <3>2. CASE c # 0
      <4>1. Kept(lit) # <<>> /\ m < Cap
        BY <1>1, <3>2
      <4>2. Right = Canonical(m, (f - Exp10(lit)) - z)
        BY <2>1, <4>1, SpelledMeans DEF Right
      <4>3. (f - Exp10(lit)) - z = f - z
        BY <1>2, <1>3
      <4>4. Trimmed(c, f) = Canonical(m, f - z)
        <5>1. m \in Nat /\ m % 10 # 0 /\ z \in 0..2*MaxPrec /\ c = m * Pow10[z] /\ c < Cap
          BY <1>1, <3>2
        <5> HIDE DEF m, z, f
        <5> QED BY <1>2, <5>1, TrimmedIs
      <4> QED BY <4>2, <4>3, <4>4
    <3> QED BY <3>1, <3>2
  <2>2. CASE trunc
    <3> DEFINE M == Mantissa(lit)
               L == Len(M)
               p == CutPlaces(Exp10(lit))
    <3>1. /\ L \in Nat /\ f \in 0..L /\ p = (L - f) + Exp10(lit) + MaxPrec
      <4>1. Exp10(lit) \in Int
        BY <1>3
      <4> QED BY <4>1, PlacedIs
    <3>2. Upto(M, L) = c
      BY MantissaFacts, DigitByDigit
    <3>3. L \in 0..L /\ Stops(M, L, MaxPrec - f) /\ p = L + (MaxPrec - f) /\ MaxPrec \in Nat
      <4>1. MaxPrec \in Nat
        BY PowFacts
      <4> HIDE DEF L, f, p
      <4>2. L \in 0..L /\ p = L + (MaxPrec - f) /\ ~(L < L)
        BY <1>2, <1>3, <3>1, <4>1
      <4> QED BY <4>1, <4>2 DEF Stops, L
    <3>4. CutAnswer(Placed(Exp10(lit))) = Trimmed(c, f)
      <4>1. Exp10(lit) \in Int /\ Upto(M, L) < Cap
        BY <1>3, <3>2
      <4> HIDE DEF f
      <4> QED BY <1>2, <3>2, <3>3, <4>1, InRangeAnswer
    <3>5. Right = CutAnswer(Placed(Exp10(lit)))
      BY <2>2, CutOffMeans DEF Right, Placed
    <3> QED BY <3>4, <3>5
  <2> QED BY <2>1, <2>2
<1>5. lit.frac = <<>> => Trimmed(c, 0) = Right
  BY <1>4
<1> QED BY <1>1, <1>4, <1>5, TrimmedInteger

(* The answer of the short scientific tail.                                *)
LEMMA ScientificAnswer ==
  ASSUME ~trunc, IsLiteral(lit), GrammarErr(lit) = "nil", NEW c, c = DigitsVal(Digits(lit)), c < Cap
  PROVE  /\ (c = 0) => (Ok(Zero) = Right)
         /\ (c # 0) => (Canonical(c \div Pow10[TrailingZeros(c)],
                                  Len(lit.frac) - ExpOf(lit) - TrailingZeros(c)) = Right)
<1> DEFINE z == EndZeros(Mantissa(lit))
           m == DigitsVal(Kept(lit))
<1>1. /\ c \in Nat /\ (c = 0 <=> Kept(lit) = <<>>)
      /\ c # 0 => /\ m < Cap /\ TrailingZeros(c) = z /\ c \div Pow10[z] = m
  BY CoefficientTells
<1>2. (c = 0) => (Ok(Zero) = Right)
  BY <1>1, SpelledMeans DEF Right
<1>3. ASSUME c # 0
      PROVE  Canonical(c \div Pow10[TrailingZeros(c)],
                       Len(lit.frac) - ExpOf(lit) - TrailingZeros(c)) = Right
  <2>1. Kept(lit) # <<>> /\ m < Cap
    BY <1>1, <1>3
  <2>2. Canonical(m, Len(lit.frac) - ExpOf(lit) - z) = Right
    BY <2>1, ExactAnswer
  <2> QED BY <1>1, <1>3, <2>2
<1> QED BY <1>2, <1>3

----------------------------------------------------------------------------
(* The steps of a call, one lemma per action.                              *)

(* Its bytes are some, and not too many.                                   *)
LEMMA AdmittedBytes ==
  ASSUME NEW l, Admitted(l)
  PROVE  Bytes(l) \in Nat /\ Bytes(l) >= 1 /\ Bytes(l) <= MaxParseLen
         /\ ~(Bytes(l) = 1 /\ l.sign # "")
<1> DEFINE n == Bytes(l)
<1>1. ~(n = 1 /\ l.sign # "")
  BY Zenon DEF Admitted
<1>2. n \in 1..MaxParseLen
  BY Zenon DEF Admitted
<1> HIDE DEF n
<1>3. MaxParseLen \in Nat
  BY ParserAssumption
<1>4. n \in Nat /\ n >= 1 /\ n <= MaxParseLen
  BY <1>2, <1>3
<1> QED BY <1>1, <1>4, Zenon DEF n

(* What parseCore lets through is refused for its grammar or not at all.   *)
LEMMA AdmittedGrammar ==
  ASSUME IsLiteral(lit), Admitted(lit)
  PROVE  /\ Ungrammatical(lit) => Fail("InvalidFormat") = Right
         /\ ~Ungrammatical(lit) => GrammarErr(lit) = "nil"
<1>1. ~(Bytes(lit) = 0) /\ ~(Bytes(lit) > MaxParseLen)
  <2> DEFINE n == Bytes(lit)
  <2>1. n \in Nat /\ n >= 1 /\ n <= MaxParseLen /\ MaxParseLen \in Nat
    BY AdmittedBytes, ParserAssumption
  <2> HIDE DEF n
  <2>2. ~(n = 0) /\ ~(n > MaxParseLen)
    BY <2>1
  <2> QED BY <2>2 DEF n
<1>2. GrammarErr(lit) = IF Ungrammatical(lit) THEN "InvalidFormat" ELSE "nil"
  BY <1>1 DEF GrammarErr
<1>3. Ungrammatical(lit) => GrammarErr(lit) = "InvalidFormat"
  BY <1>2
<1>4. Ungrammatical(lit) => Fail("InvalidFormat") = Right
  BY <1>3, RefusedRight
<1> QED BY <1>2, <1>4

(* A literal that is let through, ends plainly and has digits where a      *)
(* point wants them is grammatical.                                        *)
LEMMA PlainGrammar ==
  ASSUME IsLiteral(lit), Admitted(lit), EndsPlain(lit), lit.dot => ~NoInt(lit) /\ lit.frac # <<>>
  PROVE  ~Ungrammatical(lit) /\ GrammarErr(lit) = "nil"
<1>1. ~NoInt(lit)
  <2>1. CASE lit.dot
    BY <2>1
  <2>2. CASE ~lit.dot
    <3> DEFINE a == lit.zeros
               b == Len(lit.int)
               r == Remaining(lit)
               n == Bytes(lit)
    <3>1. a \in Nat /\ b \in Nat /\ r = b + TailLen(lit) /\ TailLen(lit) = 0
      BY <2>2, LiteralBytes
    <3>2. PICK sign \in 0..1 : n = sign + a + r /\ (sign = 0 <=> lit.sign = "")
      BY LiteralBytes
    <3>3. n >= 1 /\ ~(n = 1 /\ lit.sign # "")
      BY AdmittedBytes
    <3>4. NoInt(lit) <=> a + b = 0
      BY LiteralBytes
    <3> HIDE DEF a, b, r, n
    <3>5. r = b
      BY <3>1
    <3>6. sign = 0 => n >= 1
      BY <3>3
    <3>7. sign = 1 => ~(n = 1)
      <4>1. sign = 1 => sign # 0
        OBVIOUS
      <4> QED BY <3>2, <3>3, <4>1, Zenon
    <3>8. a + b # 0
      <4>1. n = sign + a + r
        BY <3>2
      <4>2. n = sign + (a + b) /\ sign \in 0..1
        BY <3>1, <3>5, <4>1
      <4>3. n # sign
        BY <3>6, <3>7, <4>2
      <4> QED BY <3>1, <4>2, <4>3
    <3> QED BY <3>4, <3>8
  <2> QED BY <2>1, <2>2
<1>2. ~BadExponent(lit)
  BY LiteralBytes
<1>3. ~Ungrammatical(lit)
  BY <1>1, <1>2 DEF Ungrammatical
<1> QED BY <1>3, AdmittedGrammar

(* A path that returns what is right ends as it should.                    *)
LEMMA ReturnsRight ==
  ASSUME NEW res, Return(res), res = Right
  PROVE  PathsKnow'
<1>1. pc' = "done" /\ out' = Right /\ lit' = lit /\ trunc' = trunc
  BY DEF Return
<1>2. out' = IF trunc' THEN CutResult(lit') ELSE ParseCore(Spelled(lit'))
  BY <1>1 DEF Right
<1> QED BY <1>1, <1>2 DEF StrictOnly, TruncOnly, PathsKnow, Right, StrictOnly, TruncOnly

(* The integer run begins the mantissa, the fraction ends it.              *)
LEMMA IntRunOf ==
  ASSUME IsLiteral(lit)
  PROVE  LET M == Mantissa(lit)
             j == Len(IntRun(lit))
         IN  /\ M \in Runs /\ Len(M) \in Nat /\ j \in Nat /\ j \in 0..Len(M)
             /\ IntRun(lit) = SubSeq(M, 1, j) /\ lit.frac = SubSeq(M, j + 1, Len(M))
             /\ lit.frac = <<>> => j = Len(M)
<1> DEFINE M == Mantissa(lit)
           s == IntRun(lit)
           t == lit.frac
           j == Len(s)
           n == Len(M)
<1>1. M \in Runs /\ s \in Runs /\ t \in Runs /\ M = s \o t
  BY MantissaFacts, LiteralBytes DEF Mantissa
<1>2. /\ n = j + Len(t) /\ j \in Nat /\ Len(t) \in Nat
      /\ \A i \in 1..j : M[i] = s[i]
      /\ \A i \in 1..Len(t) : M[j + i] = t[i]
  <2> HIDE DEF s, t
  <2> QED BY <1>1, RunsJoin
<1> HIDE DEF M, s, t
<1>3. n \in Nat /\ j \in 0..n /\ 0 \in 0..n /\ n \in 0..n /\ j \in 0..n /\ 0 + 1 = 1 /\ n \in j..n
  BY <1>2
<1>4. s = SubSeq(M, 0 + 1, j)
  <2> DEFINE w == SubSeq(M, 0 + 1, j)
  <2>1. w \in Runs /\ Len(w) = j - 0 /\ \A i \in 1..(j - 0) : w[i] = M[0 + i]
    BY <1>1, <1>3, Cutting
  <2> HIDE DEF w
  <2>2. Len(w) = Len(s) /\ w \in Seq(0..9) /\ s \in Seq(0..9)
    BY <1>1, <1>2, <2>1 DEF Runs
  <2>3. \A i \in 1..Len(w) : w[i] = s[i]
    <3>1. \A i \in 1..Len(w) : i \in 1..(j - 0) /\ i \in 1..j /\ 0 + i = i
      BY <1>2, <2>2
    <3> QED BY <1>2, <2>1, <3>1
  <2>4. w = s
    BY <2>2, <2>3, SeqEqual
  <2> QED BY <2>4 DEF w
<1>5. t = SubSeq(M, j + 1, n)
  <2> DEFINE w == SubSeq(M, j + 1, n)
  <2>1. w \in Runs /\ Len(w) = n - j /\ \A i \in 1..(n - j) : w[i] = M[j + i]
    BY <1>1, <1>3, Cutting
  <2> HIDE DEF w
  <2>2. Len(w) = Len(t) /\ n - j = Len(t) /\ w \in Seq(0..9) /\ t \in Seq(0..9)
    BY <1>1, <1>2, <2>1 DEF Runs
  <2>3. \A i \in 1..Len(w) : w[i] = t[i]
    BY <1>2, <2>1, <2>2
  <2>4. w = t
    BY <2>2, <2>3, SeqEqual
  <2> QED BY <2>4 DEF w
<1>6. t = <<>> => j = n
  <2>1. t = <<>> => Len(t) = 0
    OBVIOUS
  <2> QED BY <1>2, <2>1
<1>7. /\ M \in Runs /\ Len(M) \in Nat /\ Len(s) \in Nat /\ Len(s) \in 0..Len(M)
      /\ s = SubSeq(M, 1, Len(s)) /\ t = SubSeq(M, Len(s) + 1, Len(M))
      /\ t = <<>> => Len(s) = Len(M)
  <2>1. s = SubSeq(M, 1, j)
    BY <1>3, <1>4
  <2> QED BY <1>1, <1>2, <1>3, <1>5, <1>6, <2>1
<1> QED BY <1>7 DEF M, s, t

(* Handing over to the general parsers keeps a literal that was let        *)
(* through, and all of its digits.                                         *)
LEMMA HandsOver ==
  ASSUME IsLiteral(lit), Fresh, Admitted(lit), General
  PROVE  PathsKnow'
<1>1. /\ pc' = IF trunc THEN "accumInt" ELSE "exact"
      /\ lit' = lit /\ rest' = IntRun(lit) /\ coef' = 0 /\ dropped' = 0 /\ dropNZ' = 0
  BY DEF General, Fresh
<1>2. Admitted(lit')
  BY <1>1
<1>3. CASE ~trunc
  BY <1>1, <1>2, <1>3 DEF StrictOnly, TruncOnly, PathsKnow, StrictOnly, TruncOnly
<1>4. CASE trunc
  <2> DEFINE M == Mantissa(lit)
             j == Len(IntRun(lit))
  <2>1. M \in Runs /\ IntRun(lit) \in Runs /\ lit.frac \in Runs /\ M = IntRun(lit) \o lit.frac
    BY MantissaFacts, LiteralBytes DEF Mantissa
  <2>2. j \in Nat /\ j \in 0..Len(M) /\ IntRun(lit) = SubSeq(M, 1, j)
    BY <2>1, IntRunOf
  <2>3. Upto(M, 0) = 0 /\ 0 < Cap
    BY <2>1, DigitByDigit, CapFacts
  <2> HIDE DEF M, j
  <2>4. /\ coef' = Upto(M, 0) /\ coef' < Cap /\ dropped' = 0 - 0 /\ dropNZ' = 0
        /\ (\A q \in (0 + 1)..0 : M[q] = 0) /\ rest' = SubSeq(M, 0 + 1, j)
        /\ 0 \in 0..j /\ 0 \in 0..j
    <3>1. 0 - 0 = 0 /\ 0 + 1 = 1 /\ 0 \in 0..j /\ \A q \in (0 + 1)..0 : FALSE
      BY <2>2
    <3>2. rest' = SubSeq(M, 1, j)
      BY <1>1, <2>2
    <3> QED BY <1>1, <2>3, <3>1, <3>2
  <2>5. M = Mantissa(lit') /\ j = Len(IntRun(lit'))
    BY <1>1 DEF M, j
  <2>6. Accumulated(M, j, coef', dropped', dropNZ', rest')
    <3>1. Filled(M, 0, 0, coef', dropped', dropNZ')
      BY <2>4 DEF Filled, FirstDropped
    <3> QED BY <2>4, <3>1 DEF Accumulated
  <2>7. AtAccumInt'
    BY <2>5, <2>6 DEF AtAccumInt
  <2> QED BY <1>1, <1>2, <1>4, <2>7 DEF StrictOnly, TruncOnly, PathsKnow, StrictOnly, TruncOnly
<1> QED BY <1>3, <1>4

(* A number of so few digits fits one word.                                *)
LEMMA OneWord ==
  ASSUME IsLiteral(lit), Len(Digits(lit)) <= MaxPrec
  PROVE  OneLimbVal(lit) = DigitsVal(Digits(lit)) /\ DigitsVal(Digits(lit)) < Cap
<1> DEFINE s == Digits(lit)
           n == Len(s)
           v == DigitsVal(s)
           p == Pow10[n]
<1>1. s \in Runs /\ n \in Nat /\ MaxPrec \in Nat /\ n <= MaxPrec
  BY MantissaFacts, DigitByDigit, PowFacts
<1> HIDE DEF s
<1>2. n \in 0..MaxPrec /\ 0 \in 0..n /\ n \in 0..n /\ n - 0 = n /\ n - 0 <= 2*MaxPrec
  <2> HIDE DEF n
  <2> QED BY <1>1
<1>3. SubSeq(s, 0 + 1, n) = s
  BY <1>1, SubSeqFull DEF Runs
<1>4. LET back == DigitsVal(SubSeq(s, 0 + 1, n))
      IN  back \in Nat /\ Pow10[n - 0] \in Nat \ {0} /\ back < Pow10[n - 0]
  BY <1>1, <1>2, Slice
<1>5. v \in Nat /\ p \in Nat /\ v < p
  BY <1>2, <1>3, <1>4
<1>6. p < Base /\ p < Cap
  BY <1>2, PowBounds
<1> HIDE DEF n, v, p
<1>7. Base \in Nat \ {0} /\ Cap \in Nat /\ v < Base /\ v < Cap
  <2>1. Base \in Nat \ {0} /\ Cap \in Nat
    BY WordAssumption, CapFacts
  <2> QED BY <1>5, <1>6, <2>1
<1>8. v % Base = v
  <2>1. v \in Int /\ 0 \in Int /\ v \in 0..(Base - 1) /\ v = Base * 0 + v
    BY <1>5, <1>7
  <2> QED BY <1>7, <2>1, DivModUnique
<1>9. OneLimbVal(lit) = v % Base
  BY DEF OneLimbVal, Digits, v, s
<1> QED BY <1>7, <1>8, <1>9 DEF v, s

(* parseCore.                                                              *)
LEMMA RefuseKeeps ==
  ASSUME IsLiteral(lit), CoreRefuse
  PROVE  PathsKnow'
<1> DEFINE n == Bytes(lit)
<1>1. n \in Nat /\ MaxParseLen \in Nat \ {0}
  BY LiteralBytes, ParserAssumption
<1> HIDE DEF n
<1>2. \/ n = 0 /\ Return(Fail("EmptyString"))
      \/ n > MaxParseLen /\ Return(Fail("MaxStrLen"))
      \/ (n = 1 /\ lit.sign # "") /\ Return(Fail("InvalidFormat"))
  BY Zenon DEF CoreRefuse, n
<1>3. ASSUME n = 0 PROVE Fail("EmptyString") = Right
  <2>1. GrammarErr(lit) = "EmptyString"
    BY <1>3 DEF GrammarErr, n
  <2> QED BY <2>1, RefusedRight
<1>4. ASSUME n > MaxParseLen PROVE Fail("MaxStrLen") = Right
  <2>1. ~(n = 0) /\ n > MaxParseLen
    BY <1>1, <1>4
  <2>2. GrammarErr(lit) = "MaxStrLen"
    BY <2>1 DEF GrammarErr, n
  <2> QED BY <2>2, RefusedRight
<1>5. ASSUME n = 1, lit.sign # "" PROVE Fail("InvalidFormat") = Right
  <2>0. n = 1
    BY <1>5, Zenon
  <2>1. ~(n = 0) /\ ~(n > MaxParseLen)
    BY <1>1, <2>0
  <2>2. Ungrammatical(lit)
    <3> DEFINE a == lit.zeros
               b == Len(lit.int)
               c == Len(lit.frac)
               r == Remaining(lit)
    <3>1. a \in Nat /\ b \in Nat /\ c \in Nat /\ TailLen(lit) \in Nat /\ r \in Nat
          /\ (lit.dot => r = b + 1 + c + TailLen(lit)) /\ (~lit.dot => r = b + TailLen(lit))
      BY LiteralBytes
    <3>2. PICK sign \in 0..1 : n = sign + a + r /\ (sign = 0 <=> lit.sign = "")
      BY LiteralBytes DEF n
    <3>3. sign # 0
      BY <1>5, <3>2, Zenon
    <3>4. NoInt(lit) <=> a + b = 0
      BY LiteralBytes
    <3> HIDE DEF a, b, c, r
    <3>5. a + r = 0
      <4>1. n = sign + a + r
        BY <3>2
      <4>2. sign = 1 /\ n = 1
        BY <2>0, <3>3
      <4> QED BY <3>1, <4>1, <4>2
    <3>6. a + b = 0
      <4>1. r >= b
        BY <3>1
      <4> QED BY <3>1, <3>5, <4>1
    <3>7. NoInt(lit)
      BY <3>4, <3>6
    <3> QED BY <3>7 DEF Ungrammatical
  <2>3. GrammarErr(lit) = "InvalidFormat"
    BY <2>1, <2>2 DEF GrammarErr, n
  <2> QED BY <2>3, RefusedRight
<1>6. CASE n = 0 /\ Return(Fail("EmptyString"))
  BY <1>3, <1>6, ReturnsRight
<1>7. CASE n > MaxParseLen /\ Return(Fail("MaxStrLen"))
  BY <1>4, <1>7, ReturnsRight
<1>8. CASE (n = 1 /\ lit.sign # "") /\ Return(Fail("InvalidFormat"))
  BY <1>5, <1>8, ReturnsRight
<1> QED BY <1>2, <1>6, <1>7, <1>8

(* parseCore hands over by the bytes that remain.                          *)
LEMMA DispatchKeeps ==
  ASSUME IsLiteral(lit), CoreDispatch
  PROVE  PathsKnow'
<1> DEFINE r == Remaining(lit)
           path == IF r < ShortCut THEN "short" ELSE IF r <= MaxPrec + 1 THEN "window" ELSE "long"
<1>1. pc' = path /\ lit' = lit /\ Admitted(lit)
  BY DEF CoreDispatch, Go, Admitted
<1>2. r \in Nat /\ ShortCut \in Nat /\ MaxPrec \in Nat
  <2>1. MaxPrec \in Nat /\ r \in Nat
    BY PowFacts, LiteralBytes
  <2> QED BY <2>1, ParserAssumption
<1>3. path \in {"short", "window", "long"}
  OBVIOUS
<1>4. /\ path = "short" => r < ShortCut
      /\ path = "window" => r \in ShortCut..(MaxPrec + 1)
      /\ path = "long" => r > MaxPrec + 1
  <2> HIDE DEF r
  <2>1. CASE r < ShortCut
    BY <2>1
  <2>2. CASE ~(r < ShortCut) /\ r <= MaxPrec + 1
    BY <1>2, <2>2
  <2>3. CASE ~(r < ShortCut) /\ ~(r <= MaxPrec + 1)
    BY <1>2, <2>3
  <2> QED BY <2>1, <2>2, <2>3
<1> HIDE DEF path
<1>5. /\ pc' = "short" => Remaining(lit') < ShortCut
      /\ pc' = "window" => Remaining(lit') \in ShortCut..(MaxPrec + 1)
      /\ pc' = "long" => Remaining(lit') > MaxPrec + 1
      /\ Admitted(lit') /\ pc' \in {"short", "window", "long"}
  BY <1>1, <1>3, <1>4 DEF r
<1> QED BY <1>5 DEF StrictOnly, TruncOnly, PathsKnow, AtShort, AtWindow, AtLong

(* The short loop.                                                         *)
LEMMA ShortPointKeeps ==
  ASSUME IsLiteral(lit), Admitted(lit), ShortPoint
  PROVE  PathsKnow'
<1>1. Return(Fail("InvalidFormat")) /\ Ungrammatical(lit)
  BY DEF ShortPoint, Ungrammatical
<1>2. Fail("InvalidFormat") = Right
  BY <1>1, AdmittedGrammar
<1> QED BY <1>1, <1>2, ReturnsRight

(* A short literal has no more digits than fit one word.                   *)
LEMMA ShortDigits ==
  ASSUME IsLiteral(lit), AtShort
  PROVE  Len(Digits(lit)) <= MaxPrec /\ Len(lit.frac) <= MaxPrec
<1> DEFINE a == Len(lit.int)
           f == Len(lit.frac)
           r == Remaining(lit)
           d == Len(Digits(lit))
           t == TailLen(lit)
<1>1. a \in Nat /\ f \in Nat /\ t \in Nat
      /\ (lit.dot => r = a + 1 + f + t) /\ (~lit.dot => f = 0 /\ r = a + t) /\ lit.dot \in BOOLEAN
  BY LiteralBytes
<1>2. d = a + f
  BY MantissaFacts
<1>3. r < ShortCut
  BY DEF AtShort
<1>4. MaxPrec \in Nat /\ ShortCut \in Nat /\ ShortCut <= MaxPrec + 1
  <2>1. MaxPrec \in Nat
    BY PowFacts
  <2> QED BY <2>1, ParserAssumption
<1> HIDE DEF a, f, r, d, t
<1>5. a + f <= r
  BY <1>1
<1>6. d <= MaxPrec /\ f <= MaxPrec
  <2>1. r \in Nat
    BY <1>1
  <2> QED BY <1>1, <1>2, <1>3, <1>4, <1>5, <2>1
<1> QED BY <1>6 DEF d, f

(* The short loop's word has not wrapped, so it is the number.             *)
LEMMA ShortPlainKeeps ==
  ASSUME IsLiteral(lit), Admitted(lit), AtShort, ShortPlain
  PROVE  PathsKnow'
<1>1. EndsPlain(lit) /\ (lit.dot => ~NoInt(lit) /\ (lit.frac # <<>> \/ TailLen(lit) > 0))
      /\ Return(Trimmed(OneLimbVal(lit), Len(lit.frac)))
  BY DEF ShortPlain, ShortGoesOn
<1>2. TailLen(lit) = 0
  BY <1>1, LiteralBytes
<1>3. lit.dot => ~NoInt(lit) /\ lit.frac # <<>>
  BY <1>1, <1>2
<1>4. GrammarErr(lit) = "nil"
  BY <1>1, <1>3, PlainGrammar
<1>5. OneLimbVal(lit) = DigitsVal(Digits(lit)) /\ DigitsVal(Digits(lit)) < Cap /\ Len(lit.frac) <= MaxPrec
  BY ShortDigits, OneWord
<1>6. Trimmed(OneLimbVal(lit), Len(lit.frac)) = Right
  BY <1>1, <1>4, <1>5, PlainAnswer
<1> QED BY <1>1, <1>6, ReturnsRight

(* An exponent needs a mantissa, complete on both sides of its point.      *)
LEMMA StrictShortScientific ==
  ASSUME IsLiteral(lit), Admitted(lit), AtShort, ShortScientific
  PROVE  PathsKnow'
<1>1. lit.tail = "exp"
  BY DEF ShortScientific
<1>2. CASE NoInt(lit) \/ (lit.dot /\ lit.frac = <<>>)
  <2>1. Return(Fail("InvalidFormat"))
    BY <1>2 DEF ShortScientific
  <2>2. Fail("InvalidFormat") = Right
    BY <1>2, AdmittedGrammar DEF Ungrammatical
  <2> QED BY <2>1, <2>2, ReturnsRight
<1>3. CASE ~(NoInt(lit) \/ (lit.dot /\ lit.frac = <<>>))
  <2>1. pc' = "shortExp" /\ coef' = OneLimbVal(lit) /\ frac' = Len(lit.frac) /\ lit' = lit
    BY <1>3 DEF ShortScientific
  <2>2. OneLimbVal(lit) = DigitsVal(Digits(lit))
    BY ShortDigits, OneWord
  <2>3. /\ Remaining(lit') < ShortCut /\ lit'.tail = "exp" /\ ~NoInt(lit')
        /\ lit'.dot => lit'.frac # <<>>
        /\ coef' = DigitsVal(Digits(lit')) /\ frac' = Len(lit'.frac) /\ Admitted(lit')
    BY <1>1, <1>3, <2>1, <2>2, Zenon DEF AtShort
  <2> QED BY <2>1, <2>3 DEF StrictOnly, TruncOnly, PathsKnow, AtShortExp, AtShort
<1> QED BY <1>2, <1>3

(* Behind an exponent the short path answers as the general one.           *)
LEMMA StrictShortTail ==
  ASSUME ~trunc, IsLiteral(lit), Admitted(lit), AtShortExp, ParseShortScientific
  PROVE  PathsKnow'
<1> DEFINE c == DigitsVal(Digits(lit))
           trail == TrailingZeros(c)
           res == IF BadExponent(lit) THEN Fail("InvalidFormat")
                  ELSE IF c = 0 THEN Ok(Zero)
                  ELSE Canonical(c \div Pow10[trail], (Len(lit.frac) - ExpOf(lit)) - trail)
<1>1. coef = c /\ frac = Len(lit.frac) /\ ~NoInt(lit) /\ (lit.dot => lit.frac # <<>>) /\ AtShort
  BY DEF AtShortExp
<1>2. Return(res)
  <2>1. CASE BadExponent(lit)
    BY <1>1, <2>1 DEF ParseShortScientific
  <2>2. CASE ~BadExponent(lit) /\ c = 0
    BY <1>1, <2>2 DEF ParseShortScientific
  <2>3. CASE ~BadExponent(lit) /\ c # 0
    BY <1>1, <2>3 DEF ParseShortScientific
  <2> QED BY <2>1, <2>2, <2>3
<1>3. res = Right
  <2>1. CASE BadExponent(lit)
    <3>1. Ungrammatical(lit)
      BY <2>1 DEF Ungrammatical
    <3> QED BY <2>1, <3>1, AdmittedGrammar
  <2>2. CASE ~BadExponent(lit)
    <3>1. GrammarErr(lit) = "nil"
      BY <1>1, <2>2, AdmittedGrammar DEF Ungrammatical
    <3>2. c < Cap
      BY <1>1, ShortDigits, OneWord
    <3>3. /\ (c = 0) => (Ok(Zero) = Right)
          /\ (c # 0) => (Canonical(c \div Pow10[trail], (Len(lit.frac) - ExpOf(lit)) - trail) = Right)
      BY <3>1, <3>2, ScientificAnswer
    <3> HIDE DEF trail, c
    <3> QED BY <2>2, <3>3
  <2> QED BY <2>1, <2>2
<1> QED
  BY <1>2, <1>3, ReturnsRight

(* What the short loop declines starts over in the general parser.         *)
LEMMA ShortDeclineKeeps ==
  ASSUME IsLiteral(lit), Fresh, Admitted(lit), ShortDecline
  PROVE  PathsKnow'
<1>1. General
  BY DEF ShortDecline
<1> QED BY <1>1, HandsOver

(* The window.  A wrapped word and the first digit determine the number.   *)
LEMMA Unwrapped ==
  ASSUME NEW w \in Nat, NEW x \in Nat, NEW y \in Nat, w = x + y, y < Base
  PROVE  ((w % Base) - x) % Base = y
<1> DEFINE q == w \div Base
           r == w % Base
<1>1. Base \in Nat \ {0}
  BY WordAssumption
<1>2. w \in Int
  OBVIOUS
<1>3. q \in Int /\ r \in 0..(Base - 1) /\ w = Base * q + r
  BY <1>1, <1>2, DivMod
<1> HIDE DEF q, r
<1> DEFINE a == r - x
           b == -q
<1>4. a \in Int /\ b \in Int /\ y \in 0..(Base - 1) /\ a = Base * b + y
  <2>1. Base * b = -(Base * q) /\ Base * q \in Int
    BY <1>1, <1>3
  <2> QED BY <1>1, <1>3, <2>1
<1> HIDE DEF a, b
<1>5. a % Base = y
  BY <1>1, <1>4, DivModUnique
<1> QED BY <1>5 DEF a, r

(* An integer of the window, its word wrapped once or not at all.          *)
LEMMA WindowIntegerKeeps ==
  ASSUME IsLiteral(lit), Admitted(lit), AtWindow, WindowInteger
  PROVE  PathsKnow'
<1> DEFINE s == lit.int
           n == Len(s)
           w == DigitsVal(s)
           h == Head(s)
           p == Pow10[MaxPrec]
           lo == OneLimbVal(lit)
           lead == Mul128by64(h, p).val
           tail == (lo - h * p) % Base
           c == IF Remaining(lit) = MaxPrec + 1 THEN Add128(lead, tail).val ELSE lo
<1>1. ~lit.dot /\ EndsPlain(lit) /\ Return(Ok(NewDecimal(c, IsNeg(lit), 0)))
  BY DEF WindowInteger
<1>2. /\ s \in Runs /\ lit.frac = <<>> /\ Len(lit.frac) = 0 /\ n \in Nat
      /\ Remaining(lit) = n + TailLen(lit) /\ TailLen(lit) = 0
  BY <1>1, LiteralBytes
<1>3. Digits(lit) = s
  BY <1>2, ConcatEmptySeq DEF Digits, Runs
<1>4. lo = w % Base
  BY <1>3 DEF OneLimbVal, Digits
<1>5. GrammarErr(lit) = "nil"
  BY <1>1, PlainGrammar
<1>6. MaxPrec \in Nat /\ MaxPrec >= 1 /\ Base \in Nat \ {0} /\ Cap \in Nat
  BY PowFacts, WordAssumption, CapFacts
<1>7. Remaining(lit) = n /\ n \in 2..(MaxPrec + 1) /\ Len(lit.frac) <= MaxPrec
  <2> DEFINE r == Remaining(lit)
  <2>1. r \in ShortCut..(MaxPrec + 1) /\ ShortCut \in 2..(MaxPrec + 1)
    BY ParserAssumption DEF AtWindow
  <2> HIDE DEF n, r
  <2>2. r = n
    BY <1>2 DEF r
  <2>3. n \in 2..(MaxPrec + 1) /\ 0 <= MaxPrec
    BY <1>2, <1>6, <2>1, <2>2
  <2> QED BY <1>2, <2>2, <2>3 DEF r
<1> HIDE DEF s
<1>8. c = w /\ w < Cap
  <2>1. CASE n # MaxPrec + 1
    <3>1. n <= MaxPrec
      <4> HIDE DEF n
      <4> QED BY <1>6, <1>7, <2>1
    <3>2. lo = w /\ w < Cap
      BY <1>3, <3>1, OneWord
    <3>3. c = lo
      BY <1>7, <2>1
    <3> QED BY <3>2, <3>3
  <2>2. CASE n = MaxPrec + 1
    <3> DEFINE y == DigitsVal(SubSeq(s, 1 + 1, n))
               x == h * p
    <3>1. 1 \in 0..n /\ n \in 1..n /\ n - 1 = MaxPrec /\ n - 1 <= 2*MaxPrec
          /\ 0 \in 0..n /\ n \in 0..n /\ n - 0 = n /\ n <= 2*MaxPrec /\ n \in 0..2*MaxPrec
          /\ 0 \in 0..(n - 1) /\ 0 + 1 = 1
      <4> HIDE DEF n
      <4> QED BY <1>6, <1>7, <2>2
    <3>2. h = s[1] /\ s[1] \in 0..9 /\ Upto(s, 1) = s[1]
      <4>1. s[0 + 1] \in 0..9 /\ Upto(s, 0 + 1) = 10 * Upto(s, 0) + s[0 + 1] /\ Upto(s, 0) = 0
        BY <1>2, <3>1, DigitByDigit
      <4>2. h = s[1]
        BY <1>2 DEF Runs
      <4> QED BY <4>1, <4>2
    <3>3. p \in Nat \ {0} /\ y \in Nat /\ y < p /\ Upto(s, n) = Upto(s, 1) * p + y
      <4>1. LET back == DigitsVal(SubSeq(s, 1 + 1, n))
            IN  /\ Pow10[n - 1] \in Nat \ {0} /\ back \in Nat /\ back < Pow10[n - 1]
                /\ Upto(s, n) = Upto(s, 1) * Pow10[n - 1] + back
        BY <1>2, <3>1, Slice
      <4> QED BY <3>1, <4>1
    <3>4. w = Upto(s, n) /\ w \in Nat
      BY <1>2, DigitByDigit
    <3>5. w < Cap
      <4>1. SubSeq(s, 0 + 1, n) = s
        BY <1>2, SubSeqFull DEF Runs
      <4>2. LET back == DigitsVal(SubSeq(s, 0 + 1, n))
            IN  back < Pow10[n - 0] /\ Pow10[n - 0] \in Nat \ {0}
        BY <1>2, <3>1, Slice
      <4>3. w < Pow10[n] /\ Pow10[n] \in Nat \ {0}
        BY <3>1, <4>1, <4>2
      <4>4. Pow10[n] < Cap
        BY <3>1, PowBounds
      <4> DEFINE t == Pow10[n]
      <4> HIDE DEF t, w
      <4>5. w < t /\ t \in Nat /\ t < Cap
        BY <4>3, <4>4 DEF t
      <4> QED BY <1>6, <3>4, <4>5
    <3>6. p < Base
      BY <1>6, PowBounds
    <3> HIDE DEF h, p, y, w, n, lo
    <3>7. x \in Nat /\ w = x + y /\ y < Base
      BY <1>6, <3>2, <3>3, <3>4, <3>6
    <3> HIDE DEF x
    <3>8. tail = y
      BY <1>4, <3>3, <3>4, <3>7, Unwrapped DEF x
    <3>9. lead = x
      <4>1. x \in Int /\ 0 \in Int /\ x \in 0..(Cap - 1) /\ x = Cap * 0 + x /\ Cap \in Nat \ {0}
        BY <1>6, <3>3, <3>5, <3>7
      <4>2. x % Cap = x
        BY <4>1, DivModUnique
      <4> QED BY <4>2 DEF Mul128by64, x
    <3> HIDE DEF lead, tail
    <3>10. Add128(lead, tail).val = w
      BY <3>5, <3>7, <3>8, <3>9 DEF Add128
    <3>11. c = Add128(lead, tail).val
      BY <1>7, <2>2
    <3> QED BY <3>5, <3>10, <3>11
  <2> QED BY <2>1, <2>2
<1> HIDE DEF c, w
<1>9. w = DigitsVal(Digits(lit))
  BY <1>3 DEF w
<1>10. Ok(NewDecimal(w, IsNeg(lit), 0)) = Right
  BY <1>1, <1>2, <1>5, <1>7, <1>8, <1>9, PlainAnswer
<1> QED BY <1>1, <1>8, <1>10, ReturnsRight

(* With a point, the digits of the window fit one word.                    *)
LEMMA WindowFractionKeeps ==
  ASSUME IsLiteral(lit), Admitted(lit), AtWindow, WindowFraction
  PROVE  PathsKnow'
<1>1. /\ lit.dot /\ EndsPlain(lit) /\ lit.frac # <<>> /\ ~NoInt(lit)
      /\ Return(Trimmed(OneLimbVal(lit), Len(lit.frac)))
  BY DEF WindowFraction
<1>2. GrammarErr(lit) = "nil"
  BY <1>1, PlainGrammar
<1>3. Len(Digits(lit)) <= MaxPrec /\ Len(lit.frac) <= MaxPrec
  <2> DEFINE a == Len(lit.int)
             f == Len(lit.frac)
             r == Remaining(lit)
             d == Len(Digits(lit))
             t == TailLen(lit)
  <2>1. a \in Nat /\ f \in Nat /\ t = 0 /\ r = a + 1 + f + t
    BY <1>1, LiteralBytes
  <2>2. d = a + f /\ MaxPrec \in Nat
    BY MantissaFacts, PowFacts
  <2>3. r \in ShortCut..(MaxPrec + 1) /\ ShortCut \in Nat
    BY ParserAssumption DEF AtWindow
  <2> HIDE DEF a, f, r, d, t
  <2>4. d <= MaxPrec /\ f <= MaxPrec
    BY <2>1, <2>2, <2>3
  <2> QED BY <2>4 DEF d, f
<1>4. OneLimbVal(lit) = DigitsVal(Digits(lit)) /\ DigitsVal(Digits(lit)) < Cap
  BY <1>3, OneWord
<1>5. Trimmed(OneLimbVal(lit), Len(lit.frac)) = Right
  BY <1>1, <1>2, <1>3, <1>4, PlainAnswer
<1> QED BY <1>1, <1>5, ReturnsRight

(* What the window declines starts over in the general parser.             *)
LEMMA WindowDeclineKeeps ==
  ASSUME IsLiteral(lit), Fresh, Admitted(lit), WindowDecline
  PROVE  PathsKnow'
<1>1. General
  BY DEF WindowDecline
<1> QED BY <1>1, HandsOver

(* Folding a run to its end.                                               *)
LEMMA StartsRun ==
  ASSUME NEW s \in Runs, NEW j \in 0..Len(s)
  PROVE  \E k \in 0..j : 0 = Upto(s, k) /\ 0 < Cap /\ SubSeq(s, 1, j) = SubSeq(s, k + 1, j)
<1>1. Upto(s, 0) = 0 /\ 0 \in 0..j /\ 0 + 1 = 1 /\ 0 < Cap
  <2>1. Len(s) \in Nat /\ Upto(s, 0) = 0
    BY DigitByDigit
  <2>2. 0 \in 0..j /\ 0 + 1 = 1
    BY <2>1
  <2> QED BY <2>1, <2>2, CapFacts
<1> QED BY <1>1

(* When nothing waits, the coefficient is the number of the run.           *)
LEMMA EndsRun ==
  ASSUME NEW s \in Runs, NEW j \in 0..Len(s), Partway(s, j), rest = <<>>
  PROVE  coef = Upto(s, j) /\ coef < Cap
<1>1. PICK k \in 0..j : coef = Upto(s, k) /\ coef < Cap /\ rest = SubSeq(s, k + 1, j)
  BY DEF Partway
<1>2. Len(s) \in Nat
  BY DigitByDigit
<1>3. k \in 0..Len(s) /\ j \in k..Len(s)
  BY <1>2
<1>4. Len(SubSeq(s, k + 1, j)) = j - k
  BY <1>3, Cutting
<1>5. j - k = 0
  BY <1>1, <1>4
<1>6. k = j
  BY <1>2, <1>3, <1>5
<1> QED BY <1>1, <1>6

(* One chunk on, unless the number is past 128 bits.                       *)
LEMMA FoldsOn ==
  ASSUME NEW s \in Runs, NEW j \in 0..Len(s), Partway(s, j)
  PROVE  LET grown == Fold(coef, Chunk(rest))
         IN  /\ grown.over \in BOOLEAN
             /\ grown.over => Upto(s, j) >= Cap
             /\ ~grown.over => \E n \in 0..j : /\ grown.val = Upto(s, n) /\ grown.val < Cap
                                               /\ Beyond(rest) = SubSeq(s, n + 1, j)
<1>1. PICK k \in 0..j : coef = Upto(s, k) /\ coef < Cap /\ rest = SubSeq(s, k + 1, j)
  BY DEF Partway
<1> DEFINE grown == Fold(Upto(s, k), Chunk(rest))
<1>2. Upto(s, k) < Cap
  BY <1>1
<1>3. /\ grown.over \in BOOLEAN
      /\ grown.over => Upto(s, j) >= Cap
      /\ ~grown.over => \E n \in k..j : /\ grown.val = Upto(s, n) /\ Upto(s, n) < Cap
                                        /\ Beyond(rest) = SubSeq(s, n + 1, j)
  BY <1>1, <1>2, FoldChunk
<1>4. grown = Fold(coef, Chunk(rest))
  BY <1>1
<1> HIDE DEF grown
<1>5. ASSUME ~grown.over
      PROVE  \E n \in 0..j : /\ grown.val = Upto(s, n) /\ grown.val < Cap
                             /\ Beyond(rest) = SubSeq(s, n + 1, j)
  <2>1. PICK n \in k..j : /\ grown.val = Upto(s, n) /\ Upto(s, n) < Cap
                          /\ Beyond(rest) = SubSeq(s, n + 1, j)
    BY <1>3, <1>5
  <2>2. n \in 0..j
    <3>1. Len(s) \in Nat
      BY DigitByDigit
    <3> QED BY <3>1
  <2>3. grown.val < Cap
    BY <2>1
  <2> QED BY <2>1, <2>2, <2>3
<1> QED BY <1>3, <1>4, <1>5

(* parseLongPlain.                                                         *)
LEMMA LongPlainKeeps ==
  ASSUME IsLiteral(lit), Admitted(lit), Fresh, AtLong, LongPlain
  PROVE  PathsKnow'
<1>1. CASE LongDeclines(lit)
  <2>1. General
    BY <1>1 DEF LongPlain
  <2> QED BY <2>1, HandsOver
<1>2. CASE ~LongDeclines(lit)
  <2>1. pc' = "longInt" /\ rest' = lit.int /\ coef' = 0 /\ lit' = lit
    BY <1>2 DEF LongPlain
  <2> DEFINE s == lit.int
             n == Len(s)
  <2>2. s \in Runs
    BY LiteralBytes
  <2>3. n \in 0..n
    <3>1. n \in Nat
      BY <2>2, DigitByDigit
    <3> QED BY <3>1
  <2>4. \E k \in 0..n : 0 = Upto(s, k) /\ 0 < Cap /\ SubSeq(s, 1, n) = SubSeq(s, k + 1, n)
    <3> HIDE DEF s
    <3> QED BY <2>2, <2>3, StartsRun
  <2>5. SubSeq(s, 1, n) = s
    BY <2>2, SubSeqFull DEF Runs
  <2>6. \E k \in 0..n : coef' = Upto(s, k) /\ coef' < Cap /\ rest' = SubSeq(s, k + 1, n)
    BY <2>1, <2>4, <2>5
  <2>7. /\ Remaining(lit') > MaxPrec + 1 /\ ~LongDeclines(lit') /\ Admitted(lit')
        /\ \E k \in 0..Len(lit'.int) : /\ coef' = Upto(lit'.int, k) /\ coef' < Cap
                                       /\ rest' = SubSeq(lit'.int, k + 1, Len(lit'.int))
    BY <1>2, <2>1, <2>6 DEF AtLong
  <2> QED BY <2>1, <2>7 DEF StrictOnly, TruncOnly, PathsKnow, AtLongInt, AtLong, Partway
<1> QED BY <1>1, <1>2

(* A chunk of the long path's integer, or its hand-over.                   *)
LEMMA LongFoldKeeps ==
  ASSUME IsLiteral(lit), Admitted(lit), Fresh, AtLongInt, LongFold
  PROVE  PathsKnow'
<1> DEFINE s == lit.int
           n == Len(s)
           grown == Fold(coef, Chunk(rest))
<1>1. s \in Runs /\ n \in 0..n
  <2>1. s \in Runs
    BY LiteralBytes
  <2>2. n \in Nat
    BY <2>1, DigitByDigit
  <2> QED BY <2>1, <2>2
<1>2. /\ grown.over \in BOOLEAN
      /\ ~grown.over => \E k \in 0..n : /\ grown.val = Upto(s, k) /\ grown.val < Cap
                                        /\ Beyond(rest) = SubSeq(s, k + 1, n)
  <2>1. Partway(s, n)
    BY DEF AtLongInt
  <2> HIDE DEF s
  <2> QED BY <1>1, <2>1, FoldsOn
<1>3. IF grown.over THEN General
      ELSE /\ coef' = grown.val /\ rest' = Beyond(rest)
           /\ UNCHANGED <<lit, trunc, pc, frac, dropped, dropNZ, exp, out>>
  BY DEF LongFold, FoldNext
<1>4. pc = "longInt" /\ AtLong /\ ~LongDeclines(lit)
  BY DEF LongFold, AtLongInt
<1> HIDE DEF grown
<1>5. CASE grown.over
  BY <1>3, <1>5, HandsOver
<1>6. CASE ~grown.over
  <2>1. coef' = grown.val /\ rest' = Beyond(rest) /\ pc' = "longInt" /\ lit' = lit
    BY <1>3, <1>4, <1>6
  <2>2. \E k \in 0..n : coef' = Upto(s, k) /\ coef' < Cap /\ rest' = SubSeq(s, k + 1, n)
    BY <1>2, <1>6, <2>1
  <2>3. /\ Remaining(lit') > MaxPrec + 1 /\ ~LongDeclines(lit') /\ Admitted(lit')
        /\ \E k \in 0..Len(lit'.int) : /\ coef' = Upto(lit'.int, k) /\ coef' < Cap
                                       /\ rest' = SubSeq(lit'.int, k + 1, Len(lit'.int))
    BY <1>4, <2>1, <2>2 DEF AtLong
  <2> QED BY <2>1, <2>3 DEF StrictOnly, TruncOnly, PathsKnow, AtLongInt, AtLong, Partway
<1> QED BY <1>5, <1>6

(* The fraction of the long path is one more chunk.                        *)
LEMMA LongFinishKeeps ==
  ASSUME IsLiteral(lit), Admitted(lit), Fresh, AtLongInt, LongFinish
  PROVE  PathsKnow'
<1> DEFINE s == lit.int
           y == lit.frac
           f == Len(y)
           w == DigitsVal(s)
           c == DigitsVal(Digits(lit))
           grown == Fold(coef, y)
<1>1. /\ s \in Runs /\ y \in Runs /\ Len(s) \in Nat /\ f \in Nat /\ lit.dot \in BOOLEAN /\ lit.zeros \in Nat
      /\ TailLen(lit) \in Nat /\ (EndsPlain(lit) => TailLen(lit) = 0)
      /\ (lit.dot => Remaining(lit) = Len(s) + 1 + f + TailLen(lit))
      /\ (~lit.dot => y = <<>> /\ f = 0)
      /\ (NoInt(lit) <=> lit.zeros + Len(s) = 0)
  BY LiteralBytes
<1>2. EndsPlain(lit) /\ (lit.dot => y # <<>> /\ ~(f > MaxPrec)) /\ Remaining(lit) > MaxPrec + 1
  BY DEF AtLongInt, LongDeclines, AtLong
<1>3. MaxPrec \in Nat
  BY PowFacts
<1>4. coef = w /\ w < Cap /\ w \in Nat
  <2>1. Partway(s, Len(s)) /\ rest = <<>>
    BY DEF AtLongInt, LongFinish
  <2>2. Len(s) \in 0..Len(s)
    BY <1>1
  <2> HIDE DEF s
  <2>3. coef = Upto(s, Len(s)) /\ coef < Cap
    BY <1>1, <2>1, <2>2, EndsRun
  <2>4. Upto(s, Len(s)) = w /\ w \in Nat
    BY <1>1, DigitByDigit
  <2> QED BY <2>3, <2>4
<1>5. f <= MaxPrec
  <2> HIDE DEF f
  <2>1. CASE lit.dot
    BY <1>1, <1>2, <1>3, <2>1
  <2>2. CASE ~lit.dot
    BY <1>1, <1>3, <2>2
  <2> QED BY <1>1, <2>1, <2>2
<1>6. lit.dot => ~NoInt(lit) /\ y # <<>>
  <2> SUFFICES ASSUME lit.dot PROVE ~NoInt(lit)
    BY <1>2
  <2> DEFINE a == lit.zeros
             b == Len(s)
             r == Remaining(lit)
  <2>1. a \in Nat /\ b \in Nat /\ f \in Nat /\ r = b + 1 + f + 0 /\ r > MaxPrec + 1 /\ (NoInt(lit) <=> a + b = 0)
    BY <1>1, <1>2
  <2> HIDE DEF a, b, r, f
  <2>2. a + b # 0
    BY <1>3, <1>5, <2>1
  <2> QED BY <2>1, <2>2
<1>7. GrammarErr(lit) = "nil"
  BY <1>2, <1>6, PlainGrammar
<1>8. c = w * Pow10[f] + DigitsVal(y)
  <2>1. f <= 2*MaxPrec
    <3> HIDE DEF f
    <3> QED BY <1>1, <1>3, <1>5
  <2> QED BY <2>1, Joined
<1>9. CASE ~lit.dot
  <2>1. Return(Ok(NewDecimal(coef, IsNeg(lit), 0)))
    BY <1>9 DEF LongFinish
  <2>2. y = <<>>
    BY <1>1, <1>9
  <2>3. Digits(lit) = s
    BY <1>1, <2>2, ConcatEmptySeq DEF Digits, Runs
  <2>4. c = w
    BY <2>3
  <2> HIDE DEF c, w
  <2>5. Ok(NewDecimal(c, IsNeg(lit), 0)) = Right
    BY <1>2, <1>4, <1>5, <1>7, <2>2, <2>4, PlainAnswer DEF c
  <2> QED BY <1>4, <2>1, <2>4, <2>5, ReturnsRight
<1>10. CASE lit.dot
  <2>1. IF grown.over THEN General ELSE Return(Trimmed(grown.val, f))
    BY <1>10 DEF LongFinish
  <2>2. /\ c \in Nat /\ grown.over \in BOOLEAN /\ (grown.over <=> c >= Cap)
        /\ (c < Cap => grown.val = c)
    <3>1. LET whole == w * Pow10[f] + DigitsVal(y)
          IN  /\ whole \in Nat /\ Fold(w, y).over \in BOOLEAN
              /\ Fold(w, y).over <=> whole >= Cap
              /\ whole < Cap => Fold(w, y).val = whole
      <4> HIDE DEF w, y
      <4> QED BY <1>1, <1>4, <1>5, FoldMeans
    <3> QED BY <1>4, <1>8, <3>1
  <2> HIDE DEF grown, c
  <2>3. CASE grown.over
    BY <2>1, <2>3, HandsOver
  <2>4. CASE ~grown.over
    <3>1. c < Cap
      BY <2>2, <2>4, CapFacts
    <3>2. Trimmed(c, f) = Right
      BY <1>2, <1>5, <1>7, <3>1, PlainAnswer DEF c
    <3> QED BY <2>1, <2>2, <2>4, <3>1, <3>2, ReturnsRight
  <2> QED BY <2>3, <2>4
<1> QED BY <1>1, <1>9, <1>10

(* parseGeneralExact.                                                      *)
LEMMA KeptRuns ==
  ASSUME IsLiteral(lit)
  PROVE  /\ Kept(lit) \in Runs /\ KeptInt(lit) \in 0..Len(Kept(lit))
         /\ Len(Kept(lit)) \in 0..Len(Kept(lit)) /\ Len(IntRun(lit)) \in Nat /\ Len(Kept(lit)) \in Nat
<1> DEFINE a == Len(Kept(lit))
           b == Len(IntRun(lit))
<1>1. Kept(lit) \in Runs /\ a \in Nat
  BY KeptFacts
<1>2. b \in Nat
  <2>1. IntRun(lit) \in Runs
    BY MantissaFacts
  <2> QED BY <2>1, DigitByDigit
<1>3. KeptInt(lit) = Smaller(a, b)
  BY DEF KeptInt
<1> HIDE DEF a, b
<1>4. KeptInt(lit) \in 0..a /\ a \in 0..a
  BY <1>1, <1>2, <1>3 DEF Smaller
<1> QED BY <1>1, <1>2, <1>4 DEF a, b

(* The general parser sees to the grammar before any range.                *)
LEMMA StrictExactGrammar ==
  ASSUME ~trunc, IsLiteral(lit), Admitted(lit), ExactGrammar
  PROVE  PathsKnow'
<1>1. CASE Ungrammatical(lit)
  <2>1. Return(Fail("InvalidFormat"))
    BY <1>1 DEF ExactGrammar
  <2>2. Fail("InvalidFormat") = Right
    BY <1>1, AdmittedGrammar
  <2> QED BY <2>1, <2>2, ReturnsRight
<1>2. CASE ~Ungrammatical(lit) /\ Kept(lit) = <<>>
  <2>1. Return(Ok(Zero))
    BY <1>2 DEF ExactGrammar
  <2>2. GrammarErr(lit) = "nil"
    BY <1>2, AdmittedGrammar
  <2>3. Ok(Zero) = Right
    BY <1>2, <2>2, SpelledMeans DEF Right
  <2> QED BY <2>1, <2>3, ReturnsRight
<1>3. CASE ~Ungrammatical(lit) /\ Kept(lit) # <<>>
  <2> DEFINE s == Kept(lit)
             j == KeptInt(lit)
  <2>1. /\ pc' = "exactInt" /\ coef' = 0 /\ exp' = ExpOf(lit) /\ lit' = lit
        /\ rest' = SubSeq(s, 1, j)
    BY <1>3 DEF ExactGrammar, KeptInt
  <2>2. s \in Runs /\ j \in 0..Len(s)
    BY KeptRuns
  <2>3. \E k \in 0..j : 0 = Upto(s, k) /\ 0 < Cap /\ SubSeq(s, 1, j) = SubSeq(s, k + 1, j)
    <3> HIDE DEF s, j
    <3> QED BY <2>2, StartsRun
  <2>4. \E k \in 0..j : coef' = Upto(s, k) /\ coef' < Cap /\ rest' = SubSeq(s, k + 1, j)
    BY <2>1, <2>3
  <2>5. /\ ~Ungrammatical(lit') /\ Kept(lit') # <<>> /\ exp' = ExpOf(lit') /\ Admitted(lit')
        /\ \E k \in 0..KeptInt(lit') : /\ coef' = Upto(Kept(lit'), k) /\ coef' < Cap
                                       /\ rest' = SubSeq(Kept(lit'), k + 1, KeptInt(lit'))
    BY <1>3, <2>1, <2>4
  <2> QED BY <2>1, <2>5 DEF StrictOnly, TruncOnly, PathsKnow, AtExactInt, InExact, Partway
<1> QED BY <1>1, <1>2, <1>3

(* A chunk of the general parser; past 128 bits Text refuses, too.         *)
LEMMA StrictFoldExact ==
  ASSUME ~trunc, IsLiteral(lit), Admitted(lit), FoldExactDigits,
         pc = "exactInt" => AtExactInt, pc = "exactFrac" => AtExactFrac
  PROVE  PathsKnow'
<1> DEFINE s == Kept(lit)
           grown == Fold(coef, Chunk(rest))
<1>1. pc \in {"exactInt", "exactFrac"} /\ InExact
  BY DEF FoldExactDigits, AtExactInt, AtExactFrac
<1>2. PICK j \in {KeptInt(lit), Len(s)} :
        Partway(s, j) /\ (pc = "exactInt" => j = KeptInt(lit)) /\ (pc = "exactFrac" => j = Len(s))
  <2>1. CASE pc = "exactInt"
    BY <2>1 DEF AtExactInt
  <2>2. CASE pc = "exactFrac"
    BY <2>2 DEF AtExactFrac
  <2> QED BY <1>1, <2>1, <2>2
<1>3. s \in Runs /\ j \in 0..Len(s) /\ Len(s) \in Nat
  BY <1>2, KeptRuns
<1>4. /\ grown.over \in BOOLEAN
      /\ grown.over => Upto(s, j) >= Cap
      /\ ~grown.over => \E k \in 0..j : /\ grown.val = Upto(s, k) /\ grown.val < Cap
                                        /\ Beyond(rest) = SubSeq(s, k + 1, j)
  <2> HIDE DEF s
  <2> QED BY <1>2, <1>3, FoldsOn
<1>5. IF grown.over THEN Return(Fail("Overflow"))
      ELSE /\ coef' = grown.val /\ rest' = Beyond(rest)
           /\ UNCHANGED <<lit, trunc, pc, frac, dropped, dropNZ, exp, out>>
  BY DEF FoldExactDigits, FoldNext
<1> HIDE DEF grown
<1>6. CASE grown.over
  <2>1. DigitsVal(s) >= Cap
    <3>1. Len(s) \in j..Len(s)
      BY <1>3
    <3>2. Upto(s, j) <= Upto(s, Len(s)) /\ Upto(s, j) \in Nat /\ Upto(s, Len(s)) \in Nat
      BY <1>3, <3>1, NeverFalls
    <3>3. Upto(s, Len(s)) = DigitsVal(s)
      BY <1>3, DigitByDigit
    <3> DEFINE a == Upto(s, j)
               b == DigitsVal(s)
    <3> HIDE DEF a, b
    <3>4. a >= Cap /\ a <= b /\ a \in Nat /\ b \in Nat
      BY <1>4, <1>6, <3>2, <3>3 DEF a, b
    <3>5. b >= Cap
      BY <3>4, CapFacts
    <3> QED BY <3>5 DEF b
  <2>2. GrammarErr(lit) = "nil"
    BY <1>1, AdmittedGrammar DEF InExact
  <2>3. Fail("Overflow") = Right
    BY <2>1, <2>2, SpelledMeans DEF Right
  <2> QED BY <1>5, <1>6, <2>3, ReturnsRight
<1>7. CASE ~grown.over
  <2>1. coef' = grown.val /\ rest' = Beyond(rest) /\ pc' = pc /\ lit' = lit /\ exp' = exp
    BY <1>5, <1>7
  <2>2. \E k \in 0..j : coef' = Upto(s, k) /\ coef' < Cap /\ rest' = SubSeq(s, k + 1, j)
    BY <1>4, <1>7, <2>1
  <2>3. ~Ungrammatical(lit') /\ Kept(lit') # <<>> /\ exp' = ExpOf(lit') /\ Admitted(lit')
    BY <1>1, <2>1 DEF InExact
  <2>4. CASE pc = "exactInt"
    <3>1. \E k \in 0..KeptInt(lit') : /\ coef' = Upto(Kept(lit'), k) /\ coef' < Cap
                                      /\ rest' = SubSeq(Kept(lit'), k + 1, KeptInt(lit'))
      BY <1>2, <2>1, <2>2, <2>4
    <3> QED BY <2>1, <2>3, <2>4, <3>1 DEF StrictOnly, TruncOnly, PathsKnow, AtExactInt, InExact, Partway
  <2>5. CASE pc = "exactFrac"
    <3>1. \E k \in 0..Len(Kept(lit')) : /\ coef' = Upto(Kept(lit'), k) /\ coef' < Cap
                                        /\ rest' = SubSeq(Kept(lit'), k + 1, Len(Kept(lit')))
      BY <1>2, <2>1, <2>2, <2>5
    <3> QED BY <2>1, <2>3, <2>5, <3>1 DEF StrictOnly, TruncOnly, PathsKnow, AtExactFrac, InExact, Partway
  <2> QED BY <1>1, <2>4, <2>5
<1> QED BY <1>4, <1>6, <1>7

(* From the integer run to the fraction no digit is lost or repeated.      *)
LEMMA StrictExactFraction ==
  ASSUME IsLiteral(lit), Admitted(lit), AtExactInt, ExactFraction
  PROVE  PathsKnow'
<1> DEFINE s == Kept(lit)
           n == Len(s)
           j == KeptInt(lit)
           i == Len(IntRun(lit))
<1>1. s \in Runs /\ j \in 0..n /\ i \in Nat /\ n \in Nat
  BY KeptRuns
<1>2. /\ pc' = "exactFrac" /\ rest' = SubSeq(s, i + 1, n) /\ coef' = coef /\ lit' = lit /\ exp' = exp
      /\ rest = <<>> /\ Partway(s, j) /\ InExact
  BY DEF ExactFraction, AtExactInt
<1>3. j = Smaller(n, i)
  BY DEF KeptInt
<1> HIDE DEF s, j, i
<1>4. coef = Upto(s, j) /\ coef < Cap
  BY <1>1, <1>2, EndsRun
<1>5. rest' = SubSeq(s, j + 1, n)
  <2> HIDE DEF n
  <2>1. CASE i <= n
    <3>1. j = i
      BY <1>1, <1>3, <2>1 DEF Smaller
    <3> QED BY <1>2, <3>1
  <2>2. CASE ~(i <= n)
    <3>1. j = n /\ i + 1 \in Int /\ n \in Int /\ n + 1 \in Int /\ n < i + 1 /\ n < n + 1
      BY <1>1, <1>3, <2>2 DEF Smaller
    <3>2. SubSeq(s, i + 1, n) = <<>> /\ SubSeq(s, n + 1, n) = <<>>
      BY <3>1, SubSeqEmpty
    <3> QED BY <1>2, <3>1, <3>2
  <2> QED BY <2>1, <2>2
<1>6. \E k \in 0..n : coef' = Upto(s, k) /\ coef' < Cap /\ rest' = SubSeq(s, k + 1, n)
  BY <1>1, <1>2, <1>4, <1>5
<1>7. ~Ungrammatical(lit') /\ Kept(lit') # <<>> /\ exp' = ExpOf(lit') /\ Admitted(lit')
  BY <1>2 DEF InExact
<1>8. \E k \in 0..Len(Kept(lit')) : /\ coef' = Upto(Kept(lit'), k) /\ coef' < Cap
                                    /\ rest' = SubSeq(Kept(lit'), k + 1, Len(Kept(lit')))
  BY <1>2, <1>6 DEF s
<1> QED BY <1>2, <1>7, <1>8 DEF StrictOnly, TruncOnly, PathsKnow, AtExactFrac, InExact, Partway

(* The digits kept, scaled by the exponent and the zeros cut off.          *)
LEMMA StrictExactFinish ==
  ASSUME ~trunc, IsLiteral(lit), Admitted(lit), AtExactFrac, ExactFinish
  PROVE  PathsKnow'
<1> DEFINE s == Kept(lit)
<1>1. s \in Runs /\ Len(s) \in 0..Len(s)
  BY KeptRuns
<1>2. InExact /\ Partway(s, Len(s)) /\ rest = <<>>
      /\ Return(Canonical(coef, (Len(lit.frac) - exp) - EndZeros(Mantissa(lit))))
  BY DEF AtExactFrac, ExactFinish
<1> HIDE DEF s
<1>3. coef = DigitsVal(s) /\ coef < Cap
  <2>1. coef = Upto(s, Len(s)) /\ coef < Cap
    BY <1>1, <1>2, EndsRun
  <2> QED BY <1>1, <2>1, DigitByDigit
<1>4. GrammarErr(lit) = "nil"
  BY <1>2, AdmittedGrammar DEF InExact
<1>5. Canonical(DigitsVal(s), (Len(lit.frac) - ExpOf(lit)) - EndZeros(Mantissa(lit))) = Right
  BY <1>2, <1>3, <1>4, ExactAnswer DEF InExact, s
<1>6. exp = ExpOf(lit)
  BY <1>2 DEF InExact
<1> QED BY <1>2, <1>3, <1>5, <1>6, ReturnsRight

----------------------------------------------------------------------------
(* The truncating accumulator, and what the exponent makes of it.          *)

(* The longest prefix of a chunk that still fits, and what it leaves.      *)
LEMMA FoldPrefix ==
  ASSUME NEW s \in Runs, NEW k \in 0..Len(s), Upto(s, k) < Cap, NEW n \in 0..MaxPrec,
         k + n <= Len(s)
  PROVE  LET grown == Fold(Upto(s, k), SubSeq(s, k + 1, k + n))
         IN  /\ n \in Nat /\ k + n \in 0..Len(s)
             /\ grown.over \in BOOLEAN
             /\ grown.over <=> Upto(s, k + n) >= Cap
             /\ Upto(s, k + n) < Cap => grown.val = Upto(s, k + n)
<1> DEFINE c == Upto(s, k)
           digits == SubSeq(s, k + 1, k + n)
<1>1. MaxPrec \in Nat /\ Len(s) \in Nat
  BY PowFacts, DigitByDigit
<1>2. /\ k + n \in k..Len(s) /\ k + n \in 0..Len(s) /\ (k + n) - k = n /\ n \in Nat /\ n <= MaxPrec
      /\ (k + n) - k <= 2*MaxPrec
  BY <1>1
<1>3. digits \in Runs /\ Len(digits) = n
  BY <1>2, Cutting
<1>4. c \in Nat /\ Upto(s, k + n) = c * Pow10[n] + DigitsVal(digits)
  <2>1. /\ c \in Nat
        /\ Upto(s, k + n) = c * Pow10[(k + n) - k] + DigitsVal(SubSeq(s, k + 1, k + n))
    BY <1>2, Slice
  <2> QED BY <1>2, <2>1
<1>5. c < Cap
  OBVIOUS
<1> HIDE DEF c, digits
<1>6. LET whole == c * Pow10[Len(digits)] + DigitsVal(digits)
      IN  /\ whole \in Nat /\ Fold(c, digits).over \in BOOLEAN
          /\ Fold(c, digits).over <=> whole >= Cap
          /\ whole < Cap => Fold(c, digits).val = whole
  <2>1. Len(digits) <= MaxPrec
    BY <1>2, <1>3
  <2> QED BY <1>3, <1>4, <1>5, <2>1, FoldMeans
<1> DEFINE grown == Fold(c, digits)
<1>7. /\ n \in Nat /\ k + n \in 0..Len(s)
      /\ grown.over \in BOOLEAN
      /\ grown.over <=> Upto(s, k + n) >= Cap
      /\ Upto(s, k + n) < Cap => grown.val = Upto(s, k + n)
  BY <1>2, <1>3, <1>4, <1>6
<1> QED BY <1>7 DEF c, digits, grown

(* Where a chunk that does not fit is cut: after the last digit that does. *)
LEMMA ReplayFits ==
  ASSUME NEW s \in Runs, NEW j \in 0..Len(s), NEW k \in 0..j, coef = Upto(s, k), coef < Cap,
         NEW r, r = SubSeq(s, k + 1, j), Fold(coef, Chunk(r)).over
  PROVE  LET fit == Fitting(Chunk(r))
             n == Len(Chunk(r))
         IN  /\ n \in Nat /\ k + n \in k..j /\ fit \in 0..(n - 1)
             /\ Fold(coef, SubSeq(r, 1, fit)).val = Upto(s, k + fit) /\ Upto(s, k + fit) < Cap
             /\ Upto(s, (k + fit) + 1) >= Cap
             /\ SubSeq(r, fit + 1, n) = SubSeq(s, (k + fit) + 1, k + n)
             /\ Beyond(r) = SubSeq(s, (k + n) + 1, j)
<1>0. ASSUME NEW m \in 0..MaxPrec, k + m <= Len(s)
      PROVE  LET digits == SubSeq(s, k + 1, k + m)
             IN  /\ m \in Nat /\ k + m \in 0..Len(s)
                 /\ Fold(Upto(s, k), digits).over \in BOOLEAN
                 /\ Fold(Upto(s, k), digits).over <=> Upto(s, k + m) >= Cap
                 /\ Upto(s, k + m) < Cap => Fold(Upto(s, k), digits).val = Upto(s, k + m)
  <2>1. k \in 0..Len(s) /\ Upto(s, k) < Cap
    <3>1. Len(s) \in Nat
      BY DigitByDigit
    <3> QED BY <3>1
  <2> QED BY <1>0, <2>1, FoldPrefix
<1> DEFINE chunk == Chunk(r)
           n == Len(chunk)
           w == Len(r)
           Fits(m) == ~Fold(coef, SubSeq(chunk, 1, m)).over
           S == {m \in 0..n : Fits(m)}
           fit == CHOOSE x \in S : \A y \in S : x >= y
<1>1. MaxPrec \in Nat /\ Len(s) \in Nat /\ Cap \in Nat /\ k \in 0..Len(s) /\ j \in k..Len(s) /\ k \in Nat /\ j \in Nat
  <2>1. MaxPrec \in Nat /\ Len(s) \in Nat
    BY PowFacts, DigitByDigit
  <2> QED BY <2>1, CapFacts
<1>2. r \in Runs /\ w = j - k /\ w \in Nat
  BY <1>1, Cutting
<1> DEFINE g == Smaller(w, MaxPrec)
<1>3. g \in 0..w /\ g \in 0..MaxPrec /\ g \in Nat
  BY <1>1, <1>2 DEF Smaller
<1> HIDE DEF g
<1>4. chunk = SubSeq(r, 0 + 1, g) /\ n = g
  <2>1. chunk = SubSeq(r, 1, g)
    BY DEF Chunk, g
  <2>2. 0 \in 0..Len(r) /\ g \in 0..Len(r) /\ 0 + 1 = 1 /\ g - 0 = g
    BY <1>2, <1>3
  <2> DEFINE x == SubSeq(r, 0 + 1, g)
  <2>3. Len(x) = g - 0
    BY <1>2, <2>2, Cutting
  <2>4. chunk = x
    BY <2>1, <2>2
  <2> HIDE DEF x, chunk
  <2> QED BY <2>2, <2>3, <2>4 DEF x
<1> HIDE DEF chunk, w
<1>5. n \in Nat /\ k + n \in k..j /\ n <= MaxPrec /\ n \in 0..w
  BY <1>1, <1>2, <1>3, <1>4
<1>6. ASSUME NEW a \in 0..n, NEW b \in a..n
      PROVE  SubSeq(r, a + 1, b) = SubSeq(s, (k + a) + 1, k + b) /\ SubSeq(chunk, a + 1, b) = SubSeq(s, (k + a) + 1, k + b)
  <2>1. a \in 0..(j - k) /\ b \in a..(j - k) /\ a \in 0..(g - 0) /\ b \in a..(g - 0) /\ 0 \in 0..Len(r) /\ g \in 0..Len(r)
        /\ 0 + a = a /\ 0 + b = b
    BY <1>1, <1>2, <1>3, <1>4, <1>5 DEF w
  <2>2. SubSeq(SubSeq(s, k + 1, j), a + 1, b) = SubSeq(s, (k + a) + 1, k + b)
    BY <1>1, <2>1, Reslice
  <2>3. SubSeq(SubSeq(r, 0 + 1, g), a + 1, b) = SubSeq(r, (0 + a) + 1, 0 + b)
    BY <1>2, <2>1, Reslice
  <2>4. SubSeq(r, a + 1, b) = SubSeq(s, (k + a) + 1, k + b)
    BY <2>2
  <2> QED BY <1>4, <2>1, <2>3, <2>4
<1>7. ASSUME NEW m \in 0..n
      PROVE  /\ SubSeq(chunk, 1, m) = SubSeq(s, k + 1, k + m) /\ SubSeq(r, 1, m) = SubSeq(s, k + 1, k + m)
             /\ m \in Nat /\ k + m \in 0..Len(s)
             /\ Fits(m) <=> Upto(s, k + m) < Cap
             /\ Fits(m) => Fold(coef, SubSeq(r, 1, m)).val = Upto(s, k + m)
  <2>1. 0 \in 0..n /\ m \in 0..n /\ 0 + 1 = 1 /\ k + 0 = k /\ m \in 0..MaxPrec /\ k + m <= Len(s) /\ k + m \in 0..Len(s)
    BY <1>1, <1>5
  <2>2. SubSeq(chunk, 1, m) = SubSeq(s, k + 1, k + m) /\ SubSeq(r, 1, m) = SubSeq(s, k + 1, k + m)
    <3>1. m \in 0..n
      BY <2>1
    <3>2. SubSeq(r, 0 + 1, m) = SubSeq(s, (k + 0) + 1, k + m) /\ SubSeq(chunk, 0 + 1, m) = SubSeq(s, (k + 0) + 1, k + m)
      BY <1>6, <2>1, <3>1
    <3> QED BY <2>1, <3>2
  <2> DEFINE digits == SubSeq(s, k + 1, k + m)
  <2>3. /\ m \in Nat /\ k + m \in 0..Len(s)
        /\ Fold(Upto(s, k), digits).over \in BOOLEAN
        /\ Fold(Upto(s, k), digits).over <=> Upto(s, k + m) >= Cap
        /\ Upto(s, k + m) < Cap => Fold(Upto(s, k), digits).val = Upto(s, k + m)
    BY <1>0, <2>1
  <2> HIDE DEF digits
  <2> DEFINE u == Upto(s, k + m)
  <2>4. u \in Nat
    BY <2>3, DigitByDigit
  <2> HIDE DEF u
  <2>5. (u >= Cap) <=> ~(u < Cap)
    BY <1>1, <2>4
  <2>6. SubSeq(chunk, 1, m) = digits /\ SubSeq(r, 1, m) = digits
    BY <2>2 DEF digits
  <2>7. Fits(m) <=> ~Fold(Upto(s, k), digits).over
    BY <2>6
  <2> HIDE DEF Fits
  <2> QED BY <2>2, <2>3, <2>5, <2>6, <2>7 DEF u
<1>8. ~Fits(n)
  <2>1. n \in 0..n /\ 0 \in 0..n
    BY <1>5
  <2>2. SubSeq(chunk, 1, n) = chunk
    <3>1. chunk \in Runs
      <4> DEFINE x == SubSeq(r, 0 + 1, g)
      <4>1. 0 \in 0..Len(r) /\ g \in 0..Len(r)
        BY <1>2, <1>3 DEF w
      <4>2. x \in Runs
        BY <1>2, <4>1, Cutting
      <4>3. chunk = x
        BY <1>4
      <4> HIDE DEF x
      <4> QED BY <4>2, <4>3
    <3> QED BY <3>1, SubSeqFull DEF Runs
  <2>3. Fold(coef, chunk).over
    BY DEF chunk
  <2> QED BY <2>2, <2>3
<1>9. Fits(0)
  <2>1. 0 \in 0..n /\ k + 0 = k
    BY <1>1, <1>5
  <2>2. Upto(s, k + 0) < Cap
    BY <2>1
  <2> HIDE DEF Fits
  <2> QED BY <1>7, <2>1, <2>2
<1> HIDE DEF Fits
<1>10. S \in SUBSET Nat /\ S # {} /\ \A i \in S : i <= n
  BY <1>5, <1>9
<1>11. \E x \in S : \A y \in S : y <= x
  <2> HIDE DEF S
  <2> QED BY <1>5, <1>10, GreatestNatural
<1>12. fit \in S /\ \A y \in S : fit >= y
  <2>1. \E x \in S : \A y \in S : x >= y
    <3> HIDE DEF S
    <3> QED BY <1>10, <1>11
  <2> HIDE DEF S
  <2> QED BY <2>1
<1>13. Fitting(chunk) = fit
  BY DEF Fitting, Max, Fits, n
<1> HIDE DEF fit
<1>14. fit \in 0..(n - 1) /\ fit + 1 \in 0..n /\ Fits(fit) /\ ~Fits(fit + 1)
  <2>1. fit \in 0..n /\ Fits(fit)
    BY <1>12
  <2>2. fit # n
    BY <1>8, <2>1
  <2>3. fit + 1 \in 0..n /\ fit \in 0..(n - 1)
    BY <1>5, <2>1, <2>2
  <2>4. ~Fits(fit + 1)
    <3> SUFFICES ASSUME Fits(fit + 1) PROVE FALSE
      OBVIOUS
    <3>1. fit + 1 \in S
      BY <2>3
    <3>2. fit >= fit + 1
      BY <1>12, <3>1
    <3> QED BY <2>1, <3>2
  <2> QED BY <2>1, <2>3, <2>4
<1> HIDE DEF S, n
<1>15. /\ Fold(coef, SubSeq(r, 1, fit)).val = Upto(s, k + fit) /\ Upto(s, k + fit) < Cap
       /\ SubSeq(r, fit + 1, n) = SubSeq(s, (k + fit) + 1, k + n)
  <2>1. fit \in 0..n /\ n \in fit..n
    BY <1>5, <1>14
  <2> QED BY <1>6, <1>7, <1>14, <2>1
<1>16. Upto(s, (k + fit) + 1) >= Cap
  <2>1. ~(Upto(s, k + (fit + 1)) < Cap) /\ k + (fit + 1) \in 0..Len(s)
    BY <1>7, <1>14
  <2>2. k + (fit + 1) = (k + fit) + 1
    BY <1>1, <1>5, <1>14
  <2> DEFINE u == Upto(s, (k + fit) + 1)
  <2>3. u \in Nat /\ ~(u < Cap)
    BY <2>1, <2>2, DigitByDigit
  <2> HIDE DEF u
  <2>4. u >= Cap
    BY <1>1, <2>3
  <2> QED BY <2>4 DEF u
<1>17. Beyond(r) = SubSeq(s, (k + n) + 1, j)
  <2>1. Beyond(r) = SubSeq(r, n + 1, w)
    BY DEF Beyond, n, chunk, w
  <2>2. n \in 0..(j - k) /\ w \in n..(j - k) /\ k + w = j
    BY <1>1, <1>2, <1>5
  <2>3. SubSeq(SubSeq(s, k + 1, j), n + 1, w) = SubSeq(s, (k + n) + 1, k + w)
    BY <1>1, <2>2, Reslice
  <2> QED BY <2>1, <2>2, <2>3
<1> QED BY <1>5, <1>13, <1>14, <1>15, <1>16, <1>17 DEF n, chunk
(* Dropping digits counts them and remembers the first that is not zero.   *)
LEMMA DropMeans ==
  ASSUME NEW s \in Runs, NEW k \in 0..Len(s), NEW i \in k..Len(s), NEW b \in i..Len(s),
         dropped = i - k, FirstDropped(s, k, i, dropNZ),
         NEW digits, digits = SubSeq(s, i + 1, b), Drop(digits)
  PROVE  dropped' = b - k /\ FirstDropped(s, k, b, dropNZ')
<1> DEFINE n == Len(digits)
           nz == {q \in 1..n : digits[q] # 0}
           m == CHOOSE x \in nz : \A y \in nz : x <= y
<1>1. Len(s) \in Nat
  BY DigitByDigit
<1>2. k \in Nat /\ i \in Nat /\ b \in Nat /\ k <= i /\ i <= b /\ i \in 0..Len(s)
  BY <1>1
<1>3. n = b - i /\ \A q \in 1..(b - i) : digits[q] = s[i + q]
  BY <1>2, Cutting
<1>4. /\ dropped' = dropped + n
      /\ dropNZ' = IF dropNZ = 0 /\ nz # {} THEN dropped + m ELSE dropNZ
  BY DEF Drop, Min
<1>5. dropped' = b - k
  BY <1>2, <1>3, <1>4
<1>6. CASE dropNZ # 0
  <2>1. /\ dropNZ' = dropNZ /\ dropNZ \in 1..(i - k) /\ s[k + dropNZ] # 0
        /\ \A q \in (k + 1)..(k + dropNZ - 1) : s[q] = 0
    <3>1. dropNZ' = dropNZ
      BY <1>4, <1>6
    <3> QED BY <1>6, <3>1 DEF FirstDropped
  <2>2. dropNZ \in 1..(b - k)
    BY <1>2, <2>1
  <2> QED BY <1>5, <2>1, <2>2 DEF FirstDropped
<1>7. CASE dropNZ = 0
  <2>1. \A q \in (k + 1)..i : s[q] = 0
    <3>1. ~(0 \in 1..(i - k))
      BY <1>2
    <3> QED BY <1>7, <3>1 DEF FirstDropped
  <2>2. CASE nz = {}
    <3>1. \A q \in 1..n : s[i + q] = 0
      BY <1>3, <2>2
    <3>2. ASSUME NEW q \in (k + 1)..b PROVE s[q] = 0
      <4>1. CASE q <= i
        <5>1. q \in (k + 1)..i
          BY <1>2, <4>1
        <5> QED BY <2>1, <5>1
      <4>2. CASE q > i
        <5>1. q - i \in 1..n /\ i + (q - i) = q
          BY <1>2, <1>3, <4>2
        <5> QED BY <3>1, <5>1
      <4> QED BY <1>2, <4>1, <4>2
    <3>3. dropNZ' = 0
      BY <1>4, <1>7, <2>2
    <3> QED BY <1>5, <3>2, <3>3 DEF FirstDropped
  <2>3. CASE nz # {}
    <3>1. nz \in SUBSET Nat
      OBVIOUS
    <3>2. \E x \in nz : \A y \in nz : x <= y
      <4> HIDE DEF nz
      <4> QED BY <2>3, <3>1, LeastNatural
    <3>3. m \in nz /\ \A y \in nz : m <= y
      <4> HIDE DEF nz
      <4> QED BY <3>2
    <3> HIDE DEF m
    <3>4. m \in 1..n /\ digits[m] # 0 /\ \A q \in 1..n : q < m => digits[q] = 0
      <4>1. m \in 1..n /\ digits[m] # 0
        BY <3>3
      <4>2. ASSUME NEW q \in 1..n, q < m PROVE digits[q] = 0
        <5>1. ~(q \in nz)
          BY <3>3, <4>1, <4>2
        <5> QED BY <5>1
      <4> QED BY <4>1, <4>2
    <3> HIDE DEF nz, n
    <3>5. dropNZ' = (i - k) + m
      BY <1>4, <1>7, <2>3
    <3>6. /\ (i - k) + m \in 1..(b - k) /\ k + ((i - k) + m) = i + m /\ m \in 1..(b - i)
          /\ k + ((i - k) + m) - 1 = (i + m) - 1
      BY <1>2, <1>3, <3>4
    <3>7. s[i + m] # 0
      BY <1>3, <3>4, <3>6
    <3>8. ASSUME NEW q \in (k + 1)..((i + m) - 1) PROVE s[q] = 0
      <4>1. CASE q <= i
        <5>1. q \in (k + 1)..i
          BY <1>2, <4>1
        <5> QED BY <2>1, <5>1
      <4>2. CASE q > i
        <5>1. q - i \in 1..n /\ i + (q - i) = q /\ q - i < m /\ q - i \in 1..(b - i)
          BY <1>2, <1>3, <3>4, <4>2
        <5>2. digits[q - i] = 0
          BY <3>4, <5>1
        <5> QED BY <1>3, <5>1, <5>2
      <4> QED BY <1>2, <3>4, <4>1, <4>2
    <3> QED BY <1>5, <3>5, <3>6, <3>7, <3>8 DEF FirstDropped
  <2> QED BY <2>2, <2>3
<1> QED BY <1>6, <1>7
(* With nothing dropped every digit seen is in the coefficient.            *)
LEMMA NothingDropped ==
  ASSUME NEW s \in Runs, NEW j \in 0..Len(s), NEW k \in 0..j, NEW i \in k..j,
         NEW nz, Filled(s, k, i, coef, 0, nz)
  PROVE  i = k /\ nz = 0
<1>1. Len(s) \in Nat
  BY DigitByDigit
<1>2. 0 = i - k /\ FirstDropped(s, k, i, nz)
  BY DEF Filled
<1>3. i = k /\ ~(nz \in 1..(i - k))
  BY <1>1, <1>2
<1> QED BY <1>2, <1>3 DEF FirstDropped

(* A coefficient that has just taken its last digit has dropped none.      *)
LEMMA FilledUpTo ==
  ASSUME NEW s, NEW k \in Nat, NEW c, c = Upto(s, k), c < Cap
  PROVE  Filled(s, k, k, c, 0, 0)
<1>1. k - k = 0 /\ ~(k # k) /\ \A q \in (k + 1)..k : s[q] = 0
  OBVIOUS
<1> QED BY <1>1 DEF Filled, FirstDropped

(* accumRun: a chunk that fits moves into the coefficient.                 *)
LEMMA ChunkAccumulates ==
  ASSUME NEW s \in Runs, NEW j \in 0..Len(s), Accumulated(s, j, coef, dropped, dropNZ, rest), AccumChunk
  PROVE  Accumulated(s, j, coef', dropped', dropNZ', rest')
<1> DEFINE grown == Fold(coef, Chunk(rest))
<1>1. /\ dropped = 0 /\ ~grown.over /\ coef' = grown.val /\ rest' = Beyond(rest)
      /\ dropped' = dropped /\ dropNZ' = dropNZ
  BY DEF AccumChunk, FoldNext
<1>2. PICK k \in 0..j : \E i \in k..j : Filled(s, k, i, coef, dropped, dropNZ) /\ rest = SubSeq(s, i + 1, j)
  BY DEF Accumulated
<1>3. PICK i \in k..j : Filled(s, k, i, coef, dropped, dropNZ) /\ rest = SubSeq(s, i + 1, j)
  BY <1>2
<1>4. i = k /\ dropNZ = 0
  BY <1>1, <1>3, NothingDropped
<1>5. coef = Upto(s, k) /\ Upto(s, k) < Cap /\ rest = SubSeq(s, k + 1, j)
  BY <1>3, <1>4 DEF Filled
<1>6. ~grown.over => \E n \in k..j : /\ grown.val = Upto(s, n) /\ Upto(s, n) < Cap
                                     /\ Beyond(rest) = SubSeq(s, n + 1, j)
  <2> DEFINE g == Fold(Upto(s, k), Chunk(rest))
  <2>1. ~g.over => \E n \in k..j : /\ g.val = Upto(s, n) /\ Upto(s, n) < Cap
                                   /\ Beyond(rest) = SubSeq(s, n + 1, j)
    BY <1>5, FoldChunk
  <2>2. g = grown
    BY <1>5
  <2> HIDE DEF g, grown
  <2> QED BY <2>1, <2>2
<1> HIDE DEF grown
<1>7. PICK n \in k..j : /\ grown.val = Upto(s, n) /\ Upto(s, n) < Cap
                        /\ Beyond(rest) = SubSeq(s, n + 1, j)
  BY <1>1, <1>6
<1>8. n \in Nat /\ n \in 0..j /\ n \in n..j
  <2>1. Len(s) \in Nat
    BY DigitByDigit
  <2> QED BY <2>1
<1>9. coef' = Upto(s, n) /\ coef' < Cap /\ dropped' = 0 /\ dropNZ' = 0 /\ rest' = SubSeq(s, n + 1, j)
  BY <1>1, <1>4, <1>7
<1>10. Filled(s, n, n, coef', dropped', dropNZ')
  BY <1>8, <1>9, FilledUpTo
<1> QED BY <1>8, <1>9, <1>10 DEF Accumulated

(* One that does not is replayed digit by digit until the 128 bits are     *)
(* full; what is left of it is dropped.                                    *)
LEMMA ReplayAccumulates ==
  ASSUME NEW s \in Runs, NEW j \in 0..Len(s), Accumulated(s, j, coef, dropped, dropNZ, rest), AccumReplay
  PROVE  Accumulated(s, j, coef', dropped', dropNZ', rest')
<1> DEFINE fit == Fitting(Chunk(rest))
           n == Len(Chunk(rest))
           digits == SubSeq(rest, fit + 1, n)
<1>1. /\ dropped = 0 /\ Fold(coef, Chunk(rest)).over
      /\ coef' = Fold(coef, SubSeq(rest, 1, fit)).val
      /\ Drop(digits) /\ rest' = Beyond(rest)
  BY DEF AccumReplay
<1>2. PICK k \in 0..j : \E i \in k..j : Filled(s, k, i, coef, dropped, dropNZ) /\ rest = SubSeq(s, i + 1, j)
  BY DEF Accumulated
<1>3. PICK i \in k..j : Filled(s, k, i, coef, dropped, dropNZ) /\ rest = SubSeq(s, i + 1, j)
  BY <1>2
<1>4. i = k /\ dropNZ = 0
  BY <1>1, <1>3, NothingDropped
<1>5. coef = Upto(s, k) /\ coef < Cap /\ rest = SubSeq(s, k + 1, j)
  BY <1>3, <1>4 DEF Filled
<1>6. /\ n \in Nat /\ k + n \in k..j /\ fit \in 0..(n - 1)
      /\ Fold(coef, SubSeq(rest, 1, fit)).val = Upto(s, k + fit) /\ Upto(s, k + fit) < Cap
      /\ Upto(s, (k + fit) + 1) >= Cap
      /\ SubSeq(rest, fit + 1, n) = SubSeq(s, (k + fit) + 1, k + n)
      /\ Beyond(rest) = SubSeq(s, (k + n) + 1, j)
  BY <1>1, <1>5, ReplayFits
<1>7. coef' = Upto(s, k + fit) /\ digits = SubSeq(s, (k + fit) + 1, k + n) /\ rest' = SubSeq(s, (k + n) + 1, j)
  BY <1>1, <1>6
<1> HIDE DEF fit, n, digits
<1> DEFINE a == k + fit
           b == k + n
<1>8. /\ a \in 0..Len(s) /\ a \in a..Len(s) /\ b \in a..Len(s) /\ a \in 0..j /\ b \in a..j /\ 0 = a - a
      /\ a # b /\ a \in Nat
  <2>1. Len(s) \in Nat
    BY DigitByDigit
  <2> QED BY <1>6, <2>1
<1>9. coef' = Upto(s, a) /\ Upto(s, a) < Cap /\ Upto(s, a + 1) >= Cap
  BY <1>6, <1>7
<1>10. digits = SubSeq(s, a + 1, b) /\ rest' = SubSeq(s, b + 1, j)
  BY <1>7
<1> HIDE DEF a, b
<1>11. dropped = a - a /\ FirstDropped(s, a, a, dropNZ)
  <2>1. \A q \in (a + 1)..a : s[q] = 0
    BY <1>8
  <2> QED BY <1>1, <1>4, <1>8, <2>1 DEF FirstDropped
<1>12. dropped' = b - a /\ FirstDropped(s, a, b, dropNZ')
  BY <1>1, <1>8, <1>10, <1>11, DropMeans
<1>13. Filled(s, a, b, coef', dropped', dropNZ')
  BY <1>9, <1>12 DEF Filled
<1> QED BY <1>8, <1>10, <1>13 DEF Accumulated

(* Once they are full all that follows is dropped.                         *)
LEMMA RestDrops ==
  ASSUME NEW s \in Runs, NEW j \in 0..Len(s), Accumulated(s, j, coef, dropped, dropNZ, rest), AccumSaturated
  PROVE  Accumulated(s, j, coef', dropped', dropNZ', rest')
<1>1. dropped > 0 /\ Drop(rest) /\ rest' = <<>> /\ coef' = coef
  BY DEF AccumSaturated
<1>2. PICK k \in 0..j : \E i \in k..j : Filled(s, k, i, coef, dropped, dropNZ) /\ rest = SubSeq(s, i + 1, j)
  BY DEF Accumulated
<1>3. PICK i \in k..j : Filled(s, k, i, coef, dropped, dropNZ) /\ rest = SubSeq(s, i + 1, j)
  BY <1>2
<1>4. /\ coef = Upto(s, k) /\ coef < Cap /\ dropped = i - k /\ (i # k => Upto(s, k + 1) >= Cap)
      /\ FirstDropped(s, k, i, dropNZ)
  BY <1>3 DEF Filled
<1>5. k \in 0..Len(s) /\ i \in k..Len(s) /\ j \in i..Len(s) /\ j \in k..j /\ j \in 0..Len(s) /\ j \in j..Len(s) /\ j - j = 0
  <2>1. Len(s) \in Nat
    BY DigitByDigit
  <2> QED BY <2>1
<1>6. dropped' = j - k /\ FirstDropped(s, k, j, dropNZ')
  <2>1. dropped = i - k /\ rest = SubSeq(s, i + 1, j)
    BY <1>3, <1>4
  <2> QED BY <1>1, <1>4, <1>5, <2>1, DropMeans
<1>7. Upto(s, k + 1) >= Cap
  <2>1. i # k
    BY <1>1, <1>4
  <2> QED BY <1>4, <2>1
<1>8. rest' = SubSeq(s, j + 1, j)
  <2> DEFINE t == SubSeq(s, j + 1, j)
  <2>1. t \in Runs /\ Len(t) = 0
    <3>1. t \in Runs /\ Len(t) = j - j
      BY <1>5, Cutting
    <3> QED BY <1>5, <3>1
  <2>2. t = <<>>
    <3> HIDE DEF t
    <3> QED BY <2>1 DEF Runs
  <2> QED BY <1>1, <2>2
<1>9. Filled(s, k, j, coef', dropped', dropNZ')
  BY <1>1, <1>4, <1>6, <1>7 DEF Filled
<1> QED BY <1>5, <1>8, <1>9 DEF Accumulated
(* The truncating accumulator, on the integer run and on the fraction.     *)
LEMMA AccumRunKeeps ==
  ASSUME IsLiteral(lit), Admitted(lit), pc = "accumInt" => AtAccumInt, pc = "accumFrac" => AtAccumFrac,
         AccumChunk \/ AccumReplay \/ AccumSaturated
  PROVE  PathsKnow'
<1> DEFINE M == Mantissa(lit)
           j == Len(IntRun(lit))
           Gone(n) == Accumulated(M, n, coef', dropped', dropNZ', rest')
<1>1. M \in Runs /\ j \in 0..Len(M) /\ Len(M) \in 0..Len(M)
  <2>1. M \in Runs /\ j \in 0..Len(M) /\ Len(M) \in Nat
    BY IntRunOf
  <2> QED BY <2>1
<1>2. lit' = lit /\ pc' = pc /\ pc \in {"accumInt", "accumFrac"}
  <2>1. CASE AccumChunk
    BY <2>1 DEF AccumChunk, FoldNext, Accumulating
  <2>2. CASE AccumReplay
    BY <2>2 DEF AccumReplay, Accumulating
  <2>3. CASE AccumSaturated
    BY <2>3 DEF AccumSaturated, Accumulating
  <2> QED BY <2>1, <2>2, <2>3
<1>3. ASSUME NEW n \in 0..Len(M), Accumulated(M, n, coef, dropped, dropNZ, rest)
      PROVE  Gone(n)
  <2> HIDE DEF M
  <2>1. CASE AccumChunk
    BY <1>1, <1>3, <2>1, ChunkAccumulates
  <2>2. CASE AccumReplay
    BY <1>1, <1>3, <2>2, ReplayAccumulates
  <2>3. CASE AccumSaturated
    BY <1>1, <1>3, <2>3, RestDrops
  <2> QED BY <2>1, <2>2, <2>3
<1>4. CASE pc = "accumInt"
  <2>1. Accumulated(M, j, coef, dropped, dropNZ, rest)
    BY <1>4 DEF AtAccumInt
  <2>2. Gone(j)
    BY <1>1, <1>3, <2>1
  <2>3. M = Mantissa(lit') /\ j = Len(IntRun(lit'))
    BY <1>2
  <2>4. AtAccumInt'
    BY <2>2, <2>3 DEF AtAccumInt
  <2>5. pc' = "accumInt" /\ Admitted(lit')
    BY <1>2, <1>4
  <2> QED BY <2>4, <2>5 DEF PathsKnow, StrictOnly, TruncOnly
<1>5. CASE pc = "accumFrac"
  <2>1. Accumulated(M, Len(M), coef, dropped, dropNZ, rest) /\ ~NoInt(lit) /\ lit.dot /\ lit.frac # <<>>
    BY <1>5 DEF AtAccumFrac
  <2>2. Gone(Len(M))
    BY <1>1, <1>3, <2>1
  <2>3. M = Mantissa(lit')
    BY <1>2
  <2>4. AtAccumFrac'
    BY <1>2, <2>1, <2>2, <2>3 DEF AtAccumFrac
  <2>5. pc' = "accumFrac" /\ Admitted(lit')
    BY <1>2, <1>5
  <2> QED BY <2>4, <2>5 DEF PathsKnow, StrictOnly, TruncOnly
<1> QED BY <1>2, <1>4, <1>5

(* At the end of a run all of it is in the coefficient or dropped.         *)
LEMMA AccumEnds ==
  ASSUME NEW s \in Runs, NEW j \in 0..Len(s), Accumulated(s, j, coef, dropped, dropNZ, rest), rest = <<>>
  PROVE  \E k \in 0..j : Filled(s, k, j, coef, dropped, dropNZ)
<1>1. PICK k \in 0..j : \E i \in k..j : Filled(s, k, i, coef, dropped, dropNZ) /\ rest = SubSeq(s, i + 1, j)
  BY DEF Accumulated
<1>2. PICK i \in k..j : Filled(s, k, i, coef, dropped, dropNZ) /\ rest = SubSeq(s, i + 1, j)
  BY <1>1
<1>3. Len(s) \in Nat /\ i \in 0..Len(s) /\ j \in i..Len(s)
  <2>1. Len(s) \in Nat
    BY DigitByDigit
  <2> QED BY <2>1
<1>4. Len(SubSeq(s, i + 1, j)) = j - i
  BY <1>3, Cutting
<1>5. j - i = 0
  BY <1>2, <1>4
<1>6. i = j
  BY <1>3, <1>5
<1> QED BY <1>2, <1>6

(* What the exponent ends is grammatical or refused.                       *)
LEMMA ExponentKeeps ==
  ASSUME IsLiteral(lit), Admitted(lit), ~NoInt(lit), lit.dot => lit.frac # <<>>, Exponent,
         NEW k \in 0..Len(Mantissa(lit)), Filled(Mantissa(lit), k, Len(Mantissa(lit)), coef, dropped, dropNZ)
  PROVE  PathsKnow'
<1>1. CASE BadExponent(lit)
  <2>1. Ungrammatical(lit)
    BY <1>1 DEF Ungrammatical
  <2>2. Return(Fail("InvalidFormat")) /\ Fail("InvalidFormat") = Right
    BY <1>1, <2>1, AdmittedGrammar DEF Exponent
  <2> QED BY <2>2, ReturnsRight
<1>2. CASE ~BadExponent(lit)
  <2>1. /\ pc' = "drop" /\ exp' = ExpOf(lit) /\ frac' = Len(lit.frac)
        /\ lit' = lit /\ coef' = coef /\ dropped' = dropped /\ dropNZ' = dropNZ
    BY <1>2 DEF Exponent
  <2>2. ~Ungrammatical(lit)
    BY <1>2 DEF Ungrammatical
  <2> DEFINE M == Mantissa(lit)
  <2>3. \E q \in 0..Len(M) : Filled(M, q, Len(M), coef', dropped', dropNZ')
    BY <2>1
  <2>4. M = Mantissa(lit')
    BY <2>1
  <2> HIDE DEF M
  <2>5. AtDrop'
    BY <2>1, <2>2, <2>3, <2>4 DEF AtDrop
  <2>6. Admitted(lit')
    BY <2>1
  <2> QED BY <2>1, <2>5, <2>6 DEF PathsKnow, StrictOnly, TruncOnly
<1> QED BY <1>1, <1>2

(* Behind the integer run: a point, or the exponent at once.               *)
LEMMA AccumPointKeeps ==
  ASSUME IsLiteral(lit), Admitted(lit), AtAccumInt, AccumPoint
  PROVE  PathsKnow'
<1> DEFINE M == Mantissa(lit)
           j == Len(IntRun(lit))
           Bad == NoInt(lit) \/ (lit.dot /\ lit.frac = <<>>)
<1>1. M \in Runs /\ j \in 0..Len(M) /\ Len(M) \in Nat /\ lit.frac = SubSeq(M, j + 1, Len(M))
      /\ (lit.frac = <<>> => j = Len(M))
  BY IntRunOf
<1>2. \E k \in 0..j : Filled(M, k, j, coef, dropped, dropNZ)
  <2>1. Accumulated(M, j, coef, dropped, dropNZ, rest) /\ rest = <<>>
    BY DEF AtAccumInt, AccumPoint
  <2> HIDE DEF M, j
  <2> QED BY <1>1, <2>1, AccumEnds
<1>3. CASE Bad
  <2>1. Ungrammatical(lit)
    BY <1>3 DEF Ungrammatical
  <2>2. Return(Fail("InvalidFormat")) /\ Fail("InvalidFormat") = Right
    BY <1>3, <2>1, AdmittedGrammar DEF AccumPoint
  <2> QED BY <2>2, ReturnsRight
<1>4. CASE ~Bad /\ ~lit.dot
  <2>1. Exponent /\ ~NoInt(lit) /\ (lit.dot => lit.frac # <<>>)
    BY <1>4 DEF AccumPoint
  <2>2. j = Len(M)
    <3>1. lit.frac = <<>>
      BY <1>4 DEF IsLiteral
    <3> QED BY <1>1, <3>1
  <2>3. PICK k \in 0..Len(M) : Filled(M, k, Len(M), coef, dropped, dropNZ)
    BY <1>2, <2>2
  <2> QED BY <2>1, <2>3, ExponentKeeps
<1>5. CASE ~Bad /\ lit.dot
  <2>1. /\ pc' = "accumFrac" /\ rest' = lit.frac /\ ~NoInt(lit) /\ lit.frac # <<>>
        /\ lit' = lit /\ coef' = coef /\ dropped' = dropped /\ dropNZ' = dropNZ
    BY <1>5 DEF AccumPoint
  <2>2. PICK k \in 0..j : Filled(M, k, j, coef, dropped, dropNZ)
    BY <1>2
  <2>3. k \in 0..Len(M) /\ j \in k..Len(M)
    BY <1>1
  <2>4. Accumulated(M, Len(M), coef', dropped', dropNZ', rest')
    <3> DEFINE n == Len(M)
    <3>1. Filled(M, k, j, coef', dropped', dropNZ') /\ rest' = SubSeq(M, j + 1, n)
      BY <1>1, <2>1, <2>2
    <3>2. k \in 0..n /\ j \in k..n
      BY <2>3
    <3> HIDE DEF M, j, n
    <3>3. Accumulated(M, n, coef', dropped', dropNZ', rest')
      BY <3>1, <3>2 DEF Accumulated
    <3> QED BY <3>3 DEF n
  <2>5. M = Mantissa(lit') /\ Admitted(lit')
    BY <2>1
  <2> HIDE DEF M
  <2>6. AtAccumFrac'
    BY <1>5, <2>1, <2>4, <2>5 DEF AtAccumFrac
  <2> QED BY <2>1, <2>5, <2>6 DEF PathsKnow, StrictOnly, TruncOnly
<1> QED BY <1>3, <1>4, <1>5

(* Behind the fraction: the exponent.                                      *)
LEMMA AccumExponentKeeps ==
  ASSUME IsLiteral(lit), Admitted(lit), AtAccumFrac, AccumExponent
  PROVE  PathsKnow'
<1> DEFINE M == Mantissa(lit)
<1>1. M \in Runs /\ Len(M) \in 0..Len(M)
  <2>1. M \in Runs /\ Len(M) \in Nat
    BY IntRunOf
  <2> QED BY <2>1
<1>2. /\ Accumulated(M, Len(M), coef, dropped, dropNZ, rest) /\ rest = <<>> /\ Exponent
      /\ ~NoInt(lit) /\ (lit.dot => lit.frac # <<>>)
  BY DEF AtAccumFrac, AccumExponent
<1>3. PICK k \in 0..Len(M) : Filled(M, k, Len(M), coef, dropped, dropNZ)
  <2> HIDE DEF M
  <2> QED BY <1>1, <1>2, AccumEnds
<1> QED BY <1>2, <1>3, ExponentKeeps

(* What a truncating call should answer, in the places of the mantissa.    *)
LEMMA TruncRight ==
  ASSUME trunc, IsLiteral(lit), Admitted(lit), ~Ungrammatical(lit)
  PROVE  GrammarErr(lit) = "nil" /\ Right = CutAnswer(Placed(ExpOf(lit))) /\ ExpOf(lit) \in Int
<1>1. GrammarErr(lit) = "nil"
  BY AdmittedGrammar
<1>2. Right = CutResult(lit)
  BY DEF Right
<1> QED BY <1>1, <1>2, CutAnswers, ExponentRead

(* The digits dropped that are still kept must be zeros precision can take *)
(* up; what is left stops at the place the call keeps last.                *)
LEMMA DropTailKeeps ==
  ASSUME trunc, IsLiteral(lit), Admitted(lit), AtDrop, DropTail
  PROVE  PathsKnow'
<1> DEFINE M == Mantissa(lit)
           L == Len(M)
           f == Len(lit.frac)
           x == ExpOf(lit)
           shift == dropped - (frac - exp - MaxPrec)
<1>1. ~Ungrammatical(lit) /\ exp = x /\ frac = f
  BY DEF AtDrop
<1>2. PICK k \in 0..L : Filled(M, k, L, coef, dropped, dropNZ)
  BY DEF AtDrop
<1>3. /\ coef = Upto(M, k) /\ coef < Cap /\ dropped = L - k /\ (L # k => Upto(M, k + 1) >= Cap)
      /\ FirstDropped(M, k, L, dropNZ)
  BY <1>2 DEF Filled
<1>4. GrammarErr(lit) = "nil" /\ Right = CutAnswer(Placed(x)) /\ x \in Int
  BY <1>1, TruncRight
<1>5. L \in Nat /\ f \in Nat /\ MaxPrec \in Nat /\ k \in Nat /\ k <= L
  <2>1. L \in Nat /\ MaxPrec \in Nat /\ f \in Nat
    <3>1. lit.frac \in Runs
      BY DEF IsLiteral, Runs
    <3> QED BY <3>1, IntRunOf, PowFacts, DigitByDigit
  <2> QED BY <2>1
<1>6. CutPlaces(x) = (L - f) + x + MaxPrec
  BY DEF CutPlaces
<1> HIDE DEF M, L, f, x
<1>7. shift \in Int /\ CutPlaces(x) = k + shift /\ shift = dropped - (f - x - MaxPrec)
  BY <1>1, <1>3, <1>4, <1>5, <1>6
<1>8. KeepsDropped <=> shift > 0 /\ (shift > MaxPrec \/ (dropNZ # 0 /\ dropNZ <= shift))
  BY DEF KeepsDropped
<1>9. \/ dropNZ = 0 /\ \A q \in (k + 1)..L : M[q] = 0
      \/ dropNZ \in 1..(L - k) /\ M[k + dropNZ] # 0 /\ \A q \in (k + 1)..(k + dropNZ - 1) : M[q] = 0
  BY <1>3 DEF FirstDropped
<1> HIDE DEF shift
<1>10. CASE dropped > 0 /\ KeepsDropped
  <2>1. Return(Fail("Overflow"))
    BY <1>10 DEF DropTail
  <2>2. k \in 0..(L - 1) /\ Upto(M, k + 1) >= Cap
    <3>1. k # L /\ k \in 0..(L - 1)
      BY <1>3, <1>5, <1>10
    <3> QED BY <1>3, <3>1
  <2>3. shift \in Nat \ {0}
    BY <1>7, <1>8, <1>10
  <2>4. shift > MaxPrec \/ \E nz \in 1..shift : k + nz <= L /\ M[k + nz] # 0
    <3>1. CASE dropNZ # 0 /\ dropNZ <= shift
      <4>1. dropNZ \in 1..shift /\ k + dropNZ <= L /\ M[k + dropNZ] # 0
        BY <1>5, <1>7, <1>9, <3>1
      <4> QED BY <4>1
    <3> QED BY <1>8, <1>10, <3>1
  <2>5. CutAnswer(Placed(x)) = Fail("Overflow")
    BY <1>4, <1>7, <2>2, <2>3, <2>4, DroppedAnswer DEF M, L
  <2> QED BY <1>4, <2>1, <2>5, ReturnsRight
<1>11. CASE ~(dropped > 0 /\ KeepsDropped)
  <2>1. /\ pc' = "scale" /\ frac' = frac - dropped /\ lit' = lit /\ exp' = exp
        /\ coef' = coef /\ dropped' = dropped /\ dropNZ' = dropNZ
    BY <1>11 DEF DropTail
  <2>2. Stops(M, k, shift)
    <3> SUFFICES ASSUME k < L
                 PROVE  shift <= MaxPrec /\ \A q \in (k + 1)..L : q <= k + shift => M[q] = 0
      BY DEF Stops, L
    <3>1. ~KeepsDropped
      <4>1. dropped > 0
        BY <1>3, <1>5
      <4> QED BY <1>11, <4>1
    <3>2. CASE ~(shift > 0)
      BY <1>5, <1>7, <3>2
    <3>3. CASE shift > 0
      <4>1. ~(shift > MaxPrec) /\ ~(dropNZ # 0 /\ dropNZ <= shift)
        BY <1>8, <3>1, <3>3
      <4>2. ASSUME NEW q \in (k + 1)..L, q <= k + shift PROVE M[q] = 0
        <5>1. CASE dropNZ = 0
          <6>1. ~(dropNZ \in 1..(L - k))
            BY <1>5, <5>1
          <6> QED BY <1>9, <4>2, <6>1
        <5>2. CASE dropNZ # 0
          <6>1. dropNZ \in 1..(L - k) /\ \A p \in (k + 1)..(k + dropNZ - 1) : M[p] = 0
            BY <1>9, <5>2
          <6>2. q \in (k + 1)..(k + dropNZ - 1)
            BY <1>5, <1>7, <4>1, <4>2, <5>2, <6>1
          <6> QED BY <6>1, <6>2
        <5> QED BY <5>1, <5>2
      <4> QED BY <1>5, <1>7, <4>1, <4>2
    <3> QED BY <3>2, <3>3
  <2>3. frac' - exp' \in Int /\ MaxPrec - (frac' - exp') = shift
    BY <1>1, <1>3, <1>4, <1>5, <1>7, <2>1
  <2>4. MaxPrec - EffPrec' = shift
    BY <2>3 DEF EffPrec
  <2>5. M = Mantissa(lit') /\ L = Len(M) /\ Admitted(lit') /\ ~Ungrammatical(lit')
        /\ exp' = ExpOf(lit') /\ frac' = Len(lit'.frac) - dropped'
    BY <1>1, <2>1 DEF M, L, f, x
  <2>6. Filled(M, k, L, coef', dropped', dropNZ') /\ Stops(M, k, MaxPrec - EffPrec')
    BY <1>2, <2>1, <2>2, <2>4
  <2>7. AtScale'
    BY <2>5, <2>6 DEF AtScale
  <2> QED BY <2>1, <2>5, <2>7 DEF PathsKnow, StrictOnly, TruncOnly
<1> QED BY <1>10, <1>11

(* What is known before precision is brought into range.                   *)
LEMMA ScaleFacts ==
  ASSUME trunc, IsLiteral(lit), Admitted(lit), AtScale
  PROVE  /\ GrammarErr(lit) = "nil" /\ Right = CutAnswer(Placed(exp)) /\ EffPrec \in Int /\ exp \in Int
         /\ coef \in Nat /\ coef < Cap /\ MaxPrec \in Nat /\ Len(Mantissa(lit)) \in Nat
         /\ \E k \in 0..Len(Mantissa(lit)) :
              /\ coef = Upto(Mantissa(lit), k) /\ CutPlaces(exp) = k + (MaxPrec - EffPrec)
              /\ Stops(Mantissa(lit), k, MaxPrec - EffPrec)
<1> DEFINE M == Mantissa(lit)
           L == Len(M)
           f == Len(lit.frac)
           x == ExpOf(lit)
<1>1. ~Ungrammatical(lit) /\ exp = x /\ frac = f - dropped
  BY DEF AtScale
<1>2. PICK k \in 0..L : Filled(M, k, L, coef, dropped, dropNZ) /\ Stops(M, k, MaxPrec - EffPrec)
  BY DEF AtScale
<1>3. coef = Upto(M, k) /\ coef < Cap /\ dropped = L - k
  BY <1>2 DEF Filled
<1>4. GrammarErr(lit) = "nil" /\ Right = CutAnswer(Placed(x)) /\ x \in Int
  BY <1>1, TruncRight
<1>5. M \in Runs /\ L \in Nat /\ f \in Nat /\ MaxPrec \in Nat /\ k \in Nat
  <2>1. M \in Runs /\ L \in Nat /\ MaxPrec \in Nat /\ f \in Nat
    <3>1. lit.frac \in Runs
      BY DEF IsLiteral, Runs
    <3> QED BY <3>1, IntRunOf, PowFacts, DigitByDigit
  <2> QED BY <2>1
<1>6. Upto(M, k) \in Nat
  BY <1>2, <1>5, DigitByDigit
<1>7. CutPlaces(x) = (L - f) + x + MaxPrec
  BY DEF CutPlaces
<1>8. EffPrec = (f - dropped) - x
  BY <1>1 DEF EffPrec
<1> HIDE DEF M, L, f, x
<1>9. EffPrec \in Int /\ CutPlaces(x) = k + (MaxPrec - EffPrec)
  BY <1>3, <1>4, <1>5, <1>7, <1>8
<1>10. Right = CutAnswer(Placed(exp)) /\ exp \in Int /\ CutPlaces(exp) = k + (MaxPrec - EffPrec)
  BY <1>1, <1>4, <1>9
<1>11. coef \in Nat /\ coef < Cap
  BY <1>3, <1>6
<1>12. \E q \in 0..L : /\ coef = Upto(M, q) /\ CutPlaces(exp) = q + (MaxPrec - EffPrec)
                       /\ Stops(M, q, MaxPrec - EffPrec)
  BY <1>2, <1>3, <1>10
<1> QED BY <1>4, <1>5, <1>9, <1>10, <1>11, <1>12 DEF M, L

(* A precision below zero: nothing was dropped, and the number is scaled up. *)
LEMMA TruncScaleUpKeeps ==
  ASSUME trunc, IsLiteral(lit), Admitted(lit), AtScale, TruncScaleUp
  PROVE  PathsKnow'
<1> DEFINE M == Mantissa(lit)
           L == Len(M)
           up == -EffPrec
           scaled == ScaleUpExact(coef, up)
           res == IF coef = 0 THEN Ok(Zero)
                  ELSE IF scaled.err # "nil" THEN Fail(scaled.err) ELSE Trimmed(scaled.val, 0)
<1>1. /\ GrammarErr(lit) = "nil" /\ Right = CutAnswer(Placed(exp)) /\ EffPrec \in Int /\ exp \in Int
      /\ coef \in Nat /\ coef < Cap /\ MaxPrec \in Nat /\ L \in Nat
  BY ScaleFacts
<1>2. PICK k \in 0..L : /\ coef = Upto(M, k) /\ CutPlaces(exp) = k + (MaxPrec - EffPrec)
                        /\ Stops(M, k, MaxPrec - EffPrec)
  BY ScaleFacts
<1>3. EffPrec < 0 /\ Return(res)
  BY DEF TruncScaleUp
<1>4. k < L => MaxPrec - EffPrec <= MaxPrec
  BY <1>2 DEF Stops
<1>5. M \in Runs
  BY IntRunOf
<1> HIDE DEF M, L
<1>6. k = L /\ up \in Nat \ {0} /\ up \in Nat /\ k + (MaxPrec - EffPrec) = L + MaxPrec + up
  BY <1>1, <1>2, <1>3, <1>4
<1>7. coef = DigitsVal(M)
  BY <1>2, <1>5, <1>6, DigitByDigit DEF L
<1>8. CutPlaces(exp) = L + MaxPrec + up
  BY <1>2, <1>6
<1> HIDE DEF up
<1>9. /\ coef = 0 => CutAnswer(Placed(exp)) = Ok(Zero)
      /\ (coef # 0 /\ up > 2*MaxPrec) => CutAnswer(Placed(exp)) = Fail("Overflow")
      /\ (coef # 0 /\ up <= 2*MaxPrec /\ coef * Pow10[up] >= Cap) => CutAnswer(Placed(exp)) = Fail("Overflow")
      /\ (coef # 0 /\ up <= 2*MaxPrec /\ coef * Pow10[up] < Cap)
           => CutAnswer(Placed(exp)) = Trimmed(coef * Pow10[up], 0)
  BY <1>1, <1>6, <1>7, <1>8, ScaleUpAnswer DEF M, L
<1> DEFINE Fits == up <= 2*MaxPrec /\ coef * Pow10[up] < Cap
<1>10. /\ Fits => scaled = [val |-> coef * Pow10[up], err |-> "nil"]
       /\ ~Fits => scaled = [val |-> 0, err |-> "Overflow"]
  BY <1>1, <1>6, ScaleUpExactly
<1>11. ~Fits => up > 2*MaxPrec \/ (up <= 2*MaxPrec /\ coef * Pow10[up] >= Cap)
  <2>1. up <= 2*MaxPrec => Pow10[up] \in Nat
    <3>1. up <= 2*MaxPrec => up \in 0..2*MaxPrec
      BY <1>1, <1>6
    <3> QED BY <3>1, PowFacts
  <2>2. up <= 2*MaxPrec => coef * Pow10[up] \in Nat
    <3>1. ASSUME NEW p \in Nat PROVE coef * p \in Nat
      BY <1>1
    <3> QED BY <2>1, <3>1
  <2> DEFINE c == coef * Pow10[up]
  <2> HIDE DEF c
  <2>3. (up <= 2*MaxPrec /\ ~(c < Cap)) => c >= Cap
    BY <2>2, CapFacts DEF c
  <2> QED BY <1>1, <1>6, <2>3 DEF c
<1>12. CASE coef = 0
  <2>1. res = Right
    BY <1>1, <1>9, <1>12
  <2> HIDE DEF res
  <2> QED BY <1>3, <2>1, ReturnsRight
<1>13. CASE coef # 0 /\ Fits
  <2>1. scaled.err = "nil" /\ scaled.val = coef * Pow10[up]
    BY <1>10, <1>13
  <2>2. res = Trimmed(coef * Pow10[up], 0)
    BY <1>13, <2>1
  <2>3. res = Right
    BY <1>1, <1>9, <1>13, <2>2
  <2> HIDE DEF res
  <2> QED BY <1>3, <2>3, ReturnsRight
<1>14. CASE coef # 0 /\ ~Fits
  <2>1. scaled.err = "Overflow"
    BY <1>10, <1>14
  <2>2. res = Fail("Overflow")
    <3> HIDE DEF scaled, Fits
    <3> QED BY <1>14, <2>1
  <2>3. CutAnswer(Placed(exp)) = Fail("Overflow")
    BY <1>9, <1>11, <1>14
  <2>4. res = Right
    BY <1>1, <2>2, <2>3
  <2> HIDE DEF res
  <2> QED BY <1>3, <2>4, ReturnsRight
<1> QED BY <1>12, <1>13, <1>14

(* A precision in range: only its trailing zeros go.                       *)
LEMMA TruncInRangeKeeps ==
  ASSUME trunc, IsLiteral(lit), Admitted(lit), AtScale, TruncInRange
  PROVE  PathsKnow'
<1>1. /\ GrammarErr(lit) = "nil" /\ Right = CutAnswer(Placed(exp)) /\ exp \in Int /\ coef < Cap
  BY ScaleFacts
<1>2. PICK k \in 0..Len(Mantissa(lit)) :
        /\ coef = Upto(Mantissa(lit), k) /\ CutPlaces(exp) = k + (MaxPrec - EffPrec)
        /\ Stops(Mantissa(lit), k, MaxPrec - EffPrec)
  BY ScaleFacts
<1>3. EffPrec \in 0..MaxPrec /\ Return(Trimmed(coef, EffPrec))
  BY DEF TruncInRange
<1>4. Upto(Mantissa(lit), k) < Cap
  BY <1>1, <1>2
<1> DEFINE eff == EffPrec
<1>5. CutAnswer(Placed(exp)) = Trimmed(Upto(Mantissa(lit), k), eff)
  <2>1. /\ eff \in 0..MaxPrec /\ CutPlaces(exp) = k + (MaxPrec - eff)
        /\ Stops(Mantissa(lit), k, MaxPrec - eff)
    BY <1>2, <1>3
  <2> HIDE DEF eff
  <2> QED BY <1>1, <1>2, <1>4, <2>1, InRangeAnswer
<1>6. Trimmed(coef, EffPrec) = Right
  BY <1>1, <1>2, <1>5
<1> QED BY <1>3, <1>6, ReturnsRight

(* Excess precision is cut off, in two divisions when one table power is   *)
(* not enough.                                                             *)
LEMMA TruncExcessKeeps ==
  ASSUME trunc, IsLiteral(lit), Admitted(lit), AtScale, TruncExcess
  PROVE  PathsKnow'
<1> DEFINE M == Mantissa(lit)
           L == Len(M)
           excess == EffPrec - MaxPrec
           first == IF excess > MaxPrec THEN coef \div Pow10[MaxPrec] ELSE coef
           more == IF excess > MaxPrec THEN excess - MaxPrec ELSE excess
           res == IF excess > 2*MaxPrec THEN Ok(Zero) ELSE Trimmed(first \div Pow10[more], MaxPrec)
<1>1. /\ GrammarErr(lit) = "nil" /\ Right = CutAnswer(Placed(exp)) /\ EffPrec \in Int /\ exp \in Int
      /\ coef \in Nat /\ coef < Cap /\ MaxPrec \in Nat /\ L \in Nat
  BY ScaleFacts
<1>2. PICK k \in 0..L : coef = Upto(M, k) /\ CutPlaces(exp) = k + (MaxPrec - EffPrec)
  BY ScaleFacts
<1>3. EffPrec > MaxPrec /\ Return(res)
  BY DEF TruncExcess
<1> HIDE DEF L
<1>4. excess \in Nat \ {0} /\ k + (MaxPrec - EffPrec) = k - excess
  BY <1>1, <1>2, <1>3
<1>5. CutPlaces(exp) = k - excess
  BY <1>2, <1>4
<1> HIDE DEF excess
<1> DEFINE c == coef
<1>6. /\ excess > 2*MaxPrec => CutAnswer(Placed(exp)) = Ok(Zero)
      /\ excess <= 2*MaxPrec => CutAnswer(Placed(exp)) = Trimmed(c \div Pow10[excess], MaxPrec)
  <2>1. c = Upto(Mantissa(lit), k) /\ c < Cap /\ k \in 0..Len(Mantissa(lit))
    BY <1>1, <1>2 DEF L
  <2> HIDE DEF c
  <2> QED BY <1>1, <1>4, <1>5, <2>1, ExcessAnswer
<1>7. excess <= 2*MaxPrec => first \div Pow10[more] = coef \div Pow10[excess]
  <2>1. CASE excess > MaxPrec /\ excess <= 2*MaxPrec
    <3>1. MaxPrec \in 0..2*MaxPrec /\ more \in 0..2*MaxPrec /\ MaxPrec + more = excess /\ more = excess - MaxPrec
      BY <1>1, <1>4, <2>1
    <3>2. first = coef \div Pow10[MaxPrec]
      BY <2>1
    <3> HIDE DEF more, first
    <3> DEFINE p == Pow10[MaxPrec]
               q == Pow10[more]
    <3>3. p \in Nat \ {0} /\ q \in Nat \ {0}
      BY <3>1, TableAssumption
    <3>4. Pow10[excess] = p * q
      BY <2>1, <3>1, PowFacts
    <3> HIDE DEF p, q
    <3>5. (coef \div p) \div q = coef \div (p * q)
      BY <1>1, <3>3, DivDiv
    <3> QED BY <3>2, <3>4, <3>5 DEF p, q
  <2>2. CASE ~(excess > MaxPrec)
    BY <2>2
  <2> QED BY <2>1, <2>2
<1> HIDE DEF first, more
<1>8. res = Right
  <2>1. CASE excess > 2*MaxPrec
    BY <1>1, <1>6, <2>1
  <2>2. CASE ~(excess > 2*MaxPrec)
    <3>1. excess <= 2*MaxPrec
      BY <1>1, <1>4, <2>2
    <3> QED BY <1>1, <1>6, <1>7, <2>2, <3>1
  <2> QED BY <2>1, <2>2
<1> HIDE DEF res
<1> QED BY <1>3, <1>8, ReturnsRight

----------------------------------------------------------------------------
(* A call that has answered has no path left to be wrong about.            *)
LEMMA ReturnModes ==
  ASSUME NEW res, Return(res)
  PROVE  ModesHold'
BY DEF Return, ModesHold, StrictOnly, TruncOnly

(* The general parsers are taken by their mode.                            *)
LEMMA GeneralModes ==
  ASSUME Fresh, General
  PROVE  ModesHold'
BY DEF General, ModesHold, Fresh, StrictOnly, TruncOnly

(* A path of neither mode in particular, before anything is dropped.       *)
LEMMA OpenModes ==
  ASSUME Fresh, pc' \in {"core", "short", "window", "long", "longInt"},
         UNCHANGED <<trunc, dropped, dropNZ>>
  PROVE  ModesHold'
BY DEF ModesHold, Fresh, StrictOnly, TruncOnly

(* No step takes a path of the other mode, and none drops digits before    *)
(* the truncating accumulator does.                                        *)
LEMMA ModesKept ==
  ASSUME trunc \in BOOLEAN, ModesHold, Next
  PROVE  ModesHold'
<1>1. pc \notin TruncOnly \cup {"done"} => Fresh
  BY DEF ModesHold
<1>2. CASE CoreRefuse
  <2>1. \E res \in {Fail("EmptyString"), Fail("MaxStrLen"), Fail("InvalidFormat")} : Return(res)
    BY <1>2 DEF CoreRefuse
  <2> QED BY <2>1, ReturnModes
<1>3. CASE CoreDispatch
  <2>1. pc = "core" /\ pc' \in {"short", "window", "long"} /\ UNCHANGED <<trunc, dropped, dropNZ>>
    BY <1>3 DEF CoreDispatch, Go
  <2>2. Fresh
    BY <1>1, <2>1 DEF TruncOnly
  <2> QED BY <2>1, <2>2, OpenModes
<1>4. CASE ShortPoint \/ ShortPlain \/ WindowInteger \/ WindowFraction
  <2>1. \E res : Return(res)
    BY <1>4 DEF ShortPoint, ShortPlain, WindowInteger, WindowFraction
  <2> QED BY <2>1, ReturnModes
<1>5. CASE ShortScientific
  <2>1. pc = "short" /\ ~trunc
    BY <1>5 DEF ShortScientific, ShortGoesOn
  <2>2. Fresh
    BY <1>1, <2>1 DEF TruncOnly
  <2>3. CASE pc' = "done"
    BY <2>3 DEF ModesHold, StrictOnly, TruncOnly
  <2>4. CASE pc' # "done"
    <3>1. pc' = "shortExp" /\ trunc' = trunc /\ dropped' = dropped /\ dropNZ' = dropNZ
      BY <1>5, <2>4 DEF ShortScientific, Return
    <3> QED BY <2>1, <2>2, <3>1 DEF ModesHold, Fresh, StrictOnly, TruncOnly
  <2> QED BY <2>3, <2>4
<1>6. CASE ShortDecline \/ WindowDecline
  <2>1. pc \in {"short", "window"} /\ General
    BY <1>6 DEF ShortDecline, ShortGoesOn, WindowDecline
  <2>2. Fresh
    BY <1>1, <2>1 DEF TruncOnly
  <2> QED BY <2>1, <2>2, GeneralModes
<1>7. CASE ParseShortScientific
  <2>1. \E res : Return(res)
    BY <1>7 DEF ParseShortScientific
  <2> QED BY <2>1, ReturnModes
<1>8. CASE LongPlain
  <2>1. pc = "long" /\ Fresh
    BY <1>1, <1>8 DEF LongPlain, TruncOnly
  <2>2. CASE General
    BY <2>1, <2>2, GeneralModes
  <2>3. CASE ~General
    <3>1. pc' = "longInt" /\ UNCHANGED <<trunc, dropped, dropNZ>>
      BY <1>8, <2>3 DEF LongPlain
    <3> QED BY <2>1, <3>1, OpenModes
  <2> QED BY <2>2, <2>3
<1>9. CASE LongFold \/ LongFinish
  <2>1. pc = "longInt" /\ Fresh
    BY <1>1, <1>9 DEF LongFold, LongFinish, TruncOnly
  <2>2. CASE General
    BY <2>1, <2>2, GeneralModes
  <2>3. CASE \E res : Return(res)
    BY <2>3, ReturnModes
  <2>4. CASE ~General /\ ~\E res : Return(res)
    <3>1. pc' = "longInt" /\ UNCHANGED <<trunc, dropped, dropNZ>>
      BY <1>9, <2>1, <2>4 DEF LongFold, LongFinish, FoldNext
    <3> QED BY <2>1, <3>1, OpenModes
  <2> QED BY <2>2, <2>3, <2>4
<1>10. CASE ExactGrammar \/ FoldExactDigits \/ ExactFraction \/ ExactFinish
  <2>1. pc \in {"exact", "exactInt", "exactFrac"}
    BY <1>10 DEF ExactGrammar, FoldExactDigits, ExactFraction, ExactFinish
  <2>2. Fresh /\ ~trunc
    BY <1>1, <2>1 DEF ModesHold, StrictOnly, TruncOnly
  <2>3. CASE pc' = "done"
    BY <2>3 DEF ModesHold, StrictOnly, TruncOnly
  <2>4. CASE pc' # "done"
    <3>1. pc' \in {"exactInt", "exactFrac"} /\ trunc' = trunc /\ dropped' = dropped /\ dropNZ' = dropNZ
      <4>1. CASE ExactGrammar
        BY <2>4, <4>1 DEF ExactGrammar, Return
      <4>2. CASE FoldExactDigits
        BY <2>1, <2>4, <4>2 DEF FoldExactDigits, FoldNext, Return
      <4>3. CASE ExactFraction
        BY <4>3 DEF ExactFraction
      <4>4. CASE ExactFinish
        BY <2>4, <4>4 DEF ExactFinish, Return
      <4> QED BY <1>10, <4>1, <4>2, <4>3, <4>4
    <3> QED BY <2>2, <3>1 DEF ModesHold, Fresh, StrictOnly, TruncOnly
  <2> QED BY <2>3, <2>4
<1>11. CASE \/ AccumChunk \/ AccumReplay \/ AccumSaturated \/ AccumPoint \/ AccumExponent
            \/ DropTail \/ TruncScaleUp \/ TruncInRange \/ TruncExcess
  <2>1. pc \in TruncOnly
    BY <1>11 DEF AccumChunk, AccumReplay, AccumSaturated, AccumPoint, AccumExponent, Accumulating,
                 DropTail, TruncScaleUp, TruncInRange, TruncExcess, TruncOnly
  <2>2. trunc
    BY <2>1 DEF ModesHold
  <2>3. CASE pc' = "done"
    BY <2>3 DEF ModesHold, StrictOnly, TruncOnly
  <2>4. CASE pc' # "done"
    <3>1. pc' \in TruncOnly /\ trunc' = trunc
      <4>1. CASE AccumChunk \/ AccumReplay \/ AccumSaturated
        BY <2>1, <4>1 DEF AccumChunk, AccumReplay, AccumSaturated, FoldNext
      <4>2. CASE AccumPoint \/ AccumExponent
        BY <2>4, <4>2 DEF AccumPoint, AccumExponent, Exponent, Return, TruncOnly
      <4>3. CASE DropTail
        BY <2>4, <4>3 DEF DropTail, Return, TruncOnly
      <4>4. CASE TruncScaleUp \/ TruncInRange \/ TruncExcess
        BY <2>4, <4>4 DEF TruncScaleUp, TruncInRange, TruncExcess, Return
      <4> QED BY <1>11, <4>1, <4>2, <4>3, <4>4
    <3> QED BY <2>2, <3>1 DEF ModesHold, StrictOnly, TruncOnly
  <2> QED BY <2>3, <2>4
<1> QED BY <1>2, <1>3, <1>4, <1>5, <1>6, <1>7, <1>8, <1>9, <1>10, <1>11 DEF Next

(* Every step of a call, of either mode, keeps to its path.                *)
LEMMA ParserStep ==
  ASSUME ParserInv, Next
  PROVE  PathsKnow'
<1>1. IsLiteral(lit) /\ PathsKnow /\ ModesHold
  BY DEF ParserInv
<1>2. pc \notin {"core", "done"} => Admitted(lit)
  BY <1>1 DEF PathsKnow
<1>3. /\ pc \in StrictOnly => ~trunc
      /\ pc \in TruncOnly => trunc
      /\ pc \notin TruncOnly \cup {"done"} => Fresh
  BY <1>1 DEF ModesHold
<1>4. CASE CoreRefuse
  BY <1>1, <1>4, RefuseKeeps
<1>5. CASE CoreDispatch
  BY <1>1, <1>5, DispatchKeeps
<1>6. CASE pc = "short" /\ (ShortPoint \/ ShortPlain \/ ShortScientific \/ ShortDecline)
  <2>1. AtShort /\ Admitted(lit)
    BY <1>1, <1>2, <1>6 DEF PathsKnow
  <2>2. Fresh
    BY <1>3, <1>6 DEF TruncOnly
  <2> QED BY <1>1, <1>6, <2>1, <2>2, ShortPointKeeps, ShortPlainKeeps, StrictShortScientific,
             ShortDeclineKeeps
<1>7. CASE ParseShortScientific
  <2>1. AtShortExp /\ Admitted(lit)
    BY <1>1, <1>2, <1>7 DEF PathsKnow, ParseShortScientific
  <2>2. ~trunc
    BY <1>3, <1>7 DEF ParseShortScientific, StrictOnly
  <2> QED BY <1>1, <1>7, <2>1, <2>2, StrictShortTail
<1>8. CASE pc = "window" /\ (WindowInteger \/ WindowFraction \/ WindowDecline)
  <2>1. AtWindow /\ Admitted(lit)
    BY <1>1, <1>2, <1>8 DEF PathsKnow
  <2>2. Fresh
    BY <1>3, <1>8 DEF TruncOnly
  <2> QED BY <1>1, <1>8, <2>1, <2>2, WindowIntegerKeeps, WindowFractionKeeps, WindowDeclineKeeps
<1>9. CASE LongPlain
  <2>1. AtLong /\ Admitted(lit)
    BY <1>1, <1>2, <1>9 DEF PathsKnow, LongPlain
  <2>2. Fresh
    BY <1>3, <1>9 DEF LongPlain, TruncOnly
  <2> QED BY <1>1, <1>9, <2>1, <2>2, LongPlainKeeps
<1>10. CASE pc = "longInt" /\ (LongFold \/ LongFinish)
  <2>1. AtLongInt /\ Admitted(lit)
    BY <1>1, <1>2, <1>10 DEF PathsKnow
  <2>2. Fresh
    BY <1>3, <1>10 DEF TruncOnly
  <2> QED BY <1>1, <1>10, <2>1, <2>2, LongFoldKeeps, LongFinishKeeps
<1>11. CASE pc \in StrictOnly /\ (ExactGrammar \/ FoldExactDigits \/ ExactFraction \/ ExactFinish)
  <2>1. ~trunc /\ Admitted(lit)
    BY <1>2, <1>3, <1>11 DEF StrictOnly
  <2>2. (pc = "exactInt" => AtExactInt) /\ (pc = "exactFrac" => AtExactFrac)
    BY <1>1 DEF PathsKnow
  <2>3. CASE ExactGrammar
    BY <1>1, <2>1, <2>3, StrictExactGrammar
  <2>4. CASE FoldExactDigits
    BY <1>1, <2>1, <2>2, <2>4, StrictFoldExact
  <2>5. CASE ExactFraction
    <3>1. AtExactInt
      BY <2>2, <2>5 DEF ExactFraction
    <3> QED BY <1>1, <2>1, <2>5, <3>1, StrictExactFraction
  <2>6. CASE ExactFinish
    <3>1. AtExactFrac
      BY <2>2, <2>6 DEF ExactFinish
    <3> QED BY <1>1, <2>1, <2>6, <3>1, StrictExactFinish
  <2> QED BY <1>11, <2>3, <2>4, <2>5, <2>6
<1>12. CASE pc \in TruncOnly /\ (AccumChunk \/ AccumReplay \/ AccumSaturated)
  <2>1. Admitted(lit)
    BY <1>2, <1>12 DEF TruncOnly
  <2>2. (pc = "accumInt" => AtAccumInt) /\ (pc = "accumFrac" => AtAccumFrac)
    BY <1>1 DEF PathsKnow
  <2> QED BY <1>1, <1>12, <2>1, <2>2, AccumRunKeeps
<1>13. CASE pc \in TruncOnly /\ (AccumPoint \/ AccumExponent)
  <2>1. Admitted(lit)
    BY <1>2, <1>13 DEF TruncOnly
  <2>2. (AccumPoint => AtAccumInt) /\ (AccumExponent => AtAccumFrac)
    BY <1>1 DEF PathsKnow, AccumPoint, AccumExponent
  <2> QED BY <1>1, <1>13, <2>1, <2>2, AccumPointKeeps, AccumExponentKeeps
<1>14. CASE pc \in TruncOnly /\ (DropTail \/ TruncScaleUp \/ TruncInRange \/ TruncExcess)
  <2>1. trunc /\ Admitted(lit)
    BY <1>2, <1>3, <1>14 DEF TruncOnly
  <2>2. (DropTail => AtDrop) /\ (TruncScaleUp \/ TruncInRange \/ TruncExcess => AtScale)
    BY <1>1 DEF PathsKnow, DropTail, TruncScaleUp, TruncInRange, TruncExcess
  <2> QED BY <1>1, <1>14, <2>1, <2>2, DropTailKeeps, TruncScaleUpKeeps, TruncInRangeKeeps,
             TruncExcessKeeps
<1>15. /\ (ShortPoint \/ ShortPlain \/ ShortScientific \/ ShortDecline) => pc = "short"
       /\ (WindowInteger \/ WindowFraction \/ WindowDecline) => pc = "window"
       /\ (LongFold \/ LongFinish) => pc = "longInt"
  BY DEF ShortPoint, ShortPlain, ShortScientific, ShortDecline, ShortGoesOn,
         WindowInteger, WindowFraction, WindowDecline, LongFold, LongFinish
<1>16. /\ (ExactGrammar \/ FoldExactDigits \/ ExactFraction \/ ExactFinish) => pc \in StrictOnly
       /\ (\/ AccumChunk \/ AccumReplay \/ AccumSaturated \/ AccumPoint \/ AccumExponent
           \/ DropTail \/ TruncScaleUp \/ TruncInRange \/ TruncExcess) => pc \in TruncOnly
  BY DEF ExactGrammar, FoldExactDigits, ExactFraction, ExactFinish, StrictOnly, AccumChunk, AccumReplay,
         AccumSaturated, AccumPoint, AccumExponent, Accumulating, DropTail, TruncScaleUp, TruncInRange,
         TruncExcess, TruncOnly
<1> QED
  BY <1>4, <1>5, <1>6, <1>7, <1>8, <1>9, <1>10, <1>11, <1>12, <1>13, <1>14, <1>15, <1>16 DEF Next

(* A step leaves the call itself alone.                                    *)
LEMMA CallKept ==
  ASSUME Next
  PROVE  lit' = lit /\ trunc' = trunc
<1> USE DEF Return, Go, General, FoldNext, Exponent
<1>1. ASSUME NEW res, Return(res) PROVE lit' = lit /\ trunc' = trunc
  BY <1>1
<1>2. General => lit' = lit /\ trunc' = trunc
  OBVIOUS
<1>3. ASSUME NEW path, Go(path) PROVE lit' = lit /\ trunc' = trunc
  BY <1>3
<1> QED
  BY DEF Next, CoreRefuse, CoreDispatch, ShortPoint, ShortPlain, ShortScientific, ShortDecline,
         ParseShortScientific, WindowInteger, WindowFraction, WindowDecline, LongPlain, LongFold,
         LongFinish, ExactGrammar, FoldExactDigits, ExactFraction, ExactFinish, AccumChunk,
         AccumReplay, AccumSaturated, AccumPoint, AccumExponent, DropTail, TruncScaleUp,
         TruncInRange, TruncExcess

(* A step, or none, keeps what the paths know.                             *)
LEMMA ParserKept == ASSUME ParserInv, [Next]_vars PROVE ParserInv'
<1>1. CASE Next
  <2>1. lit' = lit /\ trunc' = trunc
    BY <1>1, CallKept
  <2>2. PathsKnow' /\ ModesHold'
    BY <1>1, ParserStep, ModesKept DEF ParserInv
  <2> QED BY <2>1, <2>2 DEF ParserInv
<1>2. CASE UNCHANGED vars
  <2>1. PathsKnow => PathsKnow'
    <3>1. /\ lit' = lit /\ trunc' = trunc /\ pc' = pc /\ rest' = rest /\ coef' = coef /\ frac' = frac
          /\ dropped' = dropped /\ dropNZ' = dropNZ /\ exp' = exp /\ out' = out
      BY <1>2 DEF vars
    <3>2. /\ (AtShort <=> AtShort') /\ (AtWindow <=> AtWindow') /\ (AtLong <=> AtLong')
          /\ (AtShortExp <=> AtShortExp') /\ Right' = Right
      BY <3>1 DEF AtShort, AtWindow, AtLong, AtShortExp, Right
    <3>3. AtLongInt <=> AtLongInt'
      BY <3>1 DEF AtLongInt, AtLong, Partway
    <3>4. (AtExactInt <=> AtExactInt') /\ (AtExactFrac <=> AtExactFrac')
      BY <3>1 DEF AtExactInt, AtExactFrac, InExact, Partway
    <3>5. (AtAccumInt <=> AtAccumInt') /\ (AtAccumFrac <=> AtAccumFrac') /\ (AtDrop <=> AtDrop')
      BY <3>1 DEF AtAccumInt, AtAccumFrac, AtDrop
    <3>6. AtScale <=> AtScale'
      BY <3>1 DEF AtScale, EffPrec
    <3> QED BY <3>1, <3>2, <3>3, <3>4, <3>5, <3>6 DEF PathsKnow
  <2>2. ModesHold => ModesHold'
    BY <1>2 DEF vars, ModesHold, Fresh
  <2> QED BY <1>2, <2>1, <2>2 DEF vars, ParserInv
<1> QED BY <1>1, <1>2

(* What every path knows holds of every call.                              *)
LEMMA ParserInvariant == Spec => []ParserInv
<1>1. Init => ParserInv
  BY LiteralsAssumption DEF Init, ParserInv, PathsKnow, ModesHold, Fresh, StrictOnly, TruncOnly
<1>2. ParserInv /\ [Next]_vars => ParserInv'
  BY ParserKept
<1> QED BY <1>1, <1>2, PTL DEF Spec

(* Every strict call is answered with what Text says of the number its     *)
(* literal spells, by whichever of parseCore's paths: for every word size, *)
(* every table of powers and every literal (parse.go:246-262).             *)
THEOREM StrictParsingIsText == Spec => []StrictIsText
<1>1. ParserInv => StrictIsText
  BY DEF ParserInv, PathsKnow, Right, StrictIsText, Done
<1> QED BY <1>1, ParserInvariant, PTL

(* Every truncating call is answered with its number cut off after MaxPrec *)
(* places, or overflows exactly when that does not fit 128 bits: whatever  *)
(* chunks the digits arrive in and wherever the accumulator fills up, no   *)
(* digit dropped past 128 bits is missed (parse.go:644,                    *)
(* NewFromStringTrunc; parse.go:569, accumRun).                           *)
THEOREM TruncationCutsOff == Spec => []TruncCutsOff
<1>1. ParserInv => TruncCutsOff
  <2> SUFFICES ASSUME ParserInv, Done, trunc PROVE TruncCutsOff
    BY DEF TruncCutsOff
  <2>1. out = CutResult(lit)
    BY DEF ParserInv, PathsKnow, Right, Done
  <2> QED BY <2>1 DEF CutResult, TruncCutsOff
<1> QED BY <1>1, ParserInvariant, PTL
=============================================================================
