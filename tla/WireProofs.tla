----------------------------- MODULE WireProofs -----------------------------
(***************************************************************************)
(* The writers of Printer inside Wire, for every limb size, precision and  *)
(* buffer: what has been stored are the low digits of the number with its  *)
(* point in place (WriterInv), so the bytes handed out spell it.           *)
(***************************************************************************)
EXTENDS Wire, ParserProofs

(* The i-th digit of a number, counted from the right.                     *)
Nth(v, i) == (v \div Pow10[i]) % 10

(* A decimal digit is a digit, and what is left of a number above the i-th *)
(* one.                                                                    *)
LEMMA NthFacts ==
  ASSUME NEW v \in Nat, NEW i \in 0..2*MaxPrec
  PROVE  /\ v \div Pow10[i] \in Nat /\ Nth(v, i) \in 0..9 /\ Pow10[i] \in Nat \ {0}
         /\ v \div Pow10[0] = v
         /\ (v < Cap => v \div Pow10[2*MaxPrec] \in 0..9)
         /\ \A c \in Nat : (v \div Pow10[i] >= c) <=> (v >= Pow10[i] * c)
         /\ \A c \in Nat : (v \div Pow10[i] < c) <=> (v < Pow10[i] * c)
         /\ v \div Pow10[i] = 10 * ((v \div Pow10[i]) \div 10) + Nth(v, i)
<1> DEFINE p == Pow10[i]
           y == v \div p
<1>1. p \in Nat \ {0} /\ Pow10[0] = 1
  BY PowFacts
<1> HIDE DEF p
<1>2. /\ y \in Nat /\ \A c \in Nat : (y < c) <=> (v < p * c)
      /\ \A c \in Nat : (y >= c) <=> (v >= p * c)
  BY <1>1, DivBelow
<1> HIDE DEF y
<1>3. y % 10 \in 0..9 /\ y = 10 * (y \div 10) + (y % 10)
  BY <1>2, DivMod
<1>4. v \div 1 = v
  OBVIOUS
<1>5. v < Cap => v \div Pow10[2*MaxPrec] \in 0..9
  <2> DEFINE m == Pow10[2*MaxPrec]
             n == v \div m
  <2>1. m \in Nat \ {0} /\ Cap < 10 * m /\ Cap \in Nat
    BY TableAssumption, PowFacts, CapFacts
  <2> HIDE DEF m
  <2>2. n \in Nat /\ (n < 10 <=> v < m * 10)
    BY <2>1, DivBelow
  <2> HIDE DEF n
  <2>3. v < Cap => n \in 0..9
    BY <2>1, <2>2
  <2> QED BY <2>3 DEF n, m
<1> QED
  BY <1>1, <1>2, <1>3, <1>4, <1>5 DEF Nth, y, p

(* One place further on.                                                   *)
LEMMA NthStep ==
  ASSUME NEW v \in Nat, NEW i \in 0..(2*MaxPrec - 1)
  PROVE  /\ i \in 0..2*MaxPrec /\ i + 1 \in 0..2*MaxPrec
         /\ v \div Pow10[i + 1] \in Nat /\ Nth(v, i) \in 0..9
         /\ v \div Pow10[i + 1] = (v \div Pow10[i]) \div 10
         /\ v \div Pow10[i] = 10 * (v \div Pow10[i + 1]) + Nth(v, i)
<1>1. /\ i \in 0..2*MaxPrec /\ i + 1 \in 0..2*MaxPrec
      /\ Pow10[i] \in Nat \ {0} /\ Pow10[i + 1] = Pow10[i] * 10
  BY PowStep
<1>2. (v \div Pow10[i]) \div 10 = v \div (Pow10[i] * 10)
  <2> DEFINE p == Pow10[i]
  <2>1. p \in Nat \ {0} /\ 10 \in Nat \ {0}
    BY <1>1
  <2> HIDE DEF p
  <2>2. (v \div p) \div 10 = v \div (p * 10)
    BY <2>1, DivDiv
  <2> QED BY <2>2 DEF p
<1>3. /\ v \div Pow10[i + 1] \in Nat /\ Nth(v, i) \in 0..9
      /\ v \div Pow10[i] = 10 * ((v \div Pow10[i]) \div 10) + Nth(v, i)
  BY <1>1, NthFacts
<1>4. v \div Pow10[i + 1] = (v \div Pow10[i]) \div 10
  BY <1>1, <1>2
<1> QED
  BY <1>1, <1>3, <1>4

(* The last digit of a chunk and what is left of it.                       *)
LEMMA ChunkDigit ==
  ASSUME NEW x \in Nat, NEW m \in Nat \ {0}
  PROVE  /\ (x % (m * 10)) % 10 = x % 10
         /\ (x % (m * 10)) \div 10 = (x \div 10) % m
<1> DEFINE r == (x \div 10) % m
           d == x % 10
           y == x % (10 * m)
<1>1. x \div 10 \in Nat /\ r \in Nat /\ d \in 0..(10 - 1)
  BY DivBelow, DivMod
<1>2. y = r * 10 + d
  <2>1. 10 \in Nat \ {0}
    OBVIOUS
  <2> HIDE DEF y, r, d
  <2>2. \A b \in Nat \ {0} : x % (b * m) = ((x \div b) % m) * b + (x % b)
    BY DivDiv
  <2>3. x % (10 * m) = ((x \div 10) % m) * 10 + (x % 10)
    BY <2>1, <2>2
  <2> QED BY <2>3 DEF y, r, d
<1>3. 10 * m = m * 10 /\ y \in Nat /\ r * 10 = 10 * r
  BY <1>1, <1>2
<1> HIDE DEF r, d, y
<1>4. y \in Int /\ y = 10 * r + d /\ 10 \in Nat \ {0} /\ r \in Int
  BY <1>1, <1>2, <1>3
<1>5. y % 10 = d /\ y \div 10 = r
  BY <1>1, <1>4, DivModUnique
<1> QED
  BY <1>3, <1>5 DEF r, d, y

(* A run of digits of a number, from its first one down.                   *)
DigitRun(v, w, len) == [j \in 1..len |-> Nth(v, w - j)]

(* A run of digits read off a number from the left: every prefix is a      *)
(* quotient of it.                                                         *)
LEMMA DigitRunValue ==
  ASSUME NEW v \in Nat, NEW w \in 1..(2*MaxPrec + 1), v \div Pow10[w - 1] \in 0..9,
         NEW len \in 0..w, NEW s \in Runs, len <= Len(s),
         \A j \in 1..len : s[j] = Nth(v, w - j)
  PROVE  \A k \in 1..len : Upto(s, k) = v \div Pow10[w - k]
<1> DEFINE T == {k \in 1..len : Upto(s, k) = v \div Pow10[w - k]}
<1>1. MaxPrec \in Nat /\ Len(s) \in Nat /\ w \in Nat /\ len \in Nat
  BY PowFacts, DigitByDigit
<1>2. SUFFICES ASSUME len >= 1 PROVE \A k \in 1..len : k \in T
  BY <1>1
<1>3. 1 \in T
  <2>1. 0 \in 0..(Len(s) - 1) /\ 1 \in 1..len /\ 0 + 1 = 1 /\ w - 1 \in 0..2*MaxPrec
    BY <1>1, <1>2
  <2>2. Upto(s, 0 + 1) = 10 * Upto(s, 0) + s[0 + 1] /\ Upto(s, 0) = 0 /\ s[0 + 1] \in 0..9
    BY <2>1, DigitByDigit
  <2>3. Upto(s, 1) = s[1] /\ s[1] = Nth(v, w - 1)
    BY <2>1, <2>2
  <2>4. Nth(v, w - 1) = v \div Pow10[w - 1]
    <3> DEFINE x == v \div Pow10[w - 1]
    <3>1. x \in 0..9
      OBVIOUS
    <3> HIDE DEF x
    <3>2. x % 10 = x
      BY <3>1
    <3> QED BY <3>2 DEF Nth, x
  <2> QED BY <2>1, <2>3, <2>4
<1>4. ASSUME NEW k \in 1..(len - 1), k \in T
      PROVE  k + 1 \in T
  <2> DEFINE i == w - (k + 1)
  <2>1. k \in 0..(Len(s) - 1) /\ k + 1 \in 1..len /\ i \in 0..(2*MaxPrec - 1) /\ i + 1 = w - k
    BY <1>1
  <2>2. Upto(s, k + 1) = 10 * Upto(s, k) + s[k + 1] /\ s[k + 1] = Nth(v, w - (k + 1))
    BY <2>1, DigitByDigit
  <2>3. Upto(s, k) = v \div Pow10[w - k]
    BY <1>4
  <2> HIDE DEF i
  <2>4. v \div Pow10[i] = 10 * (v \div Pow10[i + 1]) + Nth(v, i)
    BY <2>1, NthStep
  <2>5. Upto(s, k + 1) = v \div Pow10[i]
    BY <2>1, <2>2, <2>3, <2>4 DEF i
  <2> QED BY <2>1, <2>5 DEF i
<1>5. 1 \in Nat /\ len \in Nat
  BY <1>1
<1> HIDE DEF T
<1> QED BY <1>3, <1>4, <1>5, Stepwise

(* The bytes of a number: a sign, digits, a point and digits.              *)
Width(s, dotted, y) == Len(s) + (IF dotted THEN 1 + Len(y) ELSE 0)
Bytewise(t, s, dotted, y) ==
  /\ Len(t) = Width(s, dotted, y)
  /\ \A i \in 1..Len(s) : t[i] = s[i]
  /\ dotted => t[Len(s) + 1] = Point
  /\ dotted => \A i \in 1..Len(y) : t[Len(s) + 1 + i] = y[i]
LiteralFrom(sign, all) ==
  LET stray == Min({Len(all) + 1} \cup
                   {i \in 1..Len(all) : \/ all[i] \notin 0..9 \cup {Point}
                                        \/ all[i] = Point /\ \E j \in 1..(i - 1) : all[j] = Point})
      part == SubSeq(all, 1, stray - 1)
      dot == Min({stray} \cup {i \in DOMAIN part : part[i] = Point})
      sig == Min({dot} \cup {i \in 1..(dot - 1) : part[i] # 0})
  IN  Literal(sign, sig - 1, SubSeq(part, sig, dot - 1), dot < stray, SubSeq(part, dot + 1, Len(part)),
              IF stray <= Len(all) THEN "junk" ELSE "end", "", <<>>, Len(all) + 1 - stray)
Signed0(bytes) == bytes # <<>> /\ Head(bytes) \in {Plus, Minus}
Unsigned(bytes) == IF Signed0(bytes) THEN SubSeq(bytes, 2, Len(bytes)) ELSE bytes
SignOf(bytes) == IF ~Signed0(bytes) THEN "" ELSE IF Head(bytes) = Minus THEN "-" ELSE "+"

(* A literal is its sign and what follows.                                 *)
LEMMA LiteralSplit == ASSUME NEW bytes PROVE LiteralOf(bytes) = LiteralFrom(SignOf(bytes), Unsigned(bytes))
  BY DEF LiteralOf, LiteralFrom, SignOf, Unsigned, Signed0

(* The least element of a set of naturals, once it is known.               *)
LEMMA LeastIs ==
  ASSUME NEW S \in SUBSET Nat, NEW m \in S, \A x \in S : m <= x
  PROVE  Min(S) = m
<1>1. \E x \in S : \A z \in S : x <= z
  OBVIOUS
<1> DEFINE least == Min(S)
<1>2. least \in S /\ \A z \in S : least <= z
  BY <1>1 DEF Min
<1> HIDE DEF least
<1>3. least <= m /\ m <= least /\ m \in Nat /\ least \in Nat
  BY <1>2
<1>4. least = m
  BY <1>3
<1> QED BY <1>4 DEF least

(* The literal the parser sees in them.                                    *)
ReadAs(t, s, dotted, y) ==
  \E z \in 0..Len(s) :
    /\ (\A i \in 1..z : s[i] = 0) /\ (z < Len(s) => s[z + 1] # 0) /\ Len(t) \in Nat
    /\ \A sign : LiteralFrom(sign, t)
                   = Literal(sign, z, SubSeq(s, z + 1, Len(s)), dotted, y, "end", "", <<>>, 0)

(* What the parser sees in them.                                           *)
LEMMA ReadsShape ==
  ASSUME NEW t \in Seq(Int), NEW s \in Runs, s # <<>>, NEW dotted \in BOOLEAN, NEW y \in Runs,
         ~dotted => y = <<>>, Bytewise(t, s, dotted, y)
  PROVE  ReadAs(t, s, dotted, y)
<1> DEFINE n == Len(t)
           a == Len(s)
           b == Len(y)
           S1 == {n + 1} \cup
                   {i \in 1..n : \/ t[i] \notin 0..9 \cup {Point}
                                 \/ t[i] = Point /\ \E j \in 1..(i - 1) : t[j] = Point}
           stray == Min(S1)
           part == SubSeq(t, 1, stray - 1)
           S2 == {stray} \cup {i \in DOMAIN part : part[i] = Point}
           dot == Min(S2)
           S3 == {dot} \cup {i \in 1..(dot - 1) : part[i] # 0}
           sig == Min(S3)
<1>1. /\ n \in Nat /\ a \in Nat /\ b \in Nat /\ a >= 1
      /\ (\A i \in 1..a : s[i] \in 0..9) /\ (\A i \in 1..b : y[i] \in 0..9)
      /\ (~dotted => b = 0)
  BY EmptySeq DEF Runs
<1>2. /\ n = a + (IF dotted THEN 1 + b ELSE 0)
      /\ (\A i \in 1..a : t[i] = s[i]) /\ (dotted => t[a + 1] = Point)
      /\ (dotted => \A i \in 1..b : t[a + 1 + i] = y[i])
  BY DEF Bytewise, Width
<1>3. Point = -1 /\ Point \notin 0..9
  BY DEF Point
<1> HIDE DEF n, a, b
<1>4. ASSUME NEW i \in 1..n
      PROVE  t[i] \in 0..9 \/ (dotted /\ i = a + 1 /\ t[i] = Point)
  <2>1. CASE i <= a
    <3>1. i \in 1..a
      BY <1>1, <2>1
    <3>2. s[i] \in 0..9 /\ t[i] = s[i]
      BY <1>1, <1>2, <3>1
    <3> QED BY <3>2
  <2>2. CASE i = a + 1
    BY <1>1, <1>2, <2>2
  <2>3. CASE i > a + 1
    <3>1. dotted /\ i - (a + 1) \in 1..b
      BY <1>1, <1>2, <2>3
    <3>2. PICK k \in 1..b : k = i - (a + 1)
      BY <3>1
    <3>3. a + 1 + k = i
      BY <1>1, <3>2
    <3>4. t[a + 1 + k] = y[k] /\ y[k] \in 0..9
      BY <1>1, <1>2, <3>1
    <3> QED BY <3>3, <3>4
  <2>4. i <= a \/ i = a + 1 \/ i > a + 1
    BY <1>1
  <2> QED BY <2>1, <2>2, <2>3, <2>4
<1>5. S1 = {n + 1}
  <2>1. ASSUME NEW i \in 1..n PROVE ~(\/ t[i] \notin 0..9 \cup {Point}
                                      \/ t[i] = Point /\ \E j \in 1..(i - 1) : t[j] = Point)
    <3>1. t[i] \in 0..9 \cup {Point}
      BY <1>4
    <3>2. ~(t[i] = Point /\ \E j \in 1..(i - 1) : t[j] = Point)
      <4> SUFFICES ASSUME t[i] = Point, NEW j \in 1..(i - 1), t[j] = Point PROVE FALSE
        OBVIOUS
      <4>1. j \in 1..n
        BY <1>1
      <4>2. i = a + 1 /\ j = a + 1
        BY <1>3, <1>4, <4>1
      <4> QED BY <1>1, <4>2
    <3> QED BY <3>1, <3>2
  <2> QED BY <2>1
<1>6. stray = n + 1
  <2>1. {n + 1} \in SUBSET Nat
    BY <1>1
  <2>2. Min({n + 1}) = n + 1
    BY <2>1, LeastIs
  <2> HIDE DEF S1
  <2> QED BY <1>5, <2>2
<1> HIDE DEF stray
<1>7. part = t
  <2>1. stray - 1 = n
    BY <1>1, <1>6
  <2>2. SubSeq(t, 1, n) = t
    BY SubSeqFull DEF n
  <2> QED BY <2>1, <2>2
<1>8. DOMAIN part = 1..n
  <2>1. DOMAIN t = 1..Len(t)
    BY LenProperties
  <2> QED BY <1>7, <2>1 DEF n
<1> HIDE DEF part
<1>9. dot = a + 1
  <2>1. ASSUME dotted PROVE S2 \in SUBSET Nat /\ a + 1 \in S2 /\ \A i \in S2 : a + 1 <= i
    <3>1. a + 1 \in 1..n /\ t[a + 1] = Point /\ stray \in Nat /\ a + 1 <= stray
      BY <1>1, <1>2, <1>6, <2>1
    <3>2. ASSUME NEW i \in 1..n, t[i] = Point PROVE i = a + 1
      BY <1>3, <1>4, <3>2
    <3> QED BY <1>1, <1>7, <1>8, <3>1, <3>2
  <2>2. ASSUME ~dotted PROVE S2 \in SUBSET Nat /\ a + 1 \in S2 /\ \A i \in S2 : a + 1 <= i
    <3>1. stray = a + 1
      BY <1>1, <1>2, <1>6, <2>2
    <3>2. ASSUME NEW i \in 1..n PROVE t[i] # Point
      BY <1>3, <1>4, <2>2
    <3>3. S2 = {a + 1}
      BY <1>7, <1>8, <3>1, <3>2
    <3> HIDE DEF S2
    <3> QED BY <1>1, <3>3
  <2> HIDE DEF S2
  <2> QED BY <2>1, <2>2, LeastIs
<1> HIDE DEF dot
<1>10. dot < stray <=> dotted
  BY <1>1, <1>2, <1>6, <1>9
<1>11. SubSeq(part, dot + 1, Len(part)) = y
  <2>1. CASE dotted
    <3> DEFINE u == SubSeq(t, a + 2, n)
    <3>1. \A i \in (a + 2)..n : t[i] \in Int
      BY <1>1 DEF n
    <3>2. /\ u \in Seq(Int) /\ Len(u) = IF a + 2 <= n THEN n - (a + 2) + 1 ELSE 0
          /\ \A i \in 1..(n - (a + 2) + 1) : u[i] = t[a + 2 + i - 1]
      BY <1>1, <3>1, SubSeqProperties
    <3> HIDE DEF u
    <3>3. n - (a + 2) + 1 = b /\ (a + 2 <= n <=> b >= 1)
      BY <1>1, <1>2, <2>1
    <3>4. Len(u) = b
      BY <1>1, <3>2, <3>3
    <3>5. \A i \in 1..b : u[i] = y[i]
      <4> SUFFICES ASSUME NEW i \in 1..b PROVE u[i] = y[i]
        OBVIOUS
      <4>1. a + 2 + i - 1 = a + 1 + i
        BY <1>1
      <4> QED BY <1>2, <2>1, <3>2, <3>3, <4>1
    <3>6. y \in Seq(Int) /\ Len(y) = b
      BY DEF Runs, b
    <3>7. u = y
      BY <3>2, <3>4, <3>5, <3>6, SeqEqual
    <3>8. dot + 1 = a + 2 /\ Len(part) = n
      BY <1>1, <1>7, <1>9 DEF n
    <3> QED BY <1>7, <3>7, <3>8 DEF u
  <2>2. CASE ~dotted
    <3>1. dot + 1 = n + 2 /\ Len(part) = n
      BY <1>1, <1>2, <1>7, <1>9, <2>2 DEF n
    <3>2. SubSeq(t, n + 2, n) = <<>>
      BY <1>1, SubSeqEmpty
    <3> QED BY <1>7, <2>2, <3>1, <3>2
  <2> QED BY <2>1, <2>2
<1>12. /\ S3 \in SUBSET Nat /\ dot \in S3 /\ dot - 1 = a
  BY <1>1, <1>9
<1>13. sig \in S3 /\ \A i \in S3 : sig <= i
  <2> HIDE DEF S3
  <2>1. PICK m \in S3 : \A i \in S3 : m <= i
    BY <1>12, LeastNatural
  <2>2. sig = m
    BY <1>12, <2>1, LeastIs
  <2> QED BY <2>1, <2>2
<1> HIDE DEF sig
<1>14. ASSUME NEW i \in 1..a PROVE part[i] = s[i]
  BY <1>2, <1>7
<1>15. sig \in 1..(a + 1)
  BY <1>1, <1>9, <1>13
<1>16. \A i \in 1..(sig - 1) : s[i] = 0
  <2> SUFFICES ASSUME NEW i \in 1..(sig - 1) PROVE s[i] = 0
    OBVIOUS
  <2>1. i \in 1..a /\ i < sig /\ i \in 1..(dot - 1)
    BY <1>1, <1>12, <1>15
  <2>2. i \notin S3
    <3> HIDE DEF S3
    <3> QED BY <1>13, <1>15, <2>1
  <2> QED BY <1>14, <2>1, <2>2
<1>17. sig - 1 < a => s[sig] # 0
  <2> SUFFICES ASSUME sig - 1 < a PROVE s[sig] # 0
    OBVIOUS
  <2>1. sig \in 1..a /\ sig # dot
    BY <1>1, <1>9, <1>15
  <2> QED BY <1>13, <1>14, <2>1
<1>18. SubSeq(part, sig, dot - 1) = SubSeq(s, sig, a)
  <2> DEFINE u == SubSeq(t, sig, a)
             x == SubSeq(s, sig, a)
  <2>1. a <= n
    BY <1>1, <1>2
  <2>2. \A i \in sig..a : t[i] \in Int /\ s[i] \in Int /\ t[i] = s[i]
    <3> SUFFICES ASSUME NEW i \in sig..a PROVE t[i] \in Int /\ s[i] \in Int /\ t[i] = s[i]
      OBVIOUS
    <3>1. i \in 1..a
      BY <1>1, <1>15
    <3>2. s[i] \in 0..9 /\ t[i] = s[i]
      BY <1>1, <1>2, <3>1
    <3> QED BY <3>2
  <2>3. sig \in Int /\ a \in Int
    BY <1>1, <1>15
  <2>4. /\ u \in Seq(Int) /\ Len(u) = (IF sig <= a THEN a - sig + 1 ELSE 0)
        /\ \A i \in 1..(a - sig + 1) : u[i] = t[sig + i - 1]
    BY <2>2, <2>3, SubSeqProperties
  <2>5. /\ x \in Seq(Int) /\ Len(x) = (IF sig <= a THEN a - sig + 1 ELSE 0)
        /\ \A i \in 1..(a - sig + 1) : x[i] = s[sig + i - 1]
    BY <2>2, <2>3, SubSeqProperties
  <2> HIDE DEF u, x
  <2>6. Len(u) = a - sig + 1 /\ Len(x) = a - sig + 1
    BY <1>1, <1>15, <2>4, <2>5
  <2>7. ASSUME NEW i \in 1..(a - sig + 1) PROVE u[i] = x[i]
    <3>1. sig + i - 1 \in 1..a
      BY <1>1, <1>15
    <3> QED BY <1>2, <2>4, <2>5, <3>1
  <2>8. u = x
    BY <2>4, <2>5, <2>6, <2>7, SeqEqual
  <2> QED BY <1>7, <1>12, <2>8 DEF u, x
<1>19. /\ stray = n + 1 /\ part = t /\ dot = a + 1 /\ (dot < stray <=> dotted)
       /\ SubSeq(part, dot + 1, Len(part)) = y
       /\ sig - 1 \in 0..a /\ (\A i \in 1..(sig - 1) : s[i] = 0)
       /\ (sig - 1 < a => s[sig] # 0)
       /\ SubSeq(part, sig, dot - 1) = SubSeq(s, sig, a)
       /\ n \in Nat
  BY <1>1, <1>6, <1>7, <1>9, <1>10, <1>11, <1>15, <1>16, <1>17, <1>18
<1>20. ASSUME NEW sign
       PROVE  LiteralFrom(sign, t)
                = Literal(sign, sig - 1, SubSeq(s, sig, a), dotted, y, "end", "", <<>>, 0)
  <2>1. LiteralFrom(sign, t)
          = Literal(sign, sig - 1, SubSeq(part, sig, dot - 1), dot < stray, SubSeq(part, dot + 1, Len(part)),
                    IF stray <= n THEN "junk" ELSE "end", "", <<>>, n + 1 - stray)
    BY ONLY DEF LiteralFrom, stray, part, dot, sig, n
  <2>2. ~(stray <= n) /\ n + 1 - stray = 0
    BY <1>19
  <2>3. (dot < stray) = dotted /\ (IF stray <= n THEN "junk" ELSE "end") = "end" /\ dot - 1 = a
    BY <1>12, <1>19, <2>2
  <2>4. /\ SubSeq(part, sig, dot - 1) = SubSeq(s, sig, a)
        /\ SubSeq(part, dot + 1, Len(part)) = y
    BY <1>19
  <2> HIDE DEF n, a
  <2> QED BY ONLY <2>1, <2>2, <2>3, <2>4, Zenon
<1> DEFINE z == sig - 1
<1>21. z \in 0..a /\ sig = z + 1
  BY <1>1, <1>15
<1> HIDE DEF z
<1>22. /\ (\A i \in 1..z : s[i] = 0) /\ (z < a => s[z + 1] # 0)
       /\ \A sign : LiteralFrom(sign, t)
                      = Literal(sign, z, SubSeq(s, z + 1, a), dotted, y, "end", "", <<>>, 0)
  <2>1. sig - 1 = z
    BY DEF z
  <2> QED BY <1>19, <1>20, <1>21, <2>1
<1> QED
  BY <1>1, <1>21, <1>22 DEF ReadAs, a, n

Plainly(l, neg, s, dotted, y) ==
  /\ IsLiteral(l) /\ l.sign = (IF neg THEN "-" ELSE "") /\ IntRun(l) = s
  /\ l.dot = dotted /\ l.frac = y /\ l.tail = "end"
  /\ (l.zeros < Len(s) => l.int # <<>>)
  /\ l.exp = <<>> /\ l.expSign = "" /\ l.junk = 0

(* The bytes of a sign, digits, a point and digits are read as just that.  *)
LEMMA LiteralIs ==
  ASSUME NEW bytes \in Seq(Int), NEW neg \in BOOLEAN, NEW t \in Seq(Int), NEW s \in Runs, s # <<>>,
         NEW dotted \in BOOLEAN, NEW y \in Runs, ~dotted => y = <<>>, Bytewise(t, s, dotted, y),
         neg => bytes = <<Minus>> \o t, ~neg => bytes = t
  PROVE  Plainly(LiteralOf(bytes), neg, s, dotted, y)
<1> DEFINE l == LiteralOf(bytes)
<1>1. PICK z \in 0..Len(s) :
        /\ (\A i \in 1..z : s[i] = 0) /\ (z < Len(s) => s[z + 1] # 0) /\ Len(t) \in Nat
        /\ \A sign : LiteralFrom(sign, t)
                       = Literal(sign, z, SubSeq(s, z + 1, Len(s)), dotted, y, "end", "", <<>>, 0)
  <2>1. ReadAs(t, s, dotted, y)
    BY ReadsShape
  <2> QED BY <2>1 DEF ReadAs
<1>2. /\ Len(s) \in Nat /\ Len(s) >= 1 /\ (\A i \in 1..Len(s) : s[i] \in 0..9)
      /\ t[1] = s[1] /\ Len(t) >= 1
  <2>1. Len(s) \in Nat /\ Len(s) >= 1 /\ (\A i \in 1..Len(s) : s[i] \in 0..9)
    BY EmptySeq DEF Runs
  <2>2. Len(t) >= Len(s) /\ t[1] = s[1]
    <3> DEFINE a == Len(s)
               b == Len(y)
               n == Len(t)
    <3>1. b \in Nat /\ n = a + (IF dotted THEN 1 + b ELSE 0) /\ \A i \in 1..a : t[i] = s[i]
      BY DEF Bytewise, Width, Runs
    <3>2. a \in Nat /\ a >= 1
      BY <2>1
    <3> HIDE DEF a, b, n
    <3>3. n >= a /\ t[1] = s[1]
      BY <3>1, <3>2
    <3> QED BY <3>3 DEF a, n
  <2>3. Len(t) \in Nat
    BY LenProperties
  <2>4. Len(t) >= 1
    BY <2>1, <2>2, <2>3
  <2> QED BY <2>1, <2>2, <2>4
<1>3. SignOf(bytes) = (IF neg THEN "-" ELSE "") /\ Unsigned(bytes) = t
  <2>1. CASE neg
    <3>1. bytes = <<Minus>> \o t /\ <<Minus>> \in Seq(Int) /\ Len(<<Minus>>) = 1 /\ <<Minus>>[1] = Minus
      BY <2>1 DEF Minus
    <3>2. Len(bytes) = 1 + Len(t) /\ \A i \in 1..(1 + Len(t)) : bytes[i] = IF i <= 1 THEN <<Minus>>[i] ELSE t[i - 1]
      BY <3>1, ConcatProperties
    <3>3. bytes[1] = Minus /\ bytes # <<>>
      <4>1. Len(t) \in Nat
        BY LenProperties
      <4>2. 1 \in 1..(1 + Len(t)) /\ 1 <= 1 /\ Len(bytes) # 0
        BY <3>2, <4>1
      <4>3. bytes[1] = <<Minus>>[1]
        BY <3>2, <4>2
      <4> QED BY <3>1, <4>2, <4>3, EmptySeq
    <3>4. Signed0(bytes) /\ Head(bytes) = Minus
      <4>1. Head(bytes) = bytes[1]
        BY <3>3, HeadTailProperties
      <4> QED BY <3>3, <4>1 DEF Signed0
    <3>5. SubSeq(bytes, 2, Len(bytes)) = t
      <4> DEFINE n == Len(t)
                 u == SubSeq(bytes, 2, n + 1)
      <4>1. n \in Nat /\ n >= 1 /\ Len(bytes) = n + 1
        <5>1. Len(t) \in Nat
          BY LenProperties
        <5> QED BY <1>2, <3>2, <5>1
      <4>2. \A i \in 2..(n + 1) : bytes[i] \in Int
        BY <4>1, ElementOfSeq
      <4> HIDE DEF n
      <4>3. /\ u \in Seq(Int) /\ Len(u) = (IF 2 <= n + 1 THEN (n + 1) - 2 + 1 ELSE 0)
            /\ \A i \in 1..((n + 1) - 2 + 1) : u[i] = bytes[2 + i - 1]
        BY <4>1, <4>2, SubSeqProperties
      <4> HIDE DEF u
      <4>4. Len(u) = n /\ (n + 1) - 2 + 1 = n
        BY <4>1, <4>3
      <4>5. ASSUME NEW i \in 1..n PROVE u[i] = t[i]
        <5>1. 2 + i - 1 = i + 1 /\ i + 1 \in 1..(1 + n) /\ ~(i + 1 <= 1) /\ (i + 1) - 1 = i
          BY <4>1
        <5>2. bytes[i + 1] = t[(i + 1) - 1]
          BY <3>2, <5>1 DEF n
        <5> QED BY <4>3, <4>4, <5>1, <5>2
      <4>6. u = t
        BY <4>3, <4>4, <4>5, SeqEqual DEF n
      <4> QED BY <4>1, <4>6 DEF u
    <3> QED BY <2>1, <3>4, <3>5 DEF SignOf, Unsigned
  <2>2. CASE ~neg
    <3>1. bytes = t
      BY <2>2
    <3>2. Head(bytes) = s[1] /\ s[1] \in 0..9
      BY <1>2, <3>1, HeadTailProperties, EmptySeq
    <3>3. ~Signed0(bytes)
      BY <3>2 DEF Signed0, Plus, Minus
    <3> QED BY <2>2, <3>1, <3>3 DEF SignOf, Unsigned
  <2> QED BY <2>1, <2>2
<1> DEFINE int == SubSeq(s, z + 1, Len(s))
<1>4. l = Literal(IF neg THEN "-" ELSE "", z, int, dotted, y, "end", "", <<>>, 0)
  BY <1>1, <1>3, LiteralSplit
<1> HIDE DEF l, int
<1>5. /\ l.sign = (IF neg THEN "-" ELSE "") /\ l.zeros = z /\ l.int = int /\ l.dot = dotted
      /\ l.frac = y /\ l.tail = "end" /\ l.expSign = "" /\ l.exp = <<>> /\ l.junk = 0
  BY <1>4 DEF Literal
<1>6. z \in 0..Len(s) /\ Len(s) \in z..Len(s) /\ z \in Nat
  BY <1>2
<1>7. int \in Runs /\ Len(int) = Len(s) - z /\ \A i \in 1..(Len(s) - z) : int[i] = s[z + i]
  BY <1>6, Cutting DEF int
<1>8. IsLiteral(l)
  <2>1. z \in Nat /\ 0 \in Nat /\ <<>> \in Seq(0..9) /\ int \in Seq(0..9) /\ y \in Seq(0..9)
    BY <1>6, <1>7, EmptySeq DEF Runs
  <2>2. l.sign \in {"", "-", "+"}
    BY <1>5
  <2> HIDE DEF l
  <2>3. /\ l.zeros \in Nat /\ l.dot \in BOOLEAN /\ l.int \in Seq(0..9) /\ l.frac \in Seq(0..9)
        /\ l.exp \in Seq(0..9) /\ l.junk \in Nat
    BY <1>5, <2>1
  <2>4. /\ l.tail \in {"end", "exp", "junk"} /\ l.expSign \in {"", "-", "+"}
        /\ (~l.dot => l.frac = <<>>) /\ (l.tail # "exp" => l.expSign = "" /\ l.exp = <<>>)
        /\ (l.tail = "end" <=> l.tail # "exp" /\ l.junk = 0)
    BY <1>5
  <2> QED BY <2>2, <2>3, <2>4 DEF IsLiteral
<1>9. IntRun(l) = s
  <2> DEFINE x == Zeros(z)
             u == x \o int
  <2>1. x \in Runs /\ Len(x) = z /\ \A i \in 1..z : x[i] = 0
    <3>1. z \in Nat
      BY <1>6
    <3> QED BY <3>1 DEF Zeros, Runs
  <2> HIDE DEF x
  <2>2. /\ u \in Runs /\ Len(u) = Len(x) + Len(int)
        /\ (\A i \in 1..Len(x) : u[i] = x[i])
        /\ \A i \in 1..Len(int) : u[Len(x) + i] = int[i]
    BY <1>7, <2>1, RunsJoin
  <2> HIDE DEF u
  <2>3. Len(u) = Len(s)
    BY <1>2, <1>6, <1>7, <2>1, <2>2
  <2>4. ASSUME NEW i \in 1..Len(s) PROVE u[i] = s[i]
    <3>1. CASE i <= z
      <4>1. i \in 1..z
        BY <3>1
      <4>2. s[i] = 0
        BY <1>1, <4>1
      <4> QED BY <2>1, <2>2, <4>1, <4>2
    <3>2. CASE i > z
      <4>1. i - z \in 1..(Len(s) - z) /\ z + (i - z) = i
        BY <1>2, <1>6, <3>2
      <4>2. PICK k \in 1..(Len(s) - z) : k = i - z /\ z + k = i
        BY <4>1
      <4>3. u[z + k] = int[k] /\ int[k] = s[z + k]
        BY <1>7, <2>1, <2>2
      <4> QED BY <4>2, <4>3
    <3>3. i <= z \/ i > z
      BY <1>6
    <3> QED BY <3>1, <3>2, <3>3
  <2>5. u = s
    BY <2>2, <2>3, <2>4, SeqEqual DEF Runs
  <2> QED BY <1>5, <2>5 DEF IntRun, u, x
<1>10. l.zeros < Len(s) => l.int # <<>>
  <2> SUFFICES ASSUME z < Len(s) PROVE int # <<>>
    BY <1>5
  <2>1. Len(int) # 0
    BY <1>2, <1>6, <1>7
  <2> QED BY <2>1, EmptySeq
<1> QED BY <1>5, <1>8, <1>9, <1>10 DEF l, Plainly

(* What a literal without an exponent spells, when it is short enough.     *)
LEMMA SpelledIs ==
  ASSUME NEW l, IsLiteral(l), l.tail = "end", ~NoInt(l), l.dot => l.frac # <<>>,
         Bytes(l) \in 1..MaxParseLen, Len(Mantissa(l)) <= 2*MaxPrec + 1
  PROVE  LET m == DigitsVal(Mantissa(l))
         IN  /\ m \in Nat
             /\ (m = 0) => (Spelled(l) = Number(IsNeg(l), 0, 0, Len(l.frac)))
             /\ (m # 0) =>
                  \E z \in 0..2*MaxPrec : \E k \in Nat :
                    /\ k % 10 # 0 /\ m = k * Pow10[z]
                    /\ Spelled(l) = Number(IsNeg(l), k, z, Len(l.frac))
<1> DEFINE m == DigitsVal(Mantissa(l))
           stay == Kept(l)
           k == DigitsVal(stay)
           z == EndZeros(Mantissa(l))
           n == Len(Mantissa(l))
           sig == Significant(l)
<1>1. /\ stay \in Runs /\ Len(stay) \in Nat /\ z \in Nat /\ Len(stay) + z = n /\ k \in Nat
      /\ (stay = <<>> => (k = 0 /\ m = 0)) /\ (stay # <<>> => (k # 0 /\ k % 10 # 0 /\ m # 0))
      /\ (z <= 2*MaxPrec => m = k * Pow10[z]) /\ m \in Nat
  <2>1. DigitsVal(Mantissa(l)) = DigitsVal(Digits(l)) /\ DigitsVal(Digits(l)) \in Nat
    BY MantissaFacts
  <2> HIDE DEF stay, k, z, n
  <2> QED BY <2>1, KeptFacts DEF stay, k, z, n
<1>2. Unled(stay) = sig
  BY DEF Significant, Unled
<1> HIDE DEF stay
<1>3. sig \in Runs /\ Len(sig) \in Nat /\ DigitsVal(sig) = k /\ Len(sig) <= Len(stay)
  BY <1>1, <1>2, UnledFacts
<1>4. MaxPrec \in Nat
  BY PowFacts
<1> HIDE DEF m, k, z, n, sig
<1>5. n \in Nat /\ n <= 2*MaxPrec + 1 /\ ~(Len(sig) > 2*MaxPrec + 1)
  <2>1. n <= 2*MaxPrec + 1
    BY DEF n
  <2> QED BY <1>1, <1>3, <1>4, <2>1
<1>6. GrammarErr(l) = "nil"
  <2>1. ~BadExponent(l)
    BY DEF BadExponent
  <2>2. ~Ungrammatical(l)
    BY <2>1 DEF Ungrammatical
  <2>3. Bytes(l) # 0 /\ ~(Bytes(l) > MaxParseLen)
    BY ParserAssumption
  <2> QED BY <2>2, <2>3 DEF GrammarErr
<1>7. Exp10(l) = 0
  <2>1. l.exp = <<>> /\ l.expSign = ""
    BY DEF IsLiteral
  <2>2. <<>> \in Runs /\ Len(<<>>) = 0
    BY EmptySeq DEF Runs
  <2>3. DigitsVal(<<>>) = 0
    <3>1. Upto(<<>>, 0) = 0 /\ Upto(<<>>, Len(<<>>)) = DigitsVal(<<>>)
      BY <2>2, DigitByDigit
    <3> QED BY <2>2, <3>1
  <2>4. DigitsVal(l.exp) = 0
    BY <2>1, <2>3
  <2>5. Exp10(l) = 1 * DigitsVal(l.exp)
    BY <2>1 DEF Exp10
  <2> QED BY <2>4, <2>5
<1>8. Len(l.frac) - Exp10(l) = Len(l.frac)
  <2>1. Len(l.frac) \in Nat
    BY LiteralBytes
  <2> QED BY <1>7, <2>1
<1>9. Spelled(l) = Number(IsNeg(l), k, IF stay = <<>> THEN 0 ELSE z, Len(l.frac))
  <2>1. Spelled(l) = Number(IsNeg(l), IF Len(sig) > 2*MaxPrec + 1 THEN Cap ELSE DigitsVal(sig),
                            IF stay = <<>> THEN 0 ELSE z, Len(l.frac) - Exp10(l))
    BY <1>6 DEF Spelled, sig, stay, z
  <2>2. (IF Len(sig) > 2*MaxPrec + 1 THEN Cap ELSE DigitsVal(sig)) = k
    BY <1>3, <1>5
  <2> QED BY <1>8, <2>1, <2>2
<1>10. m = 0 => Spelled(l) = Number(IsNeg(l), 0, 0, Len(l.frac))
  BY <1>1, <1>9
<1>11. m # 0 => z \in 0..2*MaxPrec
  <2> SUFFICES ASSUME m # 0 PROVE z \in 0..2*MaxPrec
    OBVIOUS
  <2>1. stay # <<>>
    BY <1>1
  <2>2. Len(stay) # 0
    BY <1>1, <2>1, EmptySeq DEF Runs
  <2> QED BY <1>1, <1>4, <1>5, <2>2
<1>12. m # 0 => Spelled(l) = Number(IsNeg(l), k, z, Len(l.frac)) /\ k % 10 # 0 /\ m = k * Pow10[z]
  <2>1. m # 0 => z <= 2*MaxPrec
    BY <1>4, <1>11
  <2> QED BY <1>1, <1>9, <2>1
<1>13. m # 0 => \E zz \in 0..2*MaxPrec : \E kk \in Nat :
                  /\ kk % 10 # 0 /\ m = kk * Pow10[zz]
                  /\ Spelled(l) = Number(IsNeg(l), kk, zz, Len(l.frac))
  BY <1>1, <1>11, <1>12
<1> QED BY <1>1, <1>10, <1>13 DEF m

(* The number of a canonical form with t zeros trimmed off its fraction,   *)
(* and of one without a fraction.                                          *)
LEMMA CanonicalFraction ==
  ASSUME NEW d \in Decimals, d.coef % Pow10[d.prec] # 0,
         NEW t \in 0..d.prec, t < d.prec, \A i \in 0..(t - 1) : Nth(d.coef, i) = 0, Nth(d.coef, t) # 0
  PROVE  AppendCanonical(d) = Number(d.neg, d.coef \div Pow10[t], 0, d.prec - t)
<1> DEFINE v == d.coef
           p == d.prec
           f == Pow10[t]
           g == Pow10[p - t]
           h == v \div f
<1>1. v \in Nat /\ v < Cap /\ p \in 0..MaxPrec /\ MaxPrec \in Nat
  BY DecimalFacts, PowFacts
<1>2. p - t \in 0..2*MaxPrec /\ t \in 0..2*MaxPrec /\ p \in 0..2*MaxPrec /\ t <= p
      /\ p - t \in 1..2*MaxPrec
  BY <1>1
<1>3. f \in Nat \ {0} /\ g \in Nat \ {0} /\ Pow10[p] = f * g
  BY <1>2, PowRatio
<1>4. v % f = 0 /\ v = h * f
  <2> DEFINE T == {k \in 0..t : v = (v \div Pow10[k]) * Pow10[k]}
  <2>1. 0 \in T
    <3>1. Pow10[0] = 1 /\ v \div 1 = v
      BY <1>1, PowFacts
    <3> QED BY <1>1, <1>2, <3>1
  <2>2. ASSUME NEW k \in 0..(t - 1), k \in T PROVE k + 1 \in T
    <3>1. k \in 0..(2*MaxPrec - 1) /\ k + 1 \in 0..t
      BY <1>1, <1>2
    <3> DEFINE x == v \div Pow10[k]
               y == v \div Pow10[k + 1]
               e == Pow10[k]
    <3>2. x = 10 * y + Nth(v, k) /\ y \in Nat /\ Pow10[k + 1] = e * 10 /\ e \in Nat \ {0}
      BY <1>1, <3>1, NthStep, PowStep
    <3>3. v = x * e /\ Nth(v, k) = 0
      BY <2>2
    <3> HIDE DEF x, y, e
    <3>4. x = 10 * y
      BY <3>2, <3>3
    <3>5. (10 * y) * e = y * (e * 10)
      BY <3>2
    <3>6. v = y * Pow10[k + 1]
      BY <3>2, <3>3, <3>4, <3>5
    <3> QED BY <3>1, <3>6 DEF y
  <2>3. 0 \in Nat /\ t \in Nat /\ t \in 0..t
    BY <1>2
  <2> HIDE DEF T
  <2>4. t \in T
    BY <2>1, <2>2, <2>3, Stepwise
  <2>5. v = h * f
    BY <2>4 DEF T
  <2>6. h \in Int
    BY <1>1, <1>3, DivBelow
  <2> HIDE DEF h, f, v
  <2>7. (h * f) % f = 0
    BY <1>3, <2>6, DivExactly
  <2> QED BY <2>5, <2>7
<1> DEFINE r == v % Pow10[p]
           y == v \div Pow10[p]
           k == h % g
<1>5. h \in Nat /\ h \div g = y /\ r = k * f /\ k \in Nat /\ h = g * y + k
  <2> HIDE DEF v, f, g
  <2>1. h \in Nat
    BY <1>1, <1>3, DivBelow
  <2>2. h \div g = v \div (f * g) /\ v % (f * g) = (h % g) * f + (v % f)
    BY <1>1, <1>3, DivDiv
  <2>3. k \in Nat /\ h \div g \in Nat
    <3> HIDE DEF h
    <3> QED BY <1>3, <2>1, DivBelow
  <2>4. k * f \in Nat
    <3> HIDE DEF k
    <3> QED BY <1>3, <2>3
  <2>5. h = g * (h \div g) + k
    <3> HIDE DEF h
    <3> QED BY <1>3, <2>1, DivMod
  <2>6. r = k * f
    <3> HIDE DEF h, k
    <3> QED BY <1>3, <1>4, <2>2, <2>4 DEF k
  <2>7. h \div g = y
    BY <1>3, <2>2
  <2> QED BY <2>1, <2>3, <2>5, <2>6, <2>7
<1>6. k % 10 # 0
  <2> DEFINE e == Pow10[p - t - 1]
  <2>1. p - t - 1 \in 0..(2*MaxPrec - 1) /\ (p - t - 1) + 1 = p - t
    <3> HIDE DEF p
    <3> QED BY <1>1, <1>2
  <2>2. e \in Nat \ {0} /\ g = e * 10
    BY <2>1, PowStep
  <2> HIDE DEF e, g, h
  <2>3. (h % (e * 10)) % 10 = h % 10
    BY <1>5, <2>2, ChunkDigit
  <2>4. h % 10 # 0
    BY DEF Nth, h
  <2> QED BY <2>2, <2>3, <2>4
<1>7. TrailingZeros(r) = t /\ r \div f = k
  <2>1. r < Cap
    <3> DEFINE b == Pow10[p]
    <3>1. b \in Nat \ {0}
      BY <1>2, PowFacts
    <3> HIDE DEF b, v
    <3>2. v % b <= v
      <4>1. v % b \in Nat /\ v \div b \in Nat /\ v = b * (v \div b) + (v % b)
        <5>1. v \in Int
          BY <1>1
        <5>2. v = b * (v \div b) + (v % b)
          BY <3>1, <5>1, DivMod
        <5> QED BY <1>1, <3>1, <5>2, DivBelow
      <4> DEFINE x == v % b
                 u == v \div b
      <4> HIDE DEF x, u
      <4>2. b * u \in Nat
        BY <3>1, <4>1 DEF u
      <4>3. x <= v
        BY <1>1, <4>1, <4>2 DEF x, u
      <4> QED BY <4>3 DEF x
    <3>3. v % b \in Nat
      BY <1>1, <3>1, DivBelow
    <3>4. v % b < Cap
      BY <1>1, <3>2, <3>3, CapFacts
    <3> QED BY <3>4 DEF b
  <2> HIDE DEF r, k, f
  <2>2. r = k * f /\ k * Pow10[t] < Cap
    BY <1>5, <2>1 DEF f
  <2>3. TrailingZeros(k * Pow10[t]) = t /\ (k * Pow10[t]) \div Pow10[t] = k
    BY <1>2, <1>5, <1>6, <2>2, TrailingZerosUnique
  <2> QED BY <2>2, <2>3 DEF f
<1>8. AppendCanonical(d) = Number(d.neg, y * g + k, 0, p - t)
  <2>1. r # 0
    OBVIOUS
  <2>2. AppendCanonical(d)
          = Number(d.neg, y * Pow10[p - TrailingZeros(r)] + r \div Pow10[TrailingZeros(r)], 0,
                   p - TrailingZeros(r))
    BY <2>1 DEF AppendCanonical
  <2> HIDE DEF r, y, k
  <2> QED BY <1>7, <2>2
<1>9. y * g + k = h
  <2>1. y \in Nat
    <3> DEFINE b == Pow10[p]
    <3>1. b \in Nat \ {0}
      BY <1>2, PowFacts
    <3> HIDE DEF b, v
    <3>2. v \div b \in Nat
      BY <1>1, <3>1, DivBelow
    <3> QED BY <3>2 DEF b
  <2> HIDE DEF y, g, k, h
  <2> QED BY <1>3, <1>5, <2>1
<1> QED BY <1>8, <1>9

(* What a number without a fraction spells in the canonical form.          *)
LEMMA CanonicalInteger ==
  ASSUME NEW d \in Decimals, d.coef % Pow10[d.prec] = 0
  PROVE  LET v == d.coef \div Pow10[d.prec]
         IN  /\ v \in Nat /\ v < Cap
             /\ v = 0 => AppendCanonical(d) = Number(d.neg, 0, 0, 0)
             /\ \A z \in 0..2*MaxPrec, k \in Nat :
                  v # 0 /\ k % 10 # 0 /\ v = k * Pow10[z] => AppendCanonical(d) = Number(d.neg, k, z, 0)
<1> DEFINE v == d.coef \div Pow10[d.prec]
<1>1. v \in Nat /\ v < Cap
  <2> DEFINE b == Pow10[d.prec]
             c == d.coef
  <2>1. c \in Nat /\ c < Cap /\ d.prec \in 0..2*MaxPrec
    <3>1. d.prec \in 0..MaxPrec /\ MaxPrec \in Nat
      BY DecimalFacts, PowFacts
    <3>2. d.prec \in 0..2*MaxPrec
      BY <3>1
    <3> QED BY <3>2, DecimalFacts
  <2>2. b \in Nat \ {0}
    BY <2>1, PowFacts
  <2> HIDE DEF b, c
  <2>3. c \div b \in Nat /\ c \div b <= c
    BY <2>1, <2>2, DivBelow
  <2>4. c \div b < Cap
    BY <2>1, <2>3, CapFacts
  <2> QED BY <2>3, <2>4 DEF b, c
<1>2. v = 0 => AppendCanonical(d) = Number(d.neg, 0, 0, 0)
  BY DEF AppendCanonical
<1>3. ASSUME NEW z \in 0..2*MaxPrec, NEW k \in Nat, v # 0, k % 10 # 0, v = k * Pow10[z]
      PROVE  AppendCanonical(d) = Number(d.neg, k, z, 0)
  <2>1. AppendCanonical(d) = Number(d.neg, v \div Pow10[TrailingZeros(v)], TrailingZeros(v), 0)
    BY <1>3 DEF AppendCanonical
  <2> HIDE DEF v
  <2>2. TrailingZeros(k * Pow10[z]) = z /\ (k * Pow10[z]) \div Pow10[z] = k
    BY <1>1, <1>3, TrailingZerosUnique
  <2> QED BY <1>3, <2>1, <2>2
<1> QED BY <1>1, <1>2, <1>3

----------------------------------------------------------------------------
(* The number in the buffer: v without its point, p of its digits behind   *)
(* the point, o points (none or one).                                      *)
Dotted == IF Fixed THEN places > 0 ELSE num.coef % Pow10[num.prec] # 0
Whole == IF Dotted THEN num.coef ELSE num.coef \div Pow10[num.prec]
Behind == IF Dotted THEN num.prec ELSE 0
Points == One(Dotted)
Trims01 == One(Dotted /\ ~Fixed)
Missing == IF Fixed THEN places - num.prec ELSE 0
Window == [i \in 1..(end - pos) |-> buf[pos + i - 1]]

(* The k-th byte from the right.                                           *)
ByteAt(v, p, o, k) ==
  IF o = 0 \/ k < p THEN Nth(v, k) ELSE IF k = p THEN Point ELSE Nth(v, k - 1)
Buffers == [0..(ScratchLen - 1) -> Int]
Stored(v, p, o, b, ps) ==
  /\ b \in Buffers /\ ps \in 0..ScratchLen
  /\ \A k \in 0..(ScratchLen - ps - 1) : b[ScratchLen - 1 - k] = ByteAt(v, p, o, k)
ZerosBelow(v, t) == \A i \in 0..(t - 1) : Nth(v, i) = 0
EndsAt(v, p, trims, en) ==
  LET t == ScratchLen - en
  IN  IF trims = 1 THEN t \in 0..(p - 1) /\ ZerosBelow(v, t) /\ Nth(v, t) # 0 ELSE en = ScratchLen

(* What each stage has stored and still has to store: wd digits of the     *)
(* chunk ch, and qq above it.                                              *)
AtFrac(v, p, o, qq, ch, wd, ps, en) ==
  /\ o = 1 /\ wd \in 0..p /\ ScratchLen - ps = p - wd
  /\ (wd > 0 => ch = (v \div Pow10[p - wd]) % Pow10[wd]) /\ qq = v \div Pow10[p] /\ en = ScratchLen
AtTrim(v, p, o, qq, ps, en) ==
  /\ o = 1 /\ ScratchLen - ps = p /\ qq = v \div Pow10[p] /\ v % Pow10[p] # 0
  /\ ScratchLen - en \in 0..(p - 1) /\ ZerosBelow(v, ScratchLen - en)
AtPoint(v, p, qq, ps, en) ==
  ScratchLen - ps = p /\ qq = v \div Pow10[p] /\ en = ScratchLen
AtInt(v, p, o, qq, ps) ==
  LET w == ScratchLen - ps - o
  IN  w \in p..2*MaxPrec /\ qq = v \div Pow10[w] /\ (qq = 0 => w = p)
AtChunk(v, p, o, qq, ch, wd, ps) ==
  LET w == ScratchLen - ps - o
  IN  /\ w \in p..2*MaxPrec /\ wd \in Nat /\ w + wd <= 2*MaxPrec
      /\ (wd > 0 => ch = (v \div Pow10[w]) % Pow10[wd]) /\ qq = v \div Pow10[w + wd] /\ qq >= 1
AtLead(v, p, o, ch, ps) ==
  LET w == ScratchLen - ps - o
  IN  w \in p..2*MaxPrec /\ ch = v \div Pow10[w] /\ ch \in 1..(Base - 1)
AtSign(v, p, o, ps) ==
  LET w == ScratchLen - ps - o
  IN  /\ w \in (p + 1)..(2*MaxPrec + 1) /\ v \div Pow10[w - 1] \in 0..9
      /\ (v \div Pow10[w - 1] = 0 => w = p + 1)
AtHead(v, p, o, neg, b, ps) ==
  LET start == ps + One(neg)
  IN  /\ ps \in 0..ScratchLen /\ Stored(v, p, o, b, start) /\ AtSign(v, p, o, start)
      /\ (neg => b[ps] = Minus)

(* The inductive invariant: up to the hand-over the buffer holds the low   *)
(* digits of the number, its point and its sign in place, and the state of *)
(* the stage is what is left of it; then the bytes are the window and the  *)
(* zeros appended so far.                                                  *)
Late == {"zeros", "written", "raw", "unescape", "read", "bare"}
Stages == {"split", "frac", "trim", "point", "int", "chunk", "lead", "sign", "emit"} \cup Late
InStage ==
  /\ at \in {"frac", "trim", "point", "int", "chunk", "lead", "sign"} => Stored(Whole, Behind, Points, buf, pos)
  /\ at \in {"int", "chunk", "lead", "sign", "emit"} \cup Late => EndsAt(Whole, Behind, Trims01, end)
  /\ at = "frac" => AtFrac(Whole, Behind, Points, q, chunk, width, pos, end)
  /\ at = "trim" => AtTrim(Whole, Behind, Points, q, pos, end) /\ ~Fixed
  /\ at = "point" => AtPoint(Whole, Behind, q, pos, end) /\ Fixed
  /\ at = "int" => AtInt(Whole, Behind, Points, q, pos)
  /\ at = "chunk" => AtChunk(Whole, Behind, Points, q, chunk, width, pos)
  /\ at = "lead" => AtLead(Whole, Behind, Points, chunk, pos)
  /\ at = "sign" => AtSign(Whole, Behind, Points, pos)
  /\ at \in {"emit"} \cup Late => AtHead(Whole, Behind, Points, num.neg, buf, pos)
WriterInv ==
  /\ given \in Decimals /\ places \in Nat \cup {Shortest} /\ at \in Stages
  /\ end \in 0..ScratchLen
  /\ IF at = "split" THEN num = given /\ buf \in Buffers /\ pos = ScratchLen /\ end = ScratchLen
     ELSE /\ num = IF Fixed THEN Round(given, places) ELSE given
          /\ InStage
          /\ at \notin Late => pad = Missing
          /\ at = "zeros" => pad \in 0..Missing /\ text = Window \o Zeros(Missing - pad)
          /\ at \in Late \ {"zeros"} => text = Window \o Zeros(Missing)

Sized(v, p, o) ==
  /\ v \in Nat /\ v < Cap /\ p \in 0..MaxPrec /\ o \in 0..1 /\ (o = 0 => p = 0)
NumOK == given \in Decimals /\ places \in Nat \cup {Shortest}
         /\ num = IF Fixed THEN Round(given, places) ELSE given

(* Rounding answers a Decimal of no more places than asked for.            *)
LEMMA RoundKeeps ==
  ASSUME NEW d \in Decimals, NEW n \in Nat
  PROVE  Round(d, n) \in Decimals /\ Round(d, n).prec <= n
<1>1. d.prec \in 0..MaxPrec /\ MaxPrec \in Nat
  BY DecimalFacts, PowFacts
<1>2. CASE n >= d.prec
  <2>1. Round(d, n) = d
    BY <1>2 DEF Round
  <2> QED BY <1>1, <1>2, <2>1
<1>3. CASE ~(n >= d.prec)
  <2> DEFINE r == Round(d, n)
             den == Pow10[d.prec - n]
             best == RoundedCoef(d.coef, den, d.neg, "ToNearestAway")
  <2>1. RoundedReply(Ok(r), d.coef, den, d.neg, n, "ToNearestAway")
    BY <1>3, FamilyRoundsOnce DEF RoundsReceiver
  <2>2. IsReply(Ok(r)) /\ RoundsOnce(d.coef, den, d.neg, n, "ToNearestAway", r, "nil")
    <3>1. Ok(r).val = r /\ Ok(r).err = "nil"
      BY DEF Ok
    <3> QED BY <2>1, <3>1 DEF RoundedReply
  <2>3. r \in Decimals
    BY <2>2 DEF IsReply, Ok
  <2>4. d.prec - n \in 0..2*MaxPrec
    BY <1>1, <1>3
  <2>5. r = NewDecimal(best, d.neg, n)
    <3>1. den \in Nat \ {0} /\ d.coef \in Nat /\ d.neg \in BOOLEAN /\ "ToNearestAway" \in Modes
      <4>1. den \in Nat \ {0}
        BY <2>4, PowFacts
      <4>2. "ToNearestAway" \in Modes
        BY DEF Modes
      <4> QED BY <4>1, <4>2, DecimalFacts
    <3> HIDE DEF r, den
    <3>2. RoundsOnce(d.coef, den, d.neg, n, "ToNearestAway", r, "nil") =
              IF RoundedCoef(d.coef, den, d.neg, "ToNearestAway") >= Cap THEN "nil" = "Overflow"
              ELSE "nil" = "nil" /\ r = NewDecimal(RoundedCoef(d.coef, den, d.neg, "ToNearestAway"), d.neg, n)
      BY <3>1, RoundsOnceMeans
    <3> QED BY <2>2, <3>2
  <2>6. r.prec \in {0, n}
    BY <2>5 DEF NewDecimal, RawDecimal, Zero
  <2> QED BY <2>3, <2>6
<1> QED BY <1>2, <1>3

(* The number in the buffer and its bounds, from the call.                 *)
LEMMA SizedNum ==
  ASSUME NumOK
  PROVE  /\ num \in Decimals /\ Sized(Whole, Behind, Points) /\ Trims01 \in 0..1 /\ num.neg \in BOOLEAN
         /\ (Points = 1 <=> Dotted) /\ (Trims01 = 1 <=> Dotted /\ ~Fixed)
         /\ (Dotted => Behind = num.prec /\ Whole = num.coef)
         /\ (~Dotted => Behind = 0 /\ Whole = num.coef \div Pow10[num.prec])
         /\ (Dotted /\ ~Fixed => Whole % Pow10[Behind] # 0)
         /\ (Fixed => places \in Nat /\ num.prec <= places /\ Behind = num.prec /\ Whole = num.coef
                      /\ (Dotted <=> places > 0))
         /\ (~Fixed => num = given) /\ Missing \in Nat
<1>1. ASSUME Fixed PROVE places \in Nat
  BY <1>1 DEF NumOK, Fixed
<1>2. num \in Decimals /\ (Fixed => num.prec <= places) /\ (~Fixed => num = given)
  BY <1>1, RoundKeeps DEF NumOK
<1>3. /\ num.coef \in Nat /\ num.coef < Cap /\ num.prec \in 0..MaxPrec /\ num.neg \in BOOLEAN
      /\ MaxPrec \in Nat
  BY <1>2, DecimalFacts, PowFacts
<1>4. num.coef \div Pow10[num.prec] \in Nat /\ num.coef \div Pow10[num.prec] <= num.coef
  <2> DEFINE c == num.coef
             b == Pow10[num.prec]
  <2>1. num.prec \in 0..2*MaxPrec
    BY <1>3
  <2>2. c \in Nat /\ b \in Nat \ {0}
    BY <1>3, <2>1, PowFacts
  <2> HIDE DEF c, b
  <2>3. c \div b \in Nat /\ c \div b <= c
    BY <2>2, DivBelow
  <2> QED BY <2>3 DEF c, b
<1>6. Points \in 0..1 /\ (Points = 1 <=> Dotted) /\ Trims01 \in 0..1 /\ (Trims01 = 1 <=> Dotted /\ ~Fixed)
  BY DEF Points, Trims01, One
<1>7. /\ (Dotted => Behind = num.prec /\ Whole = num.coef)
      /\ (~Dotted => Behind = 0 /\ Whole = num.coef \div Pow10[num.prec])
  BY DEF Behind, Whole
<1>8. Sized(Whole, Behind, Points)
  <2>1. CASE Dotted
    BY <1>3, <1>6, <1>7, <2>1 DEF Sized
  <2>2. CASE ~Dotted
    <3>1. Behind = 0 /\ Points \in 0..1 /\ 0 \in 0..MaxPrec
      BY <1>3, <1>6, <1>7, <2>2
    <3>2. Whole \in Nat /\ Whole < Cap
      <4> DEFINE c == num.coef
                 y == c \div Pow10[num.prec]
      <4>1. c \in Nat /\ c < Cap /\ y \in Nat /\ y <= c /\ Cap \in Nat
        BY <1>3, <1>4, CapFacts
      <4> HIDE DEF c, y
      <4>2. y \in Nat /\ y < Cap
        BY <4>1
      <4> QED BY <1>7, <2>2, <4>2 DEF c, y
    <3> QED BY <3>1, <3>2 DEF Sized
  <2> QED BY <2>1, <2>2
<1>9. Dotted /\ ~Fixed => Whole % Pow10[Behind] # 0
  BY <1>7 DEF Dotted
<1>10. ASSUME Fixed PROVE Behind = num.prec /\ Whole = num.coef /\ (Dotted <=> places > 0)
  <2>1. Dotted <=> places > 0
    BY <1>10 DEF Dotted
  <2>2. CASE ~Dotted
    <3>1. num.prec = 0
      BY <1>1, <1>2, <1>3, <1>10, <2>1, <2>2
    <3>2. num.coef \div Pow10[num.prec] = num.coef
      <4>1. Pow10[num.prec] = 1
        BY <3>1, PowFacts
      <4>2. \A x \in Nat : x \div 1 = x
        OBVIOUS
      <4> QED BY <1>3, <4>1, <4>2
    <3> QED BY <1>7, <2>1, <2>2, <3>1, <3>2
  <2> QED BY <1>7, <2>1, <2>2
<1>11. Missing \in Nat
  BY <1>1, <1>2, <1>3 DEF Missing
<1> QED BY <1>1, <1>2, <1>3, <1>6, <1>7, <1>8, <1>9, <1>10, <1>11

----------------------------------------------------------------------------
(* Stores.                                                                 *)
LEMMA StoreOne ==
  ASSUME NEW v, NEW p, NEW o, NEW b, NEW ps, Stored(v, p, o, b, ps), ps >= 1,
         NEW c \in Buffers, c[ps - 1] = ByteAt(v, p, o, ScratchLen - ps),
         \A i \in ps..(ScratchLen - 1) : c[i] = b[i]
  PROVE  Stored(v, p, o, c, ps - 1)
<1>1. ScratchLen \in Nat /\ ps \in 1..ScratchLen
  BY PrinterAssumption DEF Stored
<1>2. ASSUME NEW k \in 0..(ScratchLen - (ps - 1) - 1)
      PROVE  c[ScratchLen - 1 - k] = ByteAt(v, p, o, k)
  <2>1. CASE k = ScratchLen - ps
    <3>1. ScratchLen - 1 - k = ps - 1
      BY <1>1, <2>1
    <3> QED BY <2>1, <3>1
  <2>2. CASE k # ScratchLen - ps
    <3>1. k \in 0..(ScratchLen - ps - 1) /\ ScratchLen - 1 - k \in ps..(ScratchLen - 1)
      BY <1>1, <2>2
    <3>2. b[ScratchLen - 1 - k] = ByteAt(v, p, o, k)
      BY <3>1 DEF Stored
    <3> QED BY <3>1, <3>2
  <2> QED BY <2>1, <2>2
<1>3. ps - 1 \in 0..ScratchLen
  BY <1>1
<1> QED BY <1>2, <1>3 DEF Stored

(* Two more bytes are in the buffer.                                       *)
LEMMA StoreTwo ==
  ASSUME NEW v, NEW p, NEW o, NEW b, NEW ps, Stored(v, p, o, b, ps), ps >= 2,
         NEW c \in Buffers, c[ps - 1] = ByteAt(v, p, o, ScratchLen - ps),
         c[ps - 2] = ByteAt(v, p, o, ScratchLen - ps + 1),
         \A i \in ps..(ScratchLen - 1) : c[i] = b[i]
  PROVE  Stored(v, p, o, c, ps - 2)
<1>1. ScratchLen \in Nat /\ ps \in 2..ScratchLen
  BY PrinterAssumption DEF Stored
<1>2. Stored(v, p, o, c, ps - 1)
  <2>1. ps >= 1
    BY <1>1
  <2> QED BY <2>1, StoreOne
<1>3. (ps - 1) - 1 = ps - 2 /\ ScratchLen - (ps - 1) = ScratchLen - ps + 1 /\ ps - 1 >= 1
  BY <1>1
<1>4. Stored(v, p, o, c, (ps - 1) - 1)
  <2> DEFINE r == ps - 1
  <2>1. Stored(v, p, o, c, r) /\ r >= 1 /\ c[r - 1] = ByteAt(v, p, o, ScratchLen - r)
        /\ \A i \in r..(ScratchLen - 1) : c[i] = c[i]
    BY <1>2, <1>3
  <2> HIDE DEF r
  <2>2. Stored(v, p, o, c, r - 1)
    BY <2>1, StoreOne
  <2> QED BY <2>2 DEF r
<1> QED BY <1>3, <1>4

(* The mask is the identity.                                               *)
LEMMA InsideScratch ==
  ASSUME NEW i \in 0..(ScratchLen - 1)
  PROVE  InScratch(i) = i
<1>1. ScratchLen \in Nat /\ ScratchLen > 0
  BY PrinterAssumption, PowFacts
<1> QED BY <1>1 DEF InScratch

(* A masked store of one byte, in front of the window.                     *)
LEMMA PutOne ==
  ASSUME buf \in Buffers, pos \in 1..ScratchLen, NEW x \in Int, Put(<<x>>)
  PROVE  /\ pos' = pos - 1 /\ buf' \in Buffers /\ buf'[pos - 1] = x
         /\ \A i \in pos..(ScratchLen - 1) : buf'[i] = buf[i]
<1>1. ScratchLen \in Nat /\ ScratchLen > 0 /\ DOMAIN buf = 0..(ScratchLen - 1)
  BY PrinterAssumption, PowFacts DEF Buffers
<1>2. Len(<<x>>) = 1 /\ <<x>>[1] = x
  OBVIOUS
<1>3. InScratch(pos - 1 + 1 - 1) = pos - 1
  <2>1. pos - 1 + 1 - 1 = pos - 1 /\ pos - 1 \in 0..(ScratchLen - 1)
    BY <1>1
  <2> QED BY <2>1, InsideScratch
<1>4. buf' = [i \in DOMAIN buf |->
               IF \E j \in 1..1 : InScratch(pos - 1 + j - 1) = i
               THEN <<x>>[CHOOSE j \in 1..1 : InScratch(pos - 1 + j - 1) = i]
               ELSE buf[i]] /\ pos' = pos - 1
  BY <1>2 DEF Put
<1>5. \A j \in 1..1 : j = 1
  OBVIOUS
<1>6. ASSUME NEW i \in 0..(ScratchLen - 1)
      PROVE  buf'[i] = IF i = pos - 1 THEN x ELSE buf[i]
  <2>1. (\E j \in 1..1 : InScratch(pos - 1 + j - 1) = i) <=> i = pos - 1
    BY <1>3, <1>5
  <2>2. ASSUME i = pos - 1 PROVE (CHOOSE j \in 1..1 : InScratch(pos - 1 + j - 1) = i) = 1
    BY <1>5, <2>1, <2>2
  <2>3. buf'[i] = IF \E j \in 1..1 : InScratch(pos - 1 + j - 1) = i
               THEN <<x>>[CHOOSE j \in 1..1 : InScratch(pos - 1 + j - 1) = i]
               ELSE buf[i]
    BY <1>1, <1>4
  <2> QED BY <1>2, <2>1, <2>2, <2>3
<1>7. DOMAIN buf' = 0..(ScratchLen - 1) /\ buf' = [i \in 0..(ScratchLen - 1) |-> buf'[i]]
  BY <1>1, <1>4
<1>8. \A i \in 0..(ScratchLen - 1) : buf[i] \in Int
  BY DEF Buffers
<1>9. \A i \in 0..(ScratchLen - 1) : buf'[i] \in Int
  BY <1>6, <1>8
<1>10. buf' \in Buffers
  BY <1>7, <1>9 DEF Buffers
<1>11. pos - 1 \in 0..(ScratchLen - 1) /\ \A i \in pos..(ScratchLen - 1) : i \in 0..(ScratchLen - 1) /\ i # pos - 1
  BY <1>1
<1> QED BY <1>4, <1>6, <1>10, <1>11

(* A masked store of two bytes, in front of the window.                    *)
LEMMA PutTwo ==
  ASSUME buf \in Buffers, pos \in 2..ScratchLen, NEW x \in Int, NEW y \in Int, Put(<<x, y>>)
  PROVE  /\ pos' = pos - 2 /\ buf' \in Buffers /\ buf'[pos - 2] = x /\ buf'[pos - 1] = y
         /\ \A i \in pos..(ScratchLen - 1) : buf'[i] = buf[i]
<1>1. ScratchLen \in Nat /\ ScratchLen > 0 /\ DOMAIN buf = 0..(ScratchLen - 1)
  BY PrinterAssumption, PowFacts DEF Buffers
<1>2. Len(<<x, y>>) = 2 /\ <<x, y>>[1] = x /\ <<x, y>>[2] = y
  OBVIOUS
<1> DEFINE Lands(i, j) == InScratch(pos - 2 + j - 1) = i
<1>3. /\ \A i : Lands(i, 1) <=> i = pos - 2
      /\ \A i : Lands(i, 2) <=> i = pos - 1
      /\ pos - 2 # pos - 1
  <2>1. pos - 2 + 1 - 1 = pos - 2 /\ pos - 2 \in 0..(ScratchLen - 1)
        /\ pos - 2 + 2 - 1 = pos - 1 /\ pos - 1 \in 0..(ScratchLen - 1) /\ pos - 2 # pos - 1
    BY <1>1
  <2> QED BY <2>1, InsideScratch
<1>4. buf' = [i \in DOMAIN buf |->
               IF \E j \in 1..2 : Lands(i, j) THEN <<x, y>>[CHOOSE j \in 1..2 : Lands(i, j)] ELSE buf[i]]
      /\ pos' = pos - 2
  BY <1>2 DEF Put
<1>5. 1 \in 1..2 /\ 2 \in 1..2 /\ \A j \in 1..2 : j = 1 \/ j = 2
  OBVIOUS
<1> HIDE DEF Lands
<1>6. ASSUME NEW i \in 0..(ScratchLen - 1)
      PROVE  buf'[i] = IF i = pos - 2 THEN x ELSE IF i = pos - 1 THEN y ELSE buf[i]
  <2>1. (\E j \in 1..2 : Lands(i, j)) <=> (i = pos - 2 \/ i = pos - 1)
    BY <1>3, <1>5
  <2> DEFINE at1 == CHOOSE j \in 1..2 : Lands(i, j)
  <2>2. ASSUME i = pos - 2 \/ i = pos - 1 PROVE at1 \in 1..2 /\ Lands(i, at1)
    BY <2>1, <2>2
  <2>3. buf'[i] = IF \E j \in 1..2 : Lands(i, j) THEN <<x, y>>[at1] ELSE buf[i]
    BY <1>1, <1>4
  <2> HIDE DEF at1
  <2>4. CASE i = pos - 2
    <3>1. at1 = 1
      BY <1>3, <1>5, <2>2, <2>4
    <3> QED BY <1>2, <2>1, <2>3, <2>4, <3>1
  <2>5. CASE i = pos - 1
    <3>1. at1 = 2
      BY <1>3, <1>5, <2>2, <2>5
    <3> QED BY <1>2, <1>3, <2>1, <2>3, <2>5, <3>1
  <2> QED BY <2>1, <2>3, <2>4, <2>5
<1>7. DOMAIN buf' = 0..(ScratchLen - 1) /\ buf' = [i \in 0..(ScratchLen - 1) |-> buf'[i]]
  BY <1>1, <1>4
<1>8. \A i \in 0..(ScratchLen - 1) : buf[i] \in Int
  BY DEF Buffers
<1>9. \A i \in 0..(ScratchLen - 1) : buf'[i] \in Int
  BY <1>6, <1>8
<1>10. buf' \in Buffers
  BY <1>7, <1>9 DEF Buffers
<1>11. pos - 1 \in 0..(ScratchLen - 1) /\ pos - 2 \in 0..(ScratchLen - 1) /\ pos - 2 # pos - 1
       /\ \A i \in pos..(ScratchLen - 1) : i \in 0..(ScratchLen - 1) /\ i # pos - 1 /\ i # pos - 2
  BY <1>1
<1> QED BY <1>4, <1>6, <1>10, <1>11

(* The bounds of a sized number, one by one.                               *)
LEMMA SizedFacts ==
  ASSUME NEW v, NEW p, NEW o, Sized(v, p, o)
  PROVE  /\ v \in Nat /\ v < Cap /\ p \in Nat /\ p <= MaxPrec /\ o \in 0..1 /\ (o = 0 => p = 0)
         /\ MaxPrec \in Nat /\ MaxPrec >= 1 /\ ScratchLen \in Nat /\ ScratchLen >= 2*MaxPrec + 3
         /\ p \in 0..2*MaxPrec
  BY PowFacts, PrinterAssumption DEF Sized

(* Two digits of a chunk, and the chunk without them.                      *)
LEMMA TwoDigits ==
  ASSUME NEW v \in Nat, NEW k \in Nat, NEW wd \in Nat, wd >= 1, k + wd <= 2*MaxPrec
  PROVE  LET ch == (v \div Pow10[k]) % Pow10[wd]
         IN  /\ ch \in Nat /\ ch % 10 = Nth(v, k)
             /\ ch \div 10 = (v \div Pow10[k + 1]) % Pow10[wd - 1]
             /\ wd >= 2 => (ch \div 10) % 10 = Nth(v, k + 1)
                           /\ ch \div 100 = (v \div Pow10[k + 2]) % Pow10[wd - 2]
<1>1. MaxPrec \in Nat
  BY PowFacts
<1>2. ASSUME NEW a \in Nat, NEW b \in Nat, b >= 1, a + b <= 2*MaxPrec
      PROVE  LET c == (v \div Pow10[a]) % Pow10[b]
             IN  c \in Nat /\ c % 10 = Nth(v, a) /\ c \div 10 = (v \div Pow10[a + 1]) % Pow10[b - 1]
  <2> DEFINE x == v \div Pow10[a]
             m == Pow10[b - 1]
             c == x % Pow10[b]
  <2>1. a \in 0..(2*MaxPrec - 1) /\ b - 1 \in 0..(2*MaxPrec - 1) /\ (b - 1) + 1 = b /\ a \in 0..2*MaxPrec
    BY <1>1, <1>2
  <2>2. x \in Nat /\ v \div Pow10[a + 1] = x \div 10
    BY <2>1, NthFacts, NthStep
  <2>3. m \in Nat \ {0} /\ Pow10[b] = m * 10
    BY <2>1, PowStep
  <2> HIDE DEF x, m
  <2>4. (x % (m * 10)) % 10 = x % 10 /\ (x % (m * 10)) \div 10 = (x \div 10) % m
    BY <2>2, <2>3, ChunkDigit
  <2>5. c \in Nat
    <3>1. m * 10 \in Nat \ {0}
      BY <2>3
    <3> DEFINE mm == m * 10
    <3> HIDE DEF mm
    <3>2. x % mm \in Nat
      BY <2>2, <3>1, DivBelow DEF mm
    <3> QED BY <2>3, <3>2 DEF mm
  <2>6. c % 10 = x % 10 /\ c \div 10 = (x \div 10) % m
    BY <2>3, <2>4
  <2> QED BY <2>2, <2>5, <2>6 DEF Nth, x, m
<1> DEFINE ch == (v \div Pow10[k]) % Pow10[wd]
<1>3. ch \in Nat /\ ch % 10 = Nth(v, k) /\ ch \div 10 = (v \div Pow10[k + 1]) % Pow10[wd - 1]
  BY <1>2
<1> HIDE DEF ch
<1>4. ASSUME wd >= 2
      PROVE  (ch \div 10) % 10 = Nth(v, k + 1) /\ ch \div 100 = (v \div Pow10[k + 2]) % Pow10[wd - 2]
  <2>1. k + 1 \in Nat /\ wd - 1 \in Nat /\ wd - 1 >= 1 /\ (k + 1) + (wd - 1) <= 2*MaxPrec
        /\ (k + 1) + 1 = k + 2 /\ (wd - 1) - 1 = wd - 2
    BY <1>1, <1>4
  <2> DEFINE c == (v \div Pow10[k + 1]) % Pow10[wd - 1]
  <2>2. c % 10 = Nth(v, k + 1) /\ c \div 10 = (v \div Pow10[(k + 1) + 1]) % Pow10[(wd - 1) - 1]
    BY <1>2, <2>1
  <2> HIDE DEF c
  <2>3. ch \div 10 = c /\ c \div 10 = (v \div Pow10[k + 2]) % Pow10[wd - 2]
    BY <1>3, <2>1, <2>2 DEF c
  <2>4. (ch \div 10) \div 10 = ch \div 100
    BY <1>3
  <2> QED BY <2>2, <2>3, <2>4
<1> QED BY <1>3, <1>4 DEF ch

(* Digits below a place that are all zeros.                                *)
LEMMA ZerosMean ==
  ASSUME NEW v \in Nat, NEW t \in 0..2*MaxPrec, ZerosBelow(v, t)
  PROVE  v % Pow10[t] = 0
<1> DEFINE T == {k \in 0..t : v % Pow10[k] = 0}
<1>1. MaxPrec \in Nat /\ Pow10[0] = 1
  BY PowFacts
<1>2. 0 \in T
  BY <1>1
<1>3. ASSUME NEW k \in 0..(t - 1), k \in T PROVE k + 1 \in T
  <2>1. k \in 0..(2*MaxPrec - 1) /\ k + 1 \in 0..t
    BY <1>1
  <2> DEFINE e == Pow10[k]
             x == v \div e
  <2>2. e \in Nat \ {0} /\ Pow10[k + 1] = e * 10 /\ Nth(v, k) = 0 /\ v % e = 0
    BY <1>3, <2>1, PowStep DEF ZerosBelow
  <2>3. x % 10 = 0
    BY <2>2 DEF Nth
  <2> HIDE DEF e, x
  <2>4. v % (e * 10) = ((v \div e) % 10) * e + (v % e)
    <3>1. 10 \in Nat \ {0}
      OBVIOUS
    <3> QED BY <2>2, <3>1, DivDiv
  <2>5. v % (e * 10) = 0
    <3>1. v % (e * 10) = 0 * e + 0
      BY <2>2, <2>3, <2>4 DEF x
    <3> QED BY <2>2, <3>1
  <2> QED BY <2>1, <2>2, <2>5
<1>4. 0 \in Nat /\ t \in Nat /\ t \in 0..t
  BY <1>1
<1> HIDE DEF T
<1>5. t \in T
  BY <1>2, <1>3, <1>4, Stepwise
<1> QED BY <1>5 DEF T

(* Which digit a byte is.                                                  *)
LEMMA IntByte ==
  ASSUME NEW v, NEW p, NEW o, Sized(v, p, o), NEW w \in Nat, w >= p
  PROVE  ByteAt(v, p, o, w + o) = Nth(v, w)
<1>1. v \in Nat /\ p \in Nat /\ o \in 0..1 /\ (o = 0 => p = 0)
  BY SizedFacts
<1>2. CASE o = 0
  <2>1. w + o = w
    BY <1>2
  <2> QED BY <1>2, <2>1 DEF ByteAt
<1>3. CASE o = 1
  <2>1. ~(w + o < p) /\ w + o # p /\ (w + o) - 1 = w /\ o # 0
    BY <1>1, <1>3
  <2> QED BY <2>1 DEF ByteAt
<1> QED BY <1>1, <1>2, <1>3

(* Right of the point stand the digits of the number.                      *)
LEMMA FracByte ==
  ASSUME NEW v, NEW p, NEW o, NEW k, k < p
  PROVE  ByteAt(v, p, o, k) = Nth(v, k)
  BY DEF ByteAt

----------------------------------------------------------------------------

(* Two digits of the fraction.                                             *)
LEMMA FracPair ==
  ASSUME NEW v, NEW p, NEW o, Sized(v, p, o), NEW qq, NEW ch, NEW wd, NEW ps \in 0..ScratchLen, NEW en,
         AtFrac(v, p, o, qq, ch, wd, ps, en), wd >= 2
  PROVE  /\ ps >= 2 /\ ByteAt(v, p, o, ScratchLen - ps) = ch % 10
         /\ ByteAt(v, p, o, ScratchLen - ps + 1) = (ch \div 10) % 10
         /\ ch % 10 \in Int /\ (ch \div 10) % 10 \in Int
         /\ AtFrac(v, p, o, qq, ch \div 100, wd - 2, ps - 2, en)
<1>1. /\ v \in Nat /\ p \in Nat /\ p <= MaxPrec /\ MaxPrec \in Nat /\ ScratchLen \in Nat
      /\ ScratchLen >= 2*MaxPrec + 3
  BY SizedFacts
<1>2. /\ o = 1 /\ wd \in 0..p /\ ScratchLen - ps = p - wd
      /\ ch = (v \div Pow10[p - wd]) % Pow10[wd] /\ qq = v \div Pow10[p] /\ en = ScratchLen
  BY <1>1 DEF AtFrac
<1> DEFINE k == p - wd
<1>3. k \in Nat /\ wd \in Nat /\ wd >= 1 /\ k + wd <= 2*MaxPrec /\ k < p /\ k + 1 < p
      /\ k \in 0..2*MaxPrec /\ k + 1 \in 0..2*MaxPrec
  BY <1>1, <1>2
<1>4. ch = (v \div Pow10[k]) % Pow10[wd]
  BY <1>2
<1> HIDE DEF k
<1>5. /\ ch \in Nat /\ ch % 10 = Nth(v, k) /\ (ch \div 10) % 10 = Nth(v, k + 1)
      /\ ch \div 100 = (v \div Pow10[k + 2]) % Pow10[wd - 2]
  BY <1>1, <1>3, <1>4, TwoDigits
<1>6. Nth(v, k) \in 0..9 /\ Nth(v, k + 1) \in 0..9
  BY <1>1, <1>3, NthFacts
<1>7. ByteAt(v, p, o, k) = ch % 10 /\ ByteAt(v, p, o, k + 1) = (ch \div 10) % 10
  BY <1>3, <1>5, FracByte
<1>8. /\ wd - 2 \in 0..p /\ ScratchLen - (ps - 2) = p - (wd - 2) /\ p - (wd - 2) = k + 2 /\ ps >= 2
      /\ ScratchLen - ps = k /\ ScratchLen - ps + 1 = k + 1
  BY <1>1, <1>2 DEF k
<1>9. AtFrac(v, p, o, qq, ch \div 100, wd - 2, ps - 2, en)
  BY <1>2, <1>5, <1>8 DEF AtFrac
<1> QED BY <1>5, <1>6, <1>7, <1>8, <1>9

(* The last, odd digit of the fraction.                                    *)
LEMMA FracLast ==
  ASSUME NEW v, NEW p, NEW o, Sized(v, p, o), NEW qq, NEW ch, NEW wd, NEW ps \in 0..ScratchLen, NEW en,
         AtFrac(v, p, o, qq, ch, wd, ps, en), wd = 1
  PROVE  /\ ps >= 1 /\ ByteAt(v, p, o, ScratchLen - ps) = ch % 10 /\ ch % 10 \in Int
         /\ AtFrac(v, p, o, qq, ch, 0, ps - 1, en)
<1>1. /\ v \in Nat /\ p \in Nat /\ p <= MaxPrec /\ MaxPrec \in Nat /\ ScratchLen \in Nat
      /\ ScratchLen >= 2*MaxPrec + 3
  BY SizedFacts
<1>2. /\ o = 1 /\ wd \in 0..p /\ ScratchLen - ps = p - wd
      /\ ch = (v \div Pow10[p - wd]) % Pow10[wd] /\ qq = v \div Pow10[p] /\ en = ScratchLen
  BY <1>1 DEF AtFrac
<1> DEFINE k == p - wd
<1>3. k \in Nat /\ wd \in Nat /\ wd >= 1 /\ k + wd <= 2*MaxPrec /\ k < p /\ k \in 0..2*MaxPrec
  BY <1>1, <1>2
<1>4. ch = (v \div Pow10[k]) % Pow10[wd]
  BY <1>2
<1> HIDE DEF k
<1>5. ch \in Nat /\ ch % 10 = Nth(v, k)
  BY <1>1, <1>3, <1>4, TwoDigits
<1>6. Nth(v, k) \in 0..9
  BY <1>1, <1>3, NthFacts
<1>7. ByteAt(v, p, o, k) = ch % 10
  BY <1>3, <1>5, FracByte
<1>8. /\ 0 \in 0..p /\ ScratchLen - (ps - 1) = p - 0 /\ ps >= 1 /\ ScratchLen - ps = k
  BY <1>1, <1>2 DEF k
<1>9. AtFrac(v, p, o, qq, ch, 0, ps - 1, en)
  BY <1>2, <1>8 DEF AtFrac
<1> QED BY <1>5, <1>6, <1>7, <1>8, <1>9

(* The fraction is written: what is left is the integer part.              *)
LEMMA FracDone ==
  ASSUME NEW v, NEW p, NEW o, Sized(v, p, o), NEW qq, NEW ch, NEW wd, NEW ps \in 0..ScratchLen, NEW en,
         AtFrac(v, p, o, qq, ch, wd, ps, en), wd = 0
  PROVE  /\ AtPoint(v, p, qq, ps, en)
         /\ v % Pow10[p] # 0 => AtTrim(v, p, o, qq, ps, en)
<1>1. /\ v \in Nat /\ p \in Nat /\ p <= MaxPrec /\ MaxPrec \in Nat /\ ScratchLen \in Nat
  BY SizedFacts
<1>2. o = 1 /\ ScratchLen - ps = p - wd /\ qq = v \div Pow10[p] /\ en = ScratchLen
  BY DEF AtFrac
<1>3. ScratchLen - ps = p /\ ScratchLen - en = 0
  BY <1>1, <1>2
<1>4. v % Pow10[p] # 0 => p >= 1
  <2>1. Pow10[0] = 1 /\ v % 1 = 0
    BY <1>1, PowFacts
  <2> QED BY <1>1, <2>1
<1>5. ZerosBelow(v, 0)
  BY DEF ZerosBelow
<1>6. p >= 1 => 0 \in 0..(p - 1)
  BY <1>1
<1> QED BY <1>2, <1>3, <1>4, <1>5, <1>6 DEF AtPoint, AtTrim

(* A zero at the end is a digit, and never the last of the fraction.       *)
LEMMA TrimOn ==
  ASSUME NEW v, NEW p, NEW o, Sized(v, p, o), NEW qq, NEW b, NEW ps, NEW en \in 0..ScratchLen,
         Stored(v, p, o, b, ps), AtTrim(v, p, o, qq, ps, en)
  PROVE  /\ en - 1 \in 0..(ScratchLen - 1) /\ b[en - 1] = Nth(v, ScratchLen - en)
         /\ b[en - 1] = 0 => AtTrim(v, p, o, qq, ps, en - 1)
         /\ b[en - 1] # 0 => EndsAt(v, p, 1, en)
<1>1. /\ v \in Nat /\ p \in Nat /\ p <= MaxPrec /\ MaxPrec \in Nat /\ ScratchLen \in Nat
      /\ ScratchLen >= 2*MaxPrec + 3 /\ p \in 0..2*MaxPrec
  BY SizedFacts
<1> DEFINE t == ScratchLen - en
<1>2. /\ o = 1 /\ ScratchLen - ps = p /\ qq = v \div Pow10[p] /\ v % Pow10[p] # 0
      /\ t \in 0..(p - 1) /\ ZerosBelow(v, t)
  BY DEF AtTrim
<1>3. /\ t \in 0..(ScratchLen - ps - 1) /\ ScratchLen - 1 - t = en - 1 /\ t < p
      /\ en - 1 \in 0..(ScratchLen - 1) /\ ScratchLen - (en - 1) = t + 1
  BY <1>1, <1>2
<1>4. b[en - 1] = Nth(v, t)
  <2>1. b[ScratchLen - 1 - t] = ByteAt(v, p, o, t)
    BY <1>3 DEF Stored
  <2> QED BY <1>3, <2>1, FracByte
<1> HIDE DEF t
<1>5. ASSUME b[en - 1] = 0 PROVE AtTrim(v, p, o, qq, ps, en - 1)
  <2>1. ZerosBelow(v, t + 1)
    <3>1. \A i \in 0..((t + 1) - 1) : i \in 0..(t - 1) \/ i = t
      BY <1>2
    <3> QED BY <1>2, <1>4, <1>5, <3>1 DEF ZerosBelow
  <2>2. t + 1 # p
    <3>1. SUFFICES ASSUME t + 1 = p PROVE v % Pow10[p] = 0
      BY <1>2
    <3>2. ZerosBelow(v, p)
      BY <2>1, <3>1
    <3> QED BY <1>1, <3>2, ZerosMean
  <2>3. t + 1 \in 0..(p - 1)
    BY <1>1, <1>2, <2>2
  <2> QED BY <1>2, <1>3, <2>1, <2>3 DEF AtTrim
<1>6. ASSUME b[en - 1] # 0 PROVE EndsAt(v, p, 1, en)
  BY <1>2, <1>4, <1>6 DEF EndsAt, t
<1> QED BY <1>3, <1>4, <1>5, <1>6 DEF t

(* The point, and the integer part behind it.                              *)
LEMMA PointDone ==
  ASSUME NEW v, NEW p, NEW o, Sized(v, p, o), NEW qq, NEW ps \in 0..ScratchLen,
         ScratchLen - ps = p, qq = v \div Pow10[p]
  PROVE  /\ ps >= 1 /\ (o = 1 => ByteAt(v, p, o, ScratchLen - ps) = Point)
         /\ (o = 1 => AtInt(v, p, o, qq, ps - 1)) /\ (o = 0 => AtInt(v, p, o, qq, ps))
<1>1. /\ v \in Nat /\ p \in Nat /\ p <= MaxPrec /\ MaxPrec \in Nat /\ ScratchLen \in Nat
      /\ ScratchLen >= 2*MaxPrec + 3 /\ p \in 0..2*MaxPrec
  BY SizedFacts
<1>2. ps >= 1 /\ p \in p..2*MaxPrec /\ ~(p < p)
  BY <1>1
<1>3. o = 1 => ByteAt(v, p, o, ScratchLen - ps) = Point
  BY <1>2 DEF ByteAt
<1>4. o = 1 => ScratchLen - (ps - 1) - o = p
  BY <1>1
<1>5. o = 0 => ScratchLen - ps - o = p
  BY <1>1
<1>6. o = 1 => AtInt(v, p, o, qq, ps - 1)
  BY <1>2, <1>4 DEF AtInt
<1>7. o = 0 => AtInt(v, p, o, qq, ps)
  BY <1>2, <1>5 DEF AtInt
<1> QED BY <1>2, <1>3, <1>6, <1>7

(* Two digits of a chunk in the midst of the integer part.                 *)
LEMMA ChunkPair ==
  ASSUME NEW v, NEW p, NEW o, Sized(v, p, o), NEW qq, NEW ch, NEW wd, NEW ps \in 0..ScratchLen,
         AtChunk(v, p, o, qq, ch, wd, ps), wd >= 2
  PROVE  /\ ps >= 2 /\ ByteAt(v, p, o, ScratchLen - ps) = ch % 10
         /\ ByteAt(v, p, o, ScratchLen - ps + 1) = (ch \div 10) % 10
         /\ ch % 10 \in Int /\ (ch \div 10) % 10 \in Int
         /\ AtChunk(v, p, o, qq, ch \div 100, wd - 2, ps - 2)
<1>1. /\ v \in Nat /\ p \in Nat /\ p <= MaxPrec /\ MaxPrec \in Nat /\ ScratchLen \in Nat
      /\ ScratchLen >= 2*MaxPrec + 3 /\ o \in 0..1
  BY SizedFacts
<1> DEFINE w == ScratchLen - ps - o
<1>2. /\ w \in p..2*MaxPrec /\ wd \in Nat /\ w + wd <= 2*MaxPrec
      /\ ch = (v \div Pow10[w]) % Pow10[wd] /\ qq = v \div Pow10[w + wd] /\ qq >= 1
  BY <1>1 DEF AtChunk
<1>3. /\ w \in Nat /\ wd \in Nat /\ wd >= 1 /\ w >= p /\ w + 1 \in Nat /\ w + 1 >= p
      /\ w \in 0..2*MaxPrec /\ w + 1 \in 0..2*MaxPrec /\ ps >= 2
      /\ ScratchLen - ps = w + o /\ ScratchLen - ps + 1 = (w + 1) + o
      /\ ScratchLen - (ps - 2) - o = w + 2 /\ w + 2 \in p..2*MaxPrec
      /\ wd - 2 \in Nat /\ (w + 2) + (wd - 2) = w + wd
  BY <1>1, <1>2
<1> HIDE DEF w
<1>4. /\ ch \in Nat /\ ch % 10 = Nth(v, w) /\ (ch \div 10) % 10 = Nth(v, w + 1)
      /\ ch \div 100 = (v \div Pow10[w + 2]) % Pow10[wd - 2]
  BY <1>1, <1>2, <1>3, TwoDigits
<1>5. Nth(v, w) \in 0..9 /\ Nth(v, w + 1) \in 0..9
  BY <1>1, <1>3, NthFacts
<1>6. ByteAt(v, p, o, w + o) = Nth(v, w) /\ ByteAt(v, p, o, (w + 1) + o) = Nth(v, w + 1)
  BY <1>3, IntByte
<1>7. AtChunk(v, p, o, qq, ch \div 100, wd - 2, ps - 2)
  BY <1>2, <1>3, <1>4 DEF AtChunk
<1>8. ByteAt(v, p, o, ScratchLen - ps) = ch % 10 /\ ByteAt(v, p, o, ScratchLen - ps + 1) = (ch \div 10) % 10
  BY <1>3, <1>4, <1>6
<1> QED BY <1>3, <1>4, <1>5, <1>7, <1>8

(* The last, odd digit of a chunk.                                         *)
LEMMA ChunkLast ==
  ASSUME NEW v, NEW p, NEW o, Sized(v, p, o), NEW qq, NEW ch, NEW wd, NEW ps \in 0..ScratchLen,
         AtChunk(v, p, o, qq, ch, wd, ps), wd = 1
  PROVE  /\ ps >= 1 /\ ByteAt(v, p, o, ScratchLen - ps) = ch % 10 /\ ch % 10 \in Int
         /\ AtChunk(v, p, o, qq, ch, 0, ps - 1)
<1>1. /\ v \in Nat /\ p \in Nat /\ p <= MaxPrec /\ MaxPrec \in Nat /\ ScratchLen \in Nat
      /\ ScratchLen >= 2*MaxPrec + 3 /\ o \in 0..1
  BY SizedFacts
<1> DEFINE w == ScratchLen - ps - o
<1>2. /\ w \in p..2*MaxPrec /\ wd \in Nat /\ w + wd <= 2*MaxPrec
      /\ ch = (v \div Pow10[w]) % Pow10[wd] /\ qq = v \div Pow10[w + wd] /\ qq >= 1
  BY <1>1 DEF AtChunk
<1>3. /\ w \in Nat /\ wd >= 1 /\ w >= p /\ w \in 0..2*MaxPrec /\ ps >= 1
      /\ ScratchLen - ps = w + o
      /\ ScratchLen - (ps - 1) - o = w + 1 /\ w + 1 \in p..2*MaxPrec
      /\ 0 \in Nat /\ (w + 1) + 0 = w + wd
  BY <1>1, <1>2
<1> HIDE DEF w
<1>4. ch \in Nat /\ ch % 10 = Nth(v, w)
  BY <1>1, <1>2, <1>3, TwoDigits
<1>5. Nth(v, w) \in 0..9
  BY <1>1, <1>3, NthFacts
<1>6. ByteAt(v, p, o, w + o) = Nth(v, w)
  BY <1>3, IntByte
<1>7. AtChunk(v, p, o, qq, ch, 0, ps - 1)
  <2>1. (w + 1) + 0 <= 2*MaxPrec /\ qq = v \div Pow10[(w + 1) + 0] /\ ~(0 > 0)
    BY <1>2, <1>3
  <2> QED BY <1>2, <1>3, <2>1 DEF AtChunk
<1> QED BY <1>3, <1>4, <1>5, <1>6, <1>7

(* A chunk is written: what is left starts above it.                       *)
LEMMA ChunkDone ==
  ASSUME NEW v, NEW p, NEW o, Sized(v, p, o), NEW qq, NEW ch, NEW wd, NEW ps \in 0..ScratchLen,
         AtChunk(v, p, o, qq, ch, wd, ps), wd = 0
  PROVE  AtInt(v, p, o, qq, ps)
<1>1. /\ p \in Nat /\ MaxPrec \in Nat /\ ScratchLen \in Nat /\ o \in 0..1
  BY SizedFacts
<1> DEFINE w == ScratchLen - ps - o
<1>2. w \in p..2*MaxPrec /\ qq = v \div Pow10[w + wd] /\ qq >= 1
  BY DEF AtChunk
<1>3. w + wd = w /\ qq # 0
  BY <1>1, <1>2
<1> QED BY <1>2, <1>3 DEF AtInt

(* A chunk is cut off while two limbs are left: the digits above it fit.   *)
LEMMA ChunkNext ==
  ASSUME NEW v, NEW p, NEW o, Sized(v, p, o), NEW qq, NEW ps \in 0..ScratchLen,
         AtInt(v, p, o, qq, ps), qq >= Base
  PROVE  AtChunk(v, p, o, qq \div Pow10[MaxPrec], qq % Pow10[MaxPrec], MaxPrec, ps)
<1>1. /\ v \in Nat /\ v < Cap /\ p \in Nat /\ p <= MaxPrec /\ MaxPrec \in Nat /\ ScratchLen \in Nat
      /\ o \in 0..1 /\ MaxPrec >= 1
  BY SizedFacts
<1> DEFINE w == ScratchLen - ps - o
           m == Pow10[MaxPrec]
           e == Pow10[w]
<1>2. w \in p..2*MaxPrec /\ qq = v \div Pow10[w]
  BY DEF AtInt
<1>3. w \in Nat /\ w \in 0..2*MaxPrec /\ MaxPrec \in 0..2*MaxPrec /\ p \in Nat
  BY <1>1, <1>2
<1> HIDE DEF w
<1>4. /\ m \in Nat \ {0} /\ m < Base /\ Base < 10 * m /\ Base \in Nat /\ Base >= 4 /\ e \in Nat \ {0}
      /\ Cap = Base * Base
  BY <1>3, WordAssumption, TableAssumption, PowFacts DEF Cap
<1>5. w <= MaxPrec
  <2>1. SUFFICES ASSUME w > MaxPrec PROVE FALSE
    BY <1>1, <1>3
  <2> DEFINE h == w - (MaxPrec + 1)
             f == Pow10[h]
             g == Pow10[MaxPrec + 1]
  <2>2. /\ h \in 0..2*MaxPrec /\ MaxPrec + 1 \in 0..2*MaxPrec /\ h + (MaxPrec + 1) = w
        /\ MaxPrec \in 0..(2*MaxPrec - 1)
    BY <1>1, <1>3, <2>1
  <2> HIDE DEF h
  <2>3. e = f * g /\ f \in Nat \ {0} /\ g = m * 10
    <3>1. Pow10[h + (MaxPrec + 1)] = Pow10[h] * Pow10[MaxPrec + 1]
      BY <1>3, <2>2, PowFacts
    <3>2. Pow10[h] \in Nat \ {0}
      BY <2>2, TableAssumption
    <3>3. Pow10[MaxPrec + 1] = Pow10[MaxPrec] * 10
      BY <2>2, PowStep
    <3> QED BY <2>2, <3>1, <3>2, <3>3
  <2>4. v >= e * Base
    <3>1. (v \div e >= Base) <=> (v >= e * Base)
      <4> HIDE DEF e
      <4> QED BY <1>1, <1>4, DivBelow
    <3> QED BY <1>2, <3>1
  <2> HIDE DEF f, g, m, e
  <2>5. g > Base /\ g \in Nat
    BY <1>4, <2>3
  <2>6. f * g >= g
    BY <2>3, <2>5
  <2>7. e > Base
    BY <1>4, <2>3, <2>5, <2>6
  <2>8. e * Base >= Base * Base
    BY <1>4, <2>7
  <2> QED BY <1>1, <1>4, <2>4, <2>8
<1>6. Pow10[w + MaxPrec] = e * m
  <2>1. w + MaxPrec <= 2*MaxPrec
    BY <1>1, <1>3, <1>5
  <2> QED BY <1>3, <2>1, PowFacts
<1> HIDE DEF m, e
<1>7. qq \in Nat /\ qq = v \div e
  <2>1. v \div e \in Nat
    BY <1>1, <1>4, DivBelow
  <2> QED BY <1>2, <2>1 DEF e
<1>8. qq \div m = v \div (e * m)
  BY <1>1, <1>4, <1>7, DivDiv
<1>9. qq \div m >= 1
  <2>1. (qq \div m >= 1) <=> (qq >= m * 1)
    BY <1>4, <1>7, DivBelow
  <2> QED BY <1>4, <1>7, <2>1
<1>10. w + MaxPrec <= 2*MaxPrec /\ w \in p..2*MaxPrec
  BY <1>1, <1>2, <1>3, <1>5
<1> QED BY <1>1, <1>6, <1>7, <1>8, <1>9, <1>10 DEF AtChunk, w, m, e

(* The integer part that is zero is one digit.                             *)
LEMMA IntZeroWritten ==
  ASSUME NEW v, NEW p, NEW o, Sized(v, p, o), NEW qq, NEW ps \in 0..ScratchLen,
         AtInt(v, p, o, qq, ps), qq = 0
  PROVE  ps >= 1 /\ ByteAt(v, p, o, ScratchLen - ps) = 0 /\ AtSign(v, p, o, ps - 1)
<1>1. /\ v \in Nat /\ p \in Nat /\ p <= MaxPrec /\ MaxPrec \in Nat /\ ScratchLen \in Nat
      /\ o \in 0..1 /\ MaxPrec >= 1 /\ ScratchLen >= 2*MaxPrec + 3
  BY SizedFacts
<1> DEFINE w == ScratchLen - ps - o
<1>2. w \in p..2*MaxPrec /\ 0 = v \div Pow10[w] /\ w = p
  BY DEF AtInt
<1>3. /\ w \in Nat /\ w >= p /\ ScratchLen - ps = w + o /\ ps >= 1
      /\ ScratchLen - (ps - 1) - o = w + 1 /\ w + 1 \in (p + 1)..(2*MaxPrec + 1) /\ (w + 1) - 1 = w
      /\ w + 1 = p + 1
  BY <1>1, <1>2
<1> HIDE DEF w
<1>4. ByteAt(v, p, o, w + o) = Nth(v, w)
  BY <1>3, IntByte
<1>5. Nth(v, w) = 0
  <2>1. 0 % 10 = 0
    OBVIOUS
  <2> QED BY <1>2, <2>1 DEF Nth
<1>6. 0 \in 0..9
  OBVIOUS
<1>7. AtSign(v, p, o, ps - 1)
  BY <1>2, <1>3, <1>6 DEF AtSign
<1> QED BY <1>3, <1>4, <1>5, <1>7

(* The chunk that leads the integer part.                                  *)
LEMMA LeadStart ==
  ASSUME NEW v, NEW p, NEW o, NEW qq \in 1..(Base - 1), NEW ps,
         AtInt(v, p, o, qq, ps)
  PROVE  AtLead(v, p, o, qq, ps)
  BY DEF AtInt, AtLead

(* How far up a number can reach.                                          *)
LEMMA TopDigits ==
  ASSUME NEW v \in Nat, v < Cap, NEW w \in 0..2*MaxPrec
  PROVE  /\ v \div Pow10[w] >= 10 => w + 1 <= 2*MaxPrec
         /\ v \div Pow10[w] >= 100 => w + 2 <= 2*MaxPrec
<1>1. MaxPrec \in Nat /\ MaxPrec >= 1 /\ v \div Pow10[2*MaxPrec] \in 0..9 /\ w \in Nat
  <2>1. 2*MaxPrec \in 0..2*MaxPrec /\ MaxPrec \in Nat /\ MaxPrec >= 1
    BY PowFacts
  <2> QED BY <2>1, NthFacts
<1>2. v \div Pow10[w] >= 10 => w # 2*MaxPrec
  BY <1>1
<1>3. v \div Pow10[w] >= 100 => w # 2*MaxPrec - 1
  <2>1. SUFFICES ASSUME w = 2*MaxPrec - 1 PROVE v \div Pow10[w] <= 99
    <3> DEFINE y == v \div Pow10[w]
    <3>1. y \in Nat
      BY NthFacts
    <3> HIDE DEF y
    <3>2. y <= 99 => ~(y >= 100)
      BY <3>1
    <3> QED BY <3>2 DEF y
  <2>2. w \in 0..(2*MaxPrec - 1) /\ w + 1 = 2*MaxPrec
    BY <1>1, <2>1
  <2>3. Nth(v, w) \in 0..9 /\ v \div Pow10[w] = 10 * (v \div Pow10[w + 1]) + Nth(v, w)
    BY <2>2, NthStep
  <2> DEFINE y == v \div Pow10[2*MaxPrec]
             n == Nth(v, w)
  <2>4. y \in 0..9 /\ n \in 0..9 /\ v \div Pow10[w] = 10 * y + n
    BY <1>1, <2>2, <2>3
  <2> HIDE DEF y, n
  <2>5. 10 * y + n <= 99
    BY <2>4
  <2> QED BY <2>4, <2>5
<1> DEFINE y == v \div Pow10[w]
<1>4. y \in Nat
  BY NthFacts
<1> HIDE DEF y
<1>5. y >= 100 => y >= 10
  BY <1>4
<1>6. (y >= 10 => w + 1 <= 2*MaxPrec) /\ (y >= 100 => w + 2 <= 2*MaxPrec)
  BY <1>1, <1>2, <1>3, <1>5 DEF y
<1> QED BY <1>6 DEF y

(* Two digits of the leading chunk, more follow.                           *)
LEMMA LeadTwo ==
  ASSUME NEW v, NEW p, NEW o, Sized(v, p, o), NEW ch, NEW ps \in 0..ScratchLen,
         AtLead(v, p, o, ch, ps), ch >= 10
  PROVE  /\ ps >= 2 /\ ByteAt(v, p, o, ScratchLen - ps) = ch % 10
         /\ ByteAt(v, p, o, ScratchLen - ps + 1) = (ch \div 10) % 10
         /\ ch % 10 \in Int /\ (ch \div 10) % 10 \in Int
         /\ (ch >= 100 => AtLead(v, p, o, ch \div 100, ps - 2))
         /\ (ch < 100 => AtSign(v, p, o, ps - 2))
<1>1. /\ v \in Nat /\ v < Cap /\ p \in Nat /\ p <= MaxPrec /\ MaxPrec \in Nat /\ ScratchLen \in Nat
      /\ ScratchLen >= 2*MaxPrec + 3 /\ o \in 0..1
  BY SizedFacts
<1> DEFINE w == ScratchLen - ps - o
<1>2. w \in p..2*MaxPrec /\ ch = v \div Pow10[w] /\ ch \in 1..(Base - 1)
  BY DEF AtLead
<1>3. w \in Nat /\ w \in 0..2*MaxPrec /\ w >= p /\ ScratchLen - ps = w + o /\ ch \in Nat /\ Base \in Nat
  BY <1>1, <1>2, WordAssumption
<1>4. (ch >= 10 => w + 1 <= 2*MaxPrec) /\ (ch >= 100 => w + 2 <= 2*MaxPrec)
  <2> HIDE DEF w
  <2> QED BY <1>1, <1>2, <1>3, TopDigits
<1>5. /\ w \in 0..(2*MaxPrec - 1) /\ w + 1 \in Nat /\ w + 1 >= p /\ w + 1 \in 0..2*MaxPrec
      /\ ps >= 2 /\ ScratchLen - ps + 1 = (w + 1) + o /\ ScratchLen - (ps - 2) - o = w + 2
      /\ (ch >= 100 => w + 2 \in p..2*MaxPrec /\ w + 1 \in 0..(2*MaxPrec - 1) /\ (w + 1) + 1 = w + 2)
      /\ w + 2 \in (p + 1)..(2*MaxPrec + 1) /\ (w + 2) - 1 = w + 1
  BY <1>1, <1>3, <1>4
<1> HIDE DEF w
<1>6. /\ v \div Pow10[w + 1] = ch \div 10 /\ Nth(v, w) = ch % 10 /\ Nth(v, w + 1) = (ch \div 10) % 10
      /\ Nth(v, w) \in 0..9
  BY <1>1, <1>2, <1>5, NthStep DEF Nth
<1>7. Nth(v, w + 1) \in 0..9
  BY <1>1, <1>5, NthFacts
<1>8. ByteAt(v, p, o, w + o) = Nth(v, w) /\ ByteAt(v, p, o, (w + 1) + o) = Nth(v, w + 1)
  BY <1>3, <1>5, IntByte
<1>9. ASSUME ch >= 100 PROVE AtLead(v, p, o, ch \div 100, ps - 2)
  <2>1. v \div Pow10[w + 2] = (v \div Pow10[w + 1]) \div 10
    BY <1>1, <1>5, <1>9, NthStep
  <2>2. (ch \div 10) \div 10 = ch \div 100 /\ ch \div 100 \in 1..(Base - 1)
    <3>1. (ch \div 10) \div 10 = ch \div 100 /\ ch \div 100 >= 1 /\ ch \div 100 <= ch /\ ch \div 100 \in Int
      BY <1>3, <1>9
    <3>2. ch <= Base - 1
      BY <1>2
    <3> DEFINE y == ch \div 100
    <3>3. y >= 1 /\ y <= ch /\ y \in Int
      BY <3>1
    <3> HIDE DEF y
    <3>4. y \in 1..(Base - 1)
      BY <1>3, <3>2, <3>3
    <3> QED BY <3>1, <3>4 DEF y
  <2> QED BY <1>5, <1>6, <1>9, <2>1, <2>2 DEF AtLead
<1>10. ASSUME ch < 100 PROVE AtSign(v, p, o, ps - 2)
  <2>1. ch \div 10 \in 0..9 /\ ch \div 10 # 0
    BY <1>3, <1>10
  <2>2. v \div Pow10[(w + 2) - 1] = ch \div 10
    BY <1>5, <1>6
  <2> QED BY <1>5, <2>1, <2>2 DEF AtSign
<1>11. ByteAt(v, p, o, ScratchLen - ps) = ch % 10 /\ ByteAt(v, p, o, ScratchLen - ps + 1) = (ch \div 10) % 10
  BY <1>3, <1>5, <1>6, <1>8
<1>12. ch % 10 \in Int /\ (ch \div 10) % 10 \in Int
  BY <1>6, <1>7
<1> QED BY <1>5, <1>9, <1>10, <1>11, <1>12

(* The last digits of the leading chunk: no zero stands in front.          *)
LEMMA LeadOne ==
  ASSUME NEW v, NEW p, NEW o, Sized(v, p, o), NEW ch, NEW ps \in 0..ScratchLen,
         AtLead(v, p, o, ch, ps), ch < 10
  PROVE  /\ ps >= 1 /\ ByteAt(v, p, o, ScratchLen - ps) = ch /\ ch \in Int
         /\ AtSign(v, p, o, ps - 1)
<1>1. /\ v \in Nat /\ p \in Nat /\ p <= MaxPrec /\ MaxPrec \in Nat /\ ScratchLen \in Nat
      /\ ScratchLen >= 2*MaxPrec + 3 /\ o \in 0..1
  BY SizedFacts
<1> DEFINE w == ScratchLen - ps - o
<1>2. w \in p..2*MaxPrec /\ ch = v \div Pow10[w] /\ ch \in 1..(Base - 1)
  BY DEF AtLead
<1>3. /\ w \in Nat /\ w >= p /\ ScratchLen - ps = w + o /\ ps >= 1 /\ ch \in 0..9 /\ ch # 0 /\ ch \in Int
      /\ ScratchLen - (ps - 1) - o = w + 1 /\ w + 1 \in (p + 1)..(2*MaxPrec + 1) /\ (w + 1) - 1 = w
  BY <1>1, <1>2
<1> HIDE DEF w
<1>4. ByteAt(v, p, o, w + o) = Nth(v, w)
  BY <1>3, IntByte
<1>5. Nth(v, w) = ch
  <2>1. ch % 10 = ch
    BY <1>3
  <2> QED BY <1>2, <2>1 DEF Nth
<1>6. AtSign(v, p, o, ps - 1)
  BY <1>2, <1>3 DEF AtSign
<1> QED BY <1>3, <1>4, <1>5, <1>6

(* There is room for the sign.                                             *)
LEMMA SignRoom ==
  ASSUME NEW v, NEW p, NEW o, Sized(v, p, o), NEW ps \in 0..ScratchLen, AtSign(v, p, o, ps)
  PROVE  ps >= 1
<1>1. /\ p \in Nat /\ MaxPrec \in Nat /\ ScratchLen \in Nat /\ ScratchLen >= 2*MaxPrec + 3 /\ o \in 0..1
  BY SizedFacts
<1>2. ScratchLen - ps - o \in (p + 1)..(2*MaxPrec + 1)
  BY DEF AtSign
<1> QED BY <1>1, <1>2

(* A step that leaves the call and the number alone leaves what is derived *)
(* from them.                                                              *)
LEMMA NumStays ==
  ASSUME UNCHANGED <<given, places, num>>
  PROVE  /\ Whole' = Whole /\ Behind' = Behind /\ Points' = Points /\ Trims01' = Trims01
         /\ Missing' = Missing /\ (Fixed' <=> Fixed)
  BY DEF Whole, Behind, Points, Trims01, Missing, Fixed, Dotted

(* The invariant behind the split, one conjunct each.                      *)
LEMMA StageFacts ==
  ASSUME WriterInv, at # "split"
  PROVE  /\ NumOK /\ InStage /\ at \in Stages /\ end \in 0..ScratchLen /\ Sized(Whole, Behind, Points) /\ Missing \in Nat
         /\ (at \notin Late => pad = Missing)
         /\ (at = "zeros" => pad \in 0..Missing /\ text = Window \o Zeros(Missing - pad))
         /\ (at \in Late \ {"zeros"} => text = Window \o Zeros(Missing))
<1>1. NumOK
  BY DEF WriterInv, NumOK
<1>2. Sized(Whole, Behind, Points) /\ Missing \in Nat
  BY <1>1, SizedNum
<1> QED BY <1>1, <1>2 DEF WriterInv

Early == {"frac", "trim", "point", "int", "chunk", "lead", "sign"}

(* What a step before the bytes are handed out has to show.                *)
LEMMA StageRule ==
  ASSUME WriterInv, at \in Early, UNCHANGED <<given, places, num, pad, text>>, at' \in Early \cup {"emit"},
         end' \in 0..ScratchLen,
         at' \in Early => Stored(Whole, Behind, Points, buf', pos'),
         at' \in {"int", "chunk", "lead", "sign", "emit"} => EndsAt(Whole, Behind, Trims01, end'),
         at' = "frac" => AtFrac(Whole, Behind, Points, q', chunk', width', pos', end'),
         at' = "trim" => AtTrim(Whole, Behind, Points, q', pos', end') /\ ~Fixed,
         at' = "point" => AtPoint(Whole, Behind, q', pos', end') /\ Fixed,
         at' = "int" => AtInt(Whole, Behind, Points, q', pos'),
         at' = "chunk" => AtChunk(Whole, Behind, Points, q', chunk', width', pos'),
         at' = "lead" => AtLead(Whole, Behind, Points, chunk', pos'),
         at' = "sign" => AtSign(Whole, Behind, Points, pos'),
         at' = "emit" => AtHead(Whole, Behind, Points, num.neg, buf', pos')
  PROVE  WriterInv'
<1>1. /\ Whole' = Whole /\ Behind' = Behind /\ Points' = Points /\ Trims01' = Trims01
      /\ Missing' = Missing /\ (Fixed' <=> Fixed)
  BY NumStays
<1>2. InStage'
  BY <1>1 DEF InStage, Early, Late
<1>3. at' # "split" /\ at # "split" /\ at' \in Stages /\ at' \notin Late /\ at \notin Late
  BY DEF Stages, Late, Early
<1>4. pad' = Missing'
  BY <1>1, <1>3, StageFacts
<1>5. end' \in 0..ScratchLen /\ given' \in Decimals /\ places' \in Nat \cup {Shortest} /\ num' = IF Fixed' THEN Round(given', places') ELSE given'
  BY <1>1, <1>3 DEF WriterInv
<1>6. at' # "zeros" /\ at' \notin Late \ {"zeros"}
  BY <1>3 DEF Late
<1> QED BY <1>2, <1>3, <1>4, <1>5, <1>6 DEF WriterInv

(* PaddedPair preserves the invariant.                                     *)
LEMMA PaddedPairKeeps == ASSUME WriterInv, PaddedPair PROVE WriterInv'
<1> DEFINE v == Whole
           p == Behind
           o == Points
<1>1. /\ at \in {"frac", "chunk"} /\ at' = at /\ width >= 2 /\ q' = q /\ chunk' = chunk \div 100
      /\ width' = width - 2 /\ Put(<<(chunk \div 10) % 10, chunk % 10>>)
      /\ UNCHANGED <<given, places, num, end, pad, text>>
  BY DEF PaddedPair, Padding, kept, Pair
<1>2. /\ Sized(v, p, o) /\ end \in 0..ScratchLen /\ Stored(v, p, o, buf, pos)
      /\ (at = "frac" => AtFrac(v, p, o, q, chunk, width, pos, end))
      /\ (at = "chunk" => AtChunk(v, p, o, q, chunk, width, pos) /\ EndsAt(v, p, Trims01, end))
  BY <1>1, StageFacts DEF InStage
<1>3. buf \in Buffers /\ pos \in 0..ScratchLen
  BY <1>2 DEF Stored
<1> HIDE DEF v, p, o
<1>4. /\ pos >= 2 /\ ByteAt(v, p, o, ScratchLen - pos) = chunk % 10
      /\ ByteAt(v, p, o, ScratchLen - pos + 1) = (chunk \div 10) % 10
      /\ chunk % 10 \in Int /\ (chunk \div 10) % 10 \in Int
      /\ (at = "frac" => AtFrac(v, p, o, q, chunk \div 100, width - 2, pos - 2, end))
      /\ (at = "chunk" => AtChunk(v, p, o, q, chunk \div 100, width - 2, pos - 2))
  <2>1. CASE at = "frac"
    <3>1. at # "chunk"
      BY <2>1
    <3>2. /\ pos >= 2 /\ ByteAt(v, p, o, ScratchLen - pos) = chunk % 10
          /\ ByteAt(v, p, o, ScratchLen - pos + 1) = (chunk \div 10) % 10
          /\ chunk % 10 \in Int /\ (chunk \div 10) % 10 \in Int
          /\ AtFrac(v, p, o, q, chunk \div 100, width - 2, pos - 2, end)
      BY <1>1, <1>2, <1>3, <2>1, FracPair
    <3> QED BY <3>1, <3>2
  <2>2. CASE at = "chunk"
    <3>1. at # "frac"
      BY <2>2
    <3>2. /\ pos >= 2 /\ ByteAt(v, p, o, ScratchLen - pos) = chunk % 10
          /\ ByteAt(v, p, o, ScratchLen - pos + 1) = (chunk \div 10) % 10
          /\ chunk % 10 \in Int /\ (chunk \div 10) % 10 \in Int
          /\ AtChunk(v, p, o, q, chunk \div 100, width - 2, pos - 2)
      BY <1>1, <1>2, <1>3, <2>2, ChunkPair
    <3> QED BY <3>1, <3>2
  <2> QED BY <1>1, <2>1, <2>2
<1>5. pos \in 2..ScratchLen
  BY <1>3, <1>4, PrinterAssumption
<1>6. /\ pos' = pos - 2 /\ buf' \in Buffers /\ buf'[pos - 2] = (chunk \div 10) % 10 /\ buf'[pos - 1] = chunk % 10
      /\ \A i \in pos..(ScratchLen - 1) : buf'[i] = buf[i]
  BY <1>1, <1>3, <1>4, <1>5, PutTwo
<1>7. Stored(v, p, o, buf', pos - 2)
  BY <1>2, <1>4, <1>6, StoreTwo
<1>8. at \in Early /\ at' \in Early \cup {"emit"} /\ at' \notin {"int", "lead", "sign", "emit", "trim", "point"}
  BY <1>1 DEF Early
<1> QED BY <1>1, <1>2, <1>4, <1>6, <1>7, <1>8, StageRule DEF v, p, o

(* PaddedLast preserves the invariant.                                     *)
LEMMA PaddedLastKeeps == ASSUME WriterInv, PaddedLast PROVE WriterInv'
<1> DEFINE v == Whole
           p == Behind
           o == Points
<1>1. /\ at \in {"frac", "chunk"} /\ at' = at /\ width = 1 /\ q' = q /\ chunk' = chunk
      /\ width' = 0 /\ Put(<<chunk % 10>>)
      /\ UNCHANGED <<given, places, num, end, pad, text>>
  BY DEF PaddedLast, Padding, kept
<1>2. /\ Sized(v, p, o) /\ end \in 0..ScratchLen /\ Stored(v, p, o, buf, pos)
      /\ (at = "frac" => AtFrac(v, p, o, q, chunk, width, pos, end))
      /\ (at = "chunk" => AtChunk(v, p, o, q, chunk, width, pos) /\ EndsAt(v, p, Trims01, end))
  BY <1>1, StageFacts DEF InStage
<1>3. buf \in Buffers /\ pos \in 0..ScratchLen
  BY <1>2 DEF Stored
<1> HIDE DEF v, p, o
<1>4. /\ pos >= 1 /\ ByteAt(v, p, o, ScratchLen - pos) = chunk % 10 /\ chunk % 10 \in Int
      /\ (at = "frac" => AtFrac(v, p, o, q, chunk, 0, pos - 1, end))
      /\ (at = "chunk" => AtChunk(v, p, o, q, chunk, 0, pos - 1))
  <2>1. CASE at = "frac"
    <3>1. at # "chunk"
      BY <2>1
    <3>2. /\ pos >= 1 /\ ByteAt(v, p, o, ScratchLen - pos) = chunk % 10 /\ chunk % 10 \in Int
          /\ AtFrac(v, p, o, q, chunk, 0, pos - 1, end)
      BY <1>1, <1>2, <1>3, <2>1, FracLast
    <3> QED BY <3>1, <3>2
  <2>2. CASE at = "chunk"
    <3>1. at # "frac"
      BY <2>2
    <3>2. /\ pos >= 1 /\ ByteAt(v, p, o, ScratchLen - pos) = chunk % 10 /\ chunk % 10 \in Int
          /\ AtChunk(v, p, o, q, chunk, 0, pos - 1)
      BY <1>1, <1>2, <1>3, <2>2, ChunkLast
    <3> QED BY <3>1, <3>2
  <2> QED BY <1>1, <2>1, <2>2
<1>5. pos \in 1..ScratchLen
  BY <1>3, <1>4, PrinterAssumption
<1>6. /\ pos' = pos - 1 /\ buf' \in Buffers /\ buf'[pos - 1] = chunk % 10
      /\ \A i \in pos..(ScratchLen - 1) : buf'[i] = buf[i]
  BY <1>1, <1>3, <1>4, <1>5, PutOne
<1>7. Stored(v, p, o, buf', pos - 1)
  BY <1>2, <1>4, <1>6, StoreOne
<1>8. at \in Early /\ at' \in Early \cup {"emit"} /\ at' \notin {"int", "lead", "sign", "emit", "trim", "point"}
  BY <1>1 DEF Early
<1> QED BY <1>1, <1>2, <1>4, <1>6, <1>7, <1>8, StageRule DEF v, p, o

(* PaddedDone preserves the invariant.                                     *)
LEMMA PaddedDoneKeeps == ASSUME WriterInv, PaddedDone PROVE WriterInv'
<1> DEFINE v == Whole
           p == Behind
           o == Points
<1>1. /\ at \in {"frac", "chunk"} /\ width = 0 /\ UNCHANGED <<q, chunk, width, buf, pos>>
      /\ at' = (IF at = "chunk" THEN "int" ELSE IF Fixed THEN "point" ELSE "trim")
      /\ UNCHANGED <<given, places, num, end, pad, text>>
  BY DEF PaddedDone, Padding, kept
<1>2. /\ Sized(v, p, o) /\ end \in 0..ScratchLen /\ Stored(v, p, o, buf, pos) /\ NumOK
      /\ (at = "frac" => AtFrac(v, p, o, q, chunk, width, pos, end))
      /\ (at = "chunk" => AtChunk(v, p, o, q, chunk, width, pos) /\ EndsAt(v, p, Trims01, end))
  BY <1>1, StageFacts DEF InStage
<1>3. buf \in Buffers /\ pos \in 0..ScratchLen
  BY <1>2 DEF Stored
<1>4. (o = 1 <=> Dotted) /\ (Dotted /\ ~Fixed => v % Pow10[p] # 0)
  BY <1>2, SizedNum
<1> HIDE DEF v, p, o
<1>5. ASSUME at = "frac" PROVE AtPoint(v, p, q, pos, end) /\ (v % Pow10[p] # 0 => AtTrim(v, p, o, q, pos, end)) /\ Dotted
  <2>1. AtFrac(v, p, o, q, chunk, width, pos, end) /\ width = 0
    BY <1>1, <1>2, <1>5
  <2>2. o = 1
    BY <2>1 DEF AtFrac
  <2> QED BY <1>2, <1>3, <1>4, <2>1, <2>2, FracDone
<1>6. ASSUME at = "chunk" PROVE AtInt(v, p, o, q, pos)
  BY <1>1, <1>2, <1>3, <1>6, ChunkDone
<1>7. /\ at \in Early /\ at' \in Early \cup {"emit"} /\ at' \in {"int", "point", "trim"}
      /\ (at' = "int" => at = "chunk") /\ (at' = "point" => at = "frac" /\ Fixed)
      /\ (at' = "trim" => at = "frac" /\ ~Fixed)
  BY <1>1 DEF Early
<1> QED BY <1>1, <1>2, <1>4, <1>5, <1>6, <1>7, StageRule DEF v, p, o

(* TrimZero preserves the invariant: a nonzero digit of the fraction stops *)
(* it.                                                                     *)
LEMMA TrimZeroKeeps == ASSUME WriterInv, TrimZero PROVE WriterInv'
<1> DEFINE v == Whole
           p == Behind
           o == Points
<1>1. /\ at = "trim" /\ buf[InScratch(end - 1)] = 0 /\ end' = end - 1
      /\ UNCHANGED <<given, places, num, at, q, chunk, width, buf, pos, pad, text>>
  BY DEF TrimZero
<1>2. /\ Sized(v, p, o) /\ end \in 0..ScratchLen /\ Stored(v, p, o, buf, pos)
      /\ AtTrim(v, p, o, q, pos, end) /\ ~Fixed
  BY <1>1, StageFacts DEF InStage
<1> HIDE DEF v, p, o
<1>3. end - 1 \in 0..(ScratchLen - 1) /\ (buf[end - 1] = 0 => AtTrim(v, p, o, q, pos, end - 1))
  BY <1>2, TrimOn
<1>4. InScratch(end - 1) = end - 1 /\ end - 1 \in 0..ScratchLen
  BY <1>3, InsideScratch, PrinterAssumption
<1>5. AtTrim(v, p, o, q, pos, end') /\ end' \in 0..ScratchLen
  BY <1>1, <1>3, <1>4
<1>6. /\ at \in Early /\ at' \in Early \cup {"emit"} /\ at' = "trim"
  BY <1>1 DEF Early
<1> QED BY <1>1, <1>2, <1>5, <1>6, StageRule DEF v, p, o

(* SetPoint preserves the invariant.                                       *)
LEMMA SetPointKeeps == ASSUME WriterInv, SetPoint PROVE WriterInv'
<1> DEFINE v == Whole
           p == Behind
           o == Points
<1>1. /\ (at = "trim" /\ buf[InScratch(end - 1)] # 0) \/ (at = "point" /\ places > 0)
      /\ Put(<<Point>>) /\ at' = "int"
      /\ UNCHANGED <<given, places, num, q, chunk, width, pad, end, text>>
  BY DEF SetPoint, kept
<1>2. /\ Sized(v, p, o) /\ end \in 0..ScratchLen /\ Stored(v, p, o, buf, pos) /\ NumOK
      /\ (at = "trim" => AtTrim(v, p, o, q, pos, end) /\ ~Fixed)
      /\ (at = "point" => AtPoint(v, p, q, pos, end) /\ Fixed)
  BY <1>1, StageFacts DEF InStage
<1>3. buf \in Buffers /\ pos \in 0..ScratchLen
  BY <1>2 DEF Stored
<1>4. /\ (o = 1 <=> Dotted) /\ Trims01 \in 0..1 /\ (Trims01 = 1 <=> Dotted /\ ~Fixed) /\ (Fixed => (Dotted <=> places > 0))
  BY <1>2, SizedNum
<1> HIDE DEF v, p, o
<1>5. o = 1 /\ ScratchLen - pos = p /\ q = v \div Pow10[p] /\ EndsAt(v, p, Trims01, end)
  <2>1. CASE at = "trim" /\ buf[InScratch(end - 1)] # 0
    <3>1. AtTrim(v, p, o, q, pos, end) /\ ~Fixed
      BY <1>2, <2>1
    <3>2. end - 1 \in 0..(ScratchLen - 1) /\ (buf[end - 1] # 0 => EndsAt(v, p, 1, end))
      BY <1>2, <3>1, TrimOn
    <3>3. EndsAt(v, p, 1, end)
      BY <2>1, <3>2, InsideScratch
    <3>4. o = 1 /\ ScratchLen - pos = p /\ q = v \div Pow10[p]
      BY <3>1 DEF AtTrim
    <3>5. Trims01 = 1
      BY <1>4, <3>1, <3>4
    <3> QED BY <3>3, <3>4, <3>5
  <2>2. CASE at = "point" /\ places > 0
    <3>1. AtPoint(v, p, q, pos, end) /\ Fixed
      BY <1>2, <2>2
    <3>2. o = 1 /\ Trims01 # 1
      BY <1>4, <2>2, <3>1
    <3> QED BY <3>1, <3>2 DEF AtPoint, EndsAt
  <2> QED BY <1>1, <2>1, <2>2
<1>6. pos >= 1 /\ ByteAt(v, p, o, ScratchLen - pos) = Point /\ AtInt(v, p, o, q, pos - 1)
  BY <1>2, <1>3, <1>5, PointDone
<1>7. pos \in 1..ScratchLen /\ Point \in Int
  BY <1>3, <1>6, PrinterAssumption DEF Point
<1>8. /\ pos' = pos - 1 /\ buf' \in Buffers /\ buf'[pos - 1] = Point
      /\ \A i \in pos..(ScratchLen - 1) : buf'[i] = buf[i]
  BY <1>1, <1>3, <1>7, PutOne
<1>9. Stored(v, p, o, buf', pos - 1)
  BY <1>2, <1>6, <1>8, StoreOne
<1>10. at \in Early /\ at' \in Early \cup {"emit"}
  BY <1>1 DEF Early
<1>11. AtInt(v, p, o, q', pos') /\ Stored(v, p, o, buf', pos') /\ EndsAt(v, p, Trims01, end') /\ end' \in 0..ScratchLen
  BY <1>1, <1>2, <1>5, <1>6, <1>8, <1>9
<1> QED BY <1>1, <1>10, <1>11, StageRule DEF v, p, o

(* NoPoint preserves the invariant.                                        *)
LEMMA NoPointKeeps == ASSUME WriterInv, NoPoint PROVE WriterInv'
<1> DEFINE v == Whole
           p == Behind
           o == Points
<1>1. /\ at = "point" /\ places = 0 /\ at' = "int"
      /\ UNCHANGED <<given, places, num, q, chunk, width, buf, pos, pad, end, text>>
  BY DEF NoPoint, kept
<1>2. /\ Sized(v, p, o) /\ end \in 0..ScratchLen /\ Stored(v, p, o, buf, pos) /\ NumOK
      /\ AtPoint(v, p, q, pos, end) /\ Fixed
  BY <1>1, StageFacts DEF InStage
<1>3. pos \in 0..ScratchLen
  BY <1>2 DEF Stored
<1>4. /\ (o = 1 <=> Dotted) /\ Trims01 \in 0..1 /\ (Trims01 = 1 <=> Dotted /\ ~Fixed) /\ (Fixed => (Dotted <=> places > 0))
  BY <1>2, SizedNum
<1> HIDE DEF v, p, o
<1>5. o = 0 /\ Trims01 # 1
  <2>1. o \in 0..1
    BY <1>2 DEF Sized
  <2>2. o # 1
    BY <1>1, <1>2, <1>4
  <2> QED BY <1>2, <1>4, <2>1, <2>2
<1>6. AtInt(v, p, o, q, pos) /\ EndsAt(v, p, Trims01, end)
  <2>1. ScratchLen - pos = p /\ q = v \div Pow10[p] /\ end = ScratchLen
    BY <1>2 DEF AtPoint
  <2>2. AtInt(v, p, o, q, pos)
    BY <1>2, <1>3, <1>5, <2>1, PointDone
  <2> QED BY <1>5, <2>1, <2>2 DEF EndsAt
<1>7. at \in Early /\ at' \in Early \cup {"emit"}
  BY <1>1 DEF Early
<1>8. AtInt(v, p, o, q', pos') /\ Stored(v, p, o, buf', pos') /\ EndsAt(v, p, Trims01, end') /\ end' \in 0..ScratchLen
  BY <1>1, <1>2, <1>6
<1> QED BY <1>1, <1>7, <1>8, StageRule DEF v, p, o

(* IntChunk preserves the invariant: what is left above a chunk is not     *)
(* zero.                                                                   *)
LEMMA IntChunkKeeps == ASSUME WriterInv, IntChunk PROVE WriterInv'
<1> DEFINE v == Whole
           p == Behind
           o == Points
<1>1. /\ at = "int" /\ q >= Base /\ q' = q \div Pow10[MaxPrec] /\ chunk' = q % Pow10[MaxPrec]
      /\ at' = "chunk" /\ width' = MaxPrec
      /\ UNCHANGED <<given, places, num, buf, pos, pad, end, text>>
  BY DEF IntChunk, kept
<1>2. /\ Sized(v, p, o) /\ end \in 0..ScratchLen /\ Stored(v, p, o, buf, pos)
      /\ AtInt(v, p, o, q, pos) /\ EndsAt(v, p, Trims01, end)
  BY <1>1, StageFacts DEF InStage
<1>3. pos \in 0..ScratchLen
  BY <1>2 DEF Stored
<1> HIDE DEF v, p, o
<1>4. AtChunk(v, p, o, q \div Pow10[MaxPrec], q % Pow10[MaxPrec], MaxPrec, pos)
  BY <1>1, <1>2, <1>3, ChunkNext
<1>5. at \in Early /\ at' \in Early \cup {"emit"}
  BY <1>1 DEF Early
<1>6. AtChunk(v, p, o, q', chunk', width', pos') /\ Stored(v, p, o, buf', pos') /\ EndsAt(v, p, Trims01, end')
      /\ end' \in 0..ScratchLen
  BY <1>1, <1>2, <1>4
<1> QED BY <1>1, <1>5, <1>6, StageRule DEF v, p, o

(* IntZero preserves the invariant.                                        *)
LEMMA IntZeroKeeps == ASSUME WriterInv, IntZero PROVE WriterInv'
<1> DEFINE v == Whole
           p == Behind
           o == Points
<1>1. /\ at = "int" /\ q = 0 /\ Put(<<0>>) /\ at' = "sign"
      /\ UNCHANGED <<given, places, num, q, chunk, width, pad, end, text>>
  BY DEF IntZero, kept
<1>2. /\ Sized(v, p, o) /\ end \in 0..ScratchLen /\ Stored(v, p, o, buf, pos)
      /\ AtInt(v, p, o, q, pos) /\ EndsAt(v, p, Trims01, end)
  BY <1>1, StageFacts DEF InStage
<1>3. buf \in Buffers /\ pos \in 0..ScratchLen
  BY <1>2 DEF Stored
<1> HIDE DEF v, p, o
<1>4. pos >= 1 /\ ByteAt(v, p, o, ScratchLen - pos) = 0 /\ AtSign(v, p, o, pos - 1)
  BY <1>1, <1>2, <1>3, IntZeroWritten
<1>5. pos \in 1..ScratchLen /\ 0 \in Int
  BY <1>3, <1>4, PrinterAssumption
<1>6. /\ pos' = pos - 1 /\ buf' \in Buffers /\ buf'[pos - 1] = 0
      /\ \A i \in pos..(ScratchLen - 1) : buf'[i] = buf[i]
  BY <1>1, <1>3, <1>5, PutOne
<1>7. Stored(v, p, o, buf', pos - 1)
  BY <1>2, <1>4, <1>6, StoreOne
<1>8. at \in Early /\ at' \in Early \cup {"emit"}
  BY <1>1 DEF Early
<1>9. AtSign(v, p, o, pos') /\ Stored(v, p, o, buf', pos') /\ EndsAt(v, p, Trims01, end') /\ end' \in 0..ScratchLen
  BY <1>1, <1>2, <1>4, <1>6, <1>7
<1> QED BY <1>1, <1>8, <1>9, StageRule DEF v, p, o

(* IntLead preserves the invariant.                                        *)
LEMMA IntLeadKeeps == ASSUME WriterInv, IntLead PROVE WriterInv'
<1> DEFINE v == Whole
           p == Behind
           o == Points
<1>1. /\ at = "int" /\ q \in 1..(Base - 1) /\ chunk' = q /\ at' = "lead"
      /\ UNCHANGED <<given, places, num, q, width, buf, pos, pad, end, text>>
  BY DEF IntLead, kept
<1>2. /\ end \in 0..ScratchLen /\ Stored(v, p, o, buf, pos)
      /\ AtInt(v, p, o, q, pos) /\ EndsAt(v, p, Trims01, end)
  BY <1>1, StageFacts DEF InStage
<1> HIDE DEF v, p, o
<1>3. AtLead(v, p, o, q, pos)
  BY <1>1, <1>2, LeadStart
<1>4. at \in Early /\ at' \in Early \cup {"emit"}
  BY <1>1 DEF Early
<1>5. AtLead(v, p, o, chunk', pos') /\ Stored(v, p, o, buf', pos') /\ EndsAt(v, p, Trims01, end')
      /\ end' \in 0..ScratchLen
  BY <1>1, <1>2, <1>3
<1> QED BY <1>1, <1>4, <1>5, StageRule DEF v, p, o

(* A pair of the leading chunk, with the rest of it not zero.              *)
LEMMA LeadTwoKeeps ==
  ASSUME WriterInv, at = "lead", chunk >= 10, Put(Pair(chunk)),
         UNCHANGED <<given, places, num, q, width, pad, end, text>>,
         \/ at' = "lead" /\ chunk >= 100 /\ chunk' = chunk \div 100
         \/ at' = "sign" /\ chunk < 100
  PROVE  WriterInv'
<1> DEFINE v == Whole
           p == Behind
           o == Points
<1>1. Put(<<(chunk \div 10) % 10, chunk % 10>>) /\ UNCHANGED <<given, places, num, q, width, pad, end, text>>
  BY DEF Pair
<1>2. /\ Sized(v, p, o) /\ end \in 0..ScratchLen /\ Stored(v, p, o, buf, pos)
      /\ AtLead(v, p, o, chunk, pos) /\ EndsAt(v, p, Trims01, end)
  BY StageFacts DEF InStage
<1>3. buf \in Buffers /\ pos \in 0..ScratchLen
  BY <1>2 DEF Stored
<1> HIDE DEF v, p, o
<1>4. /\ pos >= 2 /\ ByteAt(v, p, o, ScratchLen - pos) = chunk % 10
      /\ ByteAt(v, p, o, ScratchLen - pos + 1) = (chunk \div 10) % 10
      /\ chunk % 10 \in Int /\ (chunk \div 10) % 10 \in Int
      /\ (chunk >= 100 => AtLead(v, p, o, chunk \div 100, pos - 2))
      /\ (chunk < 100 => AtSign(v, p, o, pos - 2))
  BY <1>2, <1>3, LeadTwo
<1>5. pos \in 2..ScratchLen
  BY <1>3, <1>4, PrinterAssumption
<1>6. /\ pos' = pos - 2 /\ buf' \in Buffers /\ buf'[pos - 2] = (chunk \div 10) % 10 /\ buf'[pos - 1] = chunk % 10
      /\ \A i \in pos..(ScratchLen - 1) : buf'[i] = buf[i]
  BY <1>1, <1>3, <1>4, <1>5, PutTwo
<1>7. Stored(v, p, o, buf', pos - 2)
  BY <1>2, <1>4, <1>6, StoreTwo
<1>8. at \in Early /\ at' \in Early \cup {"emit"} /\ at' \in {"lead", "sign"}
  BY DEF Early
<1>9. /\ at' = "lead" => AtLead(v, p, o, chunk', pos')
      /\ at' = "sign" => AtSign(v, p, o, pos')
      /\ Stored(v, p, o, buf', pos') /\ EndsAt(v, p, Trims01, end') /\ end' \in 0..ScratchLen
  BY <1>1, <1>2, <1>4, <1>6, <1>7
<1> QED BY <1>1, <1>8, <1>9, StageRule DEF v, p, o

(* LeadPair preserves the invariant.                                       *)
LEMMA LeadPairKeeps == ASSUME WriterInv, LeadPair PROVE WriterInv'
<1>1. chunk >= 10
  <2>1. at = "lead" /\ chunk >= 100
    BY DEF LeadPair
  <2>2. chunk \in Int
    BY <2>1, StageFacts DEF InStage, AtLead
  <2> QED BY <2>1, <2>2
<1> QED BY <1>1, LeadTwoKeeps DEF LeadPair, kept

(* LeadLast preserves the invariant.                                       *)
LEMMA LeadLastKeeps == ASSUME WriterInv, LeadLast PROVE WriterInv'
<1> DEFINE v == Whole
           p == Behind
           o == Points
<1>1. /\ at = "lead" /\ chunk < 100 /\ at' = "sign" /\ Put(IF chunk >= 10 THEN Pair(chunk) ELSE <<chunk>>)
      /\ UNCHANGED <<given, places, num, q, chunk, width, pad, end, text>>
  BY DEF LeadLast, kept
<1>2. CASE chunk >= 10
  BY <1>1, <1>2, LeadTwoKeeps
<1>3. CASE ~(chunk >= 10)
  <2>1. /\ Sized(v, p, o) /\ end \in 0..ScratchLen /\ Stored(v, p, o, buf, pos)
        /\ AtLead(v, p, o, chunk, pos) /\ EndsAt(v, p, Trims01, end) /\ Put(<<chunk>>)
    BY <1>1, <1>3, StageFacts DEF InStage
  <2>2. buf \in Buffers /\ pos \in 0..ScratchLen /\ chunk < 10
    BY <1>3, <2>1 DEF Stored, AtLead
  <2> HIDE DEF v, p, o
  <2>3. pos >= 1 /\ ByteAt(v, p, o, ScratchLen - pos) = chunk /\ chunk \in Int /\ AtSign(v, p, o, pos - 1)
    BY <2>1, <2>2, LeadOne
  <2>4. pos \in 1..ScratchLen
    BY <2>2, <2>3, PrinterAssumption
  <2>5. /\ pos' = pos - 1 /\ buf' \in Buffers /\ buf'[pos - 1] = chunk
        /\ \A i \in pos..(ScratchLen - 1) : buf'[i] = buf[i]
    BY <2>1, <2>2, <2>3, <2>4, PutOne
  <2>6. Stored(v, p, o, buf', pos - 1)
    BY <2>1, <2>3, <2>5, StoreOne
  <2>7. at \in Early /\ at' \in Early \cup {"emit"}
    BY <1>1 DEF Early
  <2>8. AtSign(v, p, o, pos') /\ Stored(v, p, o, buf', pos') /\ EndsAt(v, p, Trims01, end') /\ end' \in 0..ScratchLen
    BY <1>1, <2>1, <2>3, <2>5, <2>6
  <2> QED BY <1>1, <2>7, <2>8, StageRule DEF v, p, o
<1> QED BY <1>2, <1>3

(* Sign preserves the invariant.                                           *)
LEMMA SignKeeps == ASSUME WriterInv, Sign PROVE WriterInv'
<1> DEFINE v == Whole
           p == Behind
           o == Points
<1>1. /\ at = "sign" /\ at' = "emit" /\ (num.neg => Put(<<Minus>>)) /\ (~num.neg => UNCHANGED <<buf, pos>>)
      /\ UNCHANGED <<given, places, num, q, chunk, width, pad, end, text>>
  BY DEF Sign, kept
<1>2. /\ Sized(v, p, o) /\ end \in 0..ScratchLen /\ Stored(v, p, o, buf, pos)
      /\ AtSign(v, p, o, pos) /\ EndsAt(v, p, Trims01, end)
  BY <1>1, StageFacts DEF InStage
<1>3. buf \in Buffers /\ pos \in 0..ScratchLen /\ ScratchLen \in Nat
  BY <1>2, PrinterAssumption DEF Stored
<1> HIDE DEF v, p, o
<1>4. pos \in 1..ScratchLen /\ Minus \in Int
  BY <1>2, <1>3, SignRoom DEF Minus
<1>5. AtHead(v, p, o, num.neg, buf', pos')
  <2>1. CASE num.neg
    <3>1. /\ pos' = pos - 1 /\ buf' \in Buffers /\ buf'[pos - 1] = Minus
          /\ \A i \in pos..(ScratchLen - 1) : buf'[i] = buf[i]
      BY <1>1, <1>3, <1>4, <2>1, PutOne
    <3>2. One(num.neg) = 1 /\ (pos - 1) + 1 = pos /\ pos - 1 \in 0..ScratchLen
      BY <1>3, <1>4, <2>1 DEF One
    <3>3. Stored(v, p, o, buf', pos)
      <4>1. \A k \in 0..(ScratchLen - pos - 1) : ScratchLen - 1 - k \in pos..(ScratchLen - 1)
        BY <1>3
      <4>2. \A k \in 0..(ScratchLen - pos - 1) : buf[ScratchLen - 1 - k] = ByteAt(v, p, o, k)
        BY <1>2 DEF Stored
      <4>3. \A k \in 0..(ScratchLen - pos - 1) : buf'[ScratchLen - 1 - k] = ByteAt(v, p, o, k)
        BY <3>1, <4>1, <4>2
      <4> QED BY <1>3, <3>1, <4>3 DEF Stored
    <3> QED BY <1>2, <3>1, <3>2, <3>3 DEF AtHead
  <2>2. CASE ~num.neg
    <3>1. One(num.neg) = 0 /\ pos + 0 = pos
      BY <1>3, <2>2 DEF One
    <3> QED BY <1>1, <1>2, <1>3, <2>2, <3>1 DEF AtHead
  <2> QED BY <2>1, <2>2
<1>6. at \in Early /\ at' \in Early \cup {"emit"} /\ at' \notin Early
  BY <1>1 DEF Early
<1>7. EndsAt(v, p, Trims01, end') /\ end' \in 0..ScratchLen
  BY <1>1, <1>2
<1> QED BY <1>1, <1>5, <1>6, <1>7, StageRule DEF v, p, o

(* A sequence behind another.                                              *)
IsJoin(u, s, t) ==
  /\ u \in Seq(Int) /\ Len(u) = Len(s) + Len(t) /\ Len(s) \in Nat /\ Len(t) \in Nat
  /\ \A i \in 1..Len(s) : u[i] = s[i]
  /\ \A i \in (Len(s) + 1)..(Len(s) + Len(t)) : u[i] = t[i - Len(s)]

(* One sequence behind another, element by element.                        *)
LEMMA SeqJoined ==
  ASSUME NEW s \in Seq(Int), NEW t \in Seq(Int), NEW u, u = s \o t
  PROVE  IsJoin(u, s, t)
<1>1. Len(s) \in Nat /\ Len(t) \in Nat
  BY LenProperties
<1>2. u \in Seq(Int) /\ Len(u) = Len(s) + Len(t)
  BY ConcatProperties
<1>3. \A i \in 1..(Len(s) + Len(t)) : u[i] = IF i <= Len(s) THEN s[i] ELSE t[i - Len(s)]
  BY ConcatProperties
<1> DEFINE m == Len(s)
           n == Len(t)
<1> HIDE DEF m, n
<1>4. \A i \in 1..m : u[i] = s[i]
  BY <1>1, <1>3 DEF m, n
<1>5. \A i \in (m + 1)..(m + n) : u[i] = t[i - m]
  BY <1>1, <1>3 DEF m, n
<1> QED BY <1>1, <1>2, <1>4, <1>5 DEF m, n, IsJoin

(* Zeros appended in two goes.                                             *)
LEMMA ZerosTwice ==
  ASSUME NEW s \in Seq(Int), NEW a \in Nat, NEW b \in Nat
  PROVE  /\ Zeros(a) \in Seq(Int) /\ Len(Zeros(a)) = a
         /\ (s \o Zeros(a)) \o Zeros(b) = s \o Zeros(a + b) /\ s \o Zeros(0) = s
<1>1. \A n \in Nat : Zeros(n) \in Seq(Int) /\ Len(Zeros(n)) = n /\ \A i \in 1..n : Zeros(n)[i] = 0
  BY DEF Zeros
<1> DEFINE x == Zeros(a)
           y == Zeros(b)
           z == Zeros(a + b)
<1>2. /\ x \in Seq(Int) /\ Len(x) = a /\ (\A i \in 1..a : x[i] = 0)
      /\ y \in Seq(Int) /\ Len(y) = b /\ (\A i \in 1..b : y[i] = 0)
      /\ z \in Seq(Int) /\ Len(z) = a + b /\ (\A i \in 1..(a + b) : z[i] = 0)
  BY <1>1
<1> HIDE DEF x, y, z
<1> DEFINE h == s \o x
           l == h \o y
           r == s \o z
<1>3. /\ h \in Seq(Int) /\ Len(h) = Len(s) + a /\ Len(s) \in Nat
      /\ (\A i \in 1..Len(s) : h[i] = s[i])
      /\ (\A i \in (Len(s) + 1)..(Len(s) + a) : h[i] = x[i - Len(s)])
  <2>1. s \in Seq(Int) /\ x \in Seq(Int)
    BY <1>2
  <2>2. IsJoin(h, s, x)
    BY <2>1, SeqJoined
  <2> HIDE DEF h
  <2> QED BY <1>2, <2>2 DEF IsJoin
<1>3b. /\ r \in Seq(Int) /\ Len(r) = Len(s) + (a + b)
       /\ (\A i \in 1..Len(s) : r[i] = s[i])
       /\ (\A i \in (Len(s) + 1)..(Len(s) + (a + b)) : r[i] = z[i - Len(s)])
  <2>1. s \in Seq(Int) /\ z \in Seq(Int)
    BY <1>2, <1>3
  <2>2. IsJoin(r, s, z)
    BY <2>1, SeqJoined
  <2> HIDE DEF r
  <2> QED BY <1>2, <1>3, <2>2 DEF IsJoin
<1> HIDE DEF h, r
<1>3a. /\ l \in Seq(Int) /\ Len(l) = Len(s) + a + b
       /\ (\A i \in 1..(Len(s) + a) : l[i] = h[i])
       /\ (\A i \in (Len(s) + a + 1)..(Len(s) + a + b) : l[i] = y[i - (Len(s) + a)])
  <2>1. h \in Seq(Int) /\ y \in Seq(Int)
    BY <1>2, <1>3
  <2>2. IsJoin(l, h, y)
    BY <2>1, SeqJoined
  <2> HIDE DEF l
  <2> QED BY <1>2, <1>3, <2>2 DEF IsJoin
<1> HIDE DEF l, r
<1>4. ASSUME NEW i \in 1..(Len(s) + a + b) PROVE l[i] = r[i]
  <2>1. CASE i <= Len(s)
    <3>1. i \in 1..Len(s) /\ i \in 1..(Len(s) + a)
      BY <1>3, <2>1
    <3> QED BY <1>3, <1>3a, <1>3b, <3>1
  <2>2. CASE i > Len(s) /\ i <= Len(s) + a
    <3>1. /\ i \in (Len(s) + 1)..(Len(s) + a) /\ i \in 1..(Len(s) + a)
          /\ i \in (Len(s) + 1)..(Len(s) + (a + b)) /\ i - Len(s) \in 1..a /\ i - Len(s) \in 1..(a + b)
      BY <1>3, <2>2
    <3>2. l[i] = x[i - Len(s)] /\ r[i] = z[i - Len(s)]
      BY <1>3, <1>3a, <1>3b, <3>1
    <3> QED BY <1>2, <3>1, <3>2
  <2>3. CASE i > Len(s) + a
    <3>1. /\ i \in (Len(s) + a + 1)..(Len(s) + a + b) /\ i \in (Len(s) + 1)..(Len(s) + (a + b))
          /\ i - (Len(s) + a) \in 1..b /\ i - Len(s) \in 1..(a + b)
      BY <1>3, <2>3
    <3>2. l[i] = y[i - (Len(s) + a)] /\ r[i] = z[i - Len(s)]
      BY <1>3, <1>3a, <1>3b, <3>1
    <3> QED BY <1>2, <3>1, <3>2
  <2> QED BY <1>3, <2>1, <2>2, <2>3
<1>5. l = r
  <2>1. DOMAIN l = 1..(Len(s) + a + b) /\ DOMAIN r = 1..(Len(s) + a + b) /\ Len(s) + (a + b) = Len(s) + a + b
    BY <1>3, <1>3a, <1>3b
  <2>2. l = [i \in 1..(Len(s) + a + b) |-> l[i]] /\ r = [i \in 1..(Len(s) + a + b) |-> r[i]]
    BY <1>3, <1>3a, <1>3b, <2>1
  <2> QED BY <1>4, <2>2
<1>6. s \o Zeros(0) = s
  <2>1. Zeros(0) = <<>>
    BY DEF Zeros
  <2> QED BY <2>1
<1> QED BY <1>1, <1>5, <1>6 DEF l, r, h, x, y, z

(* The window that is handed out.                                          *)
LEMMA WindowFacts ==
  ASSUME WriterInv, at \in {"emit"} \cup Late
  PROVE  /\ 0 <= pos /\ pos <= end /\ end <= ScratchLen /\ pos \in Nat /\ end \in Nat /\ ScratchLen \in Nat
         /\ Window \in Seq(Int) /\ Len(Window) = end - pos
         /\ \A i \in 1..(end - pos) : Window[i] = buf[pos + i - 1]
<1>1. /\ Sized(Whole, Behind, Points) /\ end \in 0..ScratchLen /\ EndsAt(Whole, Behind, Trims01, end)
      /\ AtHead(Whole, Behind, Points, num.neg, buf, pos)
  <2>1. at # "split"
    BY DEF Late
  <2> QED BY <2>1, StageFacts DEF InStage
<1> DEFINE p == Behind
           start == pos + One(num.neg)
<1>2. /\ p \in Nat /\ p <= MaxPrec /\ MaxPrec \in Nat /\ ScratchLen \in Nat /\ ScratchLen >= 2*MaxPrec + 3
      /\ Points \in 0..1
  BY <1>1, SizedFacts
<1>3. /\ pos \in 0..ScratchLen /\ AtSign(Whole, p, Points, start) /\ Stored(Whole, p, Points, buf, start)
  BY <1>1 DEF AtHead
<1>4. One(num.neg) \in 0..1
  BY DEF One
<1>5. ScratchLen - start - Points \in (p + 1)..(2*MaxPrec + 1)
  BY <1>3 DEF AtSign
<1>6. end = ScratchLen \/ ScratchLen - end \in 0..(p - 1)
  BY <1>1 DEF EndsAt
<1> HIDE DEF p
<1>7. 0 <= pos /\ pos <= end /\ end <= ScratchLen /\ pos \in Nat /\ end \in Nat
  BY <1>1, <1>2, <1>3, <1>4, <1>5, <1>6
<1>8. \A i \in 1..(end - pos) : pos + i - 1 \in 0..(ScratchLen - 1)
  BY <1>2, <1>7
<1>9. \A i \in 1..(end - pos) : buf[pos + i - 1] \in Int
  <2>1. buf \in Buffers
    BY <1>3 DEF Stored
  <2>2. \A i \in 0..(ScratchLen - 1) : buf[i] \in Int
    BY <2>1 DEF Buffers
  <2> QED BY <1>8, <2>2
<1>10. end - pos \in Nat
  BY <1>7
<1>11. Window \in Seq(Int) /\ Len(Window) = end - pos
  BY <1>9, <1>10 DEF Window
<1> QED BY <1>2, <1>7, <1>11 DEF Window

(* What holds once the bytes are in the buffer needs no stage of its own.  *)
LEMMA LateRule ==
  ASSUME WriterInv, at \in {"emit"} \cup Late, at' \in Late,
         UNCHANGED <<given, places, num, buf, pos, end>>,
         at' = "zeros" => pad' \in 0..Missing /\ text' = Window \o Zeros(Missing - pad'),
         at' \in Late \ {"zeros"} => text' = Window \o Zeros(Missing)
  PROVE  WriterInv'
<1>1. /\ Whole' = Whole /\ Behind' = Behind /\ Points' = Points /\ Trims01' = Trims01
      /\ Missing' = Missing /\ (Fixed' <=> Fixed) /\ Window' = Window
  <2>1. Window' = Window
    BY DEF Window
  <2> QED BY <2>1, NumStays
<1>2. at # "split" /\ at' # "split" /\ at' \in Stages
  BY DEF Late, Stages
<1>3. /\ EndsAt(Whole, Behind, Trims01, end) /\ AtHead(Whole, Behind, Points, num.neg, buf, pos) /\ end \in 0..ScratchLen
  BY <1>2, StageFacts DEF InStage
<1>4. InStage'
  BY <1>1, <1>3 DEF InStage, Late
<1>5. given' \in Decimals /\ places' \in Nat \cup {Shortest} /\ num' = IF Fixed' THEN Round(given', places') ELSE given'
  BY <1>1, <1>2 DEF WriterInv
<1> QED BY <1>1, <1>2, <1>3, <1>4, <1>5 DEF WriterInv

(* Emit preserves the invariant: the window lies in the buffer.            *)
LEMMA EmitKeeps == ASSUME WriterInv, Emit PROVE WriterInv'
<1>1. /\ at = "emit" /\ at' = "zeros" /\ UNCHANGED <<given, places, num, buf, pos, end, pad>>
      /\ text' = IF 0 <= pos /\ pos <= end /\ end <= ScratchLen
                 THEN [i \in 1..(end - pos) |-> buf[pos + i - 1]] ELSE <<>>
  BY DEF Emit
<1>2. 0 <= pos /\ pos <= end /\ end <= ScratchLen /\ Window \in Seq(Int)
  BY <1>1, WindowFacts
<1>3. text' = Window
  BY <1>1, <1>2 DEF Window
<1>4. pad = Missing /\ Missing \in Nat
  <2>1. at # "split" /\ at \notin Late
    BY <1>1 DEF Late
  <2> QED BY <2>1, StageFacts
<1>5. pad' \in 0..Missing /\ Missing - pad' = 0
  BY <1>1, <1>4
<1>6. text' = Window \o Zeros(Missing - pad')
  BY <1>2, <1>3, <1>5, ZerosTwice
<1>7. at \in {"emit"} \cup Late /\ at' \in Late /\ at' \notin Late \ {"zeros"}
  BY <1>1 DEF Late
<1> QED BY <1>1, <1>5, <1>6, <1>7, LateRule

(* PadRun preserves the invariant.                                         *)
LEMMA PadRunKeeps == ASSUME WriterInv, PadRun PROVE WriterInv'
<1>1. /\ at = "zeros" /\ at' = "zeros" /\ pad >= ZeroRun /\ UNCHANGED <<given, places, num, buf, pos, end>>
      /\ text' = text \o Zeros(ZeroRun) /\ pad' = pad - ZeroRun
  BY DEF PadRun
<1>2. at # "split" /\ at \in {"emit"} \cup Late /\ at' \in Late /\ at' \notin Late \ {"zeros"}
  BY <1>1 DEF Late
<1>3. Missing \in Nat /\ pad \in 0..Missing /\ text = Window \o Zeros(Missing - pad) /\ Window \in Seq(Int)
  BY <1>1, <1>2, StageFacts, WindowFacts
<1>4. ZeroRun \in Nat /\ ZeroRun >= 1
  BY PrinterAssumption
<1>5. pad' \in 0..Missing /\ Missing - pad \in Nat /\ (Missing - pad) + ZeroRun = Missing - pad'
  BY <1>1, <1>3, <1>4
<1>6. text' = Window \o Zeros(Missing - pad')
  <2>1. (Window \o Zeros(Missing - pad)) \o Zeros(ZeroRun) = Window \o Zeros((Missing - pad) + ZeroRun)
    BY <1>3, <1>4, <1>5, ZerosTwice
  <2> QED BY <1>1, <1>3, <1>5, <2>1
<1> QED BY <1>1, <1>2, <1>5, <1>6, LateRule

(* PadRest preserves the invariant: the mask leaves what is missing.       *)
LEMMA PadRestKeeps == ASSUME WriterInv, PadRest PROVE WriterInv'
<1>1. /\ at = "zeros" /\ at' = "written" /\ pad < ZeroRun /\ UNCHANGED <<given, places, num, buf, pos, end>>
      /\ text' = text \o Zeros(pad % ZeroRun)
  BY DEF PadRest
<1>2. at # "split" /\ at \in {"emit"} \cup Late /\ at' \in Late /\ at' # "zeros"
  BY <1>1 DEF Late
<1>3. Missing \in Nat /\ pad \in 0..Missing /\ text = Window \o Zeros(Missing - pad) /\ Window \in Seq(Int)
  BY <1>1, <1>2, StageFacts, WindowFacts
<1>4. ZeroRun \in Nat /\ ZeroRun >= 1 /\ pad \in Nat /\ Missing - pad \in Nat /\ (Missing - pad) + pad = Missing
  BY <1>3, PrinterAssumption
<1>5. pad % ZeroRun = pad
  <2>1. pad \in 0..(ZeroRun - 1) /\ pad \in Int /\ 0 \in Int /\ ZeroRun \in Nat \ {0}
        /\ pad = ZeroRun * 0 + pad
    BY <1>1, <1>4
  <2> QED BY <2>1, DivModUnique
<1>6. text' = Window \o Zeros(Missing)
  <2>1. (Window \o Zeros(Missing - pad)) \o Zeros(pad) = Window \o Zeros((Missing - pad) + pad)
    BY <1>3, <1>4, ZerosTwice
  <2> QED BY <1>1, <1>3, <1>4, <1>5, <2>1
<1> QED BY <1>1, <1>2, <1>6, LateRule

(* The bytes handed out stay as they are.                                  *)
LEMMA HandedOut ==
  ASSUME WriterInv, at \in Late \ {"zeros"}, at' \in Late \ {"zeros"},
         UNCHANGED <<given, places, num, buf, pos, end, text>>
  PROVE  WriterInv'
<1>1. at # "split" /\ at \in {"emit"} \cup Late /\ at' \in Late /\ at' # "zeros"
  BY DEF Late
<1>2. text' = Window \o Zeros(Missing)
  BY <1>1, StageFacts
<1> QED BY <1>1, <1>2, LateRule

(* Steps behind the writer leave what it wrote.                            *)
LEMMA NothingWritten == ASSUME WriterInv, UNCHANGED writerVars PROVE WriterInv'
<1>1. UNCHANGED <<given, places, num, at, q, chunk, width, buf, pos, end, pad, text>>
  BY DEF writerVars
<1>2. /\ Whole' = Whole /\ Behind' = Behind /\ Points' = Points /\ Trims01' = Trims01
      /\ Missing' = Missing /\ (Fixed' <=> Fixed) /\ Window' = Window
  <2>1. Window' = Window
    BY <1>1 DEF Window
  <2> QED BY <1>1, <2>1, NumStays
<1>3. InStage' <=> InStage
  BY <1>1, <1>2 DEF InStage
<1> QED BY <1>1, <1>2, <1>3 DEF WriterInv

(* The invariant holds initially.                                          *)
LEMMA WriterStarts == ASSUME PrinterInit PROVE WriterInv
<1>1. /\ given \in Amounts /\ places \in Requests /\ num = given /\ at = "split"
      /\ buf = [i \in 0..(ScratchLen - 1) |-> Point] /\ pos = ScratchLen /\ end = ScratchLen
  BY DEF PrinterInit
<1>2. given \in Decimals /\ places \in Nat \cup {Shortest} /\ ScratchLen \in Nat
  BY <1>1, PrinterAssumption
<1>3. buf \in Buffers
  BY <1>1 DEF Buffers, Point
<1>4. at \in Stages /\ end \in 0..ScratchLen
  BY <1>1, <1>2 DEF Stages
<1> QED BY <1>1, <1>2, <1>3, <1>4 DEF WriterInv

NumFacts ==
  /\ num \in Decimals /\ Sized(Whole, Behind, Points) /\ Trims01 \in 0..1
  /\ (Points = 1 <=> Dotted) /\ (Trims01 = 1 <=> Dotted /\ ~Fixed)
  /\ (Dotted => Behind = num.prec /\ Whole = num.coef)
  /\ (~Dotted => Behind = 0 /\ Whole = num.coef \div Pow10[num.prec])
  /\ (Fixed => places \in Nat /\ num.prec <= places /\ Behind = num.prec /\ Whole = num.coef
               /\ (Dotted <=> places > 0))

(* The facts of the number as one formula, to be primed.                   *)
LEMMA NumFollows == NumOK => NumFacts
  BY SizedNum DEF NumFacts

(* Nothing is written yet.                                                 *)
LEMMA StoredNothing ==
  ASSUME NEW v, NEW p, NEW o, NEW b \in Buffers
  PROVE  Stored(v, p, o, b, ScratchLen)
<1>1. ScratchLen \in Nat
  BY PrinterAssumption
<1>2. ScratchLen \in 0..ScratchLen /\ \A k \in 0..(ScratchLen - ScratchLen - 1) : FALSE
  BY <1>1
<1> QED BY <1>2 DEF Stored

(* Split preserves the invariant.                                          *)
LEMMA SplitKeeps == ASSUME WriterInv, Split PROVE WriterInv'
<1> DEFINE d == IF Fixed THEN Round(given, places) ELSE given
           r == d.coef % Pow10[d.prec]
<1>1. /\ at = "split" /\ num' = d /\ q' = d.coef \div Pow10[d.prec] /\ chunk' = r /\ width' = d.prec
      /\ at' = (IF Fixed THEN IF d.prec > 0 THEN "frac" ELSE "point" ELSE IF r # 0 THEN "frac" ELSE "int")
      /\ pad' = (IF Fixed THEN places - d.prec ELSE 0)
      /\ UNCHANGED <<given, places, buf, pos, end, text>>
  BY DEF Split
<1>2. /\ given \in Decimals /\ places \in Nat \cup {Shortest} /\ buf \in Buffers
      /\ pos = ScratchLen /\ end = ScratchLen /\ ScratchLen \in Nat /\ end \in 0..ScratchLen
  BY <1>1, PrinterAssumption DEF WriterInv
<1>3. (Fixed' <=> Fixed) /\ num' = d
  BY <1>1 DEF Fixed
<1>4. NumOK'
  BY <1>1, <1>2, <1>3 DEF NumOK
<1>5. NumFacts'
  <2>1. NumOK' => NumFacts'
    BY NumFollows, PTL
  <2> QED BY <1>4, <2>1
<1> HIDE DEF d
<1>6. /\ q' = num'.coef \div Pow10[num'.prec] /\ chunk' = num'.coef % Pow10[num'.prec] /\ width' = num'.prec
      /\ at' = (IF Fixed' THEN IF num'.prec > 0 THEN "frac" ELSE "point"
                          ELSE IF num'.coef % Pow10[num'.prec] # 0 THEN "frac" ELSE "int")
      /\ pad' = Missing'
  BY <1>1, <1>3 DEF Missing
<1> DEFINE v == Whole'
           p == Behind'
           o == Points'
<1>7. Sized(v, p, o) /\ buf' \in Buffers /\ pos' = ScratchLen /\ end' = ScratchLen
  BY <1>1, <1>2, <1>5 DEF NumFacts
<1>8. Stored(v, p, o, buf', pos')
  BY <1>7, StoredNothing
<1>9. (Dotted' <=> IF Fixed' THEN places' > 0 ELSE num'.coef % Pow10[num'.prec] # 0)
  BY DEF Dotted
<1>10. num'.prec \in 0..MaxPrec /\ num'.coef \in Nat /\ MaxPrec \in Nat
  BY <1>5, DecimalFacts, PowFacts DEF NumFacts
<1>11. ASSUME at' = "frac"
       PROVE  AtFrac(v, p, o, q', chunk', width', pos', end')
  <2>1. Dotted'
    <3>1. CASE Fixed'
      <4>1. num'.prec > 0 /\ places' \in Nat /\ num'.prec <= places'
        BY <1>5, <1>6, <1>11, <3>1 DEF NumFacts
      <4> QED BY <1>9, <1>10, <3>1, <4>1
    <3>2. CASE ~Fixed'
      BY <1>6, <1>9, <1>11, <3>2
    <3> QED BY <3>1, <3>2
  <2>2. o = 1 /\ p = num'.prec /\ v = num'.coef
    BY <1>5, <2>1 DEF NumFacts
  <2> HIDE DEF v, p, o
  <2>3. p \in 0..p /\ ScratchLen - ScratchLen = p - p /\ p - p = 0 /\ Pow10[0] = 1 /\ v \div 1 = v
    BY <1>2, <1>10, <2>2, PowFacts
  <2>4. chunk' = (v \div Pow10[p - p]) % Pow10[p] /\ q' = v \div Pow10[p]
    BY <1>6, <2>2, <2>3
  <2> QED BY <1>6, <1>7, <2>2, <2>3, <2>4 DEF AtFrac
<1>12. ASSUME at' = "point"
       PROVE  AtPoint(v, p, q', pos', end') /\ Fixed'
  <2>1. Fixed' /\ num'.prec = 0
    BY <1>6, <1>10, <1>12
  <2>2. p = 0 /\ v = num'.coef
    BY <1>5, <2>1 DEF NumFacts
  <2> HIDE DEF v, p
  <2>3. ScratchLen - ScratchLen = 0
    BY <1>2
  <2> QED BY <1>6, <1>7, <2>1, <2>2, <2>3 DEF AtPoint
<1>13. ASSUME at' = "int"
       PROVE  AtInt(v, p, o, q', pos') /\ EndsAt(v, p, Trims01', end')
  <2>1. ~Fixed' /\ ~Dotted'
    BY <1>6, <1>9, <1>13
  <2>2. p = 0 /\ v = num'.coef \div Pow10[num'.prec] /\ o # 1 /\ Trims01' # 1
    BY <1>5, <2>1 DEF NumFacts
  <2> HIDE DEF v, p, o
  <2>3. o = 0 /\ v \in Nat
    BY <1>7, <2>2 DEF Sized
  <2>4. ScratchLen - ScratchLen - 0 = 0 /\ Pow10[0] = 1 /\ v \div 1 = v /\ 0 \in 0..2*MaxPrec
    BY <1>2, <1>10, <2>3, PowFacts
  <2> QED BY <1>6, <1>7, <2>2, <2>3, <2>4 DEF AtInt, EndsAt
<1> HIDE DEF v, p, o
<1>14. at' \in {"frac", "point", "int"}
  BY <1>6
<1>15. InStage'
  <2>1. at' \notin {"emit"} \cup Late
    BY <1>14 DEF Late
  <2> QED BY <1>8, <1>11, <1>12, <1>13, <1>14, <2>1 DEF InStage, v, p, o
<1>16. at' # "split" /\ at' \in Stages /\ at' \notin Late
  BY <1>14 DEF Late, Stages
<1>17. num' = IF Fixed' THEN Round(given', places') ELSE given'
  BY <1>4 DEF NumOK
<1>18. at' # "zeros" /\ at' \notin Late \ {"zeros"}
  BY <1>16 DEF Late
<1> QED BY <1>1, <1>2, <1>6, <1>15, <1>16, <1>17, <1>18 DEF WriterInv

----------------------------------------------------------------------------

(* Every step of Wire preserves the invariant.                             *)
LEMMA WriterStep == ASSUME WriterInv, [WireNext]_wireVars PROVE WriterInv'
<1> DEFINE bytes == <<given, places, num, buf, pos, end, text>>
           Passed == at \in Late \ {"zeros"} /\ at' \in Late \ {"zeros"} /\ UNCHANGED bytes
<1>1. CASE PrinterNext
  <2>1. CASE Split
    BY <2>1, SplitKeeps
  <2>2. CASE PaddedPair
    BY <2>2, PaddedPairKeeps
  <2>3. CASE PaddedLast
    BY <2>3, PaddedLastKeeps
  <2>4. CASE PaddedDone
    BY <2>4, PaddedDoneKeeps
  <2>5. CASE TrimZero
    BY <2>5, TrimZeroKeeps
  <2>6. CASE SetPoint
    BY <2>6, SetPointKeeps
  <2>7. CASE NoPoint
    BY <2>7, NoPointKeeps
  <2>8. CASE IntChunk
    BY <2>8, IntChunkKeeps
  <2>9. CASE IntZero
    BY <2>9, IntZeroKeeps
  <2>10. CASE IntLead
    BY <2>10, IntLeadKeeps
  <2>11. CASE LeadPair
    BY <2>11, LeadPairKeeps
  <2>12. CASE LeadLast
    BY <2>12, LeadLastKeeps
  <2>13. CASE Sign
    BY <2>13, SignKeeps
  <2>14. CASE Emit
    BY <2>14, EmitKeeps
  <2>15. CASE PadRun
    BY <2>15, PadRunKeeps
  <2>16. CASE PadRest
    BY <2>16, PadRestKeeps
  <2>17. CASE ReadBack
    <3>1. Passed
      BY <2>17 DEF ReadBack, Late
    <3> QED BY <3>1, HandedOut
  <2>18. CASE Next /\ UNCHANGED writerVars
    BY <2>18, NothingWritten
  <2> QED
    BY <1>1, <2>1, <2>2, <2>3, <2>4, <2>5, <2>6, <2>7, <2>8, <2>9, <2>10, <2>11, <2>12, <2>13, <2>14,
       <2>15, <2>16, <2>17, <2>18 DEF PrinterNext
<1>2. CASE ToQuoted \/ RawAnswers \/ RawTooLong \/ RawEscaped \/ ToBare
  <2>1. CASE ToQuoted
    <3>1. Passed
      BY <2>1 DEF ToQuoted, Marshalled, writer, Late
    <3> QED BY <3>1, HandedOut
  <2>2. CASE RawAnswers
    <3>1. Passed
      BY <2>2 DEF RawAnswers, writer, Late
    <3> QED BY <3>1, HandedOut
  <2>3. CASE RawTooLong
    <3>1. Passed
      BY <2>3 DEF RawTooLong, Refuse, writer, Late
    <3> QED BY <3>1, HandedOut
  <2>4. CASE RawEscaped
    <3>1. Passed
      BY <2>4 DEF RawEscaped, writer, Late
    <3> QED BY <3>1, HandedOut
  <2>5. CASE ToBare
    <3>1. Passed
      BY <2>5 DEF ToBare, Marshalled, writer, Late
    <3> QED BY <3>1, HandedOut
  <2> QED BY <1>2, <2>1, <2>2, <2>3, <2>4, <2>5
<1>3. CASE UnescapeMalformed \/ UnescapeFull \/ UnescapeUnit \/ Unescaped
  <2>1. Passed
    BY <1>3 DEF UnescapeMalformed, UnescapeFull, UnescapeUnit, Unescaped, Unescaping, Refuse, writer, Late
  <2> QED BY <2>1, HandedOut
<1>4. CASE UNCHANGED wireVars
  BY <1>4, NothingWritten DEF wireVars, allVars
<1> QED BY <1>1, <1>2, <1>3, <1>4 DEF WireNext

(* In every state the bytes written so far are the low digits of the       *)
(* number, with its point (format.go:38, format.go:315).                   *)
LEMMA WriterAlways == WireSpec => []WriterInv
<1>1. WireInit => WriterInv
  BY WriterStarts DEF WireInit
<1>2. WriterInv /\ [WireNext]_wireVars => WriterInv'
  BY WriterStep
<1> QED BY <1>1, <1>2, PTL DEF WireSpec

Start == pos + One(num.neg)
Lead == ScratchLen - Start - Points
Cut == ScratchLen - end
Ahead == DigitRun(Whole, Lead, Lead - Behind)
After ==
  [j \in 1..(IF Dotted THEN Behind - Cut + Missing ELSE 0) |->
     IF j <= Behind - Cut THEN Nth(Whole, Behind - j) ELSE 0]
Naked == [i \in 1..(end - Start + Missing) |-> text[i + One(num.neg)]]
Finished == WriterInv /\ at \in Late \ {"zeros"}

(* Where the window starts, where it ends, and how many digits it holds.   *)
LEMMA FinishedFacts ==
  ASSUME Finished
  PROVE  /\ NumOK /\ NumFacts /\ Sized(Whole, Behind, Points) /\ Missing \in Nat
         /\ pos \in Nat /\ end \in Nat /\ ScratchLen \in Nat /\ MaxPrec \in Nat /\ Start \in Nat
         /\ One(num.neg) \in 0..1 /\ Start = pos + One(num.neg)
         /\ Lead \in (Behind + 1)..(2*MaxPrec + 1) /\ Lead = ScratchLen - Start - Points
         /\ Whole \div Pow10[Lead - 1] \in 0..9
         /\ (Whole \div Pow10[Lead - 1] = 0 => Lead = Behind + 1)
         /\ Cut \in 0..Behind /\ end = ScratchLen - Cut
         /\ end - Start = Lead + Points - Cut
         /\ (Dotted /\ ~Fixed => Cut < Behind /\ ZerosBelow(Whole, Cut) /\ Nth(Whole, Cut) # 0)
         /\ (~(Dotted /\ ~Fixed) => Cut = 0)
         /\ (~Dotted => Missing = 0 /\ Behind = 0 /\ Points = 0) /\ (~Fixed => Missing = 0)
<1>1. at # "split" /\ at \in {"emit"} \cup Late
  BY DEF Finished, Late
<1>2. /\ NumOK /\ Sized(Whole, Behind, Points) /\ Missing \in Nat /\ end \in 0..ScratchLen
      /\ EndsAt(Whole, Behind, Trims01, end)
      /\ AtHead(Whole, Behind, Points, num.neg, buf, pos)
  BY <1>1, StageFacts DEF Finished, InStage
<1>3. NumFacts
  BY <1>2, NumFollows
<1> DEFINE v == Whole
           p == Behind
           o == Points
<1>4. /\ p \in Nat /\ MaxPrec \in Nat /\ ScratchLen \in Nat /\ o \in 0..1
  BY <1>2, SizedFacts
<1>5. pos \in 0..ScratchLen /\ AtSign(v, p, o, Start) /\ One(num.neg) \in 0..1
  BY <1>2 DEF AtHead, Start, One
<1>6. /\ Lead \in (p + 1)..(2*MaxPrec + 1) /\ v \div Pow10[Lead - 1] \in 0..9
      /\ (v \div Pow10[Lead - 1] = 0 => Lead = p + 1)
  BY <1>5 DEF AtSign, Lead
<1>7. ASSUME Dotted, ~Fixed
      PROVE  Cut \in 0..(p - 1) /\ ZerosBelow(v, Cut) /\ Nth(v, Cut) # 0
  <2>1. Trims01 = 1
    BY <1>3, <1>7 DEF NumFacts
  <2> QED BY <1>2, <2>1 DEF EndsAt, Cut
<1>8. ASSUME ~(Dotted /\ ~Fixed) PROVE Cut = 0
  <2>1. Trims01 # 1
    BY <1>3, <1>8 DEF NumFacts
  <2>2. end = ScratchLen
    BY <1>2, <2>1 DEF EndsAt
  <2> QED BY <1>4, <2>2 DEF Cut
<1>9. ASSUME ~Dotted PROVE Missing = 0 /\ p = 0 /\ o = 0
  <2>1. p = 0 /\ o # 1
    BY <1>3, <1>9 DEF NumFacts
  <2>2. Missing = 0
    <3>1. CASE Fixed
      <4>1. places \in Nat /\ num.prec <= places /\ ~(places > 0) /\ p = num.prec
        BY <1>3, <1>9, <3>1 DEF NumFacts
      <4>2. num.prec \in Nat
        BY <1>4, <4>1
      <4> QED BY <3>1, <4>1, <4>2 DEF Missing
    <3>2. CASE ~Fixed
      BY <3>2 DEF Missing
    <3> QED BY <3>1, <3>2
  <2> QED BY <1>4, <2>1, <2>2
<1>10. ~Fixed => Missing = 0
  BY DEF Missing
<1>11. Start \in Nat /\ Start = pos + One(num.neg) /\ Lead = ScratchLen - Start - o /\ end = ScratchLen - Cut /\ pos \in Nat /\ end \in Nat
  <2>1. Start = pos + One(num.neg) /\ Lead = ScratchLen - Start - o /\ Cut = ScratchLen - end
    BY DEF Start, Lead, Cut
  <2> QED BY <1>2, <1>4, <1>5, <2>1
<1> HIDE DEF v, p, o
<1>12. Cut \in 0..p /\ end - Start = Lead + o - Cut
  <2>1. Cut \in 0..p
    BY <1>4, <1>7, <1>8
  <2> QED BY <1>4, <1>11, <2>1
<1>13. Dotted /\ ~Fixed => Cut < p /\ ZerosBelow(v, Cut) /\ Nth(v, Cut) # 0
  BY <1>4, <1>7
<1> QED BY <1>2, <1>3, <1>4, <1>5, <1>6, <1>8, <1>9, <1>10, <1>11, <1>12, <1>13 DEF v, p, o

(* The bytes behind the sign.                                              *)
LEMMA TextIs ==
  ASSUME Finished
  PROVE  /\ text \in Seq(Int) /\ Len(text) = (end - pos) + Missing
         /\ \A i \in 1..(end - pos) : text[i] = buf[pos + i - 1]
         /\ \A i \in (end - pos + 1)..(end - pos + Missing) : text[i] = 0
<1>1. at # "split" /\ at \in {"emit"} \cup Late /\ WriterInv
  BY DEF Finished, Late
<1>2. text = Window \o Zeros(Missing) /\ Missing \in Nat
  BY <1>1, StageFacts DEF Finished
<1>3. /\ Window \in Seq(Int) /\ Len(Window) = end - pos /\ pos \in Nat /\ end \in Nat
      /\ \A i \in 1..(end - pos) : Window[i] = buf[pos + i - 1]
  BY <1>1, WindowFacts
<1> DEFINE z == Zeros(Missing)
           x == Window
<1>4. z \in Seq(Int) /\ Len(z) = Missing /\ \A i \in 1..Missing : z[i] = 0
  BY <1>2 DEF Zeros
<1>5. IsJoin(text, x, z)
  BY <1>2, <1>3, <1>4, SeqJoined
<1> HIDE DEF x, z
<1>6. /\ text \in Seq(Int) /\ Len(text) = (end - pos) + Missing /\ end - pos \in Nat
      /\ (\A i \in 1..(end - pos) : text[i] = x[i])
      /\ (\A i \in (end - pos + 1)..(end - pos + Missing) : text[i] = z[i - (end - pos)])
  BY <1>3, <1>4, <1>5 DEF IsJoin, x
<1>7. \A i \in (end - pos + 1)..(end - pos + Missing) : text[i] = 0
  <2> SUFFICES ASSUME NEW i \in (end - pos + 1)..(end - pos + Missing) PROVE text[i] = 0
    OBVIOUS
  <2>1. i - (end - pos) \in 1..Missing
    BY <1>2, <1>6
  <2> QED BY <1>4, <1>6, <2>1
<1> QED BY <1>3, <1>6, <1>7 DEF x

(* What stands where: digits, the point, digits, zeros.                    *)
LEMMA Laid ==
  ASSUME Finished
  PROVE  /\ Ahead \in Runs /\ Len(Ahead) = Lead - Behind /\ Ahead # <<>>
         /\ After \in Runs /\ Len(After) = (IF Dotted THEN Behind - Cut + Missing ELSE 0)
         /\ Naked \in Seq(Int) /\ Bytewise(Naked, Ahead, Dotted, After)
         /\ (num.neg => text = <<Minus>> \o Naked) /\ (~num.neg => text = Naked)
<1> DEFINE v == Whole
           p == Behind
           o == Points
           w == Lead
           T == Cut
           M == Missing
           g == One(num.neg)
           n == end - Start + M
<1>1. /\ NumFacts /\ Sized(v, p, o) /\ M \in Nat
      /\ pos \in Nat /\ end \in Nat /\ ScratchLen \in Nat /\ MaxPrec \in Nat /\ Start \in Nat
      /\ g \in 0..1 /\ Start = pos + g
      /\ w \in (p + 1)..(2*MaxPrec + 1) /\ w = ScratchLen - Start - o
      /\ T \in 0..p /\ end = ScratchLen - T /\ end - Start = w + o - T
      /\ (~Dotted => M = 0 /\ p = 0 /\ o = 0)
  BY FinishedFacts
<1>2. v \in Nat /\ p \in Nat /\ p <= MaxPrec /\ o \in 0..1
  BY <1>1, SizedFacts
<1>3. Dotted => o = 1
  BY <1>1 DEF NumFacts
<1>4. /\ text \in Seq(Int) /\ Len(text) = (end - pos) + M
      /\ \A i \in 1..(end - pos) : text[i] = buf[pos + i - 1]
      /\ \A i \in (end - pos + 1)..(end - pos + M) : text[i] = 0
  BY TextIs
<1>5. Stored(v, p, o, buf, Start) /\ (num.neg => buf[pos] = Minus)
  <2>1. at # "split" /\ at \in {"emit"} \cup Late /\ WriterInv
    BY DEF Finished, Late
  <2>2. AtHead(v, p, o, num.neg, buf, pos)
    BY <2>1, StageFacts DEF InStage
  <2> QED BY <2>2 DEF AtHead, Start
<1>6. Naked = [i \in 1..n |-> text[i + g]]
  BY DEF Naked
<1>7. Ahead = [j \in 1..(w - p) |-> Nth(v, w - j)]
  BY DEF Ahead, DigitRun
<1>8. After = [j \in 1..(IF Dotted THEN p - T + M ELSE 0) |-> IF j <= p - T THEN Nth(v, p - j) ELSE 0]
  BY DEF After
<1> HIDE DEF v, p, o, w, T, M, g
<1>9. Ahead \in Runs /\ Len(Ahead) = w - p /\ Ahead # <<>>
  <2>1. \A j \in 1..(w - p) : Nth(v, w - j) \in 0..9
    <3> SUFFICES ASSUME NEW j \in 1..(w - p) PROVE Nth(v, w - j) \in 0..9
      OBVIOUS
    <3>1. w - j \in 0..2*MaxPrec
      BY <1>1, <1>2
    <3> QED BY <1>2, <3>1, NthFacts
  <2>2. w - p \in Nat /\ w - p >= 1
    BY <1>1, <1>2
  <2>3. Ahead \in Seq(0..9) /\ Len(Ahead) = w - p
    BY <1>7, <2>1, <2>2
  <2> QED BY <2>2, <2>3, EmptySeq DEF Runs
<1>10. After \in Runs /\ Len(After) = (IF Dotted THEN p - T + M ELSE 0)
  <2> DEFINE m == IF Dotted THEN p - T + M ELSE 0
  <2>1. m \in Nat
    BY <1>1, <1>2
  <2>2. \A j \in 1..m : (IF j <= p - T THEN Nth(v, p - j) ELSE 0) \in 0..9
    <3> SUFFICES ASSUME NEW j \in 1..m, j <= p - T PROVE Nth(v, p - j) \in 0..9
      OBVIOUS
    <3>1. p - j \in 0..2*MaxPrec
      <4> HIDE DEF m
      <4> QED BY <1>1, <1>2, <2>1
    <3> QED BY <1>2, <3>1, NthFacts
  <2> HIDE DEF m
  <2>3. After = [j \in 1..m |-> IF j <= p - T THEN Nth(v, p - j) ELSE 0]
    BY <1>8 DEF m
  <2>4. After \in Seq(0..9) /\ Len(After) = m
    BY <2>1, <2>2, <2>3
  <2> QED BY <2>4 DEF Runs, m
<1>11. n \in Nat /\ Len(text) = n + g /\ n = w + o - T + M /\ end - pos = w + o - T + g
  BY <1>1, <1>2, <1>4
<1>12. \A i \in 1..n : i + g \in 1..Len(text)
  BY <1>1, <1>11
<1>13. Naked \in Seq(Int) /\ Len(Naked) = n /\ \A i \in 1..n : Naked[i] = text[i + g]
  <2>1. \A i \in 1..n : text[i + g] \in Int
    BY <1>4, <1>12
  <2> HIDE DEF n
  <2> QED BY <1>6, <1>11, <2>1
<1> HIDE DEF n
<1>14. ASSUME NEW i \in 1..(w + o - T)
       PROVE  Naked[i] = ByteAt(v, p, o, w + o - i)
  <2>1. /\ i \in 1..n /\ i + g \in 1..(end - pos) /\ pos + (i + g) - 1 = ScratchLen - 1 - (w + o - i)
        /\ w + o - i \in 0..(ScratchLen - Start - 1)
    BY <1>1, <1>2, <1>11
  <2>2. Naked[i] = buf[pos + (i + g) - 1]
    BY <1>4, <1>13, <2>1
  <2>3. buf[ScratchLen - 1 - (w + o - i)] = ByteAt(v, p, o, w + o - i)
    BY <1>5, <2>1 DEF Stored
  <2> QED BY <2>1, <2>2, <2>3
<1>15. ASSUME NEW i \in 1..(w - p) PROVE Naked[i] = Ahead[i]
  <2>1. i \in 1..(w + o - T) /\ w - i \in Nat /\ w - i >= p /\ (w - i) + o = w + o - i
    BY <1>1, <1>2
  <2>2. ByteAt(v, p, o, (w - i) + o) = Nth(v, w - i)
    BY <1>1, <2>1, IntByte
  <2> QED BY <1>7, <1>14, <2>1, <2>2
<1>16. ASSUME Dotted PROVE Naked[w - p + 1] = Point
  <2>1. o = 1 /\ w - p + 1 \in 1..(w + o - T) /\ w + o - (w - p + 1) = p
    BY <1>1, <1>2, <1>3, <1>16
  <2>2. ByteAt(v, p, o, p) = Point
    BY <1>2, <2>1 DEF ByteAt
  <2> QED BY <1>14, <2>1, <2>2
<1>17. ASSUME Dotted, NEW j \in 1..(p - T + M) PROVE Naked[w - p + 1 + j] = After[j]
  <2>1. o = 1
    BY <1>3, <1>17
  <2>2. After[j] = IF j <= p - T THEN Nth(v, p - j) ELSE 0
    BY <1>8, <1>17
  <2>3. CASE j <= p - T
    <3>1. w - p + 1 + j \in 1..(w + o - T) /\ w + o - (w - p + 1 + j) = p - j /\ p - j < p
      BY <1>1, <1>2, <2>1, <2>3
    <3>2. ByteAt(v, p, o, p - j) = Nth(v, p - j)
      BY <3>1, FracByte
    <3> QED BY <1>14, <2>2, <2>3, <3>1, <3>2
  <2>4. CASE j > p - T
    <3>1. /\ w - p + 1 + j \in 1..n
          /\ (w - p + 1 + j) + g \in (end - pos + 1)..(end - pos + M) /\ ~(j <= p - T)
      BY <1>1, <1>2, <1>11, <2>1, <2>4
    <3>2. Naked[w - p + 1 + j] = 0
      BY <1>4, <1>13, <3>1
    <3> QED BY <2>2, <3>1, <3>2
  <2> QED BY <1>1, <1>2, <2>3, <2>4
<1>18. Bytewise(Naked, Ahead, Dotted, After)
  <2>1. Len(Naked) = Width(Ahead, Dotted, After)
    <3>1. CASE Dotted
      <4>1. o = 1 /\ Width(Ahead, Dotted, After) = (w - p) + (1 + (p - T + M))
        BY <1>3, <1>9, <1>10, <3>1 DEF Width
      <4> QED BY <1>1, <1>2, <1>11, <1>13, <4>1
    <3>2. CASE ~Dotted
      <4>1. o = 0 /\ M = 0 /\ p = 0 /\ Width(Ahead, Dotted, After) = (w - p) + 0
        BY <1>1, <1>9, <3>2 DEF Width
      <4> QED BY <1>1, <1>2, <1>11, <1>13, <4>1
    <3> QED BY <3>1, <3>2
  <2>2. \A i \in 1..Len(Ahead) : Naked[i] = Ahead[i]
    BY <1>9, <1>15
  <2>3. Dotted => Naked[Len(Ahead) + 1] = Point
    BY <1>9, <1>16
  <2>4. Dotted => \A i \in 1..Len(After) : Naked[Len(Ahead) + 1 + i] = After[i]
    BY <1>9, <1>10, <1>17
  <2> QED BY <2>1, <2>2, <2>3, <2>4 DEF Bytewise
<1>19. ASSUME num.neg PROVE text = <<Minus>> \o Naked
  <2>1. g = 1
    BY <1>19 DEF One, g
  <2>2. text[1] = Minus
    <3>1. 1 \in 1..(end - pos) /\ pos + 1 - 1 = pos
      BY <1>1, <1>2, <1>11, <2>1
    <3> QED BY <1>4, <1>5, <1>19, <3>1
  <2> DEFINE h == <<Minus>>
             u == h \o Naked
  <2>3. h \in Seq(Int) /\ Len(h) = 1 /\ h[1] = Minus
    BY DEF Minus
  <2> HIDE DEF h
  <2>4. IsJoin(u, h, Naked)
    BY <1>13, <2>3, SeqJoined
  <2> HIDE DEF u
  <2>5. u \in Seq(Int) /\ Len(u) = n + 1 /\ u[1] = Minus /\ \A i \in 2..(n + 1) : u[i] = Naked[i - 1]
    <3>1. Len(u) = Len(h) + Len(Naked) /\ 1 \in 1..Len(h) /\ (Len(h) + 1)..(Len(h) + Len(Naked)) = 2..(n + 1)
      BY <1>11, <1>13, <2>3, <2>4 DEF IsJoin
    <3> QED BY <1>11, <1>13, <2>3, <2>4, <3>1 DEF IsJoin
  <2>6. \A i \in 2..(n + 1) : u[i] = text[i]
    <3> SUFFICES ASSUME NEW i \in 2..(n + 1) PROVE u[i] = text[i]
      OBVIOUS
    <3>1. i - 1 \in 1..n /\ (i - 1) + 1 = i
      BY <1>11
    <3> QED BY <1>13, <2>1, <2>5, <3>1
  <2>7. \A i \in 1..(n + 1) : u[i] = text[i]
    <3>1. \A i \in 1..(n + 1) : i = 1 \/ i \in 2..(n + 1)
      BY <1>11
    <3> QED BY <2>2, <2>5, <2>6, <3>1
  <2>8. u = text
    <3>1. DOMAIN u = 1..(n + 1) /\ DOMAIN text = 1..(n + 1)
      BY <1>4, <1>11, <2>1, <2>5
    <3>2. u = [i \in 1..(n + 1) |-> u[i]] /\ text = [i \in 1..(n + 1) |-> text[i]]
      BY <1>4, <2>5, <3>1
    <3> QED BY <2>7, <3>2
  <2> QED BY <2>8 DEF u, h
<1>20. ASSUME ~num.neg PROVE text = Naked
  <2>1. g = 0
    BY <1>20 DEF One, g
  <2>2. \A i \in 1..n : Naked[i] = text[i] /\ Len(text) = n
    BY <1>11, <1>13, <2>1
  <2>3. Len(text) = n
    BY <1>11, <2>1
  <2>4. DOMAIN Naked = 1..n /\ DOMAIN text = 1..n
    BY <1>4, <1>11, <1>13, <2>3
  <2>5. Naked = [i \in 1..n |-> Naked[i]] /\ text = [i \in 1..n |-> text[i]]
    BY <1>4, <1>13, <2>4
  <2> QED BY <2>2, <2>5
<1> QED BY <1>9, <1>10, <1>13, <1>18, <1>19, <1>20 DEF p, w, T, M

(* What was written is read as its digits, point and sign.                 *)
LEMMA Literally ==
  ASSUME Finished
  PROVE  /\ IsLiteral(LiteralOf(text)) /\ IntDigits = Ahead /\ FracDigits = After
         /\ (LiteralOf(text).dot <=> Dotted) /\ (IsNeg(LiteralOf(text)) <=> num.neg)
         /\ LiteralOf(text).tail = "end" /\ LiteralOf(text).sign \in {"", "-"}
         /\ LiteralOf(text).junk = 0
<1>1. /\ Ahead \in Runs /\ Ahead # <<>> /\ After \in Runs /\ (~Dotted => After = <<>>)
      /\ Naked \in Seq(Int) /\ Bytewise(Naked, Ahead, Dotted, After)
      /\ (num.neg => text = <<Minus>> \o Naked) /\ (~num.neg => text = Naked) /\ text \in Seq(Int)
  <2>1. ~Dotted => After = <<>>
    <3>1. ~Dotted => Len(After) = 0
      BY Laid
    <3>2. After \in Runs
      BY Laid
    <3> QED BY <3>1, <3>2, EmptySeq DEF Runs
  <2> QED BY <2>1, Laid, TextIs
<1> DEFINE dotted == IF Dotted THEN TRUE ELSE FALSE
<1>2. num.neg \in BOOLEAN
  <2>1. num \in Decimals
    BY FinishedFacts DEF NumFacts
  <2> QED BY <2>1, DecimalFacts
<1>2a. dotted \in BOOLEAN /\ (dotted <=> Dotted)
  OBVIOUS
<1> HIDE DEF dotted
<1>2b. Bytewise(Naked, Ahead, dotted, After) /\ (~dotted => After = <<>>)
  BY <1>1, <1>2a DEF Bytewise, Width
<1> DEFINE l == LiteralOf(text)
<1>3. Plainly(l, num.neg, Ahead, dotted, After)
  BY <1>1, <1>2, <1>2a, <1>2b, LiteralIs
<1> HIDE DEF l
<1>4. IsNeg(l) <=> num.neg
  BY <1>2, <1>3 DEF IsNeg, Plainly
<1>5. (l.dot <=> Dotted) /\ l.sign \in {"", "-"}
  BY <1>2, <1>2a, <1>3 DEF Plainly
<1>6. IsLiteral(l) /\ IntRun(l) = Ahead /\ l.frac = After /\ l.tail = "end" /\ l.junk = 0
  BY <1>3 DEF Plainly
<1> QED BY <1>4, <1>5, <1>6 DEF l, IntDigits, FracDigits

(* The first digit is zero only when it stands alone.                      *)
LEMMA LeadingDigit ==
  ASSUME Finished
  PROVE  Ahead = <<0>> \/ (Ahead # <<>> /\ Head(Ahead) # 0)
<1> DEFINE x == Whole \div Pow10[Lead - 1]
<1>1. /\ Lead \in (Behind + 1)..(2*MaxPrec + 1) /\ x \in 0..9 /\ (x = 0 => Lead = Behind + 1)
      /\ MaxPrec \in Nat /\ Behind \in Nat
  BY FinishedFacts, SizedFacts
<1>2. Ahead = [j \in 1..(Lead - Behind) |-> Nth(Whole, Lead - j)] /\ Ahead \in Runs /\ Ahead # <<>>
      /\ Len(Ahead) = Lead - Behind
  BY Laid DEF Ahead, DigitRun
<1>3. Ahead[1] = x
  <2>1. 1 \in 1..(Lead - Behind)
    BY <1>1
  <2>2. Ahead[1] = x % 10
    BY <1>2, <2>1 DEF Nth
  <2> HIDE DEF x
  <2>3. x % 10 = x
    BY <1>1
  <2> QED BY <2>2, <2>3
<1> HIDE DEF x
<1>4. CASE x = 0
  <2>1. Len(Ahead) = 1
    BY <1>1, <1>2, <1>4
  <2>2. Ahead = [j \in 1..1 |-> Ahead[j]]
    BY <1>2, <2>1 DEF Runs
  <2>3. Ahead = <<0>>
    BY <1>3, <1>4, <2>1, <2>2
  <2> QED BY <2>3
<1>5. CASE x # 0
  <2>1. Head(Ahead) = Ahead[1]
    BY <1>2 DEF Runs
  <2> QED BY <1>2, <1>3, <1>5, <2>1
<1> QED BY <1>4, <1>5

(* One byte at most is no digit and no sign.                               *)
LEMMA BytesPlaced ==
  ASSUME Finished
  PROVE  /\ \A i \in 1..Len(text) : text[i] \in 0..9 \/ (text[i] = Minus /\ i = 1) \/ text[i] = Point
         /\ \E c : \A i \in 1..Len(text) : text[i] = Point => i = c
<1> DEFINE s == Ahead
           y == After
           t == Naked
           a == Len(s)
           b == Len(y)
           n == Len(t)
<1>1. /\ s \in Runs /\ y \in Runs /\ t \in Seq(Int) /\ Bytewise(t, s, Dotted, y)
      /\ (num.neg => text = <<Minus>> \o t) /\ (~num.neg => text = t)
  BY Laid
<1> HIDE DEF s, y, t
<1>2. /\ a \in Nat /\ b \in Nat /\ n \in Nat /\ (\A i \in 1..a : s[i] \in 0..9) /\ (\A i \in 1..b : y[i] \in 0..9)
  BY <1>1 DEF Runs
<1>3. /\ n = a + (IF Dotted THEN 1 + b ELSE 0) /\ (\A i \in 1..a : t[i] = s[i])
      /\ (Dotted => t[a + 1] = Point /\ \A i \in 1..b : t[a + 1 + i] = y[i])
  BY <1>1 DEF Bytewise, Width
<1> HIDE DEF a, b, n
<1>4. ASSUME NEW i \in 1..n
      PROVE  (i = a + 1 /\ t[i] = Point) \/ t[i] \in 0..9
  <2>1. CASE i <= a
    <3>1. i \in 1..a
      BY <1>2, <2>1
    <3> QED BY <1>2, <1>3, <3>1
  <2>2. CASE i > a
    <3>1. Dotted /\ i <= a + 1 + b
      BY <1>2, <1>3, <2>2
    <3>2. CASE i = a + 1
      BY <1>3, <3>1, <3>2
    <3>3. CASE i # a + 1
      <4>1. i - (a + 1) \in 1..b /\ a + 1 + (i - (a + 1)) = i
        BY <1>2, <2>2, <3>1, <3>3
      <4> QED BY <1>2, <1>3, <3>1, <4>1
    <3> QED BY <3>2, <3>3
  <2> QED BY <1>2, <2>1, <2>2
<1>5. Point = -1 /\ Minus = -2 /\ Point \notin 0..9
  BY DEF Point, Minus
<1>6. CASE num.neg
  <2> DEFINE h == <<Minus>>
  <2>1. h \in Seq(Int) /\ Len(h) = 1 /\ h[1] = Minus
    BY DEF Minus
  <2>2. text = h \o t
    BY <1>1, <1>6
  <2> HIDE DEF h
  <2>3. IsJoin(text, h, t)
    BY <1>1, <2>1, <2>2, SeqJoined
  <2>4. Len(text) = n + 1 /\ text[1] = Minus /\ \A i \in 2..(n + 1) : text[i] = t[i - 1]
    <3>1. Len(text) = Len(h) + n /\ 1 \in 1..Len(h) /\ (Len(h) + 1)..(Len(h) + n) = 2..(n + 1)
      BY <1>2, <2>1, <2>3 DEF IsJoin, n
    <3> QED BY <1>2, <2>1, <2>3, <3>1 DEF IsJoin, n
  <2>5. \A i \in 1..Len(text) : i = 1 \/ (i \in 2..(n + 1) /\ i - 1 \in 1..n)
    BY <1>2, <2>4
  <2>6. \A i \in 1..Len(text) : text[i] \in 0..9 \/ (text[i] = Minus /\ i = 1) \/ (text[i] = Point /\ i - 1 = a + 1)
    BY <1>4, <2>4, <2>5
  <2>7. \A i \in 1..Len(text) : text[i] = Point => i = a + 2
    <3> SUFFICES ASSUME NEW i \in 1..Len(text), text[i] = Point PROVE i = a + 2
      OBVIOUS
    <3>1. i - 1 = a + 1
      BY <1>5, <2>6
    <3> QED BY <1>2, <2>4, <3>1
  <2> QED BY <2>6, <2>7
<1>7. CASE ~num.neg
  <2>1. text = t /\ Len(text) = n
    BY <1>1, <1>7 DEF n
  <2>2. \A i \in 1..Len(text) : text[i] \in 0..9 \/ (text[i] = Point /\ i = a + 1)
    BY <1>4, <2>1
  <2>3. \A i \in 1..Len(text) : text[i] = Point => i = a + 1
    BY <1>5, <2>2
  <2> QED BY <2>2, <2>3
<1> QED BY <1>6, <1>7

(* What was written is a number of JSON: one zero at most in front, digits *)
(* on both sides of a point.                                               *)
LEMMA Formed == ASSUME Finished PROVE WellFormed
<1>1. \A i \in 1..Len(text) : text[i] \in 0..9 \/ (text[i] = Minus /\ i = 1) \/ text[i] = Point
  BY BytesPlaced
<1>2. Cardinality({i \in 1..Len(text) : text[i] = Point}) <= 1
  <2> DEFINE P == {i \in 1..Len(text) : text[i] = Point}
  <2>1. PICK c : \A i \in 1..Len(text) : text[i] = Point => i = c
    BY BytesPlaced
  <2>2. P \subseteq {c}
    BY <2>1
  <2> HIDE DEF P
  <2>3. IsFiniteSet({c}) /\ Cardinality({c}) = 1
    BY FS_Singleton
  <2>4. Cardinality(P) <= Cardinality({c})
    BY <2>2, <2>3, FS_Subset
  <2> QED BY <2>3, <2>4 DEF P
<1>3. IntDigits = <<0>> \/ (IntDigits # <<>> /\ Head(IntDigits) # 0)
  BY LeadingDigit, Literally
<1>4. LiteralOf(text).dot => FracDigits # <<>>
  <2> SUFFICES ASSUME Dotted PROVE After # <<>>
    BY Literally
  <2>1. /\ Len(After) = Behind - Cut + Missing /\ After \in Runs /\ Missing \in Nat
        /\ Cut \in 0..Behind /\ Behind \in Nat /\ (~Fixed => Cut < Behind)
    BY Laid, FinishedFacts, SizedFacts
  <2>2. ASSUME Fixed PROVE Behind - Cut + Missing > 0
    <3>1. Cut = 0 /\ Behind = num.prec /\ places \in Nat /\ places > 0 /\ Missing = places - num.prec
      BY <2>2, FinishedFacts DEF NumFacts, Missing
    <3> QED BY <2>1, <3>1
  <2>3. ASSUME ~Fixed PROVE Behind - Cut + Missing > 0
    BY <2>1, <2>3
  <2>4. Len(After) > 0
    BY <2>1, <2>2, <2>3
  <2>5. Len(<<>>) = 0
    OBVIOUS
  <2> QED BY <2>4, <2>5
<1> QED BY <1>1, <1>2, <1>3, <1>4 DEF WellFormed

(* The digits in front of the zeros that rounding asked for.               *)
LEMMA Denoted ==
  ASSUME Finished
  PROVE  /\ Ahead \o After \in Runs /\ Len(Ahead \o After) = Lead - Cut + Missing
         /\ Lead - Cut \in 1..(2*MaxPrec + 1)
         /\ Upto(Ahead \o After, Lead - Cut) = Whole \div Pow10[Cut]
         /\ \A i \in (Lead - Cut + 1)..(Lead - Cut + Missing) : (Ahead \o After)[i] = 0
<1> DEFINE v == Whole
           p == Behind
           w == Lead
           T == Cut
           M == Missing
           m == IF Dotted THEN p - T + M ELSE 0
           u == Ahead \o After
<1>1. /\ Sized(v, p, Points) /\ M \in Nat /\ MaxPrec \in Nat
      /\ w \in (p + 1)..(2*MaxPrec + 1) /\ T \in 0..p
      /\ (~Dotted => M = 0 /\ p = 0) /\ v \div Pow10[w - 1] \in 0..9
  BY FinishedFacts
<1>2. v \in Nat /\ p \in Nat
  BY <1>1, SizedFacts
<1>3. /\ Ahead = [j \in 1..(w - p) |-> Nth(v, w - j)] /\ Ahead \in Runs /\ Len(Ahead) = w - p
      /\ After = [j \in 1..m |-> IF j <= p - T THEN Nth(v, p - j) ELSE 0]
      /\ After \in Runs /\ Len(After) = m
  BY Laid DEF Ahead, DigitRun, After
<1> HIDE DEF v, p, w, T, M
<1>4. m = p - T + M /\ m \in Nat
  <2>1. CASE Dotted
    BY <1>1, <1>2, <2>1
  <2>2. CASE ~Dotted
    BY <1>1, <1>2, <2>2
  <2> QED BY <2>1, <2>2
<1> HIDE DEF m
<1>5. /\ u \in Runs /\ Len(u) = (w - p) + m
      /\ (\A i \in 1..(w - p) : u[i] = Ahead[i]) /\ (\A i \in 1..m : u[(w - p) + i] = After[i])
  <2> DEFINE x == Ahead
             y == After
  <2>1. x \in Runs /\ y \in Runs /\ Len(x) = w - p /\ Len(y) = m
    BY <1>3
  <2> HIDE DEF x, y
  <2>2. /\ x \o y \in Runs /\ Len(x \o y) = Len(x) + Len(y)
        /\ (\A i \in 1..Len(x) : (x \o y)[i] = x[i]) /\ (\A i \in 1..Len(y) : (x \o y)[Len(x) + i] = y[i])
    BY <2>1, RunsJoin
  <2> QED BY <2>1, <2>2 DEF x, y
<1> HIDE DEF u
<1>6. Len(u) = w - T + M /\ w - T \in 1..(2*MaxPrec + 1) /\ w - T \in 0..w
  BY <1>1, <1>2, <1>4, <1>5
<1>7. ASSUME NEW j \in 1..(w - T) PROVE u[j] = Nth(v, w - j)
  <2>1. CASE j <= w - p
    <3>1. j \in 1..(w - p)
      BY <1>1, <1>2, <2>1
    <3> QED BY <1>3, <1>5, <3>1
  <2>2. CASE j > w - p
    <3>1. j - (w - p) \in 1..m /\ (w - p) + (j - (w - p)) = j /\ j - (w - p) <= p - T /\ p - (j - (w - p)) = w - j
      BY <1>1, <1>2, <1>4, <2>2
    <3> QED BY <1>3, <1>5, <3>1
  <2> QED BY <1>1, <1>2, <2>1, <2>2
<1>8. ASSUME NEW j \in (w - T + 1)..(w - T + M) PROVE u[j] = 0
  <2>1. j - (w - p) \in 1..m /\ (w - p) + (j - (w - p)) = j /\ ~(j - (w - p) <= p - T)
    BY <1>1, <1>2, <1>4
  <2> QED BY <1>3, <1>5, <2>1
<1>9. Upto(u, w - T) = v \div Pow10[T]
  <2> DEFINE len == w - T
  <2>1. /\ w \in 1..(2*MaxPrec + 1) /\ len \in 0..w /\ len <= Len(u) /\ len \in 1..len
        /\ w - len = T /\ u \in Runs /\ \A j \in 1..len : u[j] = Nth(v, w - j)
    BY <1>1, <1>2, <1>5, <1>6, <1>7
  <2> HIDE DEF len
  <2>2. \A k \in 1..len : Upto(u, k) = v \div Pow10[w - k]
    BY <1>1, <1>2, <2>1, DigitRunValue
  <2>3. Upto(u, len) = v \div Pow10[w - len]
    BY <2>1, <2>2
  <2> QED BY <2>1, <2>3 DEF len
<1> QED BY <1>5, <1>6, <1>8, <1>9 DEF u, v, p, w, T, M

(* The bytes of a literal without a tail.                                  *)
LEMMA BytesOf ==
  ASSUME NEW l, IsLiteral(l), l.tail = "end"
  PROVE  /\ Bytes(l) = One(l.sign # "") + Len(IntRun(l)) + PointLen(l)
         /\ Len(IntRun(l)) \in Nat /\ (NoInt(l) => Len(IntRun(l)) = 0)
<1>1. /\ l.zeros \in Nat /\ l.int \in Seq(0..9) /\ l.frac \in Seq(0..9) /\ l.junk = 0
  BY DEF IsLiteral
<1>2. Len(IntRun(l)) = l.zeros + Len(l.int) /\ Len(l.int) \in Nat
  <2> DEFINE x == Zeros(l.zeros)
             y == l.int
  <2>1. x \in Runs /\ y \in Runs /\ Len(x) = l.zeros
    BY <1>1 DEF Zeros, Runs
  <2> HIDE DEF x, y
  <2>2. Len(x \o y) = Len(x) + Len(y) /\ Len(y) \in Nat
    BY <2>1, RunsJoin
  <2> QED BY <2>1, <2>2 DEF x, y, IntRun
<1>3. PointLen(l) \in Nat /\ One(l.sign # "") \in Nat
  BY <1>1 DEF PointLen, One
<1>4. TailLen(l) = 0
  BY <1>1 DEF TailLen
<1>5. Bytes(l) = One(l.sign # "") + l.zeros + (Len(l.int) + PointLen(l) + 0)
  BY <1>4 DEF Bytes, Remaining
<1>6. NoInt(l) => Len(IntRun(l)) = 0
  <2>1. Len(<<>>) = 0
    OBVIOUS
  <2> QED BY <1>1, <1>2, <2>1 DEF NoInt
<1> DEFINE a == One(l.sign # "")
           b == PointLen(l)
           c == Len(l.int)
           d == l.zeros
           e == Len(IntRun(l))
<1>7. /\ a \in Nat /\ b \in Nat /\ c \in Nat /\ d \in Nat /\ e = d + c /\ Bytes(l) = a + d + (c + b + 0)
  BY <1>1, <1>2, <1>3, <1>5
<1> HIDE DEF a, b, c, d, e
<1>8. Bytes(l) = a + e + b /\ e \in Nat
  BY <1>7
<1> QED BY <1>6, <1>8 DEF a, b, e

(* The canonical bytes end in no zero and spell the number.                *)
LEMMA CanonicalOne ==
  ASSUME Finished, ~Fixed
  PROVE  /\ FracDigits # <<>> => Last(FracDigits) # 0
         /\ Spelled(LiteralOf(text)) = AppendCanonical(given)
<1> DEFINE v == Whole
           p == Behind
           w == Lead
           T == Cut
           l == LiteralOf(text)
           u == Ahead \o After
           m == DigitsVal(u)
<1>1. /\ NumFacts /\ Sized(v, p, Points) /\ MaxPrec \in Nat /\ num = given
      /\ w \in (p + 1)..(2*MaxPrec + 1) /\ T \in 0..p /\ Missing = 0
      /\ (Dotted => T < p /\ ZerosBelow(v, T) /\ Nth(v, T) # 0)
      /\ (~Dotted => T = 0 /\ p = 0)
  <2>1. NumOK
    BY FinishedFacts
  <2> QED BY <2>1, FinishedFacts DEF NumOK
<1>2. v \in Nat /\ p \in Nat /\ p <= MaxPrec
  BY <1>1, SizedFacts
<1>3. /\ After = [j \in 1..(IF Dotted THEN p - T + 0 ELSE 0) |-> IF j <= p - T THEN Nth(v, p - j) ELSE 0]
      /\ After \in Runs /\ Len(After) = (IF Dotted THEN p - T ELSE 0)
      /\ Len(Ahead) = w - p /\ Ahead # <<>>
  <2>1. p - T + 0 = p - T
    BY <1>1, <1>2
  <2> QED BY <1>1, <2>1, Laid DEF After
<1>4. /\ IsLiteral(l) /\ IntRun(l) = Ahead /\ l.frac = After /\ (l.dot <=> Dotted) /\ (IsNeg(l) <=> num.neg)
      /\ l.tail = "end" /\ l.sign \in {"", "-"}
  BY Literally DEF IntDigits, FracDigits
<1>5. u \in Runs /\ Len(u) = w - T /\ Upto(u, w - T) = v \div Pow10[T] /\ Mantissa(l) = u
  <2>1. w - T + 0 = w - T
    BY <1>1, <1>2
  <2> QED BY <1>1, <1>4, <2>1, Denoted DEF Mantissa
<1> HIDE DEF v, p, w, T, l, u
<1>6. m = v \div Pow10[T]
  BY <1>5, DigitByDigit
<1>7. FracDigits # <<>> => Last(FracDigits) # 0
  <2> SUFFICES ASSUME After # <<>> PROVE Last(After) # 0
    BY Literally
  <2>1. Dotted
    <3>1. Len(After) # 0
      BY <1>3, EmptySeq DEF Runs
    <3> QED BY <1>3, <3>1
  <2>2. p - T \in 1..(p - T) /\ p - T <= p - T /\ p - (p - T) = T
    BY <1>1, <1>2, <2>1
  <2>3. After[p - T] = Nth(v, T)
    <3>1. p - T \in 1..(p - T + 0)
      BY <1>1, <1>2, <2>2
    <3> QED BY <1>3, <2>1, <2>2, <3>1
  <2>4. Last(After) = After[p - T]
    BY <1>3, <2>1 DEF Last
  <2> QED BY <1>1, <2>1, <2>3, <2>4
<1>8. ~NoInt(l) /\ (l.dot => l.frac # <<>>) /\ Bytes(l) \in 1..MaxParseLen /\ Len(Mantissa(l)) <= 2*MaxPrec + 1
  <2>1. /\ Bytes(l) = One(l.sign # "") + Len(IntRun(l)) + PointLen(l)
        /\ (NoInt(l) => Len(IntRun(l)) = 0)
    BY <1>4, BytesOf
  <2>2. Len(IntRun(l)) = w - p /\ One(l.sign # "") \in 0..1
        /\ (Dotted => PointLen(l) = 1 + (p - T)) /\ (~Dotted => PointLen(l) = 0)
    <3>1. Len(IntRun(l)) = w - p
      BY <1>3, <1>4
    <3>2. One(l.sign # "") \in 0..1
      BY DEF One
    <3>3. Dotted => PointLen(l) = 1 + (p - T)
      BY <1>3, <1>4 DEF PointLen
    <3>4. ~Dotted => PointLen(l) = 0
      BY <1>4 DEF PointLen
    <3> QED BY <3>1, <3>2, <3>3, <3>4
  <2>3. MaxParseLen \in Nat /\ MaxParseLen >= 2*MaxPrec + 3
    BY PrinterAssumption, ParserAssumption
  <2>4. Bytes(l) \in 1..MaxParseLen /\ ~NoInt(l)
    <3> DEFINE a == One(l.sign # "")
               b == PointLen(l)
               e == Len(IntRun(l))
    <3>1. a \in 0..1 /\ e = w - p /\ Bytes(l) = a + e + b /\ (NoInt(l) => e = 0)
      BY <2>1, <2>2
    <3>2. (Dotted => b = 1 + (p - T)) /\ (~Dotted => b = 0)
      BY <2>2
    <3> HIDE DEF a, b, e
    <3>3. b \in Nat /\ b <= 1 + p
      BY <1>1, <1>2, <3>2
    <3>4. e \in Nat /\ e >= 1 /\ e + p <= 2*MaxPrec + 1
      BY <1>1, <1>2, <3>1
    <3>5. a + e + b \in 1..MaxParseLen
      BY <1>1, <1>2, <2>3, <3>1, <3>3, <3>4
    <3> QED BY <3>1, <3>4, <3>5
  <2>5. Len(Mantissa(l)) <= 2*MaxPrec + 1
    BY <1>1, <1>2, <1>5
  <2>6. l.dot => l.frac # <<>>
    BY Formed, <1>4, Literally DEF WellFormed, l
  <2> QED BY <2>4, <2>5, <2>6
<1>9. /\ m \in Nat
      /\ (m = 0) => (Spelled(l) = Number(IsNeg(l), 0, 0, Len(l.frac)))
      /\ (m # 0) => \E z \in 0..2*MaxPrec : \E k \in Nat :
                      /\ k % 10 # 0 /\ m = k * Pow10[z]
                      /\ Spelled(l) = Number(IsNeg(l), k, z, Len(l.frac))
  <2>1. LET mm == DigitsVal(Mantissa(l))
        IN  /\ mm \in Nat
            /\ (mm = 0) => (Spelled(l) = Number(IsNeg(l), 0, 0, Len(l.frac)))
            /\ (mm # 0) =>
                  \E z \in 0..2*MaxPrec : \E k \in Nat :
                    /\ k % 10 # 0 /\ mm = k * Pow10[z]
                    /\ Spelled(l) = Number(IsNeg(l), k, z, Len(l.frac))
    BY <1>4, <1>8, SpelledIs
  <2> QED BY <1>5, <2>1
<1>10. IsNeg(l) = num.neg /\ num \in Decimals
  <2>1. num \in Decimals /\ num.neg \in BOOLEAN
    BY <1>1, DecimalFacts DEF NumFacts
  <2> QED BY <1>4, <2>1 DEF IsNeg
<1> HIDE DEF m
<1>11. CASE Dotted
  <2>1. v = num.coef /\ p = num.prec /\ T < p /\ ZerosBelow(v, T) /\ Nth(v, T) # 0
    BY <1>1, <1>11 DEF NumFacts, v, p
  <2>2. num.coef % Pow10[num.prec] # 0
    BY <1>11 DEF Dotted
  <2>3. T \in 0..num.prec /\ T < num.prec /\ (\A i \in 0..(T - 1) : Nth(num.coef, i) = 0) /\ Nth(num.coef, T) # 0
    BY <1>1, <2>1 DEF ZerosBelow
  <2>4. AppendCanonical(num) = Number(num.neg, num.coef \div Pow10[T], 0, num.prec - T)
    BY <1>10, <2>2, <2>3, CanonicalFraction
  <2>5. m % 10 # 0 /\ m # 0
    <3>1. m % 10 # 0
      BY <1>6, <2>1 DEF Nth
    <3>2. 0 % 10 = 0
      OBVIOUS
    <3> QED BY <3>1, <3>2
  <2>6. PICK z \in 0..2*MaxPrec : \E k \in Nat :
          k % 10 # 0 /\ m = k * Pow10[z] /\ Spelled(l) = Number(IsNeg(l), k, z, Len(l.frac))
    BY <1>9, <2>5
  <2>7. PICK k \in Nat : m = k * Pow10[z] /\ Spelled(l) = Number(IsNeg(l), k, z, Len(l.frac))
    BY <2>6
  <2>8. z = 0
    <3>1. SUFFICES ASSUME z # 0 PROVE m % 10 = 0
      BY <2>5
    <3>2. z - 1 \in 0..(2*MaxPrec - 1) /\ (z - 1) + 1 = z
      BY <1>1, <3>1
    <3>3. Pow10[z - 1] \in Nat \ {0} /\ Pow10[z] = Pow10[z - 1] * 10
      BY <3>2, PowStep
    <3> DEFINE e == Pow10[z - 1]
               c == k * e
    <3>4. c \in Nat /\ m = k * (e * 10)
      BY <2>7, <3>3
    <3>5. k * (e * 10) = c * 10
      BY <3>3
    <3> HIDE DEF c, e
    <3>6. (c * 10) % 10 = 0
      BY <3>4
    <3> QED BY <3>4, <3>5, <3>6
  <2>9. m = k /\ k = num.coef \div Pow10[T]
    <3>1. Pow10[0] = 1 /\ k * 1 = k
      BY PowFacts
    <3> QED BY <1>6, <2>1, <2>7, <2>8, <3>1
  <2>10. Len(l.frac) = num.prec - T
    BY <1>3, <1>4, <1>11, <2>1
  <2>11. Spelled(l) = Number(num.neg, num.coef \div Pow10[T], 0, num.prec - T)
    BY <1>10, <2>7, <2>8, <2>9, <2>10
  <2> QED BY <1>1, <1>7, <2>4, <2>11 DEF l
<1>12. CASE ~Dotted
  <2>1. v = num.coef \div Pow10[num.prec] /\ T = 0
    BY <1>1, <1>12 DEF NumFacts, v
  <2>2. num.coef % Pow10[num.prec] = 0
    BY <1>12 DEF Dotted
  <2>3. m = v
    <3>1. Pow10[0] = 1 /\ v \div 1 = v
      BY <1>2, PowFacts
    <3> QED BY <1>6, <2>1, <3>1
  <2>4. /\ v = 0 => AppendCanonical(num) = Number(num.neg, 0, 0, 0)
        /\ \A z \in 0..2*MaxPrec, k \in Nat :
             v # 0 /\ k % 10 # 0 /\ v = k * Pow10[z] => AppendCanonical(num) = Number(num.neg, k, z, 0)
    BY <1>10, <2>1, <2>2, CanonicalInteger
  <2>5. Len(l.frac) = 0
    BY <1>3, <1>4, <1>12
  <2>6. Spelled(l) = AppendCanonical(num)
    <3>1. CASE m = 0
      BY <1>9, <1>10, <2>3, <2>4, <2>5, <3>1
    <3>2. CASE m # 0
      <4>1. PICK z \in 0..2*MaxPrec : \E k \in Nat :
          k % 10 # 0 /\ m = k * Pow10[z] /\ Spelled(l) = Number(IsNeg(l), k, z, Len(l.frac))
        BY <1>9, <3>2
      <4>2. PICK k \in Nat : k % 10 # 0 /\ m = k * Pow10[z] /\ Spelled(l) = Number(IsNeg(l), k, z, Len(l.frac))
        BY <4>1
      <4>3. AppendCanonical(num) = Number(num.neg, k, z, 0)
        BY <2>3, <2>4, <3>2, <4>2
      <4> QED BY <1>10, <2>5, <4>2, <4>3
    <3> QED BY <3>1, <3>2
  <2> QED BY <1>1, <1>7, <2>6 DEF l
<1> QED BY <1>11, <1>12

(* The canonical form has one shape only and spells the amount, for every  *)
(* limb size, precision and buffer: no zero between two chunks is lost and *)
(* none is left at the end (format.go:38, appendCanonical).                *)
THEOREM CanonicalAlwaysWritten == WireSpec => []CanonicalText
<1>1. WriterInv => CanonicalText
  <2> SUFFICES ASSUME WriterInv, Written, ~Fixed
               PROVE  /\ WellFormed
                      /\ FracDigits # <<>> => Last(FracDigits) # 0
                      /\ Spelled(LiteralOf(text)) = AppendCanonical(given)
    BY DEF CanonicalText
  <2>1. Finished
    BY DEF Finished, Written, Late
  <2> QED BY <2>1, Formed, CanonicalOne
<1> QED BY <1>1, WriterAlways, PTL

(* The number rounded, in the places shown.                                *)
Shown(n) == Smaller(n, MaxPrec)
Amount(r, n) == r.coef * Pow10[Shown(n) - r.prec]
AwayBy(d, r, n) == Amount(r, n) * Pow10[MaxPrec - Shown(n)] - Abs(Scaled(d))

(* What the fixed form rounds to is the nearest, ties away from zero.      *)
LEMMA RoundedAway ==
  ASSUME NEW d \in Decimals, NEW n \in Nat, n < d.prec
  PROVE  \E best \in Nat :
           /\ Round(d, n) = NewDecimal(best, d.neg, n) /\ best < Cap
           /\ RoundedTo(best, d.coef, Pow10[d.prec - n], d.neg, "ToNearestAway")
<1> DEFINE r == Round(d, n)
           den == Pow10[d.prec - n]
           c == d.coef
           neg == d.neg
           mode == "ToNearestAway"
           best == RoundedCoef(c, den, neg, mode)
<1>1. d.prec \in 0..MaxPrec /\ MaxPrec \in Nat /\ d.prec - n \in 0..2*MaxPrec
  <2>1. d.prec \in 0..MaxPrec /\ MaxPrec \in Nat
    BY DecimalFacts, PowFacts
  <2> DEFINE p == d.prec
  <2>2. p \in 0..MaxPrec /\ n < p
    BY <2>1
  <2> HIDE DEF p
  <2>3. p - n \in 0..2*MaxPrec
    BY <2>1, <2>2
  <2> QED BY <2>1, <2>3 DEF p
<1>2. den \in Nat \ {0} /\ c \in Nat /\ neg \in BOOLEAN /\ mode \in Modes
  <2>1. den \in Nat \ {0}
    BY <1>1, PowFacts
  <2>2. mode \in Modes
    BY DEF Modes
  <2> QED BY <2>1, <2>2, DecimalFacts
<1>3. RoundedReply(Ok(r), c, den, neg, n, mode)
  <2>1. ~(n >= d.prec)
    BY <1>1
  <2> QED BY <2>1, FamilyRoundsOnce DEF RoundsReceiver
<1>4. RoundsOnce(c, den, neg, n, mode, r, "nil")
  <2>1. Ok(r).val = r /\ Ok(r).err = "nil"
    BY DEF Ok
  <2> QED BY <1>3, <2>1 DEF RoundedReply
<1> DEFINE k == c \div den
           m == c % den
<1>5. k \in Nat /\ m \in 0..(den - 1) /\ c = k * den + m
  <2> HIDE DEF c, den
  <2>1. k \in Nat /\ m \in Nat /\ m < den
    BY <1>2, DivBelow
  <2>2. c = den * k + m
    BY <1>2, DivMod
  <2> HIDE DEF k, m
  <2> QED BY <1>2, <2>1, <2>2
<1>6. best = IF RoundsUp(mode, m # 0, Sign3(2 * m - den), IsOdd(k), neg) THEN k + 1 ELSE k
  BY DEF RoundedCoef, UpFrom
<1>7. /\ best \in Nat
      /\ RoundsOnce(c, den, neg, n, mode, r, "nil") =
              IF best >= Cap THEN "nil" = "Overflow"
              ELSE "nil" = "nil" /\ r = NewDecimal(best, neg, n)
  <2> HIDE DEF r, den, c, neg, mode
  <2> QED BY <1>2, RoundsOnceMeans
<1> HIDE DEF k, m, best, den, c, neg, mode, r
<1>8. RoundedTo(best, c, den, neg, mode)
  <2>1. RoundedTo(best, k * den + m, den, neg, mode)
    BY <1>2, <1>5, <1>6, RoundsUpCorrect
  <2> QED BY <1>5, <2>1
<1>9. r = NewDecimal(best, neg, n) /\ ~(best >= Cap)
  BY <1>4, <1>7
<1>10. best < Cap
  <2>1. Cap \in Nat
    BY CapFacts
  <2> QED BY <1>7, <1>9, <2>1
<1> QED BY <1>7, <1>8, <1>9, <1>10 DEF c, den, neg, mode, r

(* The amount rounded, in units of 10^-MaxPrec, is within half a unit of   *)
(* the last place shown; its sign goes when nothing is left.               *)
LEMMA FixedNearest ==
  ASSUME NEW d \in Decimals, NEW n \in Nat
  PROVE  LET r == Round(d, n)
             u == Pow10[MaxPrec - Shown(n)]
         IN  /\ r \in Decimals /\ r.prec <= Shown(n) /\ Shown(n) \in 0..MaxPrec /\ Amount(r, n) \in Nat
             /\ 2 * AwayBy(d, r, n) \in (1 - u)..u
             /\ r.neg <=> d.neg /\ Amount(r, n) # 0
<1> DEFINE r == Round(d, n)
           s == Shown(n)
           u == Pow10[MaxPrec - s]
           a == Amount(r, n)
           e == Pow10[s - r.prec]
<1>1. r \in Decimals /\ r.prec <= n
  BY RoundKeeps
<1>2. /\ r.prec \in 0..MaxPrec /\ r.coef \in Nat /\ r.neg \in BOOLEAN /\ MaxPrec \in Nat
      /\ (r.coef = 0 => r.neg = FALSE)
      /\ d.prec \in 0..MaxPrec /\ d.coef \in Nat /\ d.neg \in BOOLEAN /\ (d.coef = 0 => d.neg = FALSE)
  BY <1>1, DecimalFacts, PowFacts
<1>3. s \in 0..MaxPrec /\ r.prec <= s /\ (n <= MaxPrec => s = n) /\ (d.prec <= n => d.prec <= s)
  BY <1>1, <1>2 DEF Shown, Smaller
<1>4. e \in Nat \ {0} /\ u \in Nat \ {0} /\ a = r.coef * e
  <2>1. s - r.prec \in 0..2*MaxPrec /\ MaxPrec - s \in 0..2*MaxPrec
    BY <1>2, <1>3
  <2> QED BY <2>1, PowFacts DEF Amount
<1>5. Abs(Scaled(d)) = d.coef * Pow10[MaxPrec - d.prec] /\ Pow10[MaxPrec - d.prec] \in Nat \ {0}
  BY ScaledMagnitude
<1>6. AwayBy(d, r, n) = a * u - Abs(Scaled(d))
  BY DEF AwayBy
<1> HIDE DEF r, s, u, a, e
<1>7. a \in Nat /\ (a = 0 <=> r.coef = 0)
  <2> DEFINE c == r.coef
  <2>1. c \in Nat /\ e \in Nat /\ e >= 1 /\ a = c * e
    BY <1>2, <1>4
  <2> HIDE DEF c
  <2>2. c # 0 => c * e # 0
    BY <2>1
  <2>3. c = 0 => c * e = 0
    BY <2>1
  <2> QED BY <2>1, <2>2, <2>3 DEF c
<1>8. CASE d.prec <= n
  <2>1. r = d
    <3>1. n >= d.prec
      BY <1>2, <1>8
    <3> QED BY <3>1 DEF Round, r
  <2>2. a * u = d.coef * Pow10[MaxPrec - d.prec]
    <3> DEFINE c == d.coef
               p == d.prec
    <3>1. c \in Nat /\ p \in 0..MaxPrec /\ p <= s /\ a = c * e /\ e = Pow10[s - p] /\ u = Pow10[MaxPrec - s]
      BY <1>2, <1>3, <1>4, <1>8, <2>1 DEF e, u
    <3> HIDE DEF c, p
    <3>2. s - p \in 0..2*MaxPrec /\ MaxPrec - s \in 0..2*MaxPrec /\ (s - p) + (MaxPrec - s) = MaxPrec - p
          /\ (s - p) + (MaxPrec - s) <= 2*MaxPrec
      BY <1>2, <1>3, <3>1
    <3>3. Pow10[(s - p) + (MaxPrec - s)] = Pow10[s - p] * Pow10[MaxPrec - s]
      BY <3>2, PowFacts
    <3>4. Pow10[MaxPrec - p] = e * u
      BY <3>1, <3>2, <3>3
    <3>5. (c * e) * u = c * (e * u)
      BY <1>4, <3>1
    <3> QED BY <3>1, <3>4, <3>5 DEF c, p
  <2>3. AwayBy(d, r, n) = 0
    <3> DEFINE x == a * u
    <3>1. x \in Nat /\ AwayBy(d, r, n) = x - x
      BY <1>4, <1>5, <1>6, <1>7, <2>2
    <3> HIDE DEF x
    <3> QED BY <3>1
  <2>4. 2 * AwayBy(d, r, n) \in (1 - u)..u
    BY <1>4, <2>3
  <2>5. r.neg <=> d.neg /\ a # 0
    BY <1>2, <1>7, <2>1
  <2> QED BY <1>1, <1>3, <1>7, <2>4, <2>5 DEF r, s, u, a
<1>9. CASE n < d.prec
  <2> DEFINE den == Pow10[d.prec - n]
             w == Pow10[MaxPrec - d.prec]
             c == d.coef
  <2>1. PICK best \in Nat : /\ r = NewDecimal(best, d.neg, n) /\ best < Cap
                            /\ RoundedTo(best, c, den, d.neg, "ToNearestAway")
    BY <1>9, RoundedAway DEF r
  <2>2. s = n
    BY <1>2, <1>3, <1>9
  <2>3. a = best
    <3>1. CASE best = 0
      <4>1. r.coef = 0
        BY <2>1, <3>1 DEF NewDecimal, Zero
      <4> QED BY <1>7, <3>1, <4>1
    <3>2. CASE best # 0
      <4>1. r.coef = best /\ r.prec = n
        BY <2>1, <3>2 DEF NewDecimal, RawDecimal
      <4>2. e = 1
        <5>1. s - r.prec = 0
          BY <1>2, <1>3, <2>2, <4>1
        <5> QED BY <5>1, PowFacts DEF e
      <4> QED BY <1>4, <2>1, <4>1, <4>2
    <3> QED BY <3>1, <3>2
  <2>4. r.neg <=> d.neg /\ a # 0
    <3>1. CASE best = 0
      <4>1. r.coef = 0
        BY <2>1, <3>1 DEF NewDecimal, Zero
      <4> QED BY <1>2, <2>3, <3>1, <4>1
    <3>2. CASE best # 0
      BY <2>1, <2>3, <3>2 DEF NewDecimal, RawDecimal
    <3> QED BY <3>1, <3>2
  <2>5. c \in Nat /\ w \in Nat \ {0} /\ den \in Nat \ {0} /\ u = den * w
    <3> DEFINE p == d.prec
    <3>1. p \in 0..MaxPrec /\ n < p
      BY <1>2, <1>9
    <3> HIDE DEF p
    <3>2. /\ p - n \in 0..2*MaxPrec /\ MaxPrec - p \in 0..2*MaxPrec
          /\ (p - n) + (MaxPrec - p) = MaxPrec - n /\ (p - n) + (MaxPrec - p) <= 2*MaxPrec
      BY <1>2, <3>1
    <3>3. Pow10[(p - n) + (MaxPrec - p)] = Pow10[p - n] * Pow10[MaxPrec - p]
      BY <3>2, PowFacts
    <3>4. Pow10[p - n] \in Nat \ {0} /\ Pow10[MaxPrec - p] \in Nat \ {0}
      BY <3>2, PowFacts
    <3> QED BY <1>2, <2>2, <3>2, <3>3, <3>4 DEF p, u
  <2>6. 2 * (best * den - c) \in (1 - den)..den
    BY <2>1 DEF RoundedTo
  <2>7. AwayBy(d, r, n) = best * (den * w) - c * w
    BY <1>5, <1>6, <2>3, <2>5
  <2> HIDE DEF den, w, c
  <2>8. AwayBy(d, r, n) = (best * den - c) * w
    <3>1. best * (den * w) = (best * den) * w /\ best * den \in Nat
      BY <2>5
    <3> DEFINE x == best * den
    <3>2. x \in Nat /\ AwayBy(d, r, n) = x * w - c * w
      BY <2>7, <3>1
    <3> HIDE DEF x
    <3>3. x * w - c * w = (x - c) * w
      BY <2>5, <3>2
    <3> QED BY <3>2, <3>3 DEF x
  <2>9. 2 * AwayBy(d, r, n) \in (1 - u)..u
    <3> DEFINE y == best * den - c
    <3>1. y \in Int /\ 2 * y >= 1 - den /\ 2 * y <= den /\ AwayBy(d, r, n) = y * w
      <4> DEFINE x == best * den
      <4>1. x \in Nat
        BY <2>5
      <4> HIDE DEF x
      <4>2. x - c \in Int /\ 2 * (x - c) >= 1 - den /\ 2 * (x - c) <= den
        BY <2>5, <2>6, <4>1 DEF x
      <4> QED BY <2>8, <4>2 DEF x
    <3> HIDE DEF y
    <3>2. 2 * (y * w) = (2 * y) * w
      BY <2>5, <3>1
    <3> DEFINE z == 2 * y
    <3>3. z \in Int /\ z >= 1 - den /\ z <= den
      BY <3>1
    <3> HIDE DEF z
    <3>4. z * w <= den * w
      BY <2>5, <3>3
    <3>5. z * w >= (1 - den) * w
      BY <2>5, <3>3
    <3>6. (1 - den) * w = w - den * w
      BY <2>5
    <3>7. z * w \in Int /\ den * w \in Int /\ w >= 1
      BY <2>5, <3>3
    <3>8. z * w \in (1 - u)..u
      <4> DEFINE g == z * w
                 h == den * w
      <4>1. g \in Int /\ h \in Int /\ g <= h /\ g >= w - h /\ u = h /\ w \in Nat /\ w >= 1
        BY <2>5, <3>4, <3>5, <3>6, <3>7
      <4> HIDE DEF g, h
      <4>2. g \in (1 - u)..u
        BY <4>1
      <4> QED BY <4>2 DEF g
    <3> QED BY <3>1, <3>2, <3>8 DEF z
  <2> QED BY <1>1, <1>3, <1>7, <2>4, <2>9 DEF r, s, u, a
<1> QED BY <1>2, <1>8, <1>9

(* The fixed bytes show the places asked for and the amount rounded.       *)
LEMMA FixedOne ==
  ASSUME Finished, Fixed
  PROVE  LET shown == Smaller(places, MaxPrec)
             digits == IntDigits \o SubSeq(FracDigits, 1, shown)
             unit0 == Pow10[MaxPrec - shown]
             off == DigitsVal(digits) * unit0 - Abs(Scaled(given))
         IN  /\ Len(FracDigits) = places
             /\ 2 * off \in (1 - unit0)..unit0
             /\ \A i \in (shown + 1)..places : FracDigits[i] = 0
             /\ IsNeg(LiteralOf(text)) <=> given.neg /\ DigitsVal(digits) # 0
<1> DEFINE v == Whole
           p == Behind
           w == Lead
           M == Missing
           s == Smaller(places, MaxPrec)
           u == Ahead \o After
           first == SubSeq(After, 1, s)
           digits == Ahead \o first
<1>1. /\ v = num.coef /\ p = num.prec /\ places \in Nat /\ M = places - p /\ M \in Nat
      /\ MaxPrec \in Nat /\ Cut = 0 /\ w \in (p + 1)..(2*MaxPrec + 1)
      /\ (~Dotted => places = 0) /\ num = Round(given, places) /\ given \in Decimals
  <2>1. NumOK /\ NumFacts /\ MaxPrec \in Nat /\ Cut = 0 /\ w \in (p + 1)..(2*MaxPrec + 1) /\ M \in Nat
    BY FinishedFacts
  <2>2. v = num.coef /\ p = num.prec /\ places \in Nat /\ (Dotted <=> places > 0)
    BY <2>1 DEF NumFacts
  <2>3. M = places - p
    BY <2>2 DEF Missing
  <2>4. num = Round(given, places) /\ given \in Decimals
    BY <2>1 DEF NumOK
  <2>5. ~Dotted => places = 0
    <3>1. ~(places > 0) => places = 0
      BY <2>2
    <3> QED BY <2>2, <3>1
  <2> QED BY <2>1, <2>2, <2>3, <2>4, <2>5
<1>2. /\ p <= s /\ s \in 0..MaxPrec /\ s <= places /\ Amount(num, places) = v * Pow10[s - p]
      /\ 2 * AwayBy(given, num, places) \in (1 - Pow10[MaxPrec - s])..Pow10[MaxPrec - s]
      /\ AwayBy(given, num, places) = Amount(num, places) * Pow10[MaxPrec - s] - Abs(Scaled(given))
      /\ (num.neg <=> given.neg /\ Amount(num, places) # 0)
  <2>1. s <= places
    BY <1>1 DEF Smaller
  <2>2. Shown(places) = s
    BY DEF Shown
  <2>3. LET r == Round(given, places)
            z == Pow10[MaxPrec - Shown(places)]
         IN  /\ r \in Decimals /\ r.prec <= Shown(places) /\ Shown(places) \in 0..MaxPrec /\ Amount(r, places) \in Nat
             /\ 2 * AwayBy(given, r, places) \in (1 - z)..z
             /\ r.neg <=> given.neg /\ Amount(r, places) # 0
    BY <1>1, FixedNearest
  <2> HIDE DEF v, p, s
  <2>4. /\ num.prec <= Shown(places) /\ Shown(places) \in 0..MaxPrec
        /\ 2 * AwayBy(given, num, places) \in (1 - Pow10[MaxPrec - Shown(places)])..Pow10[MaxPrec - Shown(places)]
        /\ (num.neg <=> given.neg /\ Amount(num, places) # 0)
    BY <1>1, <2>3
  <2> QED BY <1>1, <2>1, <2>2, <2>4 DEF Amount, AwayBy
<1>3. /\ Ahead \in Runs /\ Len(Ahead) = w - p /\ After \in Runs /\ Len(After) = places
  <2>1. /\ Ahead \in Runs /\ Len(Ahead) = w - p /\ After \in Runs
        /\ Len(After) = (IF Dotted THEN p - Cut + M ELSE 0)
    BY Laid
  <2>2. p - 0 + (places - p) = places
    <3>1. p \in Nat
      BY FinishedFacts, SizedFacts
    <3> QED BY <1>1, <3>1
  <2>3. Len(After) = places
    BY <1>1, <2>1, <2>2
  <2> QED BY <2>1, <2>3
<1>4. p \in Nat /\ v \in Nat /\ w \in Nat
  <2>1. p \in Nat /\ v \in Nat
    BY FinishedFacts, SizedFacts
  <2> QED BY <1>1, <2>1
<1>5. /\ u \in Runs /\ Len(u) = w + M /\ w \in 1..(2*MaxPrec + 1)
      /\ Upto(u, w) = v /\ \A i \in (w + 1)..(w + M) : u[i] = 0
  <2>1. /\ u \in Runs /\ Len(u) = w - Cut + M /\ w - Cut \in 1..(2*MaxPrec + 1)
        /\ Upto(u, w - Cut) = v \div Pow10[Cut]
        /\ \A i \in (w - Cut + 1)..(w - Cut + M) : u[i] = 0
    BY Denoted
  <2>2. w - 0 = w /\ v \div 1 = v /\ Pow10[0] = 1
    BY <1>4, PowFacts
  <2> HIDE DEF u, w, v, M
  <2> QED BY <1>1, <2>1, <2>2
<1>6. IntDigits = Ahead /\ FracDigits = After /\ (IsNeg(LiteralOf(text)) <=> num.neg)
  BY Literally
<1> HIDE DEF v, p, w, M, s
<1>0. /\ p \in Nat /\ w \in Nat /\ M \in Nat /\ s \in Nat /\ places \in Nat /\ MaxPrec \in Nat
      /\ M = places - p /\ w >= p + 1 /\ p <= s /\ s <= MaxPrec /\ s <= places
  BY <1>1, <1>2, <1>4
<1>7. first \in Runs /\ Len(first) = s /\ \A i \in 1..s : first[i] = After[i]
  <2>1. 0 \in 0..Len(After) /\ s \in 0..Len(After) /\ 0 + 1 = 1 /\ s - 0 = s
    BY <1>1, <1>2, <1>3
  <2>2. LET t == SubSeq(After, 0 + 1, s)
        IN  /\ t \in Runs /\ Len(t) = s - 0
            /\ \A i \in 1..(s - 0) : t[i] = After[0 + i]
    BY <1>3, <2>1, Cutting
  <2>3. \A i \in 1..s : 0 + i = i
    BY <1>2
  <2> QED BY <2>1, <2>2, <2>3
<1>8. /\ digits \in Runs /\ Len(digits) = (w - p) + s
      /\ \A i \in 1..((w - p) + s) : digits[i] = u[i]
  <2> DEFINE x == Ahead
             y == After
  <2>1. x \in Runs /\ y \in Runs /\ first \in Runs /\ Len(x) = w - p /\ Len(y) = places /\ Len(first) = s
    BY <1>3, <1>7
  <2> HIDE DEF x, y, first
  <2>2. /\ x \o first \in Runs /\ Len(x \o first) = Len(x) + Len(first)
        /\ (\A i \in 1..Len(x) : (x \o first)[i] = x[i])
        /\ (\A i \in 1..Len(first) : (x \o first)[Len(x) + i] = first[i])
    BY <2>1, RunsJoin
  <2>3. /\ (\A i \in 1..Len(x) : (x \o y)[i] = x[i])
        /\ (\A i \in 1..Len(y) : (x \o y)[Len(x) + i] = y[i])
    BY <2>1, RunsJoin
  <2>4. ASSUME NEW i \in 1..((w - p) + s) PROVE (x \o first)[i] = (x \o y)[i]
    <3>1. CASE i <= w - p
      <4>1. i \in 1..Len(x)
        BY <1>0, <2>1, <3>1
      <4> QED BY <2>2, <2>3, <4>1
    <3>2. CASE i > w - p
      <4> DEFINE k == i - (w - p)
      <4>1. k \in 1..s /\ k \in 1..Len(y) /\ k \in 1..Len(first) /\ Len(x) + k = i
        BY <1>0, <2>1, <3>2
      <4>4. k \in 1..s /\ k \in 1..Len(y) /\ k \in 1..Len(first)
        BY <4>1
      <4> HIDE DEF k
      <4>2. first[k] = y[k]
        BY <1>7, <4>1 DEF y
      <4>3. (x \o first)[Len(x) + k] = first[k] /\ (x \o y)[Len(x) + k] = y[k]
        BY <2>2, <2>3, <4>1
      <4> QED BY <4>1, <4>2, <4>3
    <3>3. i <= w - p \/ i > w - p
      BY <1>0
    <3> QED BY <3>1, <3>2, <3>3
  <2> QED BY <2>1, <2>2, <2>4 DEF x, y
<1> HIDE DEF u, first, digits
<1>9. DigitsVal(digits) = v * Pow10[s - p]
  <2> DEFINE n == (w - p) + s
  <2>1. n \in 0..Len(digits) /\ n \in 0..Len(u) /\ n <= Len(u) /\ w \in 0..Len(u) /\ n \in w..Len(u)
        /\ n - w = s - p /\ n - w <= 2*MaxPrec /\ n = Len(digits)
    <3>1. Len(digits) = (w - p) + s /\ Len(u) = w + M
      BY <1>5, <1>8
    <3> QED BY <1>0, <3>1
  <2>2. \A i \in 1..n : digits[i] = u[i]
    BY <1>8
  <2>3. \A i \in (w + 1)..n : u[i] = 0
    <3>1. \A i \in (w + 1)..n : i \in (w + 1)..(w + M)
      BY <1>1, <1>2, <1>4
    <3> QED BY <1>5, <3>1
  <2> HIDE DEF n
  <2>4. Upto(digits, n) = Upto(u, n)
    BY <1>5, <1>8, <2>1, <2>2, SamePrefix
  <2>5. Upto(u, n) = Upto(u, w) * Pow10[n - w]
    BY <1>5, <2>1, <2>3, ZerosScale
  <2>6. Upto(digits, n) = DigitsVal(digits)
    BY <1>8, <2>1, DigitByDigit
  <2> QED BY <1>5, <2>1, <2>4, <2>5, <2>6
<1>10. \A i \in (s + 1)..places : After[i] = 0
  <2> SUFFICES ASSUME NEW i \in (s + 1)..places PROVE After[i] = 0
    OBVIOUS
  <2> DEFINE k == (w - p) + i
  <2>1. i \in 1..places /\ k \in (w + 1)..(w + M)
    BY <1>1, <1>2, <1>4
  <2> DEFINE x == Ahead
             y == After
  <2>2. x \in Runs /\ y \in Runs /\ Len(x) = w - p /\ i \in 1..Len(y)
    BY <1>3, <2>1
  <2> HIDE DEF x, y
  <2>3. (x \o y)[Len(x) + i] = y[i]
    BY <2>2, RunsJoin
  <2>4. u[k] = 0
    BY <1>5, <2>1
  <2> QED BY <2>2, <2>3, <2>4 DEF u, x, y
<1>11. Amount(num, places) = DigitsVal(digits)
  BY <1>2, <1>9
<1>12. /\ Len(FracDigits) = places /\ (\A i \in (s + 1)..places : FracDigits[i] = 0)
       /\ digits = IntDigits \o SubSeq(FracDigits, 1, s)
  BY <1>3, <1>6, <1>10 DEF digits, first
<1>13. /\ 2 * (DigitsVal(digits) * Pow10[MaxPrec - s] - Abs(Scaled(given))) \in (1 - Pow10[MaxPrec - s])..Pow10[MaxPrec - s]
       /\ (IsNeg(LiteralOf(text)) <=> given.neg /\ DigitsVal(digits) # 0)
  BY <1>2, <1>6, <1>11
<1> QED BY <1>12, <1>13 DEF s

(* StringFixed shows exactly the places asked for, and the digits are the  *)
(* amount rounded half away from zero, for every limb size, precision,     *)
(* buffer and request (format.go:315).                                     *)
THEOREM FixedAlwaysRounded == WireSpec => []FixedText
<1>1. WriterInv => FixedText
  <2> DEFINE shown == Smaller(places, MaxPrec)
             digits == IntDigits \o SubSeq(FracDigits, 1, shown)
             unit0 == Pow10[MaxPrec - shown]
             off == DigitsVal(digits) * unit0 - Abs(Scaled(given))
  <2> SUFFICES ASSUME WriterInv, Written, Fixed
               PROVE  /\ WellFormed /\ Len(FracDigits) = places
                      /\ 2 * off \in (1 - unit0)..unit0
                      /\ \A i \in (shown + 1)..places : FracDigits[i] = 0
                      /\ IsNeg(LiteralOf(text)) <=> given.neg /\ DigitsVal(digits) # 0
    BY DEF FixedText
  <2>1. Finished
    BY DEF Finished, Written, Late
  <2>2. WellFormed
    BY <2>1, Formed
  <2> QED BY <2>1, <2>2, FixedOne
<1> QED BY <1>1, WriterAlways, PTL

----------------------------------------------------------------------------
(* Strings, laid end to end.                                               *)

(* What the first units of a string come to, one after the other.          *)
Gathered(ss, m, v) ==
  /\ v \in [0..m -> Seq(Int)] /\ v[0] = <<>>
  /\ \A i \in 1..m : v[i] = v[i - 1] \o ss[i]

(* There are such prefixes.                                                *)
LEMMA GatheredExists ==
  ASSUME NEW n \in Nat, NEW ss, \A i \in 1..n : ss[i] \in Seq(Int)
  PROVE  \A m \in 0..n : \E v : Gathered(ss, m, v)
<1> DEFINE Bad == {m \in 0..n : ~\E v : Gathered(ss, m, v)}
<1>1. SUFFICES ASSUME Bad # {} PROVE FALSE
  OBVIOUS
<1>2. Bad \in SUBSET Nat
  OBVIOUS
<1>3. PICK m \in Bad : \A k \in Bad : m <= k
  <2> HIDE DEF Bad
  <2> QED BY <1>1, <1>2, LeastNatural
<1>4. m # 0
  <2> DEFINE v == [i \in 0..0 |-> <<>>]
  <2>1. <<>> \in Seq(Int)
    BY EmptySeq
  <2>2. Gathered(ss, 0, v)
    BY <2>1 DEF Gathered
  <2> QED BY <1>3, <2>2
<1>5. m \in 1..n /\ m - 1 \in 0..n /\ m - 1 \notin Bad
  BY <1>3, <1>4
<1>6. PICK v : Gathered(ss, m - 1, v)
  BY <1>5
<1> DEFINE last == v[m - 1] \o ss[m]
           w == [i \in 0..m |-> IF i < m THEN v[i] ELSE last]
<1>7. v \in [0..(m - 1) -> Seq(Int)] /\ v[0] = <<>> /\ \A i \in 1..(m - 1) : v[i] = v[i - 1] \o ss[i]
  BY <1>6 DEF Gathered
<1>8. last \in Seq(Int)
  <2>1. v[m - 1] \in Seq(Int) /\ ss[m] \in Seq(Int)
    BY <1>5, <1>7
  <2> QED BY <2>1, ConcatProperties
<1>9. Gathered(ss, m, w)
  <2>1. last = v[m - 1] \o ss[m]
    OBVIOUS
  <2> HIDE DEF last
  <2>2. w \in [0..m -> Seq(Int)] /\ w[0] = <<>>
    BY <1>5, <1>7, <1>8
  <2>3. ASSUME NEW i \in 1..m PROVE w[i] = w[i - 1] \o ss[i]
    <3>1. CASE i < m
      <4>1. i \in 1..(m - 1) /\ i \in 0..m /\ i - 1 \in 0..m /\ i - 1 < m
        BY <1>5, <3>1
      <4> QED BY <1>7, <3>1, <4>1
    <3>2. CASE i = m
      <4>1. m \in 0..m /\ m - 1 \in 0..m /\ m - 1 < m /\ ~(m < m)
        BY <1>5
      <4>2. w[m] = last /\ w[m - 1] = v[m - 1]
        BY <4>1
      <4> QED BY <2>1, <3>2, <4>2
    <3>3. i < m \/ i = m
      BY <1>5
    <3> QED BY <3>1, <3>2, <3>3
  <2> QED BY <2>2, <2>3 DEF Gathered
<1> QED BY <1>3, <1>9

Flat(ss, k) == FlattenSeq([i \in 1..k |-> ss[i]])

(* They end in what the library makes of the units.                        *)
LEMMA FlatIs ==
  ASSUME NEW n \in Nat, NEW ss, \A i \in 1..n : ss[i] \in Seq(Int), NEW v, Gathered(ss, n, v)
  PROVE  Flat(ss, n) = v[n]
<1> DEFINE seqs == [i \in 1..n |-> ss[i]]
<1>1. v \in [0..n -> Seq(Int)] /\ v[0] = <<>> /\ \A i \in 1..n : v[i] = v[i - 1] \o ss[i]
  BY DEF Gathered
<1>2. seqs \in Seq(Seq(Int)) /\ Len(seqs) = n
  OBVIOUS
<1>3. \A i \in 1..n : seqs[i] = ss[i]
  OBVIOUS
<1>4. CASE n = 0
  <2>1. seqs = <<>>
    BY <1>2, <1>4, EmptySeq
  <2> HIDE DEF seqs
  <2>2. FlattenSeq(seqs) = <<>>
    BY <1>2, <1>4, <2>1 DEF FlattenSeq
  <2> QED BY <1>1, <1>4, <2>2 DEF Flat, seqs
<1>5. CASE n # 0
  <2> DEFINE Body(f) == [i \in 1..n |-> IF i = 1 THEN seqs[i] ELSE f[i - 1] \o seqs[i]]
             h == CHOOSE f : f = Body(f)
             w == [i \in 1..n |-> v[i]]
  <2> HIDE DEF seqs
  <2>1. w = Body(w)
    <3>1. ASSUME NEW i \in 1..n
          PROVE  v[i] = IF i = 1 THEN seqs[i] ELSE w[i - 1] \o seqs[i]
      <4>1. CASE i = 1
        <5>1. v[1] = v[0] \o ss[1] /\ ss[1] \in Seq(Int)
          <6>1. 1 \in 1..n /\ 1 - 1 = 0
            BY <1>5
          <6> QED BY <1>1, <6>1
        <5>2. v[1] = ss[1]
          BY <1>1, <5>1, ConcatEmptySeq
        <5> QED BY <1>3, <4>1, <5>2
      <4>2. CASE i # 1
        <5>1. i - 1 \in 1..n
          BY <4>2
        <5>2. w[i - 1] = v[i - 1]
          BY <5>1
        <5> QED BY <1>1, <1>3, <4>2, <5>2
      <4> QED BY <4>1, <4>2
    <3> QED BY <3>1
  <2>2. h = Body(h)
    <3> HIDE DEF Body
    <3> QED BY <2>1
  <2>3. FlattenSeq(seqs) = h[n]
    BY <1>2, <1>5 DEF FlattenSeq
  <2> HIDE DEF h
  <2>4. \A i \in 1..n : h[i] = IF i = 1 THEN seqs[i] ELSE h[i - 1] \o seqs[i]
    <3>1. h = [i \in 1..n |-> IF i = 1 THEN seqs[i] ELSE h[i - 1] \o seqs[i]]
      BY <2>2
    <3> QED BY <3>1
  <2>5. \A i \in 1..n : w[i] = IF i = 1 THEN seqs[i] ELSE w[i - 1] \o seqs[i]
    <3>1. w = [i \in 1..n |-> IF i = 1 THEN seqs[i] ELSE w[i - 1] \o seqs[i]]
      BY <2>1
    <3> HIDE DEF w
    <3> QED BY <3>1
  <2> HIDE DEF Body
  <2> DEFINE T == {i \in 1..n : h[i] = w[i]}
  <2> HIDE DEF w
  <2>6. 1 \in T
    BY <1>5, <2>4, <2>5
  <2>7. ASSUME NEW k \in 1..(n - 1), k \in T
        PROVE  k + 1 \in T
    <3>1. k + 1 \in 1..n /\ k + 1 # 1 /\ (k + 1) - 1 = k /\ h[k] = w[k]
      BY <2>7
    <3> QED BY <2>4, <2>5, <3>1
  <2>8. n \in T
    <3>1. 1 \in Nat /\ n \in 1..n
      BY <1>5
    <3> HIDE DEF T
    <3> QED BY <2>6, <2>7, <3>1, Stepwise
  <2>9. w[n] = v[n]
    BY <1>5 DEF w
  <2> QED BY <2>3, <2>8, <2>9 DEF Flat, seqs
<1> QED BY <1>4, <1>5

(* Unit by unit.                                                           *)
LEMMA UnitByUnit ==
  ASSUME NEW n \in Nat, NEW ss, \A i \in 1..n : ss[i] \in Seq(Int)
  PROVE  /\ Flat(ss, 0) = <<>>
         /\ \A k \in 0..n : Flat(ss, k) \in Seq(Int)
         /\ \A k \in 0..(n - 1) : Flat(ss, k + 1) = Flat(ss, k) \o ss[k + 1]
<1>1. PICK v : Gathered(ss, n, v)
  <2>1. n \in 0..n
    OBVIOUS
  <2> QED BY <2>1, GatheredExists
<1>2. v \in [0..n -> Seq(Int)] /\ v[0] = <<>> /\ \A i \in 1..n : v[i] = v[i - 1] \o ss[i]
  BY <1>1 DEF Gathered
<1>3. ASSUME NEW k \in 0..n PROVE Flat(ss, k) = v[k] /\ v[k] \in Seq(Int)
  <2> DEFINE w == [i \in 0..k |-> v[i]]
  <2>1. w \in [0..k -> Seq(Int)] /\ w[0] = <<>> /\ w[k] = v[k]
    BY <1>2
  <2>2. ASSUME NEW i \in 1..k PROVE w[i] = w[i - 1] \o ss[i]
    <3>1. i \in 1..n /\ i \in 0..k /\ i - 1 \in 0..k
      OBVIOUS
    <3> QED BY <1>2, <3>1
  <2>3. Gathered(ss, k, w)
    BY <2>1, <2>2 DEF Gathered
  <2>4. k \in Nat /\ \A i \in 1..k : ss[i] \in Seq(Int)
    OBVIOUS
  <2> HIDE DEF w
  <2>5. Flat(ss, k) = w[k]
    BY <2>3, <2>4, FlatIs
  <2> QED BY <1>2, <2>1, <2>5
<1>4. 0 \in 0..n
  OBVIOUS
<1>5. ASSUME NEW k \in 0..(n - 1) PROVE Flat(ss, k + 1) = Flat(ss, k) \o ss[k + 1]
  <2>1. k \in 0..n /\ k + 1 \in 0..n /\ k + 1 \in 1..n /\ (k + 1) - 1 = k
    OBVIOUS
  <2> QED BY <1>2, <1>3, <2>1
<1> QED BY <1>2, <1>3, <1>4, <1>5

----------------------------------------------------------------------------
IsStrange(s) == \E i \in 1..Len(s) : s[i] = Other
UnitMeans(u) ==
  /\ Source(u) \in Seq(Int) /\ Target(u) \in Seq(Int)
  /\ Len(Source(u)) >= 1
  /\ u.ok => Len(Source(u)) <= 6 * Len(Target(u))
  /\ u.ok /\ ~u.escape => Source(u) = Target(u)
  /\ ~(u.ok /\ ~u.escape) => IsStrange(Source(u))
  /\ Len(Target(u)) = u.dst /\ u.dst \in Nat

(* A unit of n bytes none of which a literal has.                          *)
LEMMA StrangeUnit ==
  ASSUME NEW u, u # Plain(u.ch), u.src \in Nat, u.dst \in Nat, u.ch \in Int, u.src >= 1,
         u.ok => u.src <= 6 * u.dst,
         u.ok /\ ~u.escape => u.src = u.dst /\ u.ch = Other
  PROVE  UnitMeans(u)
<1> DEFINE n == u.src
           m == u.dst
<1>1. Source(u) = [i \in 1..n |-> Other] /\ Target(u) = [i \in 1..m |-> u.ch]
  BY DEF Source, Target
<1>2. Other \in Int
  BY DEF Other
<1>3. n \in Nat /\ m \in Nat /\ n >= 1
  OBVIOUS
<1> HIDE DEF n, m
<1>4. Source(u) \in Seq(Int) /\ Len(Source(u)) = n /\ Target(u) \in Seq(Int) /\ Len(Target(u)) = m
  BY <1>1, <1>2, <1>3
<1>5. Source(u)[1] = Other /\ 1 \in 1..Len(Source(u))
  BY <1>1, <1>3, <1>4
<1>6. u.ok /\ ~u.escape => Source(u) = Target(u)
  BY <1>1 DEF n, m
<1>7. IsStrange(Source(u))
  BY <1>5 DEF IsStrange
<1>8. u.ok => Len(Source(u)) <= 6 * Len(Target(u))
  BY <1>4 DEF n, m
<1> QED BY <1>3, <1>4, <1>6, <1>7, <1>8 DEF UnitMeans, n, m

(* A plain character takes one byte and is no escape.                      *)
LEMMA PlainFields ==
  ASSUME NEW u, u = Plain(u.ch)
  PROVE  u.ok = TRUE /\ u.escape = FALSE /\ u.src = 1
<1> DEFINE c == u.ch
<1>1. u = Plain(c)
  OBVIOUS
<1> HIDE DEF c
<1> QED BY <1>1 DEF Plain, Unit

(* What every unit of a string comes to.                                   *)
LEMMA UnitFacts ==
  ASSUME NEW u \in JSONUnits
  PROVE  UnitMeans(u)
<1>1. \A ch \in Alphabet : ch \in Int
  BY DEF Alphabet, Point, Minus, Plus, Other
<1>2. Other \in Int
  BY DEF Other
<1>3. ASSUME NEW ch \in Alphabet, u = Plain(ch) PROVE UnitMeans(u)
  <2>1. u.ok = TRUE /\ u.escape = FALSE /\ u.ch = ch /\ u.src = 1 /\ u.dst = 1
    BY <1>3 DEF Plain, Unit
  <2>2. Source(u) = <<ch>> /\ Target(u) = [i \in 1..1 |-> ch]
    BY <1>3, <2>1 DEF Source, Target
  <2>3. Target(u) \in Seq(Int) /\ Len(Target(u)) = 1 /\ Target(u)[1] = ch
    BY <1>1, <2>2
  <2>4. <<ch>> \in Seq(Int) /\ Len(<<ch>>) = 1 /\ <<ch>>[1] = ch
    BY <1>1
  <2>5. Target(u) = <<ch>>
    <3>1. \A i \in 1..Len(Target(u)) : Target(u)[i] = <<ch>>[i]
      BY <2>3, <2>4
    <3> QED BY <2>3, <2>4, <3>1, SeqEqual
  <2> QED BY <2>1, <2>2, <2>4, <2>5 DEF UnitMeans
<1>4. ASSUME NEW ch \in Alphabet, u = Hex(ch) PROVE UnitMeans(u)
  <2>1. u.ok = TRUE /\ u.escape = TRUE /\ u.ch = ch /\ u.src = 6 /\ u.dst = 1
    BY <1>4 DEF Hex, Unit
  <2>2. u # Plain(u.ch)
    BY <2>1, PlainFields
  <2> QED BY <1>1, <2>1, <2>2, StrangeUnit
<1>5. ASSUME NEW n \in 1..4, u = Stray(FALSE, n, n) PROVE UnitMeans(u)
  <2>1. CASE n = 1
    <3>1. u = Plain(Other) /\ Other \in Alphabet
      BY <1>5, <2>1 DEF Stray, Plain, Alphabet
    <3> QED BY <1>3, <3>1
  <2>2. CASE n # 1
    <3>1. u.ok = TRUE /\ u.escape = FALSE /\ u.ch = Other /\ u.src = n /\ u.dst = n
      BY <1>5 DEF Stray, Unit
    <3>2. u # Plain(u.ch)
      BY <2>2, <3>1, PlainFields
    <3> QED BY <1>2, <3>1, <3>2, StrangeUnit
  <2> QED BY <2>1, <2>2
<1>6. ASSUME NEW n \in Nat, NEW m \in Nat, n >= 1, n <= 6 * m, u = Stray(TRUE, n, m)
      PROVE  UnitMeans(u)
  <2>1. u.ok = TRUE /\ u.escape = TRUE /\ u.ch = Other /\ u.src = n /\ u.dst = m
    BY <1>6 DEF Stray, Unit
  <2>2. u # Plain(u.ch)
    BY <2>1, PlainFields
  <2> QED BY <1>2, <1>6, <2>1, <2>2, StrangeUnit
<1>7. ASSUME NEW n \in 1..12, NEW escape, u = Broken(escape, n)
      PROVE  UnitMeans(u)
  <2>1. u.ok = FALSE /\ u.ch = Other /\ u.src = n /\ u.dst = 0
    BY <1>7 DEF Broken, Unit
  <2>2. u # Plain(u.ch)
    BY <2>1, PlainFields
  <2> QED BY <1>2, <2>1, <2>2, StrangeUnit
<1>8. CASE u \in {Plain(ch) : ch \in Alphabet}
  BY <1>3, <1>8
<1>9. CASE u \in {Hex(ch) : ch \in Alphabet}
  BY <1>4, <1>9
<1>10. CASE u \in {Stray(FALSE, n, n) : n \in 1..4}
  BY <1>5, <1>10
<1>11. CASE u \in {Stray(TRUE, 2, 1), Stray(TRUE, 12, 4)}
  <2>1. u = Stray(TRUE, 2, 1) => UnitMeans(u)
    <3>1. 2 \in Nat /\ 1 \in Nat /\ 2 >= 1 /\ 2 <= 6 * 1
      OBVIOUS
    <3> QED BY <1>6, <3>1
  <2>2. u = Stray(TRUE, 12, 4) => UnitMeans(u)
    <3>1. 12 \in Nat /\ 4 \in Nat /\ 12 >= 1 /\ 12 <= 6 * 4
      OBVIOUS
    <3> QED BY <1>6, <3>1
  <2> QED BY <1>11, <2>1, <2>2
<1>12. CASE u \in {Stray(TRUE, 6, n) : n \in 1..3}
  <2>1. PICK n \in 1..3 : u = Stray(TRUE, 6, n)
    BY <1>12
  <2>2. 6 \in Nat /\ n \in Nat /\ 6 >= 1 /\ 6 <= 6 * n
    OBVIOUS
  <2> QED BY <1>6, <2>1, <2>2
<1>13. CASE u \in {Broken(FALSE, n) : n \in 1..4}
  <2>1. PICK n \in 1..4 : u = Broken(FALSE, n)
    BY <1>13
  <2>2. n \in 1..12
    OBVIOUS
  <2> QED BY <1>7, <2>1, <2>2
<1>14. CASE u \in {Broken(TRUE, n) : n \in 1..12}
  BY <1>7, <1>14
<1>15. \/ u \in {Plain(ch) : ch \in Alphabet} \/ u \in {Hex(ch) : ch \in Alphabet}
       \/ u \in {Stray(FALSE, n, n) : n \in 1..4}
       \/ u \in {Stray(TRUE, 2, 1), Stray(TRUE, 12, 4)} \/ u \in {Stray(TRUE, 6, n) : n \in 1..3}
       \/ u \in {Broken(FALSE, n) : n \in 1..4} \/ u \in {Broken(TRUE, n) : n \in 1..12}
  <2> DEFINE A == {Plain(ch) : ch \in Alphabet}
             B == {Hex(ch) : ch \in Alphabet}
             C == {Stray(FALSE, n, n) : n \in 1..4}
             D == {Stray(TRUE, 2, 1), Stray(TRUE, 12, 4)}
             E == {Stray(TRUE, 6, n) : n \in 1..3}
             F == {Broken(FALSE, n) : n \in 1..4}
             G == {Broken(TRUE, n) : n \in 1..12}
  <2>1. JSONUnits = A \cup B \cup C \cup D \cup E \cup F \cup G
    BY DEF JSONUnits
  <2> HIDE DEF A, B, C, D, E, F, G
  <2>2. \/ u \in A \/ u \in B \/ u \in C \/ u \in D \/ u \in E \/ u \in F \/ u \in G
    BY <2>1
  <2> QED BY <2>2 DEF A, B, C, D, E, F, G
<1> QED BY <1>8, <1>9, <1>10, <1>11, <1>12, <1>13, <1>14, <1>15

----------------------------------------------------------------------------
Told(b, k) == FlattenSeq([i \in 1..k |-> Target(b[i])])
Coded(b, k) == FlattenSeq([i \in 1..k |-> Source(b[i])])
Clean(b) == \A i \in 1..Len(b) : b[i].ok /\ ~b[i].escape
AllOK(b) == \A i \in 1..Len(b) : b[i].ok

(* A string grows unit by unit, coded and decoded.                         *)
LEMMA StringGrows ==
  ASSUME NEW b \in Seq(JSONUnits)
  PROVE  LET n == Len(b)
         IN  /\ n \in Nat /\ \A i \in 1..n : UnitMeans(b[i])
             /\ Encoded(b) = Coded(b, n) /\ Meant(b) = Told(b, n)
             /\ Told(b, 0) = <<>> /\ Coded(b, 0) = <<>>
             /\ \A k \in 0..n : Told(b, k) \in Seq(Int) /\ Coded(b, k) \in Seq(Int)
             /\ \A k \in 0..(n - 1) : /\ Told(b, k + 1) = Told(b, k) \o Target(b[k + 1])
                                      /\ Coded(b, k + 1) = Coded(b, k) \o Source(b[k + 1])
<1> DEFINE n == Len(b)
           x == [i \in 1..n |-> Target(b[i])]
           y == [i \in 1..n |-> Source(b[i])]
<1>1. n \in Nat /\ DOMAIN b = 1..n /\ \A i \in 1..n : b[i] \in JSONUnits
  OBVIOUS
<1>2. Encoded(b) = Coded(b, n) /\ Meant(b) = Told(b, n)
  BY <1>1 DEF Encoded, Coded, Meant, Told
<1> HIDE DEF n
<1>3. \A i \in 1..n : UnitMeans(b[i])
  BY <1>1, UnitFacts
<1>4. \A i \in 1..n : x[i] \in Seq(Int) /\ y[i] \in Seq(Int) /\ x[i] = Target(b[i]) /\ y[i] = Source(b[i])
  BY <1>3 DEF UnitMeans
<1> HIDE DEF x, y
<1>5. ASSUME NEW k \in 0..n PROVE Flat(x, k) = Told(b, k) /\ Flat(y, k) = Coded(b, k)
  <2>1. /\ [i \in 1..k |-> x[i]] = [i \in 1..k |-> Target(b[i])]
        /\ [i \in 1..k |-> y[i]] = [i \in 1..k |-> Source(b[i])]
    BY <1>1, <1>4
  <2> QED BY <2>1 DEF Flat, Told, Coded
<1>6. /\ Flat(x, 0) = <<>>
      /\ \A k \in 0..n : Flat(x, k) \in Seq(Int)
      /\ \A k \in 0..(n - 1) : Flat(x, k + 1) = Flat(x, k) \o x[k + 1]
  BY <1>1, <1>4, UnitByUnit
<1>7. /\ Flat(y, 0) = <<>>
      /\ \A k \in 0..n : Flat(y, k) \in Seq(Int)
      /\ \A k \in 0..(n - 1) : Flat(y, k + 1) = Flat(y, k) \o y[k + 1]
  BY <1>1, <1>4, UnitByUnit
<1>8. Told(b, 0) = <<>> /\ Coded(b, 0) = <<>>
  <2>1. 0 \in 0..n
    BY <1>1
  <2> QED BY <1>5, <1>6, <1>7, <2>1
<1>9. ASSUME NEW k \in 0..(n - 1)
      PROVE  Told(b, k + 1) = Told(b, k) \o Target(b[k + 1]) /\ Coded(b, k + 1) = Coded(b, k) \o Source(b[k + 1])
  <2>1. k \in 0..n /\ k + 1 \in 0..n /\ k + 1 \in 1..n
    BY <1>1
  <2> QED BY <1>4, <1>5, <1>6, <1>7, <2>1
<1>10. \A k \in 0..n : Told(b, k) \in Seq(Int) /\ Coded(b, k) \in Seq(Int)
  BY <1>5, <1>6, <1>7
<1> QED BY <1>1, <1>2, <1>3, <1>8, <1>9, <1>10 DEF n

(* Unit by unit, in lengths and in strange bytes.                          *)
LEMMA StringLengths ==
  ASSUME NEW b \in Seq(JSONUnits), NEW k \in 0..(Len(b) - 1)
  PROVE  LET u == b[k + 1]
         IN  /\ UnitMeans(u)
             /\ Len(Told(b, k)) \in Nat /\ Len(Coded(b, k)) \in Nat
             /\ Len(Target(u)) \in Nat /\ Len(Source(u)) \in Nat
             /\ Len(Told(b, k + 1)) = Len(Told(b, k)) + Len(Target(u))
             /\ Len(Coded(b, k + 1)) = Len(Coded(b, k)) + Len(Source(u))
             /\ IsStrange(Coded(b, k)) => IsStrange(Coded(b, k + 1))
             /\ IsStrange(Source(u)) => IsStrange(Coded(b, k + 1))
<1> DEFINE u == b[k + 1]
           s == Coded(b, k)
           t == Source(u)
           w == Coded(b, k + 1)
           d == Told(b, k)
           e == Target(u)
           f == Told(b, k + 1)
<1>1. Len(b) \in Nat /\ k \in 0..Len(b) /\ k + 1 \in 1..Len(b)
  OBVIOUS
<1>2. s \in Seq(Int) /\ d \in Seq(Int) /\ UnitMeans(u) /\ w = s \o t /\ f = d \o e
  BY <1>1, StringGrows
<1>3. t \in Seq(Int) /\ e \in Seq(Int)
  BY <1>2 DEF UnitMeans
<1> HIDE DEF s, t, w, d, e, f, u
<1>4. IsJoin(w, s, t) /\ IsJoin(f, d, e)
  BY <1>2, <1>3, SeqJoined
<1>5. ASSUME IsStrange(s) PROVE IsStrange(w)
  <2>1. PICK i \in 1..Len(s) : s[i] = Other
    BY <1>5 DEF IsStrange
  <2>2. i \in 1..Len(w) /\ w[i] = Other
    BY <1>4, <2>1 DEF IsJoin
  <2> QED BY <2>2 DEF IsStrange
<1>6. ASSUME IsStrange(t) PROVE IsStrange(w)
  <2>1. PICK i \in 1..Len(t) : t[i] = Other
    BY <1>6 DEF IsStrange
  <2>2. Len(s) \in Nat /\ Len(t) \in Nat /\ Len(w) = Len(s) + Len(t)
    BY <1>4 DEF IsJoin
  <2>3. Len(s) + i \in (Len(s) + 1)..(Len(s) + Len(t)) /\ (Len(s) + i) - Len(s) = i
    BY <2>1, <2>2
  <2>4. w[Len(s) + i] = t[i]
    BY <1>4, <2>3 DEF IsJoin
  <2>5. Len(s) + i \in 1..Len(w)
    BY <2>1, <2>2
  <2> QED BY <2>1, <2>4, <2>5 DEF IsStrange
<1> QED BY <1>2, <1>4, <1>5, <1>6 DEF IsJoin, s, t, w, d, e, f, u

(* Bytes that no literal has stay, and make a string of clean units only   *)
(* one that spells itself; decoding shortens a string by six at most.      *)
LEMMA StringFacts ==
  ASSUME NEW b \in Seq(JSONUnits), b # <<>>
  PROVE  /\ Encoded(b) \in Seq(Int) /\ Meant(b) \in Seq(Int) /\ Len(Encoded(b)) \in Nat /\ Len(Meant(b)) \in Nat
         /\ Len(Encoded(b)) >= 1
         /\ Clean(b) => Encoded(b) = Meant(b) /\ AllOK(b)
         /\ ~Clean(b) => IsStrange(Encoded(b))
         /\ AllOK(b) => Len(Encoded(b)) <= 6 * Len(Meant(b))
         /\ \A k \in 0..Len(b) : Len(Told(b, k)) \in Nat /\ Len(Told(b, k)) <= Len(Meant(b))
<1> DEFINE n == Len(b)
           x == [k \in 0..n |-> Len(Told(b, k))]
           y == [k \in 0..n |-> Len(Coded(b, k))]
<1>1. /\ n \in Nat /\ Encoded(b) = Coded(b, n) /\ Meant(b) = Told(b, n)
      /\ Told(b, 0) = <<>> /\ Coded(b, 0) = <<>>
      /\ \A k \in 0..n : Told(b, k) \in Seq(Int) /\ Coded(b, k) \in Seq(Int)
      /\ \A i \in 1..n : UnitMeans(b[i])
  BY StringGrows
<1>2. n >= 1
  BY <1>1
<1>3. ASSUME NEW k \in 0..(n - 1)
      PROVE  /\ x[k] \in Nat /\ y[k] \in Nat /\ Len(Target(b[k + 1])) \in Nat /\ Len(Source(b[k + 1])) \in Nat
             /\ x[k + 1] = x[k] + Len(Target(b[k + 1])) /\ y[k + 1] = y[k] + Len(Source(b[k + 1]))
             /\ Len(Source(b[k + 1])) >= 1
             /\ b[k + 1].ok => Len(Source(b[k + 1])) <= 6 * Len(Target(b[k + 1]))
             /\ IsStrange(Coded(b, k)) => IsStrange(Coded(b, k + 1))
             /\ IsStrange(Source(b[k + 1])) => IsStrange(Coded(b, k + 1))
  <2>1. k \in 0..n /\ k + 1 \in 0..n
    BY <1>1
  <2> QED BY <2>1, StringLengths DEF UnitMeans
<1>4. x[0] = 0 /\ y[0] = 0 /\ x[n] = Len(Meant(b)) /\ y[n] = Len(Encoded(b))
  BY <1>1
<1>5. \A k \in 0..n : x[k] \in Nat /\ y[k] \in Nat /\ x[k] = Len(Told(b, k))
  BY <1>1
<1> HIDE DEF n, x, y
<1>6. ASSUME NEW k \in 0..n PROVE x[k] <= x[n]
  <2> DEFINE T == {i \in k..n : x[k] <= x[i]}
  <2>1. k \in T
    BY <1>1, <1>5
  <2>2. ASSUME NEW i \in k..(n - 1), i \in T PROVE i + 1 \in T
    <3>1. i \in 0..(n - 1) /\ i + 1 \in k..n
      BY <1>1
    <3>2. x[i + 1] = x[i] + Len(Target(b[i + 1])) /\ x[i] \in Nat /\ Len(Target(b[i + 1])) \in Nat /\ x[k] <= x[i]
      BY <1>3, <2>2, <3>1
    <3>3. x[k] \in Nat
      BY <1>5
    <3> QED BY <3>1, <3>2, <3>3
  <2>3. n \in T
    <3>1. k \in Nat /\ n \in Nat /\ n \in k..n
      BY <1>1
    <3> HIDE DEF T
    <3> QED BY <2>1, <2>2, <3>1, Stepwise
  <2> QED BY <2>3
<1>7. y[n] >= 1
  <2> DEFINE T == {i \in 1..n : y[i] >= 1}
  <2>1. 1 \in T
    <3>1. 0 \in 0..(n - 1) /\ 0 + 1 = 1 /\ 1 \in 1..n
      BY <1>1, <1>2
    <3>2. y[0 + 1] = y[0] + Len(Source(b[0 + 1])) /\ Len(Source(b[0 + 1])) >= 1 /\ Len(Source(b[0 + 1])) \in Nat
      BY <1>3, <3>1
    <3> QED BY <1>4, <3>1, <3>2
  <2>2. ASSUME NEW i \in 1..(n - 1), i \in T PROVE i + 1 \in T
    <3>1. i \in 0..(n - 1) /\ i + 1 \in 1..n
      BY <1>1
    <3>2. y[i + 1] = y[i] + Len(Source(b[i + 1])) /\ y[i] \in Nat /\ Len(Source(b[i + 1])) \in Nat /\ y[i] >= 1
      BY <1>3, <2>2, <3>1
    <3> QED BY <3>1, <3>2
  <2>3. n \in T
    <3>1. 1 \in Nat /\ n \in Nat /\ n \in 1..n
      BY <1>1, <1>2
    <3> HIDE DEF T
    <3> QED BY <2>1, <2>2, <3>1, Stepwise
  <2> QED BY <2>3
<1>8. ASSUME AllOK(b) PROVE y[n] <= 6 * x[n]
  <2> DEFINE T == {i \in 0..n : y[i] <= 6 * x[i]}
  <2>1. 0 \in T
    BY <1>1, <1>4
  <2>2. ASSUME NEW i \in 0..(n - 1), i \in T PROVE i + 1 \in T
    <3>1. i + 1 \in 0..n /\ i + 1 \in 1..n
      BY <1>1
    <3>2. b[i + 1].ok
      BY <1>8, <3>1 DEF AllOK, n
    <3> DEFINE c == Len(Source(b[i + 1]))
               d == Len(Target(b[i + 1]))
    <3>3. /\ y[i + 1] = y[i] + c /\ x[i + 1] = x[i] + d /\ x[i] \in Nat /\ y[i] \in Nat
          /\ c \in Nat /\ d \in Nat /\ c <= 6 * d /\ y[i] <= 6 * x[i]
      BY <1>3, <2>2, <3>2
    <3> HIDE DEF c, d
    <3> QED BY <3>1, <3>3
  <2>3. n \in T
    <3>1. 0 \in Nat /\ n \in Nat /\ n \in 0..n
      BY <1>1
    <3> HIDE DEF T
    <3> QED BY <2>1, <2>2, <3>1, Stepwise
  <2> QED BY <2>3
<1>9. ASSUME ~Clean(b) PROVE IsStrange(Encoded(b))
  <2>1. PICK j \in 1..n : ~(b[j].ok /\ ~b[j].escape)
    BY <1>9 DEF Clean, n
  <2>2. IsStrange(Source(b[j]))
    BY <1>1, <2>1 DEF UnitMeans
  <2> DEFINE T == {i \in j..n : IsStrange(Coded(b, i))}
  <2>3. j \in T
    <3>1. j - 1 \in 0..(n - 1) /\ (j - 1) + 1 = j /\ j \in j..n
      BY <1>1
    <3>2. IsStrange(Source(b[(j - 1) + 1])) => IsStrange(Coded(b, (j - 1) + 1))
      BY <1>3, <3>1
    <3>3. IsStrange(Coded(b, j))
      BY <2>2, <3>1, <3>2
    <3> QED BY <3>1, <3>3
  <2>4. ASSUME NEW i \in j..(n - 1), i \in T PROVE i + 1 \in T
    <3>1. i \in 0..(n - 1) /\ i + 1 \in j..n
      BY <1>1
    <3> QED BY <1>3, <2>4, <3>1
  <2>5. n \in T
    <3>1. j \in Nat /\ n \in Nat /\ n \in j..n
      BY <1>1
    <3> HIDE DEF T
    <3> QED BY <2>3, <2>4, <3>1, Stepwise
  <2> QED BY <1>1, <2>5
<1>10. ASSUME Clean(b) PROVE Encoded(b) = Meant(b) /\ AllOK(b)
  <2>1. \A i \in 1..n : Source(b[i]) = Target(b[i])
    BY <1>1, <1>10 DEF Clean, UnitMeans, n
  <2>2. [i \in 1..n |-> Source(b[i])] = [i \in 1..n |-> Target(b[i])]
    BY <2>1
  <2>3. Coded(b, n) = Told(b, n)
    BY <2>2 DEF Coded, Told
  <2> QED BY <1>1, <1>10, <2>3 DEF Clean, AllOK
<1>11. Encoded(b) \in Seq(Int) /\ Meant(b) \in Seq(Int)
  <2>1. n \in 0..n
    BY <1>1
  <2> QED BY <1>1, <2>1
<1>12. n \in 0..n
  BY <1>1
<1> QED BY <1>4, <1>5, <1>6, <1>7, <1>8, <1>9, <1>10, <1>11, <1>12 DEF n

----------------------------------------------------------------------------
(* Whatever the bytes, the scanners see a literal of as many.              *)

(* The least element of a set of naturals is in it and below all others.   *)
LEMMA LeastFound ==
  ASSUME NEW S \in SUBSET Nat, S # {}
  PROVE  Min(S) \in S /\ \A x \in S : Min(S) <= x
<1>1. PICK m \in S : \A x \in S : m <= x
  BY LeastNatural
<1>2. Min(S) = m
  BY <1>1, LeastIs
<1> QED BY <1>1, <1>2

(* A literal without an exponent, read off the n bytes of t: k digits up   *)
(* to a byte that is none.                                                 *)
ReadOff(l, sign, t, k) ==
  /\ (sign \in {"", "-", "+"} => IsLiteral(l)) /\ l.sign = sign /\ l.exp = <<>> /\ l.tail \in {"end", "junk"}
  /\ k \in 0..Len(t) /\ (\A i \in 1..k : t[i] \in 0..9) /\ (k < Len(t) => t[k + 1] \notin 0..9)
  /\ l.zeros + Len(l.int) = k /\ (l.zeros > 0 <=> k > 0 /\ t[1] = 0)
  /\ l.zeros + Len(l.int) + PointLen(l) + l.junk = Len(t)
  /\ (\E i \in 1..Len(t) : t[i] \notin 0..9 \cup {Point}) => l.tail = "junk"

(* A slice of bytes that are all digits is a run.                          *)
LEMMA DigitSlice ==
  ASSUME NEW t, NEW a \in Nat, NEW b \in Nat, a <= b + 1, \A i \in a..b : t[i] \in 0..9
  PROVE  SubSeq(t, a, b) \in Seq(0..9) /\ Len(SubSeq(t, a, b)) = (b + 1) - a
<1>1. a \in Int /\ b \in Int
  OBVIOUS
<1>2. /\ SubSeq(t, a, b) \in Seq(0..9)
      /\ Len(SubSeq(t, a, b)) = IF a <= b THEN b - a + 1 ELSE 0
  BY <1>1, SubSeqProperties
<1>3. (IF a <= b THEN b - a + 1 ELSE 0) = (b + 1) - a
  OBVIOUS
<1> QED BY <1>2, <1>3

(* Reading a run and a point off any bytes.                                *)
LEMMA ReadsAny ==
  ASSUME NEW t \in Seq(Int), NEW sign
  PROVE  \E k : ReadOff(LiteralFrom(sign, t), sign, t, k)
<1> DEFINE n == Len(t)
           S1 == {n + 1} \cup
                   {i \in 1..n : \/ t[i] \notin 0..9 \cup {Point}
                                 \/ t[i] = Point /\ \E j \in 1..(i - 1) : t[j] = Point}
           stray == Min(S1)
           part == SubSeq(t, 1, stray - 1)
           S2 == {stray} \cup {i \in DOMAIN part : part[i] = Point}
           dot == Min(S2)
           S3 == {dot} \cup {i \in 1..(dot - 1) : part[i] # 0}
           sig == Min(S3)
           l == LiteralFrom(sign, t)
<1>0. n \in Nat /\ (\A i \in 1..n : t[i] \in Int)
  <2> HIDE DEF S1, l, S2, S3, stray, dot, sig, part
  <2> QED OBVIOUS
<1>1. n \in Nat /\ (\A i \in 1..n : t[i] \in Int) /\ Point = -1 /\ Point \notin 0..9
  <2> HIDE DEF n, S1, l, S2, S3, stray, dot, sig, part
  <2> QED BY <1>0 DEF Point
<1>2. l = Literal(sign, sig - 1, SubSeq(part, sig, dot - 1), dot < stray,
                  SubSeq(part, dot + 1, Len(part)), IF stray <= Len(t) THEN "junk" ELSE "end",
                  "", <<>>, Len(t) + 1 - stray)
  BY DEF LiteralFrom
<1> HIDE DEF l
<1>3. stray \in S1 /\ \A i \in S1 : stray <= i
  <2>1. S1 \in SUBSET Nat /\ S1 # {}
    BY <1>1
  <2> HIDE DEF S1
  <2> QED BY <2>1, LeastFound
<1> HIDE DEF stray
<1>4. stray \in 1..(n + 1)
  <2>1. n + 1 \in S1 /\ \A i \in S1 : i \in 1..(n + 1)
    BY <1>1
  <2> HIDE DEF S1
  <2> QED BY <1>3, <2>1
<1>5. ASSUME NEW i \in 1..(stray - 1)
      PROVE  /\ i \in 1..n /\ t[i] \in 0..9 \cup {Point}
             /\ ~(t[i] = Point /\ \E j \in 1..(i - 1) : t[j] = Point)
  <2>1. i \in 1..n /\ i \in Nat /\ stray \in Nat /\ ~(stray <= i)
    BY <1>1, <1>4
  <2>2. i \notin S1
    <3> HIDE DEF S1
    <3> QED BY <1>3, <2>1
  <2> QED BY <2>1, <2>2
<1>6. stray < n + 1 => \/ t[stray] \notin 0..9 \cup {Point}
                       \/ t[stray] = Point /\ \E j \in 1..(stray - 1) : t[j] = Point
  BY <1>1, <1>3, <1>4
<1>7. (\E i \in 1..n : t[i] \notin 0..9 \cup {Point}) => stray <= n
  <2> SUFFICES ASSUME NEW i \in 1..n, t[i] \notin 0..9 \cup {Point} PROVE stray <= n
    OBVIOUS
  <2>1. i \in S1
    OBVIOUS
  <2>2. stray <= i
    <3> HIDE DEF S1
    <3> QED BY <1>3, <2>1
  <2> QED BY <1>1, <1>4, <2>2
<1> HIDE DEF n, S1
<1>8. Len(part) = stray - 1 /\ DOMAIN part = 1..(stray - 1) /\ \A i \in 1..(stray - 1) : part[i] = t[i]
  <2>1. 1 \in Int /\ stray - 1 \in Int /\ \A i \in 1..(stray - 1) : t[i] \in Int
    BY <1>1, <1>4, <1>5
  <2>2. /\ part \in Seq(Int) /\ Len(part) = IF 1 <= stray - 1 THEN (stray - 1) - 1 + 1 ELSE 0
        /\ \A i \in 1..((stray - 1) - 1 + 1) : part[i] = t[1 + i - 1]
    BY <2>1, SubSeqProperties
  <2> HIDE DEF part
  <2>3. Len(part) = stray - 1
    BY <1>1, <1>4, <2>2
  <2>4. DOMAIN part = 1..Len(part)
    BY <2>2, LenProperties
  <2>5. ASSUME NEW i \in 1..(stray - 1) PROVE part[i] = t[i]
    <3>1. i \in 1..((stray - 1) - 1 + 1) /\ 1 + i - 1 = i
      BY <1>1, <1>4
    <3> QED BY <2>2, <3>1
  <2> QED BY <2>3, <2>4, <2>5
<1> HIDE DEF part
<1>9. dot \in S2 /\ \A i \in S2 : dot <= i
  <2>1. S2 \in SUBSET Nat /\ S2 # {}
    BY <1>1, <1>4, <1>8
  <2> HIDE DEF S2
  <2> QED BY <2>1, LeastFound
<1> HIDE DEF dot
<1>10. dot \in 1..stray
  <2>1. stray \in S2 /\ \A i \in S2 : i \in 1..stray
    BY <1>1, <1>4, <1>8
  <2> HIDE DEF S2
  <2> QED BY <1>9, <2>1
<1>11. ASSUME NEW i \in 1..(dot - 1) PROVE t[i] \in 0..9 /\ part[i] = t[i] /\ i \in 1..n
  <2>1. i \in 1..(stray - 1) /\ i \in Nat /\ dot \in Nat /\ ~(dot <= i)
    BY <1>1, <1>4, <1>10
  <2>2. i \notin S2
    <3> HIDE DEF S2
    <3> QED BY <1>9, <2>1
  <2>3. part[i] # Point
    BY <1>8, <2>1, <2>2
  <2> QED BY <1>5, <1>8, <2>1, <2>3
<1>12. dot < stray => t[dot] = Point
  BY <1>4, <1>8, <1>9, <1>10
<1>13. ASSUME dot < stray, NEW i \in (dot + 1)..(stray - 1) PROVE t[i] \in 0..9 /\ part[i] = t[i]
  <2>1. i \in 1..(stray - 1) /\ dot \in 1..(i - 1)
    BY <1>1, <1>4, <1>10
  <2>2. t[i] # Point
    BY <1>5, <1>12, <1>13, <2>1
  <2> QED BY <1>5, <1>8, <2>1, <2>2
<1> HIDE DEF S2
<1>14. sig \in S3 /\ \A i \in S3 : sig <= i
  <2>1. S3 \in SUBSET Nat /\ S3 # {}
    BY <1>1, <1>4, <1>10
  <2> HIDE DEF S3
  <2> QED BY <2>1, LeastFound
<1> HIDE DEF sig
<1>15. sig \in 1..dot
  <2>1. dot \in S3 /\ \A i \in S3 : i \in 1..dot
    BY <1>1, <1>4, <1>10
  <2> HIDE DEF S3
  <2> QED BY <1>14, <2>1
<1>16. sig > 1 <=> dot > 1 /\ t[1] = 0
  <2>1. ASSUME sig > 1 PROVE dot > 1 /\ t[1] = 0
    <3>1. 1 \in 1..(dot - 1) /\ ~(sig <= 1) /\ dot > 1
      BY <1>4, <1>10, <1>15, <2>1
    <3>2. 1 \notin S3
      <4> HIDE DEF S3
      <4> QED BY <1>14, <3>1
    <3> QED BY <1>11, <3>1, <3>2
  <2>2. ASSUME dot > 1, t[1] = 0 PROVE sig > 1
    <3>1. 1 \in 1..(dot - 1)
      BY <1>4, <1>10, <2>2
    <3>2. part[1] = 0
      BY <1>11, <2>2, <3>1
    <3>3. sig # 1
      BY <1>14, <2>2, <3>2
    <3> QED BY <1>4, <1>10, <1>15, <3>3
  <2> QED BY <2>1, <2>2
<1> HIDE DEF S3
<1> DEFINE x == SubSeq(part, sig, dot - 1)
           y == SubSeq(part, dot + 1, Len(part))
<1>17. x \in Seq(0..9) /\ Len(x) = dot - sig
  <2>1. sig \in Nat /\ dot - 1 \in Nat /\ sig <= (dot - 1) + 1 /\ ((dot - 1) + 1) - sig = dot - sig
    BY <1>1, <1>4, <1>10, <1>15
  <2>2. \A i \in sig..(dot - 1) : part[i] \in 0..9
    BY <1>1, <1>4, <1>10, <1>11, <1>15
  <2> QED BY <2>1, <2>2, DigitSlice
<1>18. y \in Seq(0..9) /\ (dot < stray => Len(y) = (stray - 1) - dot) /\ (~(dot < stray) => y = <<>>)
  <2>1. CASE dot < stray
    <3>1. /\ dot + 1 \in Nat /\ stray - 1 \in Nat /\ dot + 1 <= (stray - 1) + 1
          /\ ((stray - 1) + 1) - (dot + 1) = (stray - 1) - dot
      BY <1>1, <1>4, <1>10, <2>1
    <3>2. \A i \in (dot + 1)..(stray - 1) : part[i] \in 0..9
      BY <1>13, <2>1
    <3>3. /\ SubSeq(part, dot + 1, stray - 1) \in Seq(0..9)
          /\ Len(SubSeq(part, dot + 1, stray - 1)) = (stray - 1) - dot
      BY <3>1, <3>2, DigitSlice
    <3> QED BY <1>8, <2>1, <3>3
  <2>2. CASE ~(dot < stray)
    <3>1. dot + 1 \in Int /\ stray - 1 \in Int /\ stray - 1 < dot + 1
      BY <1>1, <1>4, <1>10, <2>2
    <3>2. y = <<>>
      BY <1>8, <3>1, SubSeqEmpty
    <3>3. <<>> \in Seq(0..9)
      BY EmptySeq
    <3> QED BY <2>2, <3>2, <3>3
  <2> QED BY <2>1, <2>2
<1>19. /\ l.sign = sign /\ l.zeros = sig - 1 /\ l.int = x /\ l.dot = (dot < stray) /\ l.frac = y
       /\ l.tail = (IF stray <= n THEN "junk" ELSE "end") /\ l.expSign = "" /\ l.exp = <<>>
       /\ l.junk = n + 1 - stray
  BY <1>2 DEF Literal, n
<1> HIDE DEF x, y
<1>20. l.zeros \in Nat /\ l.junk \in Nat /\ (l.tail = "end" <=> l.junk = 0) /\ l.dot \in BOOLEAN
  <2>1. sig - 1 \in Nat /\ n + 1 - stray \in Nat /\ (stray <= n <=> n + 1 - stray # 0)
    BY <1>1, <1>4, <1>15
  <2>2. l.zeros \in Nat /\ l.junk \in Nat /\ (l.junk = 0 <=> ~(stray <= n))
    BY <1>19, <2>1
  <2>3. l.tail = "end" <=> ~(stray <= n)
    BY <1>19, Zenon
  <2>4. l.dot \in BOOLEAN
    <3>1. l.dot = (dot < stray)
      BY <1>19, Zenon
    <3>2. (dot < stray) \in BOOLEAN
      OBVIOUS
    <3> QED BY <3>1, <3>2, Zenon
  <2> QED BY <2>2, <2>3, <2>4
<1>21. sign \in {"", "-", "+"} => IsLiteral(l)
  <2>1. <<>> \in Seq(0..9)
    BY EmptySeq
  <2>2. l.tail \in {"end", "junk"} /\ l.tail # "exp"
    BY <1>19
  <2> QED BY <1>17, <1>18, <1>19, <1>20, <2>1, <2>2 DEF IsLiteral
<1>22. PointLen(l) = (stray - dot)
  <2>1. CASE dot < stray
    <3>1. 1 + ((stray - 1) - dot) = stray - dot
      BY <1>1, <1>4, <1>10
    <3> QED BY <1>18, <1>19, <2>1, <3>1 DEF PointLen
  <2>2. CASE ~(dot < stray)
    <3>1. stray - dot = 0
      BY <1>1, <1>4, <1>10, <2>2
    <3> QED BY <1>19, <2>2, <3>1 DEF PointLen
  <2> QED BY <2>1, <2>2
<1> DEFINE k == dot - 1
<1>23. k \in 0..n /\ (k > 0 <=> dot > 1) /\ k + 1 = dot
  BY <1>1, <1>4, <1>10
<1>24. l.zeros + Len(l.int) = k /\ (l.zeros > 0 <=> sig > 1)
  <2>1. (sig - 1) + (dot - sig) = k /\ (sig - 1 > 0 <=> sig > 1)
    BY <1>1, <1>4, <1>10, <1>15
  <2> QED BY <1>17, <1>19, <2>1
<1>25. l.zeros + Len(l.int) + PointLen(l) + l.junk = n
  <2>1. (sig - 1) + (dot - sig) + (stray - dot) + (n + 1 - stray) = n
    BY <1>1, <1>4, <1>10, <1>15
  <2> QED BY <1>17, <1>19, <1>22, <2>1
<1>26. k < n => t[k + 1] \notin 0..9
  <2> SUFFICES ASSUME k < n PROVE t[dot] \notin 0..9
    BY <1>23
  <2>1. CASE dot < stray
    BY <1>1, <1>12, <2>1
  <2>2. CASE ~(dot < stray)
    <3>1. dot = stray /\ stray < n + 1
      BY <1>1, <1>4, <1>10, <2>2
    <3> QED BY <1>1, <1>6, <3>1
  <2> QED BY <2>1, <2>2
<1>27. \A i \in 1..k : t[i] \in 0..9
  BY <1>11
<1>28. (\E i \in 1..n : t[i] \notin 0..9 \cup {Point}) => l.tail = "junk"
  BY <1>7, <1>19
<1>29. l.tail \in {"end", "junk"}
  BY <1>19
<1> HIDE DEF k
<1>30. ReadOff(l, sign, t, k)
  BY <1>16, <1>19, <1>21, <1>23, <1>24, <1>25, <1>26, <1>27, <1>28, <1>29 DEF ReadOff, n
<1> QED BY <1>30 DEF l

----------------------------------------------------------------------------
(* What is written reads back.                                             *)

(* The first j digits are the number at p places; the others are zeros.    *)
PaddedTo(j, p) ==
  /\ IsLiteral(lit) /\ GrammarErr(lit) = "nil" /\ EndsPlain(lit)
  /\ p \in 0..MaxPrec /\ j \in 0..Len(Mantissa(lit))
  /\ j = (Len(Mantissa(lit)) - Len(lit.frac)) + p /\ Upto(Mantissa(lit), j) < Cap
  /\ \A i \in (j + 1)..Len(Mantissa(lit)) : Mantissa(lit)[i] = 0

(* A plain literal whose digits behind the first j are zeros: both modes   *)
(* answer with the number these j denote, at the places they leave.        *)
LEMMA PaddedAnswer ==
  ASSUME NEW p, NEW j, PaddedTo(j, p)
  PROVE  Right = Trimmed(Upto(Mantissa(lit), j), p)
<1> DEFINE M == Mantissa(lit)
           L == Len(M)
           f == Len(lit.frac)
           z == EndZeros(M)
           c == Upto(M, j)
           m == DigitsVal(Kept(lit))
<1>1. M \in Runs /\ L \in Nat /\ f \in Nat /\ lit.exp = <<>> /\ MaxPrec \in Nat
  BY MantissaFacts, LiteralBytes, PowFacts, DigitByDigit DEF PaddedTo
<1>2. Exp10(lit) = 0 /\ ExpOf(lit) = 0
  <2>1. lit.expSign = ""
    BY LiteralBytes DEF PaddedTo
  <2>2. Exp10(lit) = 0
    BY <1>1, ExponentRead DEF PaddedTo
  <2>3. ExpOf(lit) \in Int /\ ExpCap \in Nat
    BY ExponentRead, ParserAssumption, PowFacts DEF ExpCap, PaddedTo
  <2>4. ExpOf(lit) = Exp10(lit)
    BY <2>2, <2>3, ExponentRead DEF PaddedTo
  <2> QED BY <2>2, <2>4
<1>3. z \in 0..L /\ (\A i \in ((L - z) + 1)..L : M[i] = 0) /\ (z < L => M[L - z] # 0)
  BY <1>1, EndZerosFacts
<1>4. /\ Kept(lit) = SubSeq(M, 1, L - z) /\ m = Upto(M, L - z) /\ Mantissa(lit) = M /\ L = Len(M)
      /\ c = Upto(M, j) /\ c < Cap /\ p \in 0..MaxPrec /\ j \in 0..L /\ j = (L - f) + p /\ Len(lit.frac) = f
      /\ (\A i \in (j + 1)..L : M[i] = 0) /\ z = EndZeros(M)
  BY DEF Kept, Upto, PaddedTo
<1>5. IsLiteral(lit) /\ GrammarErr(lit) = "nil" /\ EndsPlain(lit)
  BY DEF PaddedTo
<1> HIDE DEF M, L, f, z, c, m
<1>a. L \in Nat /\ f \in Nat /\ p \in Nat /\ p <= MaxPrec /\ j \in Nat /\ j <= L /\ MaxPrec \in Nat
  BY <1>1, <1>4
<1>b. z \in Nat /\ z <= L
  BY <1>1, <1>3
<1>c. MaxPrec \in Nat
  BY <1>a
<1>6. CASE ~trunc
  <2>1. Right = ParseCore(Spelled(lit))
    BY <1>6 DEF Right
  <2>2. CASE Kept(lit) = <<>>
    <3>1. Right = Ok(Zero)
      BY <1>5, <2>1, <2>2, SpelledMeans
    <3>2. Len(Kept(lit)) + z = L /\ Len(Kept(lit)) = 0
      BY <1>4, <1>5, <2>2, KeptFacts, EmptySeq
    <3>3. z >= L
      BY <1>1, <1>3, <3>2
    <3>4. c = 0
      BY <1>1, <1>4, <3>3, AllZeros
    <3> QED BY <1>4, <3>1, <3>4, TrimmedZero
  <2>3. CASE Kept(lit) # <<>>
    <3>1. m \in Nat /\ m # 0 /\ m % 10 # 0
      BY <1>5, <2>3, KeptFacts DEF m
    <3>2. L - z <= j
      <4> SUFFICES ASSUME ~(L - z <= j) PROVE FALSE
        OBVIOUS
      <4>1. L - z \in (j + 1)..L /\ z < L
        BY <1>1, <1>3, <1>4
      <4> QED BY <1>3, <1>4, <4>1
    <3>3. L - z \in 0..L /\ j \in (L - z)..L /\ j \in Nat
      BY <1>a, <1>b, <3>2
    <3>4. \A i \in ((L - z) + 1)..j : M[i] = 0
      <4> SUFFICES ASSUME NEW i \in ((L - z) + 1)..j PROVE M[i] = 0
        OBVIOUS
      <4>1. i \in ((L - z) + 1)..L
        BY <1>a, <1>b
      <4> QED BY <1>3, <4>1
    <3>5. c \in Nat /\ Cap \in Nat
      BY <1>1, <1>4, DigitByDigit, CapFacts
    <3> DEFINE e == j - (L - z)
               b == L - z
    <3>6. e \in Nat /\ e = j - b /\ p - e = f - 0 - z
      <4>1. j = (L - f) + p
        BY <1>4
      <4> QED BY <1>a, <1>b, <3>2, <4>1
    <3>7. b \in 0..L /\ j \in b..L /\ (\A i \in (b + 1)..j : M[i] = 0) /\ m = Upto(M, b) /\ b \in 0..Len(M) /\ j \in b..Len(M)
      BY <1>4, <3>3, <3>4
    <3> HIDE DEF e, b
    <3>e. e \in Nat
      BY <3>6
    <3>8. e <= 2*MaxPrec
      <4> SUFFICES ASSUME ~(e <= 2*MaxPrec) PROVE FALSE
        OBVIOUS
      <4>1. e > 2*MaxPrec
        BY <1>c, <3>e
      <4>2. Upto(M, j) >= Cap
        BY <1>1, <3>1, <3>6, <3>7, <4>1, FarUp
      <4> QED BY <1>4, <3>5, <4>2
    <3>9. e \in 0..2*MaxPrec
      BY <1>c, <3>e, <3>8
    <3>10. c = m * Pow10[e]
      BY <1>1, <1>4, <3>6, <3>7, <3>8, ZerosScale
    <3>11. Trimmed(c, p) = Canonical(m, p - e)
      BY <1>4, <3>1, <3>9, <3>10, TrimmedIs
    <3>12. m < Cap
      <4> DEFINE t == Pow10[e]
      <4>1. t \in Nat \ {0}
        <5>1. t \in Nat /\ t >= 1
          BY <3>9, PowFacts
        <5> HIDE DEF t
        <5> QED BY <5>1
      <4>3. c = m * t
        BY <3>10
      <4> HIDE DEF t
      <4>2. m <= c
        BY <3>1, <4>1, <4>3
      <4> QED BY <1>4, <3>1, <3>5, <4>2
    <3>13. Right = Canonical(m, f - Exp10(lit) - z)
      BY <1>4, <1>5, <2>1, <2>3, <3>12, SpelledMeans DEF m
    <3> QED BY <1>2, <1>4, <3>6, <3>11, <3>13
  <2> QED BY <2>2, <2>3
<1>7. CASE trunc
  <2> DEFINE r == Placed(0)
             q0 == CutPlaces(0)
  <2>1. Right = CutAnswer(r)
    BY <1>2, <1>5, <1>7, CutAnswers DEF Right
  <2>2. /\ f \in 0..L /\ q0 = (L - f) + 0 + MaxPrec
        /\ r \in Runs /\ Len(r) \in Nat /\ (q0 >= 0 => Len(r) = q0)
        /\ (\A i \in 1..Len(r) : i <= L => r[i] = M[i]) /\ (\A i \in 1..Len(r) : ~(i <= L) => r[i] = 0)
        /\ (\A i \in 0..Len(r) : i <= L => Upto(r, i) = Upto(M, i))
    <3>1. 0 \in Int
      OBVIOUS
    <3> QED BY <1>5, <3>1, PlacedIs DEF M, L, f
  <2> HIDE DEF r, q0
  <2>3. Len(r) = (L - f) + MaxPrec
    BY <1>1, <2>2
  <2>4. j \in 0..Len(r) /\ j <= L /\ j = Len(r) - (MaxPrec - p)
    BY <1>1, <1>4, <2>2, <2>3
  <2>5. Upto(r, j) = c
    BY <1>4, <2>2, <2>4
  <2>6. \A i \in (j + 1)..Len(r) : r[i] = 0
    <3> SUFFICES ASSUME NEW i \in (j + 1)..Len(r) PROVE r[i] = 0
      OBVIOUS
    <3>1. i \in 1..Len(r) /\ (i <= L => i \in (j + 1)..L)
      BY <1>1, <1>4, <2>2, <2>4
    <3> QED BY <1>4, <2>2, <3>1
  <2>7. CutAnswer(r) = Trimmed(Upto(r, j), p)
    BY <1>4, <2>2, <2>4, <2>5, <2>6, AnswersTrimmed
  <2> QED BY <1>4, <2>1, <2>5, <2>7
<1> QED BY <1>6, <1>7 DEF M, c

(* Trimming keeps the number and leaves no zero at the end.                *)
LEMMA TrimIs ==
  ASSUME NEW d \in Decimals, IsNeg(lit) = d.neg
  PROVE  Trimmed(d.coef, d.prec) = Ok(Trim(d))
<1> DEFINE c == d.coef
           p == d.prec
           a == Trim(d)
<1>1. /\ c \in Nat /\ c < Cap /\ d.neg \in BOOLEAN /\ p \in 0..MaxPrec /\ (c = 0 => d = Zero)
      /\ d = [coef |-> c, neg |-> d.neg, prec |-> p]
  BY DecimalFacts
<1>2. a \in Decimals /\ Scaled(a) = Scaled(d) /\ Reduced(a)
  BY TrimReduces
<1>3. MaxPrec \in Nat /\ MaxPrec >= 1 /\ Cap \in Nat
  BY PowFacts, CapFacts
<1>4. CASE c = 0
  <2>1. Trimmed(c, p) = Ok(Zero)
    BY <1>1, <1>4, TrimmedZero
  <2>2. d = Zero /\ Zero.prec = 0
    BY <1>1, <1>4 DEF Zero
  <2>3. a = Zero
    BY <2>2 DEF Trim
  <2> QED BY <2>1, <2>3
<1>5. CASE c # 0
  <2>1. PICK t \in 0..p : c % Pow10[t] = 0 /\ (t = p \/ (c \div Pow10[t]) % 10 # 0)
    <3> DEFINE S == {k \in 0..p : c % Pow10[p - k] = 0}
    <3>1. p \in S /\ S \in SUBSET Nat
      <4>1. Pow10[0] = 1 /\ p - p = 0 /\ p \in 0..p /\ c % 1 = 0
        BY <1>1, <1>3, PowFacts
      <4> QED BY <4>1
    <3>2. PICK k \in S : \A x \in S : k <= x
      <4> HIDE DEF S
      <4> QED BY <3>1, LeastNatural
    <3>3. k \in 0..p /\ p - k \in 0..p /\ c % Pow10[p - k] = 0
      BY <1>1, <1>3
    <3>4. p - k = p \/ (c \div Pow10[p - k]) % 10 # 0
      <4> SUFFICES ASSUME p - k # p, (c \div Pow10[p - k]) % 10 = 0 PROVE FALSE
        OBVIOUS
      <4>1. k - 1 \in 0..p /\ ~(k <= k - 1) /\ p - (k - 1) = (p - k) + 1 /\ p - k \in 0..(2*MaxPrec - 1)
        BY <1>1, <1>3, <3>3
      <4> DEFINE g == Pow10[p - k]
                 y == c \div g
      <4>2. g \in Nat \ {0} /\ Pow10[(p - k) + 1] = g * 10
        BY <4>1, PowStep
      <4>3. c % g = 0 /\ y % 10 = 0
        BY <3>3
      <4>4. c = g * y
        <5> HIDE DEF g
        <5>1. c = g * (c \div g) + (c % g) /\ c \div g \in Nat
          BY <1>1, <4>2, DivMod, DivBelow
        <5>2. c % g = 0
          BY <4>3
        <5> DEFINE x == c \div g
        <5>3. x \in Nat /\ c = g * x + 0
          BY <5>1, <5>2
        <5> HIDE DEF x
        <5>4. c = g * x
          BY <4>2, <5>3
        <5> QED BY <5>4 DEF x
      <4>5. y \in Nat
        <5> HIDE DEF g
        <5> QED BY <1>1, <4>2, DivBelow
      <4> HIDE DEF g, y
      <4>6. y = 10 * (y \div 10) /\ y \div 10 \in Nat
        BY <4>3, <4>5
      <4> DEFINE h == y \div 10
      <4>7. h \in Nat /\ y = 10 * h
        BY <4>6
      <4> HIDE DEF h
      <4>8. c = (g * 10) * h /\ g * 10 \in Nat \ {0}
        BY <4>2, <4>4, <4>7
      <4> DEFINE w == g * 10
      <4>9. w \in Nat \ {0} /\ c = w * h
        BY <4>8
      <4> HIDE DEF w
      <4>10. c % w = 0
        <5>1. c = w * h + 0 /\ 0 \in 0..(w - 1) /\ c \in Int /\ h \in Int
          BY <1>1, <4>7, <4>9
        <5> HIDE DEF c
        <5>2. c % w = 0 /\ c \div w = h
          BY <4>9, <5>1, DivModUnique
        <5> QED BY <5>2
      <4>11. k - 1 \in S
        BY <4>1, <4>2, <4>10 DEF w
      <4> QED BY <3>2, <4>1, <4>11
    <3> QED BY <3>3, <3>4
  <2> DEFINE g == Pow10[t]
             v == c \div g
             b == NewDecimal(v, d.neg, p - t)
  <2>2. g \in Nat \ {0}
    <3>1. t \in 0..2*MaxPrec
      BY <1>1, <1>3
    <3> QED BY <3>1, PowFacts
  <2>3. v \in Nat /\ c = v * g /\ v <= c /\ v # 0
    <3>1. c % g = 0
      BY <2>1
    <3> HIDE DEF g
    <3>2. c = g * (c \div g) + (c % g) /\ c \div g \in Nat
      BY <1>1, <2>2, DivMod, DivBelow
    <3> DEFINE y == c \div g
    <3>3. y \in Nat /\ c = g * y
      <4>1. y \in Nat /\ c = g * y + 0
        BY <3>1, <3>2
      <4> HIDE DEF y
      <4> QED BY <2>2, <4>1
    <3> HIDE DEF y
    <3>4. c = y * g /\ y <= c /\ y # 0
      BY <1>1, <1>5, <2>2, <3>3
    <3> QED BY <3>3, <3>4 DEF y
  <2>4. t = p \/ v % 10 # 0
    BY <2>1
  <2> HIDE DEF v, g
  <2>5. Trimmed(v * Pow10[t], p) = Ok(NewDecimal(v, IsNeg(lit), p - t))
    BY <1>1, <2>1, <2>3, <2>4, TrimmedCut
  <2>6. b = [coef |-> v, neg |-> d.neg, prec |-> p - t]
    BY <2>3 DEF NewDecimal, RawDecimal
  <2>7. p - t \in 0..MaxPrec /\ MaxPrec - (p - t) = (MaxPrec - p) + t /\ MaxPrec - p \in 0..2*MaxPrec
        /\ t \in 0..2*MaxPrec /\ (MaxPrec - p) + t <= 2*MaxPrec /\ v < Cap
    BY <1>1, <1>3, <2>1, <2>3
  <2>8. b \in Decimals
    BY <1>1, <2>3, <2>6, <2>7, CapFacts DEF Decimals, U128, Zero
  <2>9. Reduced(b)
    <3>1. b.prec = p - t /\ b.coef = v
      BY <2>6
    <3>2. t = p => p - t = 0
      BY <1>1
    <3> QED BY <2>4, <3>1, <3>2 DEF Reduced
  <2>10. Scaled(b) = Scaled(d)
    <3>1. Scaled(b) = WithSign(v * Pow10[MaxPrec - (p - t)], d.neg) /\ Scaled(d) = WithSign(c * Pow10[MaxPrec - p], d.neg)
      BY <2>6, <2>8, ScaledMagnitude
    <3> DEFINE h == Pow10[MaxPrec - p]
    <3>2. Pow10[MaxPrec - (p - t)] = h * g /\ h \in Nat /\ g \in Nat
      BY <2>2, <2>7, PowFacts DEF g
    <3> HIDE DEF h
    <3>3. v * (h * g) = (v * g) * h
      BY <2>3, <3>2
    <3> QED BY <2>3, <3>1, <3>2, <3>3 DEF h
  <2>11. a = b
    BY <1>2, <2>8, <2>9, <2>10, ReducedUnique
  <2> QED BY <2>3, <2>5, <2>11 DEF g
<1> QED BY <1>4, <1>5

----------------------------------------------------------------------------
(* The literal of the bytes handed out: as long as they are, and, if that  *)
(* is not too long, without a flaw.                                        *)
LEMMA WrittenLiteral ==
  ASSUME Finished
  PROVE  LET l == LiteralOf(text)
         IN  /\ Bytes(l) = Len(text) /\ Len(text) \in Nat /\ Len(text) >= 1
             /\ ~Ungrammatical(l)
             /\ GrammarErr(l) = IF Len(text) > MaxParseLen THEN "MaxStrLen" ELSE "nil"
<1> DEFINE l == LiteralOf(text)
           a == One(l.sign # "")
           b == PointLen(l)
           e == Len(IntRun(l))
<1>1. /\ IsLiteral(l) /\ IntRun(l) = Ahead /\ l.frac = After /\ (l.dot <=> Dotted) /\ (IsNeg(l) <=> num.neg)
      /\ l.tail = "end" /\ l.sign \in {"", "-"}
  BY Literally DEF IntDigits, FracDigits
<1>2. Bytes(l) = a + e + b /\ e \in Nat /\ (NoInt(l) => e = 0)
  BY <1>1, BytesOf
<1>3. /\ Len(Ahead) = Lead - Behind
      /\ Len(After) = (IF Dotted THEN Behind - Cut + Missing ELSE 0)
      /\ Len(text) = (end - pos) + Missing
  BY Laid, TextIs
<1>4. /\ pos \in Nat /\ end \in Nat /\ Missing \in Nat /\ Start = pos + One(num.neg) /\ end - Start = Lead + Points - Cut
      /\ Lead \in (Behind + 1)..(2*MaxPrec + 1) /\ Cut \in 0..Behind /\ Behind \in Nat /\ MaxPrec \in Nat
      /\ Points = One(Dotted) /\ (~Dotted => Missing = 0 /\ Behind = 0)
  <2>1. Sized(Whole, Behind, Points)
    BY FinishedFacts
  <2>2. Behind \in Nat
    BY <2>1, SizedFacts
  <2> QED BY <2>2, FinishedFacts DEF Points
<1>5. a = One(num.neg) /\ One(num.neg) \in 0..1
  <2>1. l.sign = "-" <=> num.neg
    BY <1>1 DEF IsNeg
  <2>2. l.sign # "" <=> num.neg
    BY <1>1, <2>1
  <2>3. One(num.neg) \in 0..1
    BY DEF One
  <2> DEFINE n == One(num.neg)
  <2>4. (num.neg /\ a = 1 /\ n = 1) \/ (~num.neg /\ a = 0 /\ n = 0)
    <3> HIDE DEF l
    <3>1. CASE num.neg
      BY <2>2, <3>1, Zenon DEF One
    <3>2. CASE ~num.neg
      BY <2>2, <3>2, Zenon DEF One
    <3> QED BY <3>1, <3>2, Zenon
  <2> HIDE DEF a, n
  <2>5. (a = 1 /\ n = 1) \/ (a = 0 /\ n = 0)
    BY <2>4, Zenon
  <2>6. a = n /\ n \in 0..1
    BY <2>5
  <2> QED BY <2>6, Zenon DEF n
<1>6. (Dotted => b = 1 + Len(After) /\ Points = 1) /\ (~Dotted => b = 0 /\ Points = 0)
  BY <1>1, <1>4 DEF PointLen, One
<1>7. /\ e = Lead - Behind /\ e >= 1
  <2>1. e = Lead - Behind
    BY <1>1, <1>3
  <2> HIDE DEF e
  <2>2. Lead \in (Behind + 1)..(2*MaxPrec + 1) /\ Behind \in Nat /\ MaxPrec \in Nat
    BY <1>4
  <2> QED BY <2>1, <2>2
<1> HIDE DEF l, a, b, e
<1>8. Bytes(l) = Len(text) /\ Len(text) \in Nat /\ Len(text) >= 1
  <2> DEFINE n == One(num.neg)
             w == Lead
             p == Behind
             T == Cut
             M == Missing
             o == Points
             s == Start
  <2>1. /\ pos \in Nat /\ end \in Nat /\ M \in Nat /\ s = pos + n /\ end - s = w + o - T /\ n \in 0..1 /\ a = n
        /\ w \in Int /\ T \in Int /\ p \in Nat /\ e = w - p /\ T <= p /\ e >= 1 /\ Len(text) = (end - pos) + M
    BY <1>3, <1>4, <1>5, <1>7
  <2>2. (Dotted => b = 1 + (p - T + M) /\ o = 1) /\ (~Dotted => b = 0 /\ o = 0 /\ M = 0 /\ p = 0 /\ T = 0)
    BY <1>3, <1>4, <1>6
  <2> HIDE DEF n, w, p, T, M, o, s
  <2>3. a + e + b = (end - pos) + M /\ (end - pos) + M >= 1
    <3>1. end - pos = n + (w + o - T)
      BY <2>1
    <3>2. CASE Dotted
      BY <2>1, <2>2, <3>1, <3>2
    <3>3. CASE ~Dotted
      BY <2>1, <2>2, <3>1, <3>3
    <3> QED BY <3>2, <3>3
  <2>4. (end - pos) + M \in Int
    BY <2>1
  <2> QED BY <1>2, <2>1, <2>3, <2>4
<1>9. ~Ungrammatical(l)
  <2>1. ~NoInt(l)
    BY <1>2, <1>7
  <2>2. l.dot => l.frac # <<>>
    BY Formed, <1>1, Literally DEF WellFormed, l
  <2>3. ~BadExponent(l)
    BY <1>1 DEF BadExponent
  <2> QED BY <2>1, <2>2, <2>3 DEF Ungrammatical
<1>10. GrammarErr(l) = IF Len(text) > MaxParseLen THEN "MaxStrLen" ELSE "nil"
  <2>1. Bytes(l) # 0 /\ (Bytes(l) > MaxParseLen <=> Len(text) > MaxParseLen)
    BY <1>8
  <2> QED BY <1>9, <2>1 DEF GrammarErr
<1> QED BY <1>8, <1>9, <1>10 DEF l

(* What has been written reads back, by either parser.                     *)
LEMMA ReadBackRight ==
  ASSUME Finished, lit = LiteralOf(text), trunc \in BOOLEAN
  PROVE  Right = IF Len(text) > MaxParseLen THEN Fail("MaxStrLen") ELSE Ok(Trim(num))
<1>1. /\ IsLiteral(lit) /\ IntRun(lit) = Ahead /\ lit.frac = After /\ (lit.dot <=> Dotted) /\ (IsNeg(lit) <=> num.neg)
      /\ lit.tail = "end"
  BY Literally DEF IntDigits, FracDigits
<1>2. GrammarErr(lit) = IF Len(text) > MaxParseLen THEN "MaxStrLen" ELSE "nil"
  BY WrittenLiteral
<1>3. CASE Len(text) > MaxParseLen
  BY <1>1, <1>2, <1>3, RefusedRight
<1>4. CASE ~(Len(text) > MaxParseLen)
  <2> DEFINE M == Mantissa(lit)
             v == Whole
             w == Lead
             T == Cut
             p == Behind
             N == Missing
             j == w - T
             d == p - T
  <2>1. /\ M \in Runs /\ Len(M) = w - T + N /\ w - T \in 1..(2*MaxPrec + 1)
        /\ Upto(M, w - T) = v \div Pow10[T]
        /\ \A i \in (w - T + 1)..(w - T + N) : M[i] = 0
    BY <1>1, Denoted DEF Mantissa
  <2>2. /\ NumFacts /\ Sized(v, p, Points) /\ N \in Nat /\ T \in 0..p /\ (Dotted /\ ~Fixed => T < p /\ ZerosBelow(v, T) /\ Nth(v, T) # 0)
        /\ (~(Dotted /\ ~Fixed) => T = 0) /\ (~Dotted => N = 0 /\ p = 0)
    BY FinishedFacts
  <2>3. v \in Nat /\ v < Cap /\ p \in Nat /\ p <= MaxPrec /\ MaxPrec \in Nat
    BY <2>2, SizedFacts
  <2>4. Len(lit.frac) = (IF Dotted THEN p - T + N ELSE 0)
    BY <1>1, Laid
  <2>5. num \in Decimals /\ IsNeg(lit) = num.neg
    <3>1. num \in Decimals /\ num.neg \in BOOLEAN
      BY <2>2, DecimalFacts DEF NumFacts
    <3> QED BY <1>1, <3>1 DEF IsNeg
  <2>6. num.coef \in Nat /\ num.coef < Cap /\ num.prec \in 0..MaxPrec
    BY <2>5, DecimalFacts
  <2>7. /\ (Dotted => p = num.prec /\ v = num.coef)
        /\ (~Dotted => p = 0 /\ v = num.coef \div Pow10[num.prec])
        /\ (Fixed => p = num.prec /\ v = num.coef)
        /\ (~Dotted => (Fixed \/ num.coef % Pow10[num.prec] = 0))
    BY <2>2 DEF NumFacts, Dotted
  <2>8. GrammarErr(lit) = "nil" /\ EndsPlain(lit)
    BY <1>1, <1>2, <1>4 DEF EndsPlain
  <2> DEFINE y == v \div Pow10[T]
  <2> HIDE DEF M, v, w, T, p, N
  <2>9. Pow10[T] \in Nat \ {0} /\ y \in Nat /\ y <= v /\ T \in 0..2*MaxPrec
    <3>1. T \in 0..2*MaxPrec
      BY <2>2, <2>3
    <3> DEFINE g == Pow10[T]
    <3>2. g \in Nat \ {0}
      BY <3>1, PowFacts
    <3> HIDE DEF g
    <3>3. v \div g \in Nat /\ v \div g <= v
      BY <2>3, <3>2, DivBelow
    <3> QED BY <3>1, <3>2, <3>3 DEF g
  <2>10. y < Cap
    <3> HIDE DEF y
    <3>1. Cap \in Nat
      BY CapFacts
    <3> QED BY <2>3, <2>9, <3>1
  <2>11. d \in 0..MaxPrec /\ j \in 0..Len(M) /\ j = (Len(M) - Len(lit.frac)) + d
    <3>1. CASE Dotted
      <4>1. Len(lit.frac) = p - T + N
        BY <2>4, <3>1
      <4> HIDE DEF y
      <4> DEFINE x == Len(lit.frac)
                 z == Len(M)
      <4>2. x = p - T + N /\ z = w - T + N /\ w - T \in 1..(2*MaxPrec + 1) /\ N \in Nat /\ T \in 0..p
        BY <2>1, <2>2, <4>1
      <4> QED BY <2>3, <4>2
    <3>2. CASE ~Dotted
      <4>1. Len(lit.frac) = 0 /\ N = 0 /\ p = 0 /\ T = 0
        BY <2>2, <2>4, <3>2
      <4>2. Len(M) = w - T + N /\ w - T \in 1..(2*MaxPrec + 1)
        BY <2>1
      <4> QED BY <2>3, <4>1, <4>2
    <3> QED BY <3>1, <3>2
  <2>12. Upto(M, j) = y
    BY <2>1
  <2>13. \A i \in (j + 1)..Len(M) : M[i] = 0
    BY <2>1
  <2>14. Right = Trimmed(y, d)
    <3> HIDE DEF j, d, y
    <3> QED BY <1>1, <2>8, <2>10, <2>11, <2>12, <2>13, PaddedAnswer DEF M, PaddedTo
  <2>15. Trimmed(y, d) = Trimmed(num.coef, num.prec)
    <3>1. CASE Dotted /\ ~Fixed
      <4>1. p = num.prec /\ v = num.coef /\ T < p /\ ZerosBelow(v, T) /\ Nth(v, T) # 0 /\ T \in 0..p
        BY <2>2, <2>7, <3>1
      <4>2. y % 10 # 0
        BY <4>1 DEF Nth
      <4>3. v = y * Pow10[T]
        <5>1. v % Pow10[T] = 0
          BY <2>3, <2>9, <4>1, ZerosMean
        <5> DEFINE g == Pow10[T]
        <5>2. v % g = 0 /\ y = v \div g
          BY <5>1
        <5>a. g \in Nat \ {0}
          BY <2>9
        <5> HIDE DEF g, y
        <5>b. v \in Nat
          BY <2>3
        <5>3. v = g * (v \div g) + (v % g) /\ v \div g \in Nat
          BY <5>a, <5>b, DivMod, DivBelow
        <5>4. v = g * y + 0 /\ y \in Nat
          BY <5>2, <5>3
        <5>5. v = y * g
          BY <5>a, <5>4
        <5> QED BY <5>5 DEF g
      <4>4. Trimmed(y * Pow10[T], p) = Ok(NewDecimal(y, IsNeg(lit), p - T))
        <5>1. p \in 0..MaxPrec /\ T \in 0..p
          BY <2>2, <2>3
        <5> HIDE DEF y
        <5> QED BY <2>9, <4>2, <5>1, TrimmedCut
      <4>5. Trimmed(y * Pow10[0], d) = Ok(NewDecimal(y, IsNeg(lit), d - 0))
        <5>1. 0 \in 0..d
          BY <2>2, <2>3
        <5> HIDE DEF y, d
        <5> QED BY <2>9, <2>11, <4>2, <5>1, TrimmedCut
      <4>6. y * Pow10[0] = y /\ d - 0 = d
        BY <2>2, <2>3, <2>9, PowFacts
      <4> QED BY <4>1, <4>3, <4>4, <4>5, <4>6
    <3>2. CASE Fixed
      <4>1. T = 0 /\ p = num.prec /\ v = num.coef
        BY <2>2, <2>7, <3>2
      <4>2. Pow10[0] = 1 /\ v \div 1 = v /\ p - 0 = p
        BY <2>3, PowFacts
      <4> QED BY <4>1, <4>2
    <3>3. CASE ~Dotted /\ ~Fixed
      <4> DEFINE g == Pow10[num.prec]
                 c == num.coef
      <4>1. T = 0 /\ p = 0 /\ v = c \div g /\ c % g = 0
        BY <2>2, <2>7, <3>3
      <4>2. g \in Nat \ {0}
        <5>1. num.prec \in 0..2*MaxPrec
          BY <2>3, <2>6
        <5> QED BY <5>1, PowFacts
      <4>3. Pow10[0] = 1 /\ v \div 1 = v
        BY <2>3, PowFacts
      <4>4. y = v /\ d = 0
        BY <4>1, <4>3
      <4>5. c = v * g
        <5>1. c \in Nat
          BY <2>6
        <5> HIDE DEF g, c
        <5>2. c = g * (c \div g) + (c % g) /\ c \div g \in Nat
          BY <4>2, <5>1, DivMod, DivBelow
        <5>3. c = g * v + 0 /\ v \in Nat
          BY <4>1, <5>2
        <5> QED BY <4>2, <5>3
      <4>6. Trimmed(v * Pow10[num.prec], num.prec) = Ok(NewDecimal(v, IsNeg(lit), num.prec - num.prec))
        <5>1. num.prec \in 0..num.prec
          BY <2>6
        <5> QED BY <2>3, <2>6, <5>1, TrimmedCut
      <4>7. num.prec - num.prec = 0
        BY <2>6
      <4>8. Trimmed(v, 0) = Ok(NewDecimal(v, IsNeg(lit), 0))
        BY <2>3, TrimmedInteger
      <4> QED BY <4>4, <4>5, <4>6, <4>7, <4>8
    <3> QED BY <3>1, <3>2, <3>3
  <2>16. Trimmed(num.coef, num.prec) = Ok(Trim(num))
    BY <2>5, TrimIs
  <2> QED BY <1>4, <2>14, <2>15, <2>16
<1> QED BY <1>3, <1>4

----------------------------------------------------------------------------
(* The bytes behind the sign.                                              *)
LEMMA UnsignedFacts ==
  ASSUME NEW bytes \in Seq(Int)
  PROVE  LET t == Unsigned(bytes)
         IN  \E s \in 0..1 :
               /\ t \in Seq(Int) /\ Len(t) \in Nat /\ Len(bytes) = Len(t) + s
               /\ \A i \in 1..Len(t) : t[i] = bytes[i + s]
               /\ s = 1 <=> Len(bytes) >= 1 /\ bytes[1] \in {Plus, Minus}
               /\ SignOf(bytes) = IF s = 0 THEN "" ELSE IF bytes[1] = Minus THEN "-" ELSE "+"
<1> DEFINE n == Len(bytes)
           t == Unsigned(bytes)
<1>1. n \in Nat /\ (n >= 1 <=> bytes # <<>>) /\ \A i \in 1..n : bytes[i] \in Int
  BY EmptySeq
<1>2. Head(bytes) = bytes[1]
  OBVIOUS
<1>3. Signed0(bytes) <=> n >= 1 /\ bytes[1] \in {Plus, Minus}
  BY <1>1, <1>2 DEF Signed0
<1>4. CASE Signed0(bytes)
  <2>1. t = SubSeq(bytes, 2, n)
    BY <1>4 DEF Unsigned
  <2>2. n >= 1 /\ 2 \in Int /\ n \in Int /\ \A i \in 2..n : bytes[i] \in Int
    BY <1>1, <1>3, <1>4
  <2>3. /\ t \in Seq(Int) /\ Len(t) = (IF 2 <= n THEN n - 2 + 1 ELSE 0)
        /\ \A i \in 1..(n - 2 + 1) : t[i] = bytes[2 + i - 1]
    BY <2>1, <2>2, SubSeqProperties
  <2> HIDE DEF t, n
  <2>4. Len(t) = n - 1 /\ Len(t) \in Nat
    BY <1>1, <2>2, <2>3
  <2>5. \A i \in 1..Len(t) : t[i] = bytes[i + 1]
    <3> SUFFICES ASSUME NEW i \in 1..Len(t) PROVE t[i] = bytes[i + 1]
      OBVIOUS
    <3>1. i \in 1..(n - 2 + 1) /\ 2 + i - 1 = i + 1
      BY <1>1, <2>4
    <3> QED BY <2>3, <3>1
  <2>6. SignOf(bytes) = IF bytes[1] = Minus THEN "-" ELSE "+"
    BY <1>2, <1>4 DEF SignOf
  <2>7. Len(bytes) = Len(t) + 1 /\ (Len(bytes) >= 1 /\ bytes[1] \in {Plus, Minus})
    BY <1>1, <1>3, <1>4, <2>4 DEF n
  <2>8. 1 \in 0..1 /\ ~(1 = 0) /\ 1 = 1
    OBVIOUS
  <2> QED BY <2>3, <2>4, <2>5, <2>6, <2>7, <2>8 DEF t
<1>5. CASE ~Signed0(bytes)
  <2>1. t = bytes /\ SignOf(bytes) = ""
    BY <1>5 DEF Unsigned, SignOf
  <2>2. \A i \in 1..n : i + 0 = i
    BY <1>1
  <2>3. n + 0 = n /\ 0 \in 0..1 /\ ~(0 = 1) /\ 0 = 0 /\ ~(n >= 1 /\ bytes[1] \in {Plus, Minus})
    BY <1>1, <1>3, <1>5
  <2> QED BY <1>1, <2>1, <2>2, <2>3
<1> QED BY <1>4, <1>5

(* Too many bytes, or one that no literal has.                             *)
LEMMA LiteralOfAny ==
  ASSUME NEW bytes \in Seq(Int)
  PROVE  LET l == LiteralOf(bytes)
         IN  /\ IsLiteral(l) /\ Bytes(l) = Len(bytes)
             /\ IsStrange(bytes) => l.tail = "junk"
             /\ \E s \in 0..1 : \E k \in 0..(Len(bytes) - s) :
                  /\ s = 1 <=> Len(bytes) >= 1 /\ bytes[1] \in {Plus, Minus}
                  /\ l.sign = IF s = 0 THEN "" ELSE IF bytes[1] = Minus THEN "-" ELSE "+"
                  /\ (\A i \in 1..k : bytes[i + s] \in 0..9) /\ (k + s < Len(bytes) => bytes[k + 1 + s] \notin 0..9)
                  /\ Len(IntRun(l)) = k /\ (l.zeros > 0 <=> k > 0 /\ bytes[1 + s] = 0)
<1> DEFINE t == Unsigned(bytes)
           l == LiteralOf(bytes)
           n == Len(t)
<1>1. PICK s \in 0..1 :
        /\ t \in Seq(Int) /\ n \in Nat /\ Len(bytes) = n + s
        /\ \A i \in 1..n : t[i] = bytes[i + s]
        /\ s = 1 <=> Len(bytes) >= 1 /\ bytes[1] \in {Plus, Minus}
        /\ SignOf(bytes) = IF s = 0 THEN "" ELSE IF bytes[1] = Minus THEN "-" ELSE "+"
  BY UnsignedFacts
<1> DEFINE sg == SignOf(bytes)
<1>2. l = LiteralFrom(sg, t)
  BY LiteralSplit
<1> HIDE DEF t, l, sg
<1>3. PICK k : ReadOff(l, sg, t, k)
  BY <1>1, <1>2, ReadsAny
<1>4. sg \in {"", "-", "+"} /\ (sg = "" <=> s = 0) /\ sg = IF s = 0 THEN "" ELSE IF bytes[1] = Minus THEN "-" ELSE "+"
  BY <1>1 DEF sg
<1>5. IsLiteral(l) /\ l.sign = sg /\ l.tail \in {"end", "junk"}
  BY <1>3, <1>4 DEF ReadOff
<1>6. /\ k \in 0..n /\ (\A i \in 1..k : t[i] \in 0..9) /\ (k < n => t[k + 1] \notin 0..9)
      /\ l.zeros + Len(l.int) = k /\ (l.zeros > 0 <=> k > 0 /\ t[1] = 0)
      /\ l.zeros + Len(l.int) + PointLen(l) + l.junk = n
      /\ (\E i \in 1..n : t[i] \notin 0..9 \cup {Point}) => l.tail = "junk"
  BY <1>3 DEF ReadOff
<1>a. n \in Nat /\ s \in 0..1 /\ Len(bytes) = n + s
  BY <1>1
<1>b. k \in 0..n
  BY <1>6
<1>c. \A i \in 1..n : t[i] = bytes[i + s]
  BY <1>1
<1> HIDE DEF n
<1>7. l.zeros \in Nat /\ Len(l.int) \in Nat /\ PointLen(l) \in Nat /\ l.junk \in Nat /\ TailLen(l) = l.junk
  <2>1. l.zeros \in Nat /\ l.junk \in Nat /\ Len(l.int) \in Nat /\ Len(l.frac) \in Nat /\ l.dot \in BOOLEAN
    BY <1>5, LiteralBytes DEF IsLiteral
  <2>2. PointLen(l) \in Nat
    BY <2>1 DEF PointLen
  <2>3. l.tail # "exp"
    BY <1>5
  <2>4. TailLen(l) = l.junk + 0
    BY <2>3 DEF TailLen
  <2> QED BY <2>1, <2>2, <2>4
<1>8. PICK sn \in 0..1 : Bytes(l) = sn + l.zeros + Remaining(l) /\ (sn = 0 <=> l.sign = "")
  BY <1>5, LiteralBytes
<1>9. sn = s
  <2>1. sn = 0 <=> s = 0
    BY <1>4, <1>5, <1>8
  <2> QED BY <2>1
<1>10. Remaining(l) = Len(l.int) + PointLen(l) + TailLen(l)
  BY DEF Remaining
<1>11. Bytes(l) = Len(bytes)
  <2> DEFINE a == l.zeros
             b == Len(l.int)
             c == PointLen(l)
             d == l.junk
             e == Remaining(l)
  <2>1. a \in Nat /\ b \in Nat /\ c \in Nat /\ d \in Nat /\ e = b + c + d /\ a + b + c + d = n
    BY <1>6, <1>7, <1>10
  <2>2. Bytes(l) = s + a + e
    BY <1>8, <1>9
  <2> HIDE DEF a, b, c, d, e
  <2>3. s + a + e = n + s
    BY <2>1
  <2> QED BY <1>1, <2>2, <2>3
<1>12. IsStrange(bytes) => l.tail = "junk"
  <2> SUFFICES ASSUME IsStrange(bytes) PROVE \E i \in 1..n : t[i] \notin 0..9 \cup {Point}
    BY <1>6
  <2>1. PICK i \in 1..Len(bytes) : bytes[i] = Other
    BY DEF IsStrange
  <2>2. Other \notin 0..9 \cup {Point} /\ Other \notin {Plus, Minus}
    BY DEF Other, Point, Plus, Minus
  <2>3. s = 1 => i # 1
    BY <1>1, <2>1, <2>2
  <2>4. i - s \in 1..n /\ (i - s) + s = i
    BY <1>a, <2>1, <2>3
  <2>5. t[i - s] = Other
    BY <1>c, <2>1, <2>4
  <2> QED BY <2>2, <2>4, <2>5
<1>13. Len(IntRun(l)) = k
  BY <1>5, <1>6, MantissaFacts
<1>14. k \in 0..(Len(bytes) - s)
  BY <1>a, <1>b
<1>15. \A i \in 1..k : bytes[i + s] \in 0..9
  <2> SUFFICES ASSUME NEW i \in 1..k PROVE bytes[i + s] \in 0..9
    OBVIOUS
  <2>1. i \in 1..n
    BY <1>a, <1>b
  <2> QED BY <1>c, <1>6, <2>1
<1>16. k + s < Len(bytes) => bytes[k + 1 + s] \notin 0..9
  <2> SUFFICES ASSUME k + s < Len(bytes) PROVE bytes[k + 1 + s] \notin 0..9
    OBVIOUS
  <2>1. k < n /\ k + 1 \in 1..n /\ (k + 1) + s = k + 1 + s
    BY <1>a, <1>b
  <2>2. t[k + 1] = bytes[(k + 1) + s]
    BY <1>c, <2>1
  <2> QED BY <1>6, <2>1, <2>2
<1>17. l.zeros > 0 <=> k > 0 /\ bytes[1 + s] = 0
  <2>1. k > 0 => 1 \in 1..n
    BY <1>a, <1>b
  <2>2. k > 0 => t[1] = bytes[1 + s]
    BY <1>1, <2>1
  <2> QED BY <1>6, <2>2
<1>18. l.sign = IF s = 0 THEN "" ELSE IF bytes[1] = Minus THEN "-" ELSE "+"
  BY <1>4, <1>5
<1>19. s = 1 <=> Len(bytes) >= 1 /\ bytes[1] \in {Plus, Minus}
  BY <1>1
<1> QED BY <1>5, <1>11, <1>12, <1>13, <1>14, <1>15, <1>16, <1>17, <1>18, <1>19 DEF l

----------------------------------------------------------------------------
(* A string of units, coded and decoded.                                   *)
Coding(b) == LiteralOf(Encoded(b))
Meaning(b) == LiteralOf(Meant(b))

(* The literals a string spells, coded and decoded.                        *)
LEMMA CodedLiterals ==
  ASSUME NEW b \in Seq(JSONUnits), b # <<>>
  PROVE  /\ IsLiteral(Coding(b)) /\ IsLiteral(Meaning(b))
         /\ Bytes(Coding(b)) = Len(Encoded(b)) /\ Bytes(Meaning(b)) = Len(Meant(b))
         /\ ~Clean(b) => Coding(b).tail = "junk" /\ Bytes(Coding(b)) # 0
         /\ Clean(b) => Coding(b) = Meaning(b)
<1>1. /\ Encoded(b) \in Seq(Int) /\ Meant(b) \in Seq(Int) /\ Len(Encoded(b)) \in Nat /\ Len(Encoded(b)) >= 1
      /\ (Clean(b) => Encoded(b) = Meant(b)) /\ (~Clean(b) => IsStrange(Encoded(b)))
  BY StringFacts
<1>2. /\ IsLiteral(Coding(b)) /\ Bytes(Coding(b)) = Len(Encoded(b))
      /\ IsStrange(Encoded(b)) => Coding(b).tail = "junk"
  BY <1>1, LiteralOfAny DEF Coding
<1>3. IsLiteral(Meaning(b)) /\ Bytes(Meaning(b)) = Len(Meant(b))
  BY <1>1, LiteralOfAny DEF Meaning
<1>4. Clean(b) => Coding(b) = Meaning(b)
  BY <1>1 DEF Coding, Meaning
<1>5. Bytes(Coding(b)) # 0
  BY <1>1, <1>2
<1> QED BY <1>1, <1>2, <1>3, <1>4, <1>5

(* Bytes that no literal has are refused, and so are too many.             *)
LEMMA JunkRefused ==
  ASSUME NEW l, l.tail = "junk", Bytes(l) # 0
  PROVE  ParseCore(Spelled(l)).err \in {"InvalidFormat", "MaxStrLen"}
<1>1. GrammarErr(l) \in {"InvalidFormat", "MaxStrLen"}
  BY DEF GrammarErr, Ungrammatical, BadExponent
<1>2. Spelled(l) \in {Malformed, TooLong}
  BY <1>1 DEF Spelled
<1>3. CASE Spelled(l) = Malformed
  <2>1. ParseCore(Malformed).err = "InvalidFormat"
    BY DEF ParseCore, Malformed, NotNumber, Fail
  <2> QED BY <1>3, <2>1
<1>4. CASE Spelled(l) = TooLong
  <2>1. ParseCore(TooLong).err = "MaxStrLen"
    BY DEF ParseCore, TooLong, NotNumber, Fail
  <2> QED BY <1>4, <2>1
<1> QED BY <1>2, <1>3, <1>4

(* Too many bytes are refused as such.                                     *)
LEMMA LongRefused ==
  ASSUME NEW l, Bytes(l) \in Nat, Bytes(l) > MaxParseLen
  PROVE  ParseCore(Spelled(l)) = Fail("MaxStrLen")
<1>1. Bytes(l) # 0
  BY ParserAssumption
<1>2. GrammarErr(l) = "MaxStrLen"
  BY <1>1 DEF GrammarErr
<1>3. Spelled(l) = TooLong
  BY <1>2 DEF Spelled
<1> QED BY <1>3 DEF ParseCore, TooLong, NotNumber

(* The answer to what a string decodes to.                                 *)
Meaningful(b, res) ==
  IF AllOK(b) THEN res = ParseCore(Spelled(Meaning(b)))
  ELSE res.err \in {"InvalidFormat", "MaxStrLen"}
(* The property of quoted strings, said of the answer.                     *)
LEMMA QuotedIs == body \in Seq(JSONUnits) => (QuotedMeans <=> Meaningful(body, out))
<1> SUFFICES ASSUME body \in Seq(JSONUnits) PROVE QuotedMeans <=> Meaningful(body, out)
  OBVIOUS
<1>1. DOMAIN body = 1..Len(body) /\ \A i \in 1..Len(body) : body[i] \in JSONUnits
  OBVIOUS
<1>2. AllOK(body) <=> ~(\E i \in DOMAIN body : ~body[i].ok)
  BY <1>1 DEF AllOK
<1> QED BY <1>2 DEF QuotedMeans, Meaningful, Meaning

(* The string as it stands: accepted, it has no escapes; without escapes,  *)
(* it is what it means or is malformed.                                    *)
LEMMA AsItStands ==
  ASSUME NEW b \in Seq(JSONUnits), b # <<>>, NEW res, res = ParseCore(Spelled(Coding(b))),
         res.err = "nil" \/ ~Escaped(b)
  PROVE  Meaningful(b, res)
<1>1. CASE Clean(b)
  <2>1. AllOK(b)
    BY <1>1, StringFacts
  <2> QED BY <1>1, <2>1, CodedLiterals DEF Meaningful
<1>2. CASE ~Clean(b)
  <2>1. res.err \in {"InvalidFormat", "MaxStrLen"}
    BY <1>2, CodedLiterals, JunkRefused
  <2>2. ~Escaped(b)
    BY <2>1
  <2>3. DOMAIN b = 1..Len(b)
    OBVIOUS
  <2>4. ~AllOK(b)
    BY <1>2, <2>2, <2>3 DEF Clean, AllOK, Escaped
  <2> QED BY <2>1, <2>4 DEF Meaningful
<1> QED BY <1>1, <1>2

(* No string that is too long, coded or half decoded, means a number.      *)
LEMMA TooLongMeans ==
  ASSUME NEW b \in Seq(JSONUnits), b # <<>>,
         \/ Len(Encoded(b)) + 2 > MaxQuotedLen
         \/ \E k \in 0..Len(b) : Len(Told(b, k)) > MaxParseLen
  PROVE  Meaningful(b, Fail("MaxStrLen"))
<1>1. /\ Len(Encoded(b)) \in Nat /\ Len(Meant(b)) \in Nat /\ (AllOK(b) => Len(Encoded(b)) <= 6 * Len(Meant(b)))
      /\ \A k \in 0..Len(b) : Len(Told(b, k)) \in Nat /\ Len(Told(b, k)) <= Len(Meant(b))
  BY StringFacts
<1>2. MaxParseLen \in Nat
  BY ParserAssumption
<1>3. CASE ~AllOK(b)
  BY <1>3 DEF Meaningful, Fail
<1>4. CASE AllOK(b)
  <2>1. Len(Meant(b)) > MaxParseLen
    <3>1. CASE Len(Encoded(b)) + 2 > MaxQuotedLen
      <4> DEFINE x == Len(Encoded(b))
                 y == Len(Meant(b))
      <4>1. x \in Nat /\ y \in Nat /\ x <= 6 * y /\ x + 2 > 2 + 6*MaxParseLen
        BY <1>1, <1>4, <3>1 DEF MaxQuotedLen
      <4> HIDE DEF x, y
      <4>2. y > MaxParseLen
        BY <1>2, <4>1
      <4> QED BY <4>2 DEF y
    <3>2. CASE \E k \in 0..Len(b) : Len(Told(b, k)) > MaxParseLen
      <4>1. PICK k \in 0..Len(b) : Len(Told(b, k)) > MaxParseLen
        BY <3>2
      <4> DEFINE x == Len(Told(b, k))
                 y == Len(Meant(b))
      <4>2. x \in Nat /\ y \in Nat /\ x <= y /\ x > MaxParseLen
        BY <1>1, <4>1
      <4> HIDE DEF x, y
      <4>3. y > MaxParseLen
        BY <1>2, <4>2
      <4> QED BY <4>3 DEF y
    <3> QED BY <3>1, <3>2
  <2>2. Bytes(Meaning(b)) = Len(Meant(b))
    BY CodedLiterals
  <2>3. ParseCore(Spelled(Meaning(b))) = Fail("MaxStrLen")
    BY <1>1, <2>1, <2>2, LongRefused
  <2> QED BY <1>4, <2>3 DEF Meaningful
<1> QED BY <1>3, <1>4

(* A bare number that JSON does not allow is told by its literal.          *)
LEMMA BareLiteral ==
  ASSUME NEW b \in Seq(Alphabet)
  PROVE  LET l == LiteralOf(b)
         IN  /\ IsLiteral(l) /\ Bytes(l) = Len(b) /\ Len(b) \in Nat
             /\ BareStartOK(b) <=> ~(/\ Bytes(l) \in 1..MaxParseLen
                                     /\ (l.sign = "+" \/ (l.zeros > 0 /\ Len(IntRun(l)) > 1)))
<1> DEFINE l == LiteralOf(b)
           n == Len(b)
<1>1. b \in Seq(Int) /\ n \in Nat
  <2>1. Alphabet \subseteq Int
    BY DEF Alphabet, Point, Minus, Plus, Other
  <2>2. \A i \in 1..Len(b) : b[i] \in Alphabet
    OBVIOUS
  <2>3. b = [i \in 1..Len(b) |-> b[i]] /\ Len(b) \in Nat
    OBVIOUS
  <2>4. \A i \in 1..Len(b) : b[i] \in Int
    BY <2>1, <2>2
  <2>5. b \in [1..Len(b) -> Int]
    BY <2>3, <2>4
  <2> QED BY <2>3, <2>5
<1>2. IsLiteral(l) /\ Bytes(l) = n
  BY <1>1, LiteralOfAny
<1>3. PICK s \in 0..1 : \E k \in 0..(n - s) :
        /\ s = 1 <=> n >= 1 /\ b[1] \in {Plus, Minus}
        /\ l.sign = IF s = 0 THEN "" ELSE IF b[1] = Minus THEN "-" ELSE "+"
        /\ (\A i \in 1..k : b[i + s] \in 0..9) /\ (k + s < n => b[k + 1 + s] \notin 0..9)
        /\ Len(IntRun(l)) = k /\ (l.zeros > 0 <=> k > 0 /\ b[1 + s] = 0)
  BY <1>1, LiteralOfAny
<1>4. PICK k \in 0..(n - s) :
        /\ s = 1 <=> n >= 1 /\ b[1] \in {Plus, Minus}
        /\ l.sign = IF s = 0 THEN "" ELSE IF b[1] = Minus THEN "-" ELSE "+"
        /\ (\A i \in 1..k : b[i + s] \in 0..9) /\ (k + s < n => b[k + 1 + s] \notin 0..9)
        /\ Len(IntRun(l)) = k /\ (l.zeros > 0 <=> k > 0 /\ b[1 + s] = 0)
  BY <1>3
<1> HIDE DEF l, n
<1> DEFINE Odd == l.sign = "+" \/ (l.zeros > 0 /\ Len(IntRun(l)) > 1)
<1>5. ASSUME n \notin 1..MaxParseLen
      PROVE  BareStartOK(b)
  BY <1>5 DEF BareStartOK, n
<1>6. ASSUME n \in 1..MaxParseLen
      PROVE  BareStartOK(b) <=> ~Odd
  <2>1. n >= 1
    BY <1>1, <1>6
  <2>2. Plus # Minus
    BY DEF Plus, Minus
  <2>3. l.sign = "+" <=> b[1] = Plus
    <3>1. s = 1 <=> b[1] \in {Plus, Minus}
      BY <1>4, <2>1
    <3>2. CASE s = 0
      <4>1. l.sign = ""
        BY <1>4, <3>2
      <4>2. b[1] # Plus
        BY <3>1, <3>2
      <4> QED BY <4>1, <4>2
    <3>3. CASE s = 1
      <4>1. l.sign = IF b[1] = Minus THEN "-" ELSE "+"
        BY <1>4, <3>3
      <4>2. b[1] = Plus \/ b[1] = Minus
        BY <3>1, <3>3
      <4> QED BY <4>1, <4>2, <2>2, Zenon
    <3> QED BY <3>2, <3>3
  <2> DEFINE m == IF n > 0 /\ b[1] = Minus THEN 1 ELSE 0
             Led == n >= m + 2 /\ b[m + 1] = 0 /\ b[m + 2] \in 0..9
  <2>4. BareStartOK(b) <=> b[1] # Plus /\ ~Led
    BY <1>6 DEF BareStartOK, n
  <2>5. ASSUME b[1] # Plus
        PROVE  Led <=> l.zeros > 0 /\ Len(IntRun(l)) > 1
    <3>1. m = s
      <4>1. s = 1 <=> b[1] \in {Plus, Minus}
        BY <1>4, <2>1
      <4>2. s = 1 <=> b[1] = Minus
        BY <4>1, <2>5
      <4>3. n > 0
        BY <1>1, <2>1
      <4> QED BY <4>2, <4>3
    <3> HIDE DEF m
    <3>2. s \in 0..1 /\ k \in 0..(n - s) /\ n \in Nat
      BY <1>1
    <3>3. (l.zeros > 0 /\ Len(IntRun(l)) > 1) <=> (k > 1 /\ b[s + 1] = 0)
      <4>1. s + 1 = 1 + s /\ (k > 1 => k > 0)
        BY <3>2
      <4> QED BY <1>4, <4>1
    <3>4. ASSUME k > 1, b[s + 1] = 0 PROVE Led
      <4>1. n >= s + 2 /\ 2 \in 1..k /\ 2 + s = s + 2
        BY <3>2, <3>4
      <4> QED BY <1>4, <3>1, <3>4, <4>1
    <3>5. ASSUME Led PROVE k > 1 /\ b[s + 1] = 0
      <4>1. n >= s + 2 /\ b[s + 1] = 0 /\ b[s + 2] \in 0..9
        BY <3>1, <3>5
      <4>2. k # 0
        <5> SUFFICES ASSUME k = 0 PROVE FALSE
          OBVIOUS
        <5>1. k + s < n /\ k + 1 + s = s + 1
          BY <3>2, <4>1
        <5>2. b[s + 1] \notin 0..9
          BY <1>4, <5>1
        <5> QED BY <4>1, <5>2
      <4>3. k # 1
        <5> SUFFICES ASSUME k = 1 PROVE FALSE
          OBVIOUS
        <5>1. k + s < n /\ k + 1 + s = s + 2
          BY <3>2, <4>1
        <5>2. b[s + 2] \notin 0..9
          BY <1>4, <5>1
        <5> QED BY <4>1, <5>2
      <4>4. k > 1
        BY <3>2, <4>2, <4>3
      <4> QED BY <4>1, <4>4
    <3> QED BY <3>3, <3>4, <3>5
  <2> HIDE DEF Led
  <2> QED BY <2>3, <2>4, <2>5
<1>7. BareStartOK(b) <=> ~(Bytes(l) \in 1..MaxParseLen /\ Odd)
  <2> HIDE DEF Odd
  <2> QED BY <1>2, <1>5, <1>6
<1> QED BY <1>1, <1>2, <1>7 DEF l, n

----------------------------------------------------------------------------
(* The parser at work on what travels.                                     *)
LEMMA Busy == ASSUME Next PROVE pc \notin {"idle", "done"}
BY DEF Next, CoreRefuse, CoreDispatch, ShortPoint, ShortPlain, ShortScientific, ShortDecline, ShortGoesOn,
       ParseShortScientific, WindowInteger, WindowFraction, WindowDecline, LongPlain, LongFold,
       LongFinish, ExactGrammar, FoldExactDigits, ExactFraction, ExactFinish, AccumChunk, Accumulating,
       AccumReplay, AccumSaturated, AccumPoint, AccumExponent, DropTail, TruncScaleUp,
       TruncInRange, TruncExcess

(* A call starts with all its paths know.                                  *)
LEMMA ParserFresh ==
  ASSUME NEW l, IsLiteral(l), trunc \in BOOLEAN, Parse(l)
  PROVE  ParserInv' /\ lit' = l /\ trunc' = trunc
<1>1. /\ pc' = "core" /\ lit' = l /\ trunc' = trunc
      /\ rest' = <<>> /\ coef' = 0 /\ frac' = 0 /\ dropped' = 0 /\ dropNZ' = 0 /\ exp' = 0
  BY DEF Parse
<1>2. PathsKnow'
  BY <1>1 DEF PathsKnow, StrictOnly, TruncOnly
<1>3. ModesHold'
  BY <1>1 DEF ModesHold, Fresh, StrictOnly, TruncOnly
<1> QED BY <1>1, <1>2, <1>3 DEF ParserInv

(* Other actors leave what the paths know alone.                           *)
LEMMA ParserIdles == ASSUME ParserInv, UNCHANGED parserVars PROVE ParserInv'
BY ParserKept DEF parserVars

(* What is known of a number that travels.                                 *)
Reading == {"raw", "unescape", "read", "bare"}
OnQuoted == body \in Seq(JSONUnits) /\ body # <<>> /\ trunc = FALSE
AtRaw == OnQuoted /\ lit = Coding(body) /\ ParserInv
AtUnescape ==
  /\ OnQuoted /\ pc = "done"
  /\ unit \in 1..(Len(body) + 1) /\ decoded = Told(body, unit - 1)
  /\ \A i \in 1..(unit - 1) : body[i].ok
AtPlain == body = <<>> /\ lit = LiteralOf(text) /\ ParserInv
AtMeant ==
  /\ OnQuoted
  /\ \/ pc = "done" /\ QuotedMeans
     \/ AllOK(body) /\ lit = Meaning(body) /\ ParserInv
AtBare ==
  \/ pc = "done" /\ BareMeans
  \/ /\ decoded \in Seq(Alphabet) /\ BareStartOK(decoded) /\ trunc = FALSE
     /\ lit = LiteralOf(decoded) /\ ParserInv
JSONInv ==
  /\ trunc \in BOOLEAN
  /\ at \notin Reading => pc = "idle" /\ body = <<>>
  /\ at = "raw" => AtRaw
  /\ at = "unescape" => AtUnescape
  /\ at = "read" => AtPlain \/ AtMeant
  /\ at = "bare" => AtBare

(* Before anything travels the parser is idle.                             *)
LEMMA JSONStarts == ASSUME PrinterInit, body = <<>> PROVE JSONInv
BY DEF PrinterInit, JSONInv, Reading

(* The parser's steps.                                                     *)
LEMMA ParsingKept == ASSUME JSONInv, Next, UNCHANGED writerVars, UNCHANGED jsonVars PROVE JSONInv'
<1>1. pc \notin {"idle", "done"}
  BY Busy
<1>2. at' = at /\ text' = text /\ body' = body /\ unit' = unit /\ decoded' = decoded
  BY DEF writerVars, jsonVars
<1>3. lit' = lit /\ trunc' = trunc
  BY CallKept
<1>4. ParserInv => ParserInv'
  BY ParserKept
<1>5. at = "raw" => AtRaw'
  BY <1>2, <1>3, <1>4 DEF JSONInv, AtRaw, OnQuoted
<1>6. at = "read" => AtPlain' \/ AtMeant'
  BY <1>1, <1>2, <1>3, <1>4 DEF JSONInv, AtPlain, AtMeant, OnQuoted
<1>7. at = "bare" => AtBare'
  BY <1>1, <1>2, <1>3, <1>4 DEF JSONInv, AtBare
<1>8. at # "unescape" /\ at \in Reading
  BY <1>1 DEF JSONInv, AtUnescape
<1> QED BY <1>2, <1>3, <1>5, <1>6, <1>7, <1>8 DEF JSONInv

(* The writer's steps.                                                     *)
LEMMA WritingKept ==
  ASSUME JSONInv, at \notin Reading, at' \notin Reading, UNCHANGED parserVars, UNCHANGED jsonVars
  PROVE  JSONInv'
BY DEF JSONInv, Reading, parserVars, vars, jsonVars

(* No step of the writer touches what travels.                             *)
LEMMA PrintingKept ==
  ASSUME JSONInv, PrinterNext, ~ReadBack, ~(Next /\ UNCHANGED writerVars), UNCHANGED jsonVars
  PROVE  JSONInv'
<1>1. at \notin Reading /\ at' \notin Reading /\ UNCHANGED parserVars
  <2>1. CASE Split
    BY <2>1 DEF Split, Reading
  <2>2. CASE PaddedPair \/ PaddedLast \/ PaddedDone
    BY <2>2 DEF PaddedPair, PaddedLast, PaddedDone, Padding, kept, Reading
  <2>3. CASE TrimZero \/ SetPoint \/ NoPoint
    BY <2>3 DEF TrimZero, SetPoint, NoPoint, kept, Reading
  <2>4. CASE IntChunk \/ IntZero \/ IntLead \/ LeadPair \/ LeadLast
    BY <2>4 DEF IntChunk, IntZero, IntLead, LeadPair, LeadLast, kept, Reading
  <2>5. CASE Sign \/ Emit \/ PadRun \/ PadRest
    BY <2>5 DEF Sign, Emit, PadRun, PadRest, kept, Reading
  <2> QED BY <2>1, <2>2, <2>3, <2>4, <2>5 DEF PrinterNext
<1> QED BY <1>1, WritingKept

(* Plain text is read as it was written.                                   *)
LEMMA ReadBackKept == ASSUME WriterInv, JSONInv, ReadBack, UNCHANGED jsonVars PROVE JSONInv'
<1>1. at = "written" /\ at' = "read" /\ Parse(LiteralOf(text)) /\ text' = text /\ body' = body
  BY DEF ReadBack, jsonVars
<1>2. Finished
  BY <1>1 DEF Finished, Late
<1>3. body = <<>> /\ trunc \in BOOLEAN
  BY <1>1 DEF JSONInv, Reading
<1>4. ParserInv' /\ lit' = LiteralOf(text) /\ trunc' = trunc
  BY <1>1, <1>2, <1>3, Literally, ParserFresh
<1>5. AtPlain'
  BY <1>1, <1>3, <1>4 DEF AtPlain
<1> QED BY <1>1, <1>3, <1>4, <1>5 DEF JSONInv, Reading

(* A string is handed to the parser as it stands.                          *)
LEMMA ToQuotedKept == ASSUME JSONInv, ToQuoted PROVE JSONInv'
<1>1. /\ trunc = FALSE /\ at' = "raw" /\ body' \in Seq(JSONUnits) /\ body' # <<>>
      /\ Parse(Coding(body'))
  BY DEF ToQuoted, Marshalled, Coding
<1>2. IsLiteral(Coding(body'))
  BY <1>1, CodedLiterals
<1>3. ParserInv' /\ lit' = Coding(body') /\ trunc' = FALSE
  BY <1>1, <1>2, ParserFresh
<1>4. AtRaw'
  BY <1>1, <1>3 DEF AtRaw, OnQuoted
<1> QED BY <1>1, <1>3, <1>4 DEF JSONInv, Reading

(* A bare number is parsed, or refused where JSON has none.                *)
LEMMA ToBareKept == ASSUME JSONInv, ToBare PROVE JSONInv'
<1>1. trunc = FALSE /\ at' = "bare"
  BY DEF ToBare, Marshalled
<1>2. PICK b \in Seq(Alphabet) :
        /\ decoded' = b
        /\ IF BareStartOK(b) THEN Parse(LiteralOf(b))
           ELSE out' = Fail("InvalidFormat") /\ pc' = "done" /\ trunc' = trunc
  BY DEF ToBare
<1> DEFINE l == LiteralOf(b)
<1>3. /\ IsLiteral(l)
      /\ BareStartOK(b) <=> ~(/\ Bytes(l) \in 1..MaxParseLen
                              /\ (l.sign = "+" \/ (l.zeros > 0 /\ Len(IntRun(l)) > 1)))
  BY BareLiteral
<1>4. CASE BareStartOK(b)
  <2>1. ParserInv' /\ lit' = l /\ trunc' = FALSE
    BY <1>1, <1>2, <1>3, <1>4, ParserFresh
  <2>2. AtBare'
    BY <1>2, <1>4, <2>1 DEF AtBare
  <2> QED BY <1>1, <2>1, <2>2 DEF JSONInv, Reading
<1>5. CASE ~BareStartOK(b)
  <2>1. out' = Fail("InvalidFormat") /\ pc' = "done" /\ trunc' = FALSE
    BY <1>1, <1>2, <1>5
  <2>2. BareMeans'
    BY <1>2, <1>3, <1>5, <2>1 DEF BareMeans
  <2> QED BY <1>1, <2>1, <2>2 DEF JSONInv, Reading, AtBare
<1> QED BY <1>4, <1>5

(* Whatever ends a quoted string ends it with the answer it means.         *)
LEMMA AnswerKept ==
  ASSUME OnQuoted, body' = body, trunc' = trunc, pc' = "done", at' = "read", Meaningful(body, out')
  PROVE  JSONInv'
<1>1. (body \in Seq(JSONUnits))' => (QuotedMeans' <=> Meaningful(body, out)')
  BY QuotedIs, PTL
<1>2. OnQuoted' /\ QuotedMeans'
  BY <1>1 DEF OnQuoted
<1>3. AtMeant'
  BY <1>2 DEF AtMeant
<1> QED BY <1>2, <1>3 DEF JSONInv, Reading, OnQuoted

(* What the parser says of a string as it stands.                          *)
LEMMA RawKnows ==
  ASSUME JSONInv, at = "raw", Done
  PROVE  OnQuoted /\ out = ParseCore(Spelled(Coding(body)))
<1>1. AtRaw
  BY DEF JSONInv
<1>2. out = Right /\ OnQuoted /\ lit = Coding(body)
  BY <1>1 DEF AtRaw, ParserInv, PathsKnow, Done
<1> QED BY <1>2 DEF Right, OnQuoted

(* Accepted, or without escapes: this is the answer.                       *)
LEMMA RawAnswersKept == ASSUME JSONInv, RawAnswers PROVE JSONInv'
<1>1. /\ at = "raw" /\ Done /\ at' = "read" /\ body' = body /\ trunc' = trunc /\ pc' = pc /\ out' = out
      /\ out.err = "nil" \/ ~Escaped(body)
  BY DEF RawAnswers, parserVars, vars, jsonVars
<1>2. OnQuoted /\ out = ParseCore(Spelled(Coding(body)))
  BY <1>1, RawKnows
<1>3. Meaningful(body, out)
  BY <1>1, <1>2, AsItStands DEF OnQuoted
<1> QED BY <1>1, <1>2, <1>3, AnswerKept DEF Done

(* A string that no number can need is refused.                            *)
LEMMA RawTooLongKept == ASSUME JSONInv, RawTooLong PROVE JSONInv'
<1>1. /\ at = "raw" /\ Done /\ at' = "read" /\ body' = body /\ trunc' = trunc /\ pc' = pc
      /\ out' = Fail("MaxStrLen") /\ Len(Encoded(body)) + 2 > MaxQuotedLen
  BY DEF RawTooLong, Refuse, jsonVars
<1>2. OnQuoted
  BY <1>1, RawKnows
<1>3. Meaningful(body, Fail("MaxStrLen"))
  BY <1>1, <1>2, TooLongMeans DEF OnQuoted
<1> QED BY <1>1, <1>2, <1>3, AnswerKept DEF Done

(* Decoding starts with an empty buffer.                                   *)
LEMMA RawEscapedKept == ASSUME JSONInv, RawEscaped PROVE JSONInv'
<1>1. /\ at = "raw" /\ Done /\ at' = "unescape" /\ body' = body /\ trunc' = trunc /\ pc' = pc
      /\ unit' = 1 /\ decoded' = <<>>
  BY DEF RawEscaped, parserVars, vars
<1>2. OnQuoted
  BY <1>1, RawKnows
<1>3. Told(body, 0) = <<>> /\ Len(body) \in Nat
  BY <1>2, StringGrows DEF OnQuoted
<1>4. unit' \in 1..(Len(body') + 1) /\ unit' - 1 = 0 /\ \A i \in 1..(unit' - 1) : body'[i].ok
  BY <1>1, <1>3
<1>5. AtUnescape'
  BY <1>1, <1>2, <1>3, <1>4 DEF AtUnescape, OnQuoted, Done
<1> QED BY <1>1, <1>2, <1>5 DEF JSONInv, Reading, OnQuoted

(* The unit at hand.                                                       *)
LEMMA AtUnit ==
  ASSUME JSONInv, Unescaping
  PROVE  /\ AtUnescape /\ OnQuoted /\ unit \in 1..Len(body) /\ Len(body) \in Nat
         /\ Len(Told(body, unit)) = Len(decoded) + body[unit].dst
         /\ Told(body, unit) = decoded \o Target(body[unit])
<1>1. AtUnescape
  BY DEF JSONInv, Unescaping
<1>2. OnQuoted /\ decoded = Told(body, unit - 1)
  BY <1>1 DEF AtUnescape
<1>3. Len(body) \in Nat /\ \A k \in 0..(Len(body) - 1) : Told(body, k + 1) = Told(body, k) \o Target(body[k + 1])
  BY <1>2, StringGrows DEF OnQuoted
<1>4. unit \in 1..Len(body)
  BY <1>1, <1>3 DEF AtUnescape, Unescaping
<1>5. unit - 1 \in 0..(Len(body) - 1) /\ (unit - 1) + 1 = unit
  BY <1>3, <1>4
<1>6. /\ UnitMeans(body[unit])
      /\ Len(Told(body, unit)) = Len(Told(body, unit - 1)) + Len(Target(body[unit]))
  BY <1>2, <1>5, StringLengths DEF OnQuoted
<1>7. Len(Target(body[unit])) = body[unit].dst
  BY <1>6 DEF UnitMeans
<1>8. Told(body, unit) = Told(body, unit - 1) \o Target(body[unit])
  BY <1>3, <1>5
<1> QED BY <1>1, <1>2, <1>3, <1>4, <1>6, <1>7, <1>8

(* A unit that is no character ends the string.                            *)
LEMMA UnescapeMalformedKept == ASSUME JSONInv, UnescapeMalformed PROVE JSONInv'
<1>1. /\ Unescaping /\ ~body[unit].ok /\ at' = "read" /\ body' = body /\ trunc' = trunc /\ pc' = pc
      /\ out' = Fail("InvalidFormat")
  BY DEF UnescapeMalformed, Refuse, jsonVars
<1>2. AtUnescape /\ OnQuoted /\ unit \in 1..Len(body)
  BY <1>1, AtUnit
<1>3. Meaningful(body, Fail("InvalidFormat"))
  BY <1>1, <1>2 DEF Meaningful, AllOK, Fail
<1> QED BY <1>1, <1>2, <1>3, AnswerKept DEF AtUnescape

(* A buffer that fills up holds too long a number.                         *)
LEMMA UnescapeFullKept == ASSUME JSONInv, UnescapeFull PROVE JSONInv'
<1>1. /\ Unescaping /\ at' = "read" /\ body' = body /\ trunc' = trunc /\ pc' = pc
      /\ Len(decoded) + body[unit].dst > MaxParseLen /\ out' = Fail("MaxStrLen")
  BY DEF UnescapeFull, Refuse, jsonVars
<1>2. /\ AtUnescape /\ OnQuoted /\ unit \in 1..Len(body) /\ Len(body) \in Nat
      /\ Len(Told(body, unit)) = Len(decoded) + body[unit].dst
  BY <1>1, AtUnit
<1>3. unit \in 0..Len(body) /\ Len(Told(body, unit)) > MaxParseLen
  BY <1>1, <1>2
<1>4. Meaningful(body, Fail("MaxStrLen"))
  BY <1>2, <1>3, TooLongMeans DEF OnQuoted
<1> QED BY <1>1, <1>2, <1>4, AnswerKept DEF AtUnescape

(* One more unit is decoded.                                               *)
LEMMA UnescapeUnitKept == ASSUME JSONInv, UnescapeUnit PROVE JSONInv'
<1>1. /\ Unescaping /\ body[unit].ok /\ decoded' = decoded \o Target(body[unit]) /\ unit' = unit + 1
      /\ at = "unescape" /\ at' = at /\ body' = body /\ trunc' = trunc /\ pc' = pc
  BY DEF UnescapeUnit, Unescaping, parserVars, vars
<1>2. /\ AtUnescape /\ OnQuoted /\ unit \in 1..Len(body) /\ Len(body) \in Nat
      /\ Told(body, unit) = decoded \o Target(body[unit])
  BY <1>1, AtUnit
<1>3. unit' \in 1..(Len(body) + 1) /\ unit' - 1 = unit
  BY <1>1, <1>2
<1>4. \A i \in 1..unit : i = unit \/ i \in 1..(unit - 1)
  BY <1>2
<1>5. \A i \in 1..unit : body[i].ok
  BY <1>1, <1>2, <1>4 DEF AtUnescape
<1>6. AtUnescape'
  BY <1>1, <1>2, <1>3, <1>5 DEF AtUnescape, OnQuoted
<1> QED BY <1>1, <1>2, <1>6 DEF JSONInv, Reading, OnQuoted

(* All is decoded and is parsed again.                                     *)
LEMMA UnescapedKept == ASSUME JSONInv, Unescaped PROVE JSONInv'
<1>1. /\ at = "unescape" /\ unit > Len(body) /\ at' = "read" /\ Parse(LiteralOf(decoded)) /\ body' = body
  BY DEF Unescaped, jsonVars
<1>2. AtUnescape /\ OnQuoted
  BY <1>1 DEF JSONInv, AtUnescape
<1>3. Len(body) \in Nat /\ Meant(body) = Told(body, Len(body))
  BY <1>2, StringGrows DEF OnQuoted
<1>4. unit - 1 = Len(body)
  BY <1>1, <1>2, <1>3 DEF AtUnescape
<1>5. AllOK(body) /\ LiteralOf(decoded) = Meaning(body)
  BY <1>2, <1>3, <1>4 DEF AtUnescape, AllOK, Meaning
<1>6. IsLiteral(Meaning(body)) /\ trunc \in BOOLEAN
  BY <1>2, CodedLiterals DEF OnQuoted
<1>7. ParserInv' /\ lit' = Meaning(body) /\ trunc' = trunc
  BY <1>1, <1>5, <1>6, ParserFresh
<1>8. AtMeant'
  BY <1>1, <1>2, <1>5, <1>7 DEF AtMeant, OnQuoted
<1> QED BY <1>1, <1>6, <1>7, <1>8 DEF JSONInv, Reading

(* Nothing happens.                                                        *)
LEMMA JSONIdles == ASSUME JSONInv, UNCHANGED wireVars PROVE JSONInv'
<1>1. /\ at' = at /\ text' = text /\ body' = body /\ unit' = unit /\ decoded' = decoded
      /\ lit' = lit /\ trunc' = trunc /\ pc' = pc /\ out' = out /\ UNCHANGED parserVars
  BY DEF wireVars, allVars, writerVars, jsonVars, parserVars, vars
<1>2. ParserInv => ParserInv'
  BY <1>1, ParserIdles
<1>3. OnQuoted => OnQuoted'
  BY <1>1 DEF OnQuoted
<1>4. QuotedMeans' <=> QuotedMeans
  BY <1>1 DEF QuotedMeans
<1>5. BareMeans' <=> BareMeans
  BY <1>1 DEF BareMeans
<1>6. (AtRaw => AtRaw') /\ (AtPlain => AtPlain') /\ (AtUnescape => AtUnescape')
  BY <1>1, <1>2, <1>3 DEF AtRaw, AtPlain, AtUnescape
<1>7. (AtMeant => AtMeant') /\ (AtBare => AtBare')
  BY <1>1, <1>2, <1>3, <1>4, <1>5 DEF AtMeant, AtBare
<1> QED BY <1>1, <1>6, <1>7 DEF JSONInv

(* Every step keeps what is known of a number that travels.                *)
LEMMA JSONStep == ASSUME WriterInv, JSONInv, [WireNext]_wireVars PROVE JSONInv'
<1>1. CASE PrinterNext /\ UNCHANGED jsonVars
  <2>1. CASE ReadBack
    BY <1>1, <2>1, ReadBackKept
  <2>2. CASE Next /\ UNCHANGED writerVars
    BY <1>1, <2>2, ParsingKept
  <2>3. CASE ~ReadBack /\ ~(Next /\ UNCHANGED writerVars)
    BY <1>1, <2>3, PrintingKept
  <2> QED BY <2>1, <2>2, <2>3
<1>2. CASE ToQuoted
  BY <1>2, ToQuotedKept
<1>3. CASE RawAnswers
  BY <1>3, RawAnswersKept
<1>4. CASE RawTooLong
  BY <1>4, RawTooLongKept
<1>5. CASE RawEscaped
  BY <1>5, RawEscapedKept
<1>6. CASE UnescapeMalformed
  BY <1>6, UnescapeMalformedKept
<1>7. CASE UnescapeFull
  BY <1>7, UnescapeFullKept
<1>8. CASE UnescapeUnit
  BY <1>8, UnescapeUnitKept
<1>9. CASE Unescaped
  BY <1>9, UnescapedKept
<1>10. CASE ToBare
  BY <1>10, ToBareKept
<1>11. CASE UNCHANGED wireVars
  BY <1>11, JSONIdles
<1> QED BY <1>1, <1>2, <1>3, <1>4, <1>5, <1>6, <1>7, <1>8, <1>9, <1>10, <1>11 DEF WireNext

(* What is known at the end is the property.                               *)
LEMMA JSONAnswers == ASSUME WriterInv, JSONInv PROVE JSONMeansText
<1> SUFFICES ASSUME Answered
             PROVE  IF at = "bare" THEN BareMeans ELSE IF body = <<>> THEN ReadsBack ELSE QuotedMeans
  BY DEF JSONMeansText
<1>1. pc = "done" /\ at \in {"read", "bare"}
  BY DEF Answered, Done
<1>2. ParserInv => out = Right
  BY <1>1 DEF ParserInv, PathsKnow
<1>3. CASE at = "bare"
  <2>1. AtBare
    BY <1>3 DEF JSONInv
  <2>2. CASE BareMeans
    BY <1>3, <2>2
  <2>3. CASE /\ decoded \in Seq(Alphabet) /\ BareStartOK(decoded) /\ trunc = FALSE
             /\ lit = LiteralOf(decoded) /\ ParserInv
    <3> DEFINE l == LiteralOf(decoded)
    <3>1. ~(/\ Bytes(l) \in 1..MaxParseLen
            /\ (l.sign = "+" \/ (l.zeros > 0 /\ Len(IntRun(l)) > 1)))
      BY <2>3, BareLiteral
    <3>2. out = ParseCore(Spelled(l))
      BY <1>2, <2>3 DEF Right
    <3>3. BareMeans
      BY <3>1, <3>2 DEF BareMeans
    <3> QED BY <1>3, <3>3
  <2> QED BY <2>1, <2>2, <2>3 DEF AtBare
<1>4. CASE at = "read" /\ AtPlain
  <2>1. Finished
    BY <1>4 DEF Finished, Late
  <2>2. Right = IF Len(text) > MaxParseLen THEN Fail("MaxStrLen") ELSE Ok(Trim(num))
    BY <1>4, <2>1, ReadBackRight DEF AtPlain, JSONInv
  <2>3. ReadsBack
    BY <1>2, <1>4, <2>2 DEF ReadsBack, AtPlain
  <2> QED BY <1>4, <2>3 DEF AtPlain
<1>5. CASE at = "read" /\ AtMeant
  <2>1. CASE AllOK(body) /\ lit = Meaning(body) /\ ParserInv
    <3>1. out = ParseCore(Spelled(Meaning(body)))
      BY <1>2, <1>5, <2>1 DEF Right, AtMeant, OnQuoted
    <3>2. QuotedMeans
      BY <1>5, <2>1, <3>1, QuotedIs DEF Meaningful, AtMeant, OnQuoted
    <3> QED BY <1>5, <3>2 DEF AtMeant, OnQuoted
  <2>2. CASE QuotedMeans
    BY <1>5, <2>2 DEF AtMeant, OnQuoted
  <2> QED BY <1>5, <2>1, <2>2 DEF AtMeant
<1> QED BY <1>1, <1>3, <1>4, <1>5 DEF JSONInv

(* How a number that travels is spelled makes no difference: for every     *)
(* string of characters and escapes, every bare number and every buffer    *)
(* (codec.go:38, codec.go:110, codec.go:159).                              *)
THEOREM JSONAlwaysMeansText == WireSpec => []JSONMeansText
<1>1. WireInit => JSONInv
  BY JSONStarts DEF WireInit
<1>2. WriterInv /\ JSONInv /\ [WireNext]_wireVars => JSONInv'
  BY JSONStep
<1>3. WriterInv /\ JSONInv => JSONMeansText
  BY JSONAnswers
<1> QED BY <1>1, <1>2, <1>3, WriterAlways, PTL DEF WireSpec
=============================================================================
