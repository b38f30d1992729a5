------------------------------- MODULE Floats -------------------------------
(***************************************************************************)
(* How a binary float becomes a Decimal: the domain guards and the integer *)
(* path of parse.go, the shortest digits that round back to the float,     *)
(* found by dbox.go with one table power and a few word products, and      *)
(* their assembly.  A float is mant * 2^e2, its leading bit not implied.   *)
(*                                                                         *)
(* The two widths of the code differ in their parameters alone, so a       *)
(* format is a record: word bits w, fraction bits p, the digits kappa that *)
(* one product yields, whether interval ends are taken from the upper limb *)
(* of the power or from all of it, the exponent of the one tie between two *)
(* shortest candidates, and whether integers take a path of their own.     *)
(***************************************************************************)
EXTENDS Text

CONSTANTS Formats, Exponents(_)

VARIABLES fmt, mant, e2, neg,         \* the float
          at,                         \* the step of the conversion
          s, r, exact,                \* z = 10^(kappa+1) * s + r, and no fraction
          digits, e10,                \* the shortest decimal
          out
vars == <<fmt, mant, e2, neg, at, s, r, exact, digits, e10, out>>
float == <<fmt, mant, e2, neg>>

(* mulLog10_2, mulLog10_2MinusLog10_4Over3, mulLog2_10.                    *)
(* Fault: division that drops the fraction instead of a shift.             *)
TruncLog10Pow2(x) == Sign3(x) * ((Abs(x) * 78913) \div 2^18)
FloorLog10Pow2(x) == (x * 78913) \div 2^18
FloorLog10ThreeQuarters(x) == (x * 631305 - 261663) \div 2^21
FloorLog2Pow10(x) == (x * 108853) \div 2^15

(* The table: 10^k scaled by a power of two into two words, cut off.       *)
Power(f, k) ==
  LET num == IF k >= 0 THEN 10^k ELSE 1
      den == IF k >= 0 THEN 1 ELSE 10^(-k)
      scaled[n \in 0..60] ==
        IF n = 0 THEN [q |-> num \div den, rem |-> num % den]
        ELSE LET half == scaled[n - 1]
             IN  [q |-> 2 * half.q + (2 * half.rem) \div den, rem |-> (2 * half.rem) % den]
      n == CHOOSE m \in 0..60 : scaled[m].q \in 2^(2*f.w - 1)..(2^(2*f.w) - 1)
  IN  scaled[n].q
Powers == [f \in Formats |-> [k \in -8..8 |-> Power(f, k)]]

(* Rounded up where 10^k does not fit the two words exactly.               *)
Inexact(f, k) == k < 0 \/ 5^k >= 2^(2*f.w)
PhiTruncated(f, k) == Powers[f][k]                                 \* fault
Phi(f, k) == Powers[f][k] + IF Inexact(f, k) THEN 1 ELSE 0
Beta(k, e) == e + FloorLog2Pow10(k)

(* Products of a word with the power: the upper two words of the three,    *)
(* and the lower two.                                                      *)
High(f, u) == u \div 2^f.w
Low(f, u) == u % 2^f.w
UpperTwo(f, x, phi) == x * High(f, phi) + High(f, x * Low(f, phi))
LowerTwo(f, x, phi) ==
  LET low == x * Low(f, phi)
  IN  Low(f, Low(f, x * High(f, phi)) + High(f, low)) * 2^f.w + Low(f, low)
MulPow(f, x, phi) ==
  LET top == UpperTwo(f, x, phi) IN [int |-> High(f, top), exact |-> Low(f, top) = 0]
Parity(f, x, phi, beta) ==
  LET low == LowerTwo(f, x, phi)
  IN  [odd |-> (low \div 2^(2*f.w - beta)) % 2 = 1,
       exact |-> (low \div 2^(f.w - beta)) % 2^f.w = 0]
Delta(f, phi, beta) == phi \div 2^(2*f.w - 1 - beta)

(* The interval of a power of two is shorter on its left.                  *)
Ends(f, phi, beta) ==
  LET top == IF f.whole THEN phi ELSE High(f, phi)
      bits == IF f.whole THEN 2*f.w ELSE f.w
  IN  [left |-> (top - top \div 2^(f.p + 2)) \div 2^(bits - f.p - 1 - beta),
       right |-> (top + top \div 2^(f.p + 1)) \div 2^(bits - f.p - 1 - beta),
       middle |-> (top \div 2^(bits - f.p - 2 - beta) + 1) \div 2]

Trail(x) == CHOOSE t \in 0..9 : x % 10^t = 0 /\ x % 10^(t + 1) # 0

----------------------------------------------------------------------------
(* Comparisons of the float, in quarters of its last place, with n * 10^k. *)
Quarters(m, e, n, k) ==
  LET exp == e - 2
      left == m * (IF exp >= 0 THEN 2^exp ELSE 1) * (IF k < 0 THEN 10^(-k) ELSE 1)
      right == n * (IF exp < 0 THEN 2^(-exp) ELSE 1) * (IF k > 0 THEN 10^k ELSE 1)
  IN  right - left
Smallest(f) == 2^f.p
LeftGap(f, m) == IF m = Smallest(f) THEN 1 ELSE 2
(* n * 10^k rounds to the float, to the even one of two when it is midway. *)
RoundsTo(f, m, e, n, k) ==
  LET lo == Quarters(4*m - LeftGap(f, m), e, n, k)
      hi == Quarters(4*m + 2, e, n, k)
  IN  IF m % 2 = 0 THEN lo >= 0 /\ hi <= 0 ELSE lo > 0 /\ hi < 0

(* The bounds of the domain, the lower one a float64 constant itself: the  *)
(* float64 written 10^-MaxPrec passes, no float32 lies between the two.    *)
(* Fault: that float64 is refused as well.                                 *)
TooLarge(m, e) == e >= 0 /\ m * 2^e >= Cap
TooSmallExact(f, m, e) == e < 0 /\ Quarters(4*m, e, 1, -MaxPrec) > 0
TooSmall(f, m, e) ==
  /\ e < 0 /\ Quarters(4*m, e, 1, -MaxPrec) > 0
  /\ ~f.whole => ~RoundsTo(f, m, e, 1, -MaxPrec)

Init ==
  /\ fmt \in Formats /\ e2 \in Exponents(fmt) /\ neg \in BOOLEAN
  /\ mant \in Smallest(fmt)..(2 * Smallest(fmt) - 1)
  /\ at = "guard" /\ s = 0 /\ r = 0 /\ exact = FALSE
  /\ digits = 0 /\ e10 = 0 /\ out = Fail("pending")

Return(res) ==
  /\ at' = "done" /\ out' = res
  /\ UNCHANGED <<float, s, r, exact, digits, e10>>
Shortest(d, e) ==
  /\ at' = "assemble" /\ digits' = d /\ e10' = e
  /\ UNCHANGED <<float, s, r, exact, out>>
ShortestTrimmed(d, e) == Shortest(d \div 10^Trail(d), e + Trail(d))

(* newFromFloat.                                                           *)
Integral(m, e) == e <= 0 /\ m % 2^(-e) = 0
GuardLarge == at = "guard" /\ TooLarge(mant, e2) /\ Return(Fail("Overflow"))
GuardSmall == at = "guard" /\ TooSmall(fmt, mant, e2) /\ Return(Fail("PrecOutOfRange"))
(* Fault: larger integers, not all of them floats, take the path as well.  *)
IntegerPathWide ==
  /\ at = "guard" /\ ~TooLarge(mant, e2) /\ ~TooSmall(fmt, mant, e2)
  /\ ~fmt.whole /\ (e2 > 0 \/ Integral(mant, e2))
  /\ Return(Ok(NewDecimal(IF e2 > 0 THEN mant * 2^e2 ELSE mant \div 2^(-e2), neg, 0)))
IntegerPath ==
  /\ at = "guard" /\ ~TooLarge(mant, e2) /\ ~TooSmall(fmt, mant, e2)
  /\ ~fmt.whole /\ e2 \in (-fmt.p)..0 /\ Integral(mant, e2)
  /\ Return(Ok(NewDecimal(mant \div 2^(-e2), neg, 0)))
ToDigits ==
  /\ at = "guard" /\ ~TooLarge(mant, e2) /\ ~TooSmall(fmt, mant, e2)
  /\ fmt.whole \/ ~(e2 \in (-fmt.p)..0 /\ Integral(mant, e2))
  /\ at' = IF mant = Smallest(fmt) THEN "closer" ELSE "regular"
  /\ UNCHANGED <<float, s, r, exact, digits, e10, out>>

(* A power of two: the left end is closer.                                 *)
K0Closer == -FloorLog10ThreeQuarters(e2)
CloserEnds == Ends(fmt, Phi(fmt, K0Closer), Beta(K0Closer, e2))
CloserLeft == CloserEnds.left + IF e2 \in {2, 3} THEN 0 ELSE 1
CloserTrim ==
  /\ at = "closer"
  /\ LET q == CloserEnds.right \div 10
     IN  CloserLeft <= 10 * q /\ ShortestTrimmed(q, 1 - K0Closer)
(* Fault: the tie exponent is the one that was copied from float64.        *)
CloserRoundForeignTie ==
  /\ at = "closer" /\ CloserLeft > 10 * (CloserEnds.right \div 10)
  /\ LET y == CloserEnds.middle
     IN  Shortest(IF e2 = -7 /\ y % 2 # 0 THEN y - 1
                  ELSE IF y < CloserLeft THEN y + 1 ELSE y, -K0Closer)
CloserRound ==
  /\ at = "closer" /\ CloserLeft > 10 * (CloserEnds.right \div 10)
  /\ LET y == CloserEnds.middle
     IN  Shortest(IF e2 = fmt.tie /\ y % 2 # 0 THEN y - 1
                  ELSE IF y < CloserLeft THEN y + 1 ELSE y, -K0Closer)

(* Every other float: the upper end of its interval, scaled.               *)
K0 == -FloorLog10Pow2(e2)
PhiK == Phi(fmt, fmt.kappa + K0)
BetaK == Beta(fmt.kappa + K0, e2)
DeltaK == Delta(fmt, PhiK, BetaK)
Unit == 10^fmt.kappa
UpperEnd ==
  /\ at = "regular"
  /\ LET z == MulPow(fmt, ((2*mant + 1) * 2^BetaK) % 2^fmt.w, PhiK)
     IN  s' = z.int \div (10*Unit) /\ r' = z.int % (10*Unit) /\ exact' = z.exact
  /\ at' = "split"
  /\ UNCHANGED <<float, digits, e10, out>>
(* The multiple of a whole power below the end: inside the interval,       *)
(* outside as an end that belongs to a neighbour, or just at its left end. *)
(* Fault: an end that belongs to the neighbour is taken all the same.      *)
InsideItClosed ==
  /\ at = "split" /\ r < DeltaK
  /\ ShortestTrimmed(s, 1 - K0)
InsideIt ==
  /\ at = "split" /\ r < DeltaK /\ (r # 0 \/ ~exact \/ mant % 2 = 0)
  /\ ShortestTrimmed(s, 1 - K0)
StepBack ==
  /\ at = "split" /\ r < DeltaK /\ r = 0 /\ exact /\ mant % 2 # 0
  /\ s' = s - 1 /\ r' = 10*Unit /\ at' = "nearest"
  /\ UNCHANGED <<float, exact, digits, e10, out>>
(* Fault: a left end that is a multiple itself is never looked at.         *)
LeftEndExcluded ==
  /\ at = "split" /\ r = DeltaK
  /\ LET x == Parity(fmt, 2*mant - 1, PhiK, BetaK)
     IN  IF x.odd THEN ShortestTrimmed(s, 1 - K0)
         ELSE at' = "nearest" /\ UNCHANGED <<float, s, r, exact, digits, e10, out>>
LeftEnd ==
  /\ at = "split" /\ r = DeltaK
  /\ LET x == Parity(fmt, 2*mant - 1, PhiK, BetaK)
     IN  IF x.odd \/ (x.exact /\ mant % 2 = 0) THEN ShortestTrimmed(s, 1 - K0)
         ELSE at' = "nearest" /\ UNCHANGED <<float, s, r, exact, digits, e10, out>>
Beyond ==
  /\ at = "split" /\ r > DeltaK
  /\ at' = "nearest" /\ UNCHANGED <<float, s, r, exact, digits, e10, out>>
(* One digit more: the multiple nearest to the float.                      *)
NearestNoTie ==                                                    \* fault
  /\ at = "nearest"
  /\ LET d == r + Unit \div 2 - DeltaK \div 2
         y == 10*s + d \div Unit
         mid == Parity(fmt, 2*mant, PhiK, BetaK)
         lower == d % Unit = 0 /\ mid.odd # ((d - Unit \div 2) % 2 # 0)
     IN  Shortest(IF lower THEN y - 1 ELSE y, -K0)
Nearest ==
  /\ at = "nearest"
  /\ LET d == r + Unit \div 2 - DeltaK \div 2
         y == 10*s + d \div Unit
         mid == Parity(fmt, 2*mant, PhiK, BetaK)
         lower == /\ d % Unit = 0
                  /\ mid.odd # ((d - Unit \div 2) % 2 # 0) \/ (mid.exact /\ y % 2 # 0)
     IN  Shortest(IF lower THEN y - 1 ELSE y, -K0)

Assemble ==
  /\ at = "assemble"
  /\ Return(AssembleFloat(digits, e10, neg))

Returned == at = "done" /\ UNCHANGED vars

Next ==
  \/ GuardLarge \/ GuardSmall \/ IntegerPath \/ ToDigits
  \/ CloserTrim \/ CloserRound
  \/ UpperEnd \/ InsideIt \/ StepBack \/ LeftEnd \/ Beyond \/ Nearest
  \/ Assemble \/ Returned
Spec == Init /\ [][Next]_vars

----------------------------------------------------------------------------
Ready == at = "assemble"

(* Powers of ten from below the width of the interval to above the float,  *)
(* and the multiples of such a power on both sides of the float.           *)
Places == FloorLog10ThreeQuarters(e2)..(FloorLog10Pow2(e2) + 4)
Beside(k) ==
  LET m == 4*mant * (IF e2 >= 2 THEN 2^(e2 - 2) ELSE 1) * (IF k < 0 THEN 10^(-k) ELSE 1)
      u == (IF e2 < 2 THEN 2^(2 - e2) ELSE 1) * (IF k > 0 THEN 10^k ELSE 1)
  IN  {m \div u, m \div u + 1} \ {0}
Candidates(k) == {n \in Beside(k) : RoundsTo(fmt, mant, e2, n, k)}
Closest(k) ==
  LET Off(n) == Abs(Quarters(4*mant, e2, n, k))
  IN  CHOOSE n \in Candidates(k) :
        \A o \in Candidates(k) : Off(n) < Off(o) \/ (Off(n) = Off(o) /\ (n = o \/ n % 2 = 0))

(* The last place of the shortest decimal, and its fraction digits.        *)
LastPlace == CHOOSE k \in Places : /\ Candidates(k) # {}
                                   /\ \A j \in Places : j > k => Candidates(j) = {}
FractionDigits == Larger(-LastPlace, 0)

(* The digits found round back to the float they came from, and no decimal *)
(* of fewer digits does: no multiple of a higher power of ten lies in the  *)
(* interval (dbox.go:209).  Among those of as many digits none is closer,  *)
(* and of two as close the even one is taken (parse.go:978, "breaking ties *)
(* to even").                                                              *)
ShortestClosest ==
  Ready => /\ digits \in Candidates(e10)
           /\ \A k \in Places : k > e10 => Candidates(k) = {}
           /\ digits = Closest(e10)

(* The contract of NewFromFloat and NewFromFloat32 (parse.go:976): 2^128   *)
(* and more is ErrOverflow; a float32 below 10^-MaxPrec is                 *)
(* ErrPrecOutOfRange whatever its digits are; every other float, on        *)
(* whatever path, is what Text says of its shortest decimal.  So the       *)
(* integer path gives the same number, a float64 that is refused for its   *)
(* size needed too many places, and the assembly never overflows below     *)
(* 2^128 (parse.go:1007, 1072).                                            *)
Converts ==
  LET below == Quarters(4*mant, e2, 1, -MaxPrec) > 0
  IN  at = "done" =>
        out = IF TooLarge(mant, e2) THEN Fail("Overflow")
              ELSE IF fmt.whole /\ below THEN Fail("PrecOutOfRange")
              ELSE NewFromFloat(Number(neg, Closest(LastPlace), 0, -LastPlace))

(* What the tests say of a refusal (dbox_shortest_test.go:38): a float is  *)
(* refused with ErrPrecOutOfRange only if its shortest form needs more     *)
(* than MaxPrec fractional digits.  The bound on the size is a float64:    *)
(* the float32 written 10^-MaxPrec may lie below it.                       *)
RefusedNeedsPlaces ==
  at = "done" /\ out.err = "PrecOutOfRange" => FractionDigits > MaxPrec
=============================================================================
