--------------------------- MODULE MCCalculator ---------------------------
(***************************************************************************)
(* Instances of Calculator for TLC.  With 4-bit words (u128 is 0..255,     *)
(* MaxPrec 1) every Decimal is a start; with 7-bit words (u128 is          *)
(* 0..16383, MaxPrec 2) and 10-bit words (u128 is 0..1048575, MaxPrec 3)   *)
(* the starts and operands sit at the limb, table and overflow boundaries, *)
(* and small enough for the products of the properties to stay in TLC's    *)
(* integers.                                                               *)
(***************************************************************************)
EXTENDS Calculator, TLC

MCBase == 2 ^ WordBits
MCPow10 == [k \in 0..2*MaxPrec |-> 10 ^ k]

WithCoef(coefs) == {NewDecimal(c, s, p) : c \in coefs, s \in BOOLEAN, p \in 0..MaxPrec}

AllDecimals == WithCoef(U128)
SmallOperands == WithCoef({0, 1, 3, 5, 10, 15, 16, 25, 26, 99, 128, 250, 255})
RoundOperands == {NewDecimal(c, s, 1) : c \in {0, 1, 5, 15, 16, 35, 255}, s \in BOOLEAN}
                   \cup {NewDecimal(c, FALSE, 0) : c \in {3, 8, 255}}

SevenBitStarts == WithCoef({0, 1, 2, 5, 7, 49, 50, 63, 64, 65, 99, 100, 127, 128, 150, 1000, 1638,
                            1639, 13653, 9999, 10000, 16256, 16382, 16383})
SevenBitOperands == WithCoef({0, 1, 2, 3, 9, 10, 11, 12, 99, 100, 127, 128, 129, 163, 164,
                              999, 1000, 1200})
MulOperands == SevenBitStarts \cup SevenBitOperands
MulDivOperands == WithCoef({0, 1, 7, 12})
FourBitWholes == WithCoef({1, 10})
MulDivWholes == {NewDecimal(c, c = 8, p) : c \in {0, 3, 7, 8, 127, 129, 163, 16383},
                                           p \in 0..MaxPrec}

TenBitStarts == WithCoef({0, 1, 73372, 999, 1000, 1001, 1023, 1024, 1025, 10485, 10486, 104857,
                          104858, 524287, 524288, 999999, 1000000, 1047552, 1048575})
TenBitDivisors == {NewDecimal(c, s, 0) :
                     c \in {0, 1, 2, 3, 7, 9, 10, 11, 99, 100, 511, 512, 1000, 1023, 1024,
                            1025, 99999, 524288, 1048575}, s \in BOOLEAN}

AllPlaces == 0..MaxPrec + 1
AllCallModes == Modes \cup {"NoSuchMode"}

SevenBitInts == Int64
SevenBitExps == (-MaxPrec - 3)..(2*MaxPrec + 2)

(* Which operations each instance calls, and with which right operands.    *)
FourBitOperands ==
  [op \in {"Add", "Sub", "Mul", "Div", "QuoRem", "Mod", "CopySign", "NewFromHiLo"}
     |-> SmallOperands]
    @@ [op \in {"MulRound", "DivRound"} |-> RoundOperands]
    @@ [op \in {"Cmp"} |-> AllDecimals]
    @@ [op \in {"Min", "Max"} |-> FourBitWholes]
FourBitOps == DOMAIN FourBitOperands \cup
  {"Neg", "Abs", "Trim", "Round", "Floor", "Ceil", "Truncate", "Rescale"}

SevenBitOperandsOf ==
  [op \in {"MulExact", "DivExact"} |-> SevenBitOperands]
    @@ [op \in {"Mul"} |-> MulOperands]
    @@ [op \in {"MulDivRound"} |-> MulDivOperands]
SevenBitOps == DOMAIN SevenBitOperandsOf \cup {"New", "NewFromInt", "IntPart"}

MulDivOps == {"MulDivRound"}
TenBitOperands == [op \in {"Div"} |-> TenBitDivisors]
TenBitOps == DOMAIN TenBitOperands
=============================================================================
