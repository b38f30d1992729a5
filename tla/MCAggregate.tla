---------------------------- MODULE MCAggregate ----------------------------
(***************************************************************************)
(* An instance of Aggregate for TLC: 7-bit words (u128 is 0..16383) with   *)
(* arguments at the limits of the narrow subtotals and of the aligned ones, *)
(* and means that fit at some precisions and not at others.                *)
(***************************************************************************)
EXTENDS Aggregate

MCBase == 2 ^ WordBits
MCPow10 == [k \in 0..2*MaxPrec |-> 10 ^ k]

MCInputs ==
  {Zero, NewDecimal(1, FALSE, 0), NewDecimal(Cap - 1, FALSE, 0),
   NewDecimal(Cap - 1, TRUE, 0), NewDecimal(Cap \div 2, FALSE, 0),
   NewDecimal(Cap \div 10, TRUE, 0), NewDecimal(1, FALSE, 1),
   NewDecimal(Cap - 6, FALSE, 1), NewDecimal(Cap - 1, FALSE, 1),
   NewDecimal(Cap - 1, TRUE, 1), NewDecimal(3, TRUE, MaxPrec),
   NewDecimal(7, TRUE, MaxPrec), NewDecimal(Cap - 1, FALSE, MaxPrec)}

MCOps == {"Sum", "Avg", "AvgExact", "AvgRound"}
AllPlaces == 0..(MaxPrec + 1)
AllCallModes == Modes \cup {"NoSuchMode"}
=============================================================================
