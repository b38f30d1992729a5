---------------------------- MODULE MCReceivers ----------------------------
(***************************************************************************)
(* An instance of Receivers for TLC: 10-bit words (u128 is 0..1048575),    *)
(* MaxPrec 3, a cache window of ten hundredths.                            *)
(***************************************************************************)
EXTENDS Receivers

MCBase == 2 ^ WordBits
MCPow10 == [k \in 0..2*MaxPrec |-> 10 ^ k]

MCValues ==
  {Zero, NewDecimal(1, FALSE, 2), NewDecimal(10, TRUE, 3), NewDecimal(1023, TRUE, 1),
   NewDecimal(1000, FALSE, 2), NewDecimal(10, FALSE, 0), NewDecimal(11, TRUE, 2),
   NewDecimal(1048570, FALSE, 1)}

(* Spellings of zero, of the greatest coefficient, of numbers out of range. *)
Spellings ==
  {Number(TRUE, 0, 0, 2), Number(TRUE, 0, 0, 5), Number(FALSE, 7, 2, -2), Number(TRUE, 7, 0, 4)}
    \cup {Number(FALSE, 1048575, z, f) : z \in {0, 1, 4}, f \in {-1, 1, 7}}
    \cup {Number(TRUE, 1048577, 1, 2), Empty, TooLong, Malformed}
Floats == {Number(TRUE, 5, 0, 1), Number(FALSE, 5, 0, 4), Number(FALSE, 1, 4, 0),
           Number(FALSE, 0, 0, 0), Number(FALSE, 104859, 1, 0), NotNumber("notfinite")}
Flags == {{}, {"neg"}, {"hi"}, {"neg", "hi"}, {"hi", "reserved"}}

MCForeign ==
  {TextMsg(t) : t \in Spellings}
    \cup {JsonMsg(shape, "plain", t) : shape \in {"bare", "quoted", "escaped"},
             t \in {Number(TRUE, 15, 0, 1), Empty, Malformed}}
    \cup {JsonMsg(shape, "plus", Number(FALSE, 7, 0, 0)) : shape \in {"bare", "quoted"}}
    \cup {SqlMsg("[]byte", t) : t \in {Number(FALSE, 7, 1, 2), Malformed}}
    \cup {SqlMsg(type, Number(type \in {"int", "int64", "int8"}, 511, 0, 0)) : type \in StrictInts}
    \cup {SqlMsg("float64", t) : t \in Floats} \cup {SqlMsg("float32", Number(TRUE, 5, 0, 1))}
    \cup {SqlMsg(type, Malformed) : type \in {"bool", "time", "other"}}
    \cup {BinMsg(len, flags, 2, 1023, 0) : len \in {9, 10, 18}, flags \in Flags}
    \cup {BinMsg(10, {"neg"}, p, 0, 0) : p \in {3, 4}}
    \cup {BinMsg(18, flags, p, 0, 1) : p \in {3, 4}, flags \in Flags}
=============================================================================
