------------------------------- MODULE MCWire -------------------------------
(***************************************************************************)
(* Coefficients at the edges of one and of two limbs and around the powers *)
(* of ten where a chunk ends, with zeros inside and behind; every          *)
(* precision; places below, at and beyond MaxPrec and a run of padding.    *)
(* Texts of a few lengths are spelled in many ways on the wire: escaped    *)
(* throughout, at either end or in turn, with a stray or a broken unit     *)
(* anywhere, twice over so that the buffer or the string is too long.      *)
(***************************************************************************)
EXTENDS Wire

MCBase == 2 ^ WordBits
MCPow10 == [k \in 0..2*MaxPrec |-> 10^k]
MCLiterals == {}

Edges == {0, 1, 4, 5, 9, 10, 45, 49, 50, 95, 99, 100, 101, 499, 500, 995, 999, 1000, 1001,
          1020, 1023, 1024, 1025, 1100, 2000, 9500, 9995, 9999, 10000, 10001, 10050, 50000,
          99499, 99500, 99999, 100000, 100001, 100100, 499500, 999000, 999499, 999500,
          999999, 1000000, 1000001, 1005000, 1048500, 1048575}
MCAmounts == {NewDecimal(c, neg, p) : c \in Edges, neg \in BOOLEAN, p \in 0..MaxPrec}
MCRequests == {Shortest, 0, 1, 2, 3, 4, 7, 8, 11}

Spell(t, hex) == [i \in DOMAIN t |-> IF i \in hex THEN Hex(t[i]) ELSE Plain(t[i])]
Spellings(t) == {Spell(t, {}), Spell(t, DOMAIN t), Spell(t, {1}), Spell(t, {Len(t)})}
(* An accented letter, a solidus, an emoji as a surrogate pair; a quote, a *)
(* lone surrogate, four characters that are not hexadecimal, a backslash   *)
(* at the end.                                                             *)
Strays == {Stray(FALSE, 2, 2), Stray(TRUE, 2, 1), Stray(TRUE, 12, 4),
           Broken(FALSE, 1), Broken(TRUE, 6), Broken(TRUE, 1)}
MCRespell(t) ==
  Spellings(t) \cup
  IF Len(t) \notin {1, 7, 9} THEN {}
  ELSE {<<x>> \o b : x \in Strays, b \in Spellings(t)}
         \cup {b \o <<x>> : x \in Strays, b \in Spellings(t)}
         \cup {a \o b : a, b \in Spellings(t)}
         \cup {<<Hex(0)>> \o b : b \in Spellings(t)} \cup {<<Hex(Plus)>> \o b : b \in Spellings(t)}
MCBare(t) ==
  {t, <<Plus>> \o t, <<0>> \o t, <<Minus, 0>> \o t, <<>>, <<Other>>} \cup
  IF Head(t) = Minus THEN {<<Minus, 0>> \o Tail(t)} ELSE {<<Minus>> \o t}
=============================================================================
