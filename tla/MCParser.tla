------------------------------ MODULE MCParser ------------------------------
(***************************************************************************)
(* Words of ten bits and three places: a coefficient of 20 bits holds      *)
(* 1048575, six digits always fit and seven may, so chunks of three digits *)
(* overflow at every place and two chained cut-offs are needed.  Literals  *)
(* reach past all of that: up to 14 bytes, with the boundaries of both     *)
(* words among the digits, zeros before and behind them, a point anywhere, *)
(* and exponents on both sides of the bound where they stop growing.       *)
(***************************************************************************)
EXTENDS Parser

MCBase == 2 ^ WordBits
MCPow10 == [k \in 0..2*MaxPrec |-> 10^k]

Written(n) ==
  LET len == Min({k \in 1..7 : n < 10^k})
  IN  [i \in 1..len |-> (n \div 10^(len - i)) % 10]
Heads == {1, 23, 999, 1023, 1024, 9999, 104857, 104858, 1048575, 1048576}
Tails == {<<>>, <<0>>, <<5>>, <<0, 0, 6>>, <<0, 0, 0, 0>>, <<0, 0, 0, 0, 3>>}
Digits == {Written(h) \o t : h \in Heads, t \in Tails}

(* Endings: sign of the exponent, its digits, and stray bytes.             *)
Ending(tail, expSign, expDigits, junk) ==
  [tail |-> tail, expSign |-> expSign, exp |-> expDigits, junk |-> junk]
Plain == Ending("end", "", <<>>, 0)
Exponents == {Ending("exp", sgn, e, 0) :
               sgn \in {"", "-"}, e \in {<<1>>, <<0, 3>>, <<5>>, <<8>>, <<1, 3>>, <<2, 9>>}}
             \cup {Ending("exp", "+", e, 0) : e \in {<<0>>, <<7>>, <<9, 9, 9>>}}
Broken == {Ending("junk", "", <<>>, j) : j \in 1..2} \cup
          {Ending("exp", sgn, <<>>, 0) : sgn \in {"", "+"}} \cup {Ending("exp", "+", <<4>>, 1)}

With(sign, zeros, int, dot, fraction, end) ==
  Literal(sign, zeros, int, dot, fraction, end.tail, end.expSign, end.exp, end.junk)
WholeNumbers == {With(sign, z, s, FALSE, <<>>, end) :
               sign \in {"", "-"}, z \in {0, 2}, s \in Digits, end \in {Plain} \cup Exponents}
Fractions == UNION {{With("-", 0, SubSeq(s, 1, k), TRUE, SubSeq(s, k + 1, Len(s)), end) :
               k \in 0..Len(s), end \in {Plain} \cup Exponents} : s \in Digits}
Small == {With("", z, <<>>, TRUE, Zeros(j) \o s, end) :
               z \in {0, 1}, j \in {1, 3, 4}, s \in Digits, end \in {Plain} \cup Exponents}
Nothing == {With(sign, z, <<>>, dot, IF dot THEN Zeros(j) ELSE <<>>, end) :
               sign \in {"", "-", "+"}, z \in {0, 1, 5, 14, 15}, dot \in BOOLEAN,
               j \in {0, 1, 2, 4}, end \in {Plain} \cup Exponents \cup Broken}
Stray == {With("+", z, s, dot, IF dot THEN f ELSE <<>>, end) :
               z \in {0, 1}, s \in {<<>>, <<7>>, Written(23), Written(1024), Written(1048576)},
               dot \in BOOLEAN, f \in {<<>>, <<5>>, <<0, 0, 0, 0>>, Written(10234)},
               end \in {Plain} \cup Broken}
MCLiterals ==
  {l \in WholeNumbers \cup Fractions \cup Small \cup Nothing \cup Stray :
     Bytes(l) <= MaxParseLen + 1 /\ (l.int # <<>> => l.int[1] # 0)}
=============================================================================
