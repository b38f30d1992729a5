----------------------------- MODULE MCKernels -----------------------------
(***************************************************************************)
(* Kernels over 7-bit words (MaxPrec 2): limbs at the ends of the word, at *)
(* the normalization bit and at the powers of ten; 66 is a divisor that    *)
(* needs the improbable last correction of div2by1.                        *)
(***************************************************************************)
EXTENDS Kernels

MCBase == 2 ^ WordBits
MCPow10 == [e \in 0..2*MaxPrec |-> 10 ^ e]

Edge == {0, 1, MCBase \div 2, MCBase - 2, MCBase - 1}
Ends == {0, 1, MCBase - 1}
Pairs == {U(a, b) : a \in Edge, b \in Edge}
Quads(S) == {Q(a, b, c, d) : a \in S, b \in S, c \in S, d \in S}
Narrow == {Q(0, 0, p.hi, p.lo) : p \in Pairs}
Call(op, q, w, v, e) == [op |-> op, u |-> q, w |-> w, v |-> v, k |-> e]
None == Q(0, 0, 0, 0)
Divisors == {U(0, a) : a \in {1, 3, 10, 65, 100}} \cup {p \in Pairs : p # U(0, 0)}
Dividends == Quads({0, 1, MCBase \div 2, MCBase - 1}) \cup {Q(0, a, b, c) : a \in {9, 10, 64, 99, 100}, b \in Edge, c \in Edge}

MCCalls ==
  {Call(op, q, None, v, 0) : op \in {"add128", "sub128", "neg128", "inc128", "cmp128i",
                                     "mul128by64", "mulToU256"}, q \in Narrow, v \in Pairs}
    \cup {Call(op, q, w, One, 0) : op \in {"add256", "sub256", "neg256", "cmp256"},
            q \in Quads(Ends), w \in Quads({0, MCBase - 1}) \cup {Q(1, 0, 0, 1)}}
    \cup {Call("mul256by64", q, None, U(0, a), 0) : q \in Quads(Edge), a \in {1, 10, 100}}
    \cup {c \in {Call("div256by128", q, None, v, 0) : q \in Quads({0, 1, MCBase \div 2, MCBase - 1}), v \in Divisors} :
            c.v.hi # 0 /\ LessLimbs(Hi128(c.u), c.v)}
    \cup {Call("divRoundWide", q, None, v, 0) : q \in Dividends, v \in Divisors}
    \cup {Call("div256by64", q, None, U(0, a), 0) : q \in Dividends, a \in {0, 1, 65, 66, 127}}
    \cup {Call("quoRem64", q, None, v, 0) : q \in Narrow, v \in {d \in Divisors : d.hi = 0}}
    \cup {Call(op, q, None, One, e) : op \in {"divmodU256Pow10Wide", "quoRemPow10Fit"},
            q \in Dividends, e \in 1..MaxPrec}
    \cup {Call("divU256Pow10", q, None, One, e) : q \in Dividends, e \in 0..2*MaxPrec}
    \cup {Call("divmod128Pow10", Q(0, 0, a, b), None, One, e) :
            a \in Edge, b \in 0..(MCBase - 1), e \in 0..MaxPrec}
=============================================================================
