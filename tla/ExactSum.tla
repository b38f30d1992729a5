------------------------------ MODULE ExactSum ------------------------------
(***************************************************************************)
(* What Sum promises, without saying how: it runs over its arguments once  *)
(* keeping their exact total, and answers with that total at the greatest  *)
(* precision of the arguments.  The total is an unbounded integer in units *)
(* of 10^-MaxPrec, so nothing that overflows on the way can matter, and    *)
(* the answer depends on the arguments only through their total and their  *)
(* greatest precision: it is the same in every order.                      *)
(***************************************************************************)
EXTENDS Decimal, Sequences

VARIABLES args, i, total, res
vars == <<args, i, total, res>>

Pending == [val |-> Zero, err |-> "pending"]

GreatestPrec(s) ==
  CHOOSE p \in 0..MaxPrec : /\ \E j \in 1..Len(s) : s[j].prec = p
                            /\ \A j \in 1..Len(s) : s[j].prec <= p

(* The answer for an exact total at a precision: ErrOverflow exactly when  *)
(* the coefficient does not fit 128 bits.                                  *)
SumAnswer(sum, prec) ==
  LET mag == Abs(sum) \div Pow10[MaxPrec - prec]
  IN  IF mag >= Cap THEN Fail("Overflow") ELSE Ok(NewDecimal(mag, sum < 0, prec))

Init ==
  /\ args \in Seq(Decimals) /\ args # <<>>
  /\ i = 1 /\ total = 0 /\ res = Pending

Consume ==
  /\ res = Pending /\ i <= Len(args)
  /\ total' = total + Scaled(args[i])
  /\ i' = i + 1
  /\ UNCHANGED <<args, res>>

Answer ==
  /\ res = Pending /\ i = Len(args) + 1
  /\ res' = SumAnswer(total, GreatestPrec(args))
  /\ UNCHANGED <<args, i, total>>

(* Two arguments may be answered at once.                                  *)
AnswerPair ==
  /\ res = Pending /\ i = 1 /\ Len(args) = 2
  /\ res' = SumAnswer(Scaled(args[1]) + Scaled(args[2]), GreatestPrec(args))
  /\ UNCHANGED <<args, i, total>>

Next == Consume \/ Answer \/ AnswerPair
Spec == Init /\ [][Next]_vars
=============================================================================
