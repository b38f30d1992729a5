-------------------------- MODULE PrecSearchProofs --------------------------
(***************************************************************************)
(* The searches of PrecSearch find the greatest fitting precision, for     *)
(* every limit a uint8 index can have and every monotone fit.              *)
(***************************************************************************)
EXTENDS PrecSearch, TLAPS

InputOK ==
  /\ algo \in {"DivExact", "GreatestFit", "Div"}
  /\ limit \in 0..127 /\ (algo # "GreatestFit" => limit >= 1) /\ top \in -1..limit
  /\ sure \in Int /\ top <= sure + 1

(* The inductive invariant: what each phase knows about top.               *)
IInv ==
  /\ InputOK
  /\ pc \in {"start", "search", "descend", "divide", "done"}
  /\ lo \in Int /\ hi \in Int /\ p \in Int /\ best \in Int
  /\ pc = "start" => best = -1
  /\ pc = "search" =>
       /\ algo # "Div" /\ limit >= 1
       /\ lo \in 0..limit /\ hi \in -1..(limit - 1)
       /\ algo = "GreatestFit" => hi >= 0
       /\ best = lo - 1 /\ best <= top /\ top <= hi
  /\ pc \in {"descend", "divide"} =>
       p \in 0..(limit - 1) /\ top < limit /\ top <= p + 1
  /\ pc = "done" => best = top

(* A search has not started.                                               *)
LEMMA InitIInv == Init => IInv
  BY LimitsAssumption DEF Init, IInv, InputOK

(* Every step of the three loops keeps the invariant.                      *)
LEMMA NextIInv == IInv /\ [Next]_vars => IInv'
<1> SUFFICES ASSUME IInv, [Next]_vars PROVE IInv'
  OBVIOUS
<1> USE DEF IInv, InputOK, input, Fits, SurelyFits
<1>1. CASE TryLimit
  BY <1>1 DEF TryLimit, Done
<1>2. CASE GiveUp
  BY <1>2 DEF GiveUp, Done
<1>3. CASE BeginSearch
  BY <1>3 DEF BeginSearch
<1>4. CASE SearchFit
  BY <1>4 DEF SearchFit, Mid
<1>5. CASE SearchMiss
  <2>1. Mid \in 0..127 /\ lo <= Mid /\ Mid <= hi /\ top < Mid
    BY <1>5 DEF SearchMiss, Mid
  <2>2. hi' = Mid - 1
    BY <1>5, <2>1 DEF SearchMiss, Lower, Byte
  <2>3. algo = "GreatestFit" => Mid # 0
    BY <1>5 DEF SearchMiss
  <2> QED
    BY <1>5, <2>1, <2>2, <2>3 DEF SearchMiss
<1>6. CASE BreakAtZero
  BY <1>6 DEF BreakAtZero, Done, Mid
<1>7. CASE SearchEnd
  BY <1>7 DEF SearchEnd, Done
<1>8. CASE BeginDescent
  BY <1>8 DEF BeginDescent
<1>9. CASE Descend
  BY <1>9 DEF Descend
<1>10. CASE Estimated
  BY <1>10 DEF Estimated
<1>11. CASE Backstop
  BY <1>11 DEF Backstop
<1>12. CASE NoPrecision
  BY <1>12 DEF NoPrecision, Done
<1>13. CASE Probe
  BY <1>13 DEF Probe, Done
<1>14. CASE UNCHANGED vars
  BY <1>14 DEF vars
<1> QED
  BY <1>1, <1>2, <1>3, <1>4, <1>5, <1>6, <1>7, <1>8, <1>9, <1>10, <1>11, <1>12,
     <1>13, <1>14 DEF Next, Step

(* The invariant gives the answer's contract and the brackets.             *)
LEMMA IInvImplies == IInv => FindsGreatest /\ SearchBrackets
  BY DEF IInv, InputOK, FindsGreatest, SearchBrackets, Fits

(* The largest-p contract: when a search returns, its answer is the        *)
(* greatest precision up to the limit at which the quotient fits, or -1    *)
(* when it fits at none (Div, DivExact, aggregateGreatestFit).             *)
THEOREM SearchFindsGreatest == Spec => []FindsGreatest
<1>1. Spec => []IInv
  BY InitIInv, NextIInv, PTL DEF Spec
<1> QED
  BY <1>1, IInvImplies, PTL

(* The bounds of the binary searches bracket the answer and stay in their  *)
(* types: the unsigned hi of aggregateGreatestFit never wraps below zero.  *)
THEOREM SearchStaysBracketed == Spec => []SearchBrackets
<1>1. Spec => []IInv
  BY InitIInv, NextIInv, PTL DEF Spec
<1> QED
  BY <1>1, IInvImplies, PTL
=============================================================================
