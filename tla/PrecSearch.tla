----------------------------- MODULE PrecSearch -----------------------------
(***************************************************************************)
(* The three loops that look for the greatest precision at which a         *)
(* quotient fits 128 bits, step by step: the binary searches of DivExact   *)
(* (signed bounds) and aggregateGreatestFit (uint8 bounds) and the bit-    *)
(* length descent with backstop and probe of Div.  What fits is monotone   *)
(* in the precision, so it is a threshold: exactly 0..top fit, none if     *)
(* top is -1.  Div's estimate is a second threshold, sure, at most one     *)
(* below top (property EstimateTight of Calculator checks that it is never *)
(* above top either; here it may be, so that the descent Div keeps as a    *)
(* backstop for a wrong estimate is exercised).                            *)
(***************************************************************************)
EXTENDS Integers

CONSTANT Limits        \* the greatest precisions searched: MaxPrec, DefaultPrec

ASSUME LimitsAssumption == Limits \subseteq 0..127   \* a uint8, doubled below 256

Byte == 256            \* uint8 arithmetic wraps here

VARIABLES algo, limit, top, sure,  \* the call and what fits
          pc, lo, hi, p, best      \* its progress and its answer
input == <<algo, limit, top, sure>>
vars == <<input, pc, lo, hi, p, best>>

Fits(n) == n <= top
SurelyFits(n) == n <= sure
Mid == (lo + hi) \div 2

Init ==
  /\ algo \in {"DivExact", "GreatestFit", "Div"}
  /\ limit \in IF algo = "GreatestFit" THEN Limits ELSE Limits \ {0}
  /\ top \in -1..limit
  /\ sure \in (top - 1)..limit
  /\ pc = "start" /\ lo = 0 /\ hi = 0 /\ p = 0 /\ best = -1

Done(b) == pc' = "done" /\ best' = b /\ UNCHANGED <<input, lo, hi, p>>

(* All three try the limit first; GreatestFit gives up there at limit 0.   *)
TryLimit == pc = "start" /\ Fits(limit) /\ Done(limit)
GiveUp == pc = "start" /\ ~Fits(limit) /\ algo = "GreatestFit" /\ limit = 0 /\ Done(-1)

BeginSearch ==
  /\ pc = "start" /\ ~Fits(limit) /\ algo # "Div" /\ limit > 0
  /\ pc' = "search" /\ lo' = 0 /\ hi' = limit - 1
  /\ UNCHANGED <<input, p, best>>

SearchFit ==
  /\ pc = "search" /\ lo <= hi /\ Fits(Mid)
  /\ best' = Mid /\ lo' = Mid + 1
  /\ UNCHANGED <<input, pc, hi, p>>

(* An unsigned hi cannot go below 0: the loop breaks instead.              *)
BreakAtZero ==
  /\ pc = "search" /\ lo <= hi /\ ~Fits(Mid) /\ algo = "GreatestFit" /\ Mid = 0
  /\ Done(best)
LowerBy2(mid) == (mid - 2) % Byte                                  \* fault
Lower(mid) == IF algo = "GreatestFit" THEN (mid - 1) % Byte ELSE mid - 1
(* Fault: an unsigned hi is decremented also at zero.                      *)
SearchMissUnguarded ==
  /\ pc = "search" /\ lo <= hi /\ ~Fits(Mid)
  /\ hi' = Lower(Mid)
  /\ UNCHANGED <<input, pc, lo, p, best>>
SearchMiss ==
  /\ pc = "search" /\ lo <= hi /\ ~Fits(Mid) /\ ~(algo = "GreatestFit" /\ Mid = 0)
  /\ hi' = Lower(Mid)
  /\ UNCHANGED <<input, pc, lo, p, best>>

SearchEnd == pc = "search" /\ lo > hi /\ Done(best)

(* Div: walk down to the estimate, fall back while it does not fit, then   *)
(* probe one above.                                                        *)
BeginDescent ==
  /\ pc = "start" /\ ~Fits(limit) /\ algo = "Div"
  /\ pc' = "descend" /\ p' = limit - 1
  /\ UNCHANGED <<input, lo, hi, best>>
Descend ==
  /\ pc = "descend" /\ p > 0 /\ ~SurelyFits(p)
  /\ p' = p - 1
  /\ UNCHANGED <<input, pc, lo, hi, best>>
Estimated ==
  /\ pc = "descend" /\ (p = 0 \/ SurelyFits(p))
  /\ pc' = "divide"
  /\ UNCHANGED <<input, lo, hi, p, best>>
Backstop ==
  /\ pc = "divide" /\ ~Fits(p) /\ p > 0
  /\ p' = p - 1
  /\ UNCHANGED <<input, pc, lo, hi, best>>
NoPrecision == pc = "divide" /\ ~Fits(p) /\ p = 0 /\ Done(-1)
(* Fault: the descent is trusted, nothing is probed.                       *)
ProbeNothing == pc = "divide" /\ Fits(p) /\ Done(p)
Probe ==
  /\ pc = "divide" /\ Fits(p)
  /\ Done(IF p + 1 < limit /\ Fits(p + 1) THEN p + 1 ELSE p)

Step ==
  \/ TryLimit \/ GiveUp
  \/ BeginSearch \/ SearchFit \/ SearchMiss \/ BreakAtZero \/ SearchEnd
  \/ BeginDescent \/ Descend \/ Estimated \/ Backstop \/ NoPrecision \/ Probe
Next == Step \/ (pc = "done" /\ UNCHANGED vars)

Spec == Init /\ [][Next]_vars
(* Straight-line code: while the loop can step, it does.                   *)
FairSpec == Spec /\ WF_vars(Step)

----------------------------------------------------------------------------
(* The answer is the greatest precision that fits, or -1 when none does:   *)
(* the largest-p contract of Div, DivExact and the means.                  *)
FindsGreatest ==
  pc = "done" => best \in -1..limit /\ \A n \in 0..limit : Fits(n) <=> n <= best

(* While a binary search runs, everything up to best fits and everything   *)
(* above hi does not; the bounds stay in the type the code gives them.     *)
SearchBrackets ==
  pc = "search" =>
    /\ lo \in 0..limit /\ hi \in -1..(limit - 1) /\ best = lo - 1
    /\ algo = "GreatestFit" => hi \in 0..(limit - 1)
    /\ \A n \in 0..limit : (n < lo => Fits(n)) /\ (n > hi => ~Fits(n))

(* The searches end, also the unsigned one that meets no fit at all.       *)
Terminates == <>(pc = "done")
=============================================================================
