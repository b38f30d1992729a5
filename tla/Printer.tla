------------------------------ MODULE Printer ------------------------------
(***************************************************************************)
(* How format.go writes a Decimal: digits go right to left, two at a time, *)
(* into a scratch buffer whose stores are masked and not checked, in       *)
(* chunks that fill one limb, and the result is read back by the parser.   *)
(* The canonical writer trims the fraction, the fixed one rounds first and *)
(* appends the zeros that are missing.                                     *)
(***************************************************************************)
EXTENDS Parser

CONSTANTS
  ScratchLen,   \* bytes of scratch, a power of two: 64
  ZeroRun,      \* zeros appended at once, a power of two: 32
  Amounts,      \* the Decimals written
  Requests      \* the places asked of StringFixed, or Shortest

Shortest == -1                             \* the canonical form
(* The widest number has 2*MaxPrec + 1 digits, a sign and a point: it fits *)
(* the buffer (41 bytes of 64) and what the parser accepts (of 200).       *)
ASSUME PrinterAssumption ==
  /\ ScratchLen \in Nat /\ ZeroRun \in Nat \ {0}
  /\ ScratchLen >= 2*MaxPrec + 3 /\ MaxParseLen >= 2*MaxPrec + 3
  /\ Amounts \subseteq Decimals /\ Requests \subseteq Nat \cup {Shortest}

VARIABLES
  given, places,      \* the call: a Decimal and a request
  num,                \* the Decimal written: rounded already in the fixed form
  at,                 \* where the writer is
  q,                  \* digits of the integer part not written yet
  chunk, width,       \* the chunk being written and its padded digits left
  buf, pos, end,      \* the scratch buffer and the window written in it
  pad, text           \* zeros still to be appended, and the bytes handed out
parserVars == vars
writerVars == <<given, places, num, at, q, chunk, width, buf, pos, end, pad, text>>
allVars == <<parserVars, writerVars>>
kept == <<given, places, num, end, pad, text, parserVars>>

Point == -1
Minus == -2
Plus == -3
Other == -4                        \* a byte of no literal
Fixed == places # Shortest
InScratch(i) == i % ScratchLen             \* i & scratchMask

PrinterInit ==
  /\ given \in Amounts /\ places \in Requests /\ num = given
  /\ at = "split" /\ q = 0 /\ chunk = 0 /\ width = 0
  /\ buf = [i \in 0..(ScratchLen - 1) |-> Point]
  /\ pos = ScratchLen /\ end = ScratchLen /\ pad = 0 /\ text = <<>>
  /\ trunc \in BOOLEAN /\ pc = "idle"
  /\ lit = Literal("", 0, <<>>, FALSE, <<>>, "end", "", <<>>, 0)
  /\ rest = <<>> /\ coef = 0 /\ frac = 0
  /\ dropped = 0 /\ dropNZ = 0 /\ exp = 0 /\ out = Pending

(* The integer part and the fraction; the fixed form rounds first.         *)
(* Fault: the padding is reckoned from the precision before rounding.      *)
SplitPadsEarly ==
  /\ at = "split"
  /\ LET d == IF Fixed THEN Round(given, places) ELSE given
         r == d.coef % Pow10[d.prec]
     IN  /\ num' = d /\ q' = d.coef \div Pow10[d.prec]
         /\ chunk' = r /\ width' = d.prec
         /\ at' = IF Fixed THEN IF d.prec > 0 THEN "frac" ELSE "point"
                           ELSE IF r # 0 THEN "frac" ELSE "int"
         /\ pad' = IF Fixed THEN Larger(places - given.prec, 0) ELSE 0
  /\ UNCHANGED <<given, places, buf, pos, end, text, parserVars>>
Split ==
  /\ at = "split"
  /\ LET d == IF Fixed THEN Round(given, places) ELSE given
         r == d.coef % Pow10[d.prec]
     IN  /\ num' = d /\ q' = d.coef \div Pow10[d.prec]
         /\ chunk' = r /\ width' = d.prec
         /\ at' = IF Fixed THEN IF d.prec > 0 THEN "frac" ELSE "point"
                           ELSE IF r # 0 THEN "frac" ELSE "int"
         /\ pad' = IF Fixed THEN places - d.prec ELSE 0
  /\ UNCHANGED <<given, places, buf, pos, end, text, parserVars>>

(* A store of bytes that end just before pos, and where to go on.          *)
Put(bytes) ==
  /\ pos' = pos - Len(bytes)
  /\ buf' = [i \in DOMAIN buf |->
               IF \E j \in 1..Len(bytes) : InScratch(pos - Len(bytes) + j - 1) = i
               THEN bytes[CHOOSE j \in 1..Len(bytes) : InScratch(pos - Len(bytes) + j - 1) = i]
               ELSE buf[i]]
Pair(v) == <<(v \div 10) % 10, v % 10>>

(* writePadded: exactly width digits, the fraction or a chunk in the midst *)
(* of the integer part.                                                    *)
Padding == at \in {"frac", "chunk"}
PaddedPair ==
  /\ Padding /\ width >= 2
  /\ Put(Pair(chunk)) /\ chunk' = chunk \div 100 /\ width' = width - 2
  /\ UNCHANGED <<kept, at, q>>
PaddedLast ==
  /\ Padding /\ width = 1
  /\ Put(<<chunk % 10>>) /\ width' = 0
  /\ UNCHANGED <<kept, at, q, chunk>>
PaddedDone ==
  /\ Padding /\ width = 0
  /\ at' = IF at = "chunk" THEN "int" ELSE IF Fixed THEN "point" ELSE "trim"
  /\ UNCHANGED <<kept, q, chunk, width, buf, pos>>

(* The canonical form drops the zeros at the end, then sets the point; the *)
(* fixed form keeps them and sets it when a place was asked for.           *)
TrimZeroStuck ==                                                   \* fault
  /\ at = "trim" /\ buf[InScratch(end - 1)] = 0
  /\ UNCHANGED allVars
TrimZero ==
  /\ at = "trim" /\ buf[InScratch(end - 1)] = 0
  /\ end' = end - 1
  /\ UNCHANGED <<given, places, num, at, q, chunk, width, buf, pos, pad, text, parserVars>>
SetPoint ==
  /\ \/ at = "trim" /\ buf[InScratch(end - 1)] # 0
     \/ at = "point" /\ places > 0
  /\ Put(<<Point>>) /\ at' = "int"
  /\ UNCHANGED <<kept, q, chunk, width>>
NoPoint ==
  /\ at = "point" /\ places = 0 /\ at' = "int"
  /\ UNCHANGED <<kept, q, chunk, width, buf, pos>>

(* writeIntPart: chunks of MaxPrec digits while two limbs are left, then   *)
(* the leading digits without zeros before them.                           *)
(* Fault: a chunk in the midst loses the zeros at its left.                *)
IntChunkUnpadded ==
  /\ at = "int" /\ q >= Base
  /\ q' = q \div Pow10[MaxPrec] /\ chunk' = q % Pow10[MaxPrec]
  /\ at' = "chunk" /\ width' = Len(SelectSeq(<<1, 10, 100>>, LAMBDA p : p <= chunk'))
  /\ UNCHANGED <<kept, buf, pos>>
IntChunk ==
  /\ at = "int" /\ q >= Base
  /\ q' = q \div Pow10[MaxPrec] /\ chunk' = q % Pow10[MaxPrec]
  /\ at' = "chunk" /\ width' = MaxPrec
  /\ UNCHANGED <<kept, buf, pos>>
IntZero ==
  /\ at = "int" /\ q = 0
  /\ Put(<<0>>) /\ at' = "sign"
  /\ UNCHANGED <<kept, q, chunk, width>>
IntLead ==
  /\ at = "int" /\ q \in 1..(Base - 1)
  /\ chunk' = q /\ at' = "lead"
  /\ UNCHANGED <<kept, q, width, buf, pos>>
LeadPair ==
  /\ at = "lead" /\ chunk >= 100
  /\ Put(Pair(chunk)) /\ chunk' = chunk \div 100
  /\ UNCHANGED <<kept, at, q, width>>
LeadLast ==
  /\ at = "lead" /\ chunk < 100
  /\ Put(IF chunk >= 10 THEN Pair(chunk) ELSE <<chunk>>) /\ at' = "sign"
  /\ UNCHANGED <<kept, q, chunk, width>>

Sign ==
  /\ at = "sign" /\ at' = "emit"
  /\ IF num.neg THEN Put(<<Minus>>) ELSE UNCHANGED <<buf, pos>>
  /\ UNCHANGED <<kept, q, chunk, width>>
(* A window outside the buffer is not handed out.                          *)
Emit ==
  /\ at = "emit" /\ at' = "zeros"
  /\ text' = IF 0 <= pos /\ pos <= end /\ end <= ScratchLen
             THEN [i \in 1..(end - pos) |-> buf[pos + i - 1]] ELSE <<>>
  /\ UNCHANGED <<given, places, num, q, chunk, width, buf, pos, end, pad, parserVars>>

(* appendFixedZeros: whole runs, then what the mask leaves of the rest.    *)
PadRun ==
  /\ at = "zeros" /\ pad >= ZeroRun
  /\ text' = text \o Zeros(ZeroRun) /\ pad' = pad - ZeroRun
  /\ UNCHANGED <<given, places, num, at, q, chunk, width, buf, pos, end, parserVars>>
PadRest ==
  /\ at = "zeros" /\ pad < ZeroRun
  /\ text' = text \o Zeros(pad % ZeroRun) /\ at' = "written"
  /\ UNCHANGED <<given, places, num, q, chunk, width, buf, pos, end, pad, parserVars>>

(* What was written is parsed, byte by byte as it stands.                  *)
LiteralOf(bytes) ==
  LET signed == bytes # <<>> /\ Head(bytes) \in {Plus, Minus}
      all == IF signed THEN SubSeq(bytes, 2, Len(bytes)) ELSE bytes
      stray == Min({Len(all) + 1} \cup
                   {i \in 1..Len(all) : \/ all[i] \notin 0..9 \cup {Point}
                                        \/ all[i] = Point /\ \E j \in 1..(i - 1) : all[j] = Point})
      body == SubSeq(all, 1, stray - 1)
      dot == Min({stray} \cup {i \in DOMAIN body : body[i] = Point})
      sig == Min({dot} \cup {i \in 1..(dot - 1) : body[i] # 0})
  IN  Literal(IF ~signed THEN "" ELSE IF Head(bytes) = Minus THEN "-" ELSE "+",
              sig - 1, SubSeq(body, sig, dot - 1), dot < stray, SubSeq(body, dot + 1, Len(body)),
              IF stray <= Len(all) THEN "junk" ELSE "end", "", <<>>, Len(all) + 1 - stray)
(* A parser call starts afresh.                                            *)
Parse(l) ==
  /\ pc' = "core" /\ lit' = l /\ rest' = <<>> /\ coef' = 0 /\ frac' = 0
  /\ dropped' = 0 /\ dropNZ' = 0 /\ exp' = 0 /\ out' = Pending /\ UNCHANGED trunc
ReadBack ==
  /\ at = "written" /\ at' = "read" /\ Parse(LiteralOf(text))
  /\ UNCHANGED <<given, places, num, q, chunk, width, buf, pos, end, pad, text>>

PrinterNext ==
  \/ Split \/ PaddedPair \/ PaddedLast \/ PaddedDone
  \/ TrimZero \/ SetPoint \/ NoPoint
  \/ IntChunk \/ IntZero \/ IntLead \/ LeadPair \/ LeadLast
  \/ Sign \/ Emit \/ PadRun \/ PadRest
  \/ ReadBack \/ (Next /\ UNCHANGED writerVars)

----------------------------------------------------------------------------
Written == at \in {"written", "read"}
IntDigits == IntRun(LiteralOf(text))
FracDigits == LiteralOf(text).frac
WellFormed ==
  /\ \A i \in 1..Len(text) : text[i] \in 0..9 \/ (text[i] = Minus /\ i = 1) \/ text[i] = Point
  /\ Cardinality({i \in 1..Len(text) : text[i] = Point}) <= 1
  /\ IntDigits = <<0>> \/ (IntDigits # <<>> /\ Head(IntDigits) # 0)
  /\ LiteralOf(text).dot => FracDigits # <<>>

(* The canonical bytes have one shape only, and spell what Text says: no   *)
(* zero in the midst is lost between two chunks, none is left at the end   *)
(* (format.go:38, appendCanonical).                                        *)
CanonicalText ==
  Written /\ ~Fixed =>
    /\ WellFormed
    /\ FracDigits # <<>> => Last(FracDigits) # 0
    /\ Spelled(LiteralOf(text)) = AppendCanonical(given)

(* StringFixed shows exactly the places asked for, also beyond MaxPrec,    *)
(* and the digits are the amount rounded half away from zero, zeros that   *)
(* rounding made included (format.go:315).                                 *)
FixedText ==
  LET shown == Smaller(places, MaxPrec)
      digits == IntDigits \o SubSeq(FracDigits, 1, shown)
      unit == Pow10[MaxPrec - shown]
      off == DigitsVal(digits) * unit - Abs(Scaled(given))
  IN  Written /\ Fixed =>
        /\ WellFormed /\ Len(FracDigits) = places
        /\ 2 * off \in (1 - unit)..unit
        /\ \A i \in (shown + 1)..places : FracDigits[i] = 0
        /\ IsNeg(LiteralOf(text)) <=> given.neg /\ DigitsVal(digits) # 0

(* What was written reads back as the amount written, by the strict and by *)
(* the truncating parser alike, unless it is longer than they accept.      *)
ReadsBack ==
  Done => out = IF Len(text) > MaxParseLen THEN Fail("MaxStrLen") ELSE Ok(Trim(num))
=============================================================================
