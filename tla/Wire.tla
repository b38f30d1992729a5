-------------------------------- MODULE Wire --------------------------------
(***************************************************************************)
(* What codec.go does with a number that travels as JSON: written bytes    *)
(* are quoted, somebody on the way spells them differently, the receiver   *)
(* tries them as they stand, decodes the escapes into a bounded buffer     *)
(* where there are any, and parses again.  Bare numbers and plain text     *)
(* travel beside it.                                                       *)
(*                                                                         *)
(* The inside of a quoted string is a sequence of units, each a character  *)
(* or an escape: whether it is well formed, what it stands for, and how    *)
(* many bytes it takes in the string and, decoded, in the buffer.          *)
(***************************************************************************)
EXTENDS Printer

CONSTANTS Respell(_),    \* the strings a text may arrive as
          Bare(_)        \* the bare numbers it may arrive as

VARIABLES body, unit, decoded       \* the string, the units left, the buffer
jsonVars == <<body, unit, decoded>>
wireVars == <<allVars, jsonVars>>

Unit(ok, escape, ch, src, dst) ==
  [ok |-> ok, escape |-> escape, ch |-> ch, src |-> src, dst |-> dst]
Plain(ch) == Unit(TRUE, FALSE, ch, 1, 1)
Hex(ch) == Unit(TRUE, TRUE, ch, 6, 1)                     \* \u00XX
Stray(escape, src, dst) == Unit(TRUE, escape, Other, src, dst)
Broken(escape, src) == Unit(FALSE, escape, Other, src, 0)

(* What the inside of a string is made of: the characters a literal can    *)
(* have and their escapes, characters of up to four bytes, the short       *)
(* escapes, those of four hexadecimal digits, surrogate pairs, and what is *)
(* no character and no escape.                                             *)
Alphabet == 0..9 \cup {Point, Minus, Plus, Other}
JSONUnits ==
  {Plain(ch) : ch \in Alphabet} \cup {Hex(ch) : ch \in Alphabet}
  \cup {Stray(FALSE, n, n) : n \in 1..4}
  \cup {Stray(TRUE, 2, 1), Stray(TRUE, 12, 4)} \cup {Stray(TRUE, 6, n) : n \in 1..3}
  \cup {Broken(FALSE, n) : n \in 1..4} \cup {Broken(TRUE, n) : n \in 1..12}

(* A string can decode to maxParseLen bytes only up to this length.        *)
(* Fault: escapes are reckoned at four bytes.                              *)
MaxQuotedLenShort == 2 + 4*MaxParseLen
MaxQuotedLen == 2 + 6*MaxParseLen
Source(u) == IF u = Plain(u.ch) THEN <<u.ch>> ELSE [i \in 1..u.src |-> Other]
Target(u) == [i \in 1..u.dst |-> u.ch]
Encoded(units) == FlattenSeq([i \in DOMAIN units |-> Source(units[i])])
Meant(units) == FlattenSeq([i \in DOMAIN units |-> Target(units[i])])
Escaped(units) == \E i \in DOMAIN units : units[i].escape

writer == <<given, places, num, q, chunk, width, buf, pos, end, pad, text>>
WireInit == PrinterInit /\ body = <<>> /\ unit = 0 /\ decoded = <<>>

Refuse(err) ==
  /\ at' = "read" /\ out' = Fail(err)
  /\ UNCHANGED <<lit, trunc, pc, rest, coef, frac, dropped, dropNZ, exp, writer, jsonVars>>

(* MarshalJSON writes the canonical form, JSON is parsed strictly.         *)
Marshalled == at = "written" /\ ~Fixed /\ ~trunc

(* UnmarshalJSON.  A string is tried as it stands; if that fails, it is    *)
(* refused for its length, decoded if it has an escape, or the failure is  *)
(* the answer.  Strings that are empty are left out.                       *)
ToQuoted ==
  /\ Marshalled /\ at' = "raw"
  /\ body' \in (Respell(text) \cap Seq(JSONUnits)) \ {<<>>}
  /\ Parse(LiteralOf(Encoded(body')))
  /\ UNCHANGED <<writer, unit, decoded>>
RawAnswers ==
  /\ at = "raw" /\ Done
  /\ \/ out.err = "nil"
     \/ Len(Encoded(body)) + 2 <= MaxQuotedLen /\ ~Escaped(body)
  /\ at' = "read" /\ UNCHANGED <<parserVars, writer, jsonVars>>
RawTooLong ==
  /\ at = "raw" /\ Done /\ out.err # "nil"
  /\ Len(Encoded(body)) + 2 > MaxQuotedLen /\ Refuse("MaxStrLen")
RawEscaped ==
  /\ at = "raw" /\ Done /\ out.err # "nil"
  /\ Len(Encoded(body)) + 2 <= MaxQuotedLen /\ Escaped(body)
  /\ at' = "unescape" /\ unit' = 1 /\ decoded' = <<>>
  /\ UNCHANGED <<parserVars, writer, body>>

(* unescapeJSONString, a unit at a time into a buffer of maxParseLen bytes.*)
Unescaping == at = "unescape" /\ unit <= Len(body)
UnescapeMalformed ==
  /\ Unescaping /\ ~body[unit].ok /\ Refuse("InvalidFormat")
(* Fault: the last byte of the buffer is not used.                         *)
UnescapeFullEarly ==
  /\ Unescaping /\ body[unit].ok
  /\ Len(decoded) + body[unit].dst >= MaxParseLen /\ Refuse("MaxStrLen")
UnescapeFull ==
  /\ Unescaping /\ body[unit].ok
  /\ Len(decoded) + body[unit].dst > MaxParseLen /\ Refuse("MaxStrLen")
UnescapeUnit ==
  /\ Unescaping /\ body[unit].ok /\ Len(decoded) + body[unit].dst <= MaxParseLen
  /\ decoded' = decoded \o Target(body[unit]) /\ unit' = unit + 1
  /\ UNCHANGED <<parserVars, writer, at, body>>
Unescaped ==
  /\ at = "unescape" /\ unit > Len(body)
  /\ at' = "read" /\ Parse(LiteralOf(decoded))
  /\ UNCHANGED <<writer, jsonVars>>

(* A bare number: a plus or a zero before another digit is not JSON; other *)
(* bytes, no bytes and too many bytes are left to the parser.              *)
(* Fault: the zero is looked for at the very start only.                   *)
BareStartOKUnsigned(b) ==
  \/ Len(b) \notin 1..MaxParseLen
  \/ /\ b[1] # Plus
     /\ ~(Len(b) >= 2 /\ b[1] = 0 /\ b[2] \in 0..9)
BareStartOK(b) ==
  LET sign == IF Len(b) > 0 /\ b[1] = Minus THEN 1 ELSE 0
  IN  \/ Len(b) \notin 1..MaxParseLen
      \/ /\ b[1] # Plus
         /\ ~(Len(b) >= sign + 2 /\ b[sign + 1] = 0 /\ b[sign + 2] \in 0..9)
ToBare ==
  /\ Marshalled /\ at' = "bare"
  /\ \E b \in Bare(text) \cap Seq(Alphabet) :
       /\ decoded' = b
       /\ IF BareStartOK(b) THEN Parse(LiteralOf(b))
          ELSE /\ out' = Fail("InvalidFormat") /\ pc' = "done"
               /\ UNCHANGED <<lit, trunc, rest, coef, frac, dropped, dropNZ, exp>>
  /\ UNCHANGED <<writer, body, unit>>

WireNext ==
  \/ PrinterNext /\ UNCHANGED jsonVars
  \/ ToQuoted \/ RawAnswers \/ RawTooLong \/ RawEscaped
  \/ UnescapeMalformed \/ UnescapeFull \/ UnescapeUnit \/ Unescaped
  \/ ToBare
WireSpec == WireInit /\ [][WireNext]_wireVars /\ WF_wireVars(WireNext)

----------------------------------------------------------------------------
Answered == Done /\ at \in {"read", "bare"}

(* How a string is spelled makes no difference: what it decodes to is what *)
(* is parsed, malformed strings are refused, and none is refused for its   *)
(* length that decodes to no more than the parser accepts (codec.go:38,    *)
(* codec.go:110, "spellings are equivalent").  Bare numbers follow JSON: no *)
(* plus, no zero in front of an integer part of more than one digit; all   *)
(* others are parsed (codec.go:159).  Plain text reads back as written.    *)
QuotedMeans ==
  IF \E i \in DOMAIN body : ~body[i].ok
  THEN out.err \in {"InvalidFormat", "MaxStrLen"}
  ELSE out = ParseCore(Spelled(LiteralOf(Meant(body))))
BareMeans ==
  LET l == LiteralOf(decoded)
  IN  out = IF Bytes(l) \in 1..MaxParseLen
               /\ (l.sign = "+" \/ (l.zeros > 0 /\ Len(IntRun(l)) > 1))
            THEN Fail("InvalidFormat") ELSE ParseCore(Spelled(l))
JSONMeansText ==
  Answered => IF at = "bare" THEN BareMeans
              ELSE IF body = <<>> THEN ReadsBack ELSE QuotedMeans

(* Every number is printed and read: no writer or trimming loop runs on.   *)
WireTerminates == <>Answered
=============================================================================
