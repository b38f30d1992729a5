----------------------------- MODULE Receivers -----------------------------
(***************************************************************************)
(* The codecs of codec.go and the SQL boundary of sql.go, seen from one    *)
(* destination that is reused: values travel as text, JSON, the binary     *)
(* format or driver values, from any of the four types or from a foreign   *)
(* sender, and the destination decodes one message after the other, as a   *)
(* row destination of a query does.  A message stays on the wire and may   *)
(* be decoded again.                                                       *)
(***************************************************************************)
EXTENDS Text

CONSTANTS
  Values,       \* the Decimals other senders hold
  Foreign       \* the messages of senders that are not this library

Kinds == {"Decimal", "StrictSQLDecimal", "NullDecimal", "StrictNullDecimal"}
Nullable == {"NullDecimal", "StrictNullDecimal"}
Strict == {"StrictSQLDecimal", "StrictNullDecimal"}

VARIABLES
  kind,         \* the type of the destination
  dest,         \* what it holds: a Decimal, and Valid for the nullable types
  from,         \* the Go type its value was last scanned from, or "codec"
  wire,         \* the last message sent
  origin,       \* what its sender held, None if it is foreign
  last          \* the last call on the destination and its error
vars == <<kind, dest, from, wire, origin, last>>

Slot(d, valid) == [dec |-> d, valid |-> valid]
Null == Slot(Zero, FALSE)
None == Slot(RawDecimal(0, TRUE, 0), FALSE)   \* no Decimal: a signed zero
Slots == [dec : Decimals, valid : BOOLEAN]
NewDest(k) == IF k \in Nullable THEN Null ELSE Slot(Zero, TRUE)

(* Messages.  A driver value has a Go type; JSON is null, a bare number or *)
(* a quoted one; a binary message has a length, its flag bits, a precision *)
(* and two limbs, of which only the long form carries the high one.        *)
TextMsg(text) == [form |-> "text", text |-> text]
SqlMsg(type, text) == [form |-> "sql", type |-> type, text |-> text]
JsonMsg(shape, start, text) ==
  [form |-> "json", shape |-> shape, start |-> start, text |-> text]
BinMsg(len, flags, prec, lo, hi) ==
  [form |-> "binary", len |-> len, flags |-> flags, prec |-> prec, lo |-> lo, hi |-> hi]

(* The Go types of a driver value.  The strict types accept every width of *)
(* integer but no float.                                                   *)
Texts == {"string", "[]byte"}
LegacyInts == {"int64", "int32", "int", "uint64"}
StrictInts == LegacyInts \cup {"int8", "int16", "uint", "uint8", "uint16", "uint32"}

(* What arrives: a text as the scanners leave it, its significant digits   *)
(* without zeros at their end; a float64 or a float32 by its shortest      *)
(* digits; an integer that fits its Go type; two words, of which the short *)
(* form has no high one.                                                   *)
Spells(text) ==
  /\ text.form \in {"empty", "toolong", "malformed", "number"}
  /\ text.neg \in BOOLEAN /\ text.sig \in Nat /\ text.zeros \in Nat /\ text.scale \in Int
  /\ text.sig # 0 => text.sig % 10 # 0
IsFloat(text) ==
  /\ text.form \in {"notfinite", "number"}
  /\ text.neg \in BOOLEAN /\ text.sig \in U128 /\ text.zeros \in Nat /\ text.scale \in Int
IsInteger(text) ==
  /\ text.neg \in BOOLEAN /\ text.sig \in Nat /\ text.zeros \in 0..2*MaxPrec
  /\ text.sig * Pow10[text.zeros] \in U64
WellFormed(msg) ==
  /\ msg.form \in {"text", "json", "sql", "binary"}
  /\ msg.form \in {"text", "json"} => Spells(msg.text)
  /\ msg.form = "sql" =>
       IF msg.type \in {"float64", "float32"} THEN IsFloat(msg.text)
       ELSE IF msg.type \in StrictInts THEN IsInteger(msg.text) ELSE Spells(msg.text)
  /\ msg.form = "binary" =>
       /\ msg = BinMsg(msg.len, msg.flags, msg.prec, msg.lo, msg.hi)
       /\ msg.prec \in Nat /\ msg.lo \in U64 /\ msg.hi \in U64
       /\ msg.len = 10 => msg.hi = 0
ASSUME SendersAssumption ==
  Values \subseteq Decimals /\ \A msg \in Foreign : WellFormed(msg)

----------------------------------------------------------------------------
(* Encoders.                                                               *)
MarshalText(s) == TextMsg(IF s.valid THEN AppendCanonical(s.dec) ELSE Empty)
MarshalJSON(s) ==
  IF s.valid THEN JsonMsg("quoted", "plain", AppendCanonical(s.dec))
             ELSE JsonMsg("null", "plain", Malformed)
Value(s, cached) ==
  IF s.valid THEN SqlMsg("string", StringOf(s.dec, cached)) ELSE SqlMsg("nil", Malformed)
PutBinary(d) ==
  LET lo == d.coef % Base
      hi == d.coef \div Base
      sign == IF d.neg THEN {"neg"} ELSE {}
  IN  IF hi # 0 THEN BinMsg(18, sign \cup {"hi"}, d.prec, lo, hi)
                ELSE BinMsg(10, sign, d.prec, lo, 0)

(* Decoders of Decimal: a value and an error.                              *)
DecodeText(msg) == ParseCore(msg.text)

(* A quoted body is parsed as it stands, an escaped one after unescaping;  *)
(* a bare number has no leading plus and no needless leading zeros.        *)
DecodeJSON(msg) ==
  IF msg.shape = "null" THEN Fail("JSONNull")
  ELSE IF msg.shape = "bare" /\ msg.start # "plain" /\ msg.text.form = "number"
       THEN Fail("InvalidFormat")
  ELSE ParseCore(msg.text)

(* Fault: the long form is accepted with a high limb of zero.              *)
DecodeBinaryLong(msg) ==
  IF \/ msg.len \notin {10, 18} \/ msg.prec > MaxPrec
     \/ msg.len = 10 /\ ~(msg.flags \subseteq {"neg"})
     \/ msg.len = 18 /\ msg.flags \ {"neg"} # {"hi"}
  THEN Fail("InvalidBinaryData")
  ELSE Ok(NewDecimal((IF msg.len = 18 THEN msg.hi * Base ELSE 0) + msg.lo,
                     "neg" \in msg.flags, msg.prec))

DecodeBinary(msg) ==
  IF \/ msg.len \notin {10, 18} \/ msg.prec > MaxPrec
     \/ msg.len = 10 /\ ~(msg.flags \subseteq {"neg"})
     \/ msg.len = 18 /\ (msg.flags \ {"neg"} # {"hi"} \/ msg.hi = 0)
  THEN Fail("InvalidBinaryData")
  ELSE Ok(NewDecimal((IF msg.len = 18 THEN msg.hi * Base ELSE 0) + msg.lo,
                     "neg" \in msg.flags, msg.prec))

(* Driver values by Go type: integers are converted exactly.               *)
Integer(text) == NewDecimal(text.sig * Pow10[text.zeros], text.neg, 0)

RefuseType(type) == Fail(IF type = "nil" THEN "ScanNil" ELSE "ScanType")
ScanLegacy(msg) ==
  CASE msg.type \in Texts -> ParseCore(msg.text)
    [] msg.type \in LegacyInts -> Ok(Integer(msg.text))
    [] msg.type = "float64" -> NewFromFloat(msg.text)
    [] OTHER -> RefuseType(msg.type)
ScanStrict(msg) ==
  CASE msg.type \in Texts -> ParseCore(msg.text)
    [] msg.type \in StrictInts -> Ok(Integer(msg.text))
    [] msg.type \in {"float64", "float32"} -> Fail("ScanFloat")
    [] OTHER -> RefuseType(msg.type)

----------------------------------------------------------------------------
Init ==
  /\ kind \in Kinds /\ dest = NewDest(kind) /\ from = "codec"
  /\ wire = TextMsg(Empty) /\ origin = None
  /\ last = [op |-> "none", err |-> "nil"]

(* A sender encodes what it holds; the destination may be the sender.      *)
Held == {Slot(d, TRUE) : d \in Values} \cup {Null, dest}
Send(Encode(_)) ==
  \E s \in Held : /\ wire' = Encode(s) /\ origin' = s
                  /\ UNCHANGED <<kind, dest, from, last>>
SendText == Send(MarshalText)
SendJSON == Send(MarshalJSON)
SendValue == \E cached \in BOOLEAN : LET Bind(s) == Value(s, cached) IN Send(Bind)
SendBinary ==                          \* the nullable types have no binary form
  LET Put(s) == PutBinary(s.dec)
  IN  \E s \in {h \in Held : h.valid} : /\ wire' = Put(s) /\ origin' = s
                                        /\ UNCHANGED <<kind, dest, from, last>>
SendForeign ==
  \E msg \in Foreign : /\ wire' = msg /\ origin' = None
                       /\ UNCHANGED <<kind, dest, from, last>>

Finish(op, err, slot, source) ==
  /\ last' = [op |-> op, err |-> err]
  /\ dest' = slot /\ from' = source
  /\ UNCHANGED <<kind, wire, origin>>

(* A nil receiver is refused before the message is looked at.              *)
NilReceiver ==
  \E op \in {"Scan", "UnmarshalText", "UnmarshalJSON", "UnmarshalBinary"} :
    Finish(op, "NilReceiver", dest, from)

(* Scan: a nullable destination is cleared by NULL, and by every error, so *)
(* that it never keeps the amount of an earlier row.                       *)
ScanNull ==
  /\ wire.form = "sql" /\ wire.type = "nil" /\ kind \in Nullable
  /\ Finish("Scan", "nil", Null, "codec")
(* Faults: a failed scan leaves the nullable destination as it was; the    *)
(* strict nullable type scans like the legacy one.                         *)
ScanKeeps ==
  /\ wire.form = "sql" /\ ~(wire.type = "nil" /\ kind \in Nullable)
  /\ LET res == IF kind \in Strict THEN ScanStrict(wire) ELSE ScanLegacy(wire)
     IN  IF res.err = "nil" THEN Finish("Scan", "nil", Slot(res.val, TRUE), wire.type)
         ELSE Finish("Scan", res.err, dest, from)
ScanFloats ==
  /\ wire.form = "sql" /\ ~(wire.type = "nil" /\ kind \in Nullable)
  /\ LET res == IF kind = "StrictSQLDecimal" THEN ScanStrict(wire) ELSE ScanLegacy(wire)
     IN  IF res.err = "nil" THEN Finish("Scan", "nil", Slot(res.val, TRUE), wire.type)
         ELSE IF kind \in Nullable THEN Finish("Scan", res.err, Null, "codec")
         ELSE Finish("Scan", res.err, dest, from)

Scan ==
  /\ wire.form = "sql" /\ ~(wire.type = "nil" /\ kind \in Nullable)
  /\ LET res == IF kind \in Strict THEN ScanStrict(wire) ELSE ScanLegacy(wire)
     IN  IF res.err = "nil" THEN Finish("Scan", "nil", Slot(res.val, TRUE), wire.type)
         ELSE IF kind \in Nullable THEN Finish("Scan", res.err, Null, "codec")
         ELSE Finish("Scan", res.err, dest, from)

(* The unmarshalers write their receiver only when everything parsed.      *)
Unmarshal(op, res) ==
  IF res.err = "nil" THEN Finish(op, "nil", Slot(res.val, TRUE), "codec")
                     ELSE Finish(op, res.err, dest, from)
UnmarshalText ==
  /\ wire.form = "text"
  /\ IF kind \in Nullable /\ wire.text = Empty
     THEN Finish("UnmarshalText", "nil", Null, "codec")
     ELSE Unmarshal("UnmarshalText", DecodeText(wire))
UnmarshalJSON ==
  /\ wire.form = "json"
  /\ IF kind \in Nullable /\ wire.shape = "null"
     THEN Finish("UnmarshalJSON", "nil", Null, "codec")
     ELSE Unmarshal("UnmarshalJSON", DecodeJSON(wire))
UnmarshalBinary ==
  /\ wire.form = "binary" /\ kind \notin Nullable
  /\ Unmarshal("UnmarshalBinary", DecodeBinary(wire))

Next ==
  \/ SendText \/ SendJSON \/ SendValue \/ SendBinary \/ SendForeign
  \/ NilReceiver \/ ScanNull \/ Scan
  \/ UnmarshalText \/ UnmarshalJSON \/ UnmarshalBinary
Spec == Init /\ [][Next]_vars

----------------------------------------------------------------------------
(* Type invariant: whatever was decoded, also a foreign "-0.000", leaves a  *)
(* canonical Decimal, and a nullable destination that is not Valid holds    *)
(* the zero value (the comment on NullDecimal).  No value that a driver     *)
(* delivered as a float is ever held by a strict type, on whatever route it *)
(* came (the exact-source policy of sql.go).                                *)
TypeOK ==
  /\ kind \in Kinds /\ dest \in Slots /\ origin \in Slots \cup {None}
  /\ kind \notin Nullable => dest.valid
  /\ ~dest.valid => dest = Null
  /\ kind \in Strict => from \notin {"float64", "float32"}

(* A call on the destination: the step leaves the message where it is.     *)
Call == UNCHANGED <<wire, origin>> /\ last'.err # "NilReceiver"

(* What any of the types sends in any of the forms, every type that has    *)
(* the form reads back: the binary form representation by representation,  *)
(* the textual ones as the same number without trailing zeros; NULL        *)
(* reaches a nullable destination as NULL and a required one as an error.  *)
Received ==
  IF origin.valid
  THEN /\ last'.err = "nil"
       /\ dest' = Slot(IF wire.form = "binary" THEN origin.dec ELSE Trim(origin.dec), TRUE)
  ELSE IF kind \in Nullable THEN last'.err = "nil" /\ dest' = Null
       ELSE last'.err # "nil" /\ dest' = dest
RoundTrips == [][Call /\ origin # None => Received]_vars

(* A destination reused from row to row keeps no amount a reader could     *)
(* take for the current row's: a failed Scan clears a nullable one, and no *)
(* other failed call changes anything, a nil receiver's included.          *)
NoStaleAmount ==
  [][UNCHANGED <<wire, origin>> /\ last'.err # "nil" =>
       dest' = IF Call /\ last'.op = "Scan" /\ kind \in Nullable THEN Null ELSE dest]_vars

(* Strict parsing accepts a number exactly when some Decimal equals it,    *)
(* however its digits are spread over mantissa, trailing zeros and         *)
(* exponent, and then returns that Decimal without trailing zeros.         *)
ParseComplete ==
  wire.form = "text" /\ wire.text.form = "number" =>
    LET text == wire.text
        res == ParseCore(text)
        At(p) == LET e == p + text.zeros - text.scale
                 IN  IF text.sig = 0 THEN 0
                     ELSE IF e > 2*MaxPrec \/ e < -2*MaxPrec THEN Cap
                     ELSE IF e >= 0
                     THEN IF text.sig > (Cap - 1) \div Pow10[e] THEN Cap ELSE text.sig * Pow10[e]
                     ELSE IF text.sig % Pow10[-e] = 0 THEN text.sig \div Pow10[-e]
                     ELSE Cap
        Hits(p) == At(p) < Cap
    IN  /\ res.err = "nil" <=> \E p \in 0..MaxPrec : Hits(p)
        /\ res.err = "nil" =>
             /\ res.val = NewDecimal(At(res.val.prec), text.neg, res.val.prec)
             /\ \A p \in 0..(res.val.prec - 1) : ~Hits(p)

(* A binary message that is accepted is the one this library would send    *)
(* for the decoded value, except for the spellings of zero.                *)
BinaryCanonical ==
  wire.form = "binary" /\ DecodeBinary(wire).err = "nil" =>
    \/ PutBinary(DecodeBinary(wire).val) = wire
    \/ DecodeBinary(wire).val = Zero

(* The string cache cannot be observed: a cached entry is what rendering   *)
(* the value would have given, whatever precision it has inside the window. *)
CacheTransparent == StringOf(dest.dec, TRUE) = StringOf(dest.dec, FALSE)
=============================================================================
