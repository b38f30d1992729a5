# zerodecimal in TLA+

zerodecimal is a Go library of fixed-size decimal numbers: a 128-bit
coefficient, a sign and a precision of at most 19 fractional digits
(`decimal.go`). It allocates nothing, never uses `math/big`, and promises for
each operation either the exact answer, or a truncation or rounding it names,
or an error that says why there is none. This directory holds TLA+ modules of
that code, the TLC configurations that check them on small words, and TLAPS
proofs for every word size.

Paths in this file are those of the repository (under `src/` in
`PROJECT.json`). `PROJECT.json` lists the components, the runs, the mutants that
show each property can fail, the map from definitions to source lines, the
hazards with the properties that guard them, and the theorems.

## Inventory

The library is sequential: no goroutines, no locks, no I/O. Its only package
state is the opt-in string cache, filled in `init` and read-only after it.
What is hard is arithmetic at the edges of fixed words (carries that are
dropped because a bound says they cannot occur, quotient estimates that are
corrected, remainders that must stay sticky), the hand-over between fast and
general paths, and the state a caller keeps: chains of results fed back as
operands, aggregates that run over their arguments, and destinations reused
from row to row.

| Component | Code | State | Operations | What makes it correct |
|---|---|---|---|---|
| words | `u128.go`, `u256.go` | digits and running remainder of one division | wrapping sums and differences, products, shifts, 256/128 division | each flag says what was lost; quotient digits exact, `bits.Div64` never panics |
| division by 10^k | `div10.go`, `tables.go` | tables | reciprocal division, 256-bit by 10^k | quotient and remainder exact, overflow iff the quotient does not fit |
| Decimal | `decimal.go`, `errors.go`, `prec*.go` | `coef`, `neg`, `prec` | constructors, `Cmp`, `IntPart`, `Neg`, `Abs`, `CopySign` | one zero; order by value across precisions |
| legacy arithmetic | `arith.go` | none | `Add Sub Mul Div QuoRem Mod Min Max` | exact or truncated as named; overflow iff unavoidable |
| rounding | `round.go`, `rescale.go` | none | `Round`... `Ceil`, `Trim`, `Rescale` | correct in every mode, never overflow when lowering |
| exact arithmetic | `exact.go` | none | `MulExact DivExact MulRound DivRound` | exact or the reason; a single rounding |
| multiply-divide | `muldiv.go` | none | `MulDivRound` | a single rounding of `d*e/f` |
| aggregates | `arith.go` | totals, index, phase of one call | `Sum Avg AvgExact AvgRound` | order-independent exact totals, no wrap |
| precision search | `arith.go`, `exact.go` | bounds of one loop | loops of `Div`, `DivExact`, the means | greatest precision that fits; ends |
| parser | `parse.go` | accumulator, place and dropped-digit counts of one call | strict and truncating parsing by five paths | all paths agree; accepts exactly the representable numbers; truncates once |
| floats | `parse.go`, `dbox.go` | one conversion | `NewFromFloat`, `NewFromFloat32` | shortest decimal that rounds back, closest, ties to even |
| formatter | `format.go` | scratch buffer and cursor of one call | canonical and fixed text | one canonical form, fixed form rounded and padded, text parses back |
| string cache | `cache.go`, `cache_off.go` | 200 001 strings, read-only | lookup | cannot be observed |
| codecs | `codec.go` | the receiver; unescaping buffer | text, JSON, binary | round trip; the receiver written only on success; the spelling of a JSON string is irrelevant |
| SQL and nullable types | `sql.go` | the receiver and `Valid` | `Scan`, `Value`, codecs | no stale amount, no float in a strict type |
| panicking wrappers | several | none | `Must*`, `Require*` | call the above; not modelled |
| generator | `internal/gen` | | writes `tables.go` | each entry is the reciprocal, or the cut-off power, its users assume |
| benchmarks, scripts | `benchmarks`, `scripts` | | report tooling | not part of the library; not modelled |

Interactions: everything rests on words and division by 10^k; aggregates call
`Add`, `Div` and the rounding helpers of `exact.go`; `MulDivRound` shares
`roundQuotient`; the codecs and `sql.go` call the parser, the formatter, the
cache and the constructors; the nullable types delegate to the plain ones.

## Modules

    Words ─ Decimal ─ Arith ─┬─ Rounding ─┬─ Exact ─┬─ MulDiv ─┐
      │                      │            │         └─ Reference ─┬─ Calculator
      │                      │            │                      └─ Aggregate ─ (ExactSum)
      │                      │            └─ Text ─┬─ Receivers
      │                      │                     ├─ Floats
      │                      │                     └─ Parser ─ Printer ─ Wire
      └─ Limbs ─── Kernels ─ (KernelSpec)
    PrecSearch (stands alone)

In brackets: abstract specifications that the module before them implements.

| Module | Models | How |
|---|---|---|
| `Words` | `u128.go`, `u256.go`, `tables.go` | A u128 is a number below `Cap`, a u256 one below `Wide`; every operator keeps the wrap and the carry, borrow, overflow or fit flag of its function. `WordBits`, `Base`, `MaxPrec` and the table `Pow10` are constants, tied together by `WordAssumption` and `TableAssumption` as 10^19 < 2^64 < 10^20 and 10^38 < 2^128 < 10^39 tie them in the code. |
| `Decimal` | `decimal.go` | A record `[coef, neg, prec]`; results are `[val, err]`. `NewDecimal` normalises zero; `RawDecimal` is the struct literal the inline arms use without it. |
| `Arith` | `arith.go` up to `Max` | One operator per function, with its paths in the code's order. |
| `Rounding` | `round.go`, `rescale.go`, helpers of `exact.go` | The four cores, the nine methods, `roundsUp`, `roundQuotient`, the half comparisons (a carry out of a doubled remainder included). |
| `Exact`, `MulDiv` | `exact.go`, `muldiv.go` | The in-place one-limb paths, which do not test for overflow, are kept apart from the wide paths, which do. |
| `Reference` | (definitions) | What correct rounding and correct classification of errors mean, over exact fractions; it mentions no path of the code. |
| `Calculator` | a client | Keeps one Decimal and calls every operation, one action each; `out` is the request and its answer. |
| `Aggregate` | `arith.go` from `aggregateAccum` on | The call as a process: phases `entry`, `skip`, `narrow`, `wide`, `aligned`, `done`; one action per branch of a loop body. |
| `ExactSum` | (abstract) | What `Sum` promises: an unbounded integer total at the greatest precision, one argument after another, and one overflow test at the end. `Aggregate` implements it. |
| `PrecSearch` | the search loops | One action per branch; what fits is any threshold, so the result does not depend on the division it is used with. |
| `Text` | `parse.go`, `format.go`, `cache.go` | A text is the number it spells: significant digits, the zeros after them, and the scale, so that `1.50`, `150e-2` and `15e-1` differ as the parser sees them differ. |
| `Receivers` | `codec.go`, `sql.go` | One destination of any of the four types, one message on the wire. A sender encodes what it holds, or a foreign message arrives; the destination scans or unmarshals, once or again. |
| `Limbs` | `u128.go`, `u256.go`, `div10.go` word by word | Numbers as records of two or four words; `bits.Add64`, `Sub64`, `Mul64` and `Div64` by what the instruction returns, a trapping `Div64` included; `div3by2`, `div2by1`, `divmod64Pow10` and the table entries as the generator computes them. |
| `Kernels` | their divisions and dispatchers, `divRoundWide`, `quoRemPow10Fit` | One step normalizes and shifts, one step per quotient digit, one step shifts the remainder back; `divU256Pow10` starts over for its second pass. |
| `KernelSpec` | (abstract) | A call is answered once, with the integer result `Words` assumes of it. `Kernels` implements it, which is what entitles the modules above to compute with numbers. |
| `Parser` | `parse.go` | A literal is what the scanners find: sign, leading zeros, integer run, point, fraction run, and an end, an exponent or a stray byte. One action per path and per chunk folded: short loop, short scientific, window, long plain, general strict and general truncating with its replayed chunk, dropped digits and saturating exponent. |
| `Printer` | `format.go` | Digits are stored right to left into the scratch buffer, two at a time, through the mask; then trimmed, or padded in runs. The bytes handed out are scanned into a literal and read back by `Parser`. |
| `Wire` | `codec.go`, JSON text | The bytes are quoted, respelled on the way (escapes, stray and broken units) and received: raw attempt, length bound, unescaping unit by unit into the bounded buffer, second parse; or a bare number with its prefix test. A string is any sequence of the units of `JSONUnits`, a bare number any sequence of the bytes of `Alphabet`; the constants only choose among them. The empty string, which the first parse refuses, is left out, and so are exponents, which are `Parser`'s. |
| `Floats` | `dbox.go`, `newFromFloat*`, `assembleFloat` | A float is `mant * 2^e2` in a format; the two widths differ only in parameters, so a format is a record. Guards, integer path, the closer interval of a power of two, the upper end from one product with a table power, the interval tests with their parity checks, the nearest multiple, and the assembly are one action each. |

`MC*.tla` hold the values of the constants for TLC and `*.cfg` assign them.
The proofs rest on `ArithProofs`: numbers, powers and loops first, then the
operators of `Arith`, `Rounding`, `Exact` and `MulDiv`. On it stand
`CalculatorProofs`, `AggregateProofs`, `ReceiverProofs`, `ParserProofs` and on
the last `WireProofs`; and `KernelProofs`, which uses only its first part.
`PrecSearchProofs` stands alone, like its module.

Definitions marked as *fault* in a comment are not part of any specification.
Each repeats a definition with a plausible slip (a dropped guard, a missing
restore, an off-by-one); `PROJECT.json` pairs it with the property that has to
notice.

## Runs

Word sizes shrink together with the tables, so the relations between them stay
those of the 64-bit code: with 4-bit words a u128 is 0..255 and `MaxPrec` is 1;
with 7 bits 0..16383 and 2; with 10 bits 0..1048575 and 3. Every limb, table
and overflow boundary exists at each size, and the products the properties
form stay inside TLC's integers.

| Run | Instance | Shows |
|---|---|---|
| `small` | 4 bits, **every** Decimal as first value, every pair for `Cmp` | `AddSubExact`, `QuoRemIdentity`, `OrderIsExact` (`Cmp`, `Trim`, `Min`, `Max` follow one order), `RoundFamily` (every mode; a lowering `Rescale` never fails, a raising one is exact, `ErrOverflow` or `ErrPrecOutOfRange`), `RoundedOnce` (`MulRound`, `DivRound`) and `TypeOK`: no operation produces a signed zero from Decimals that are not |
| `wide` | 7 bits, boundary values, `DefaultPrec` 1 below `MaxPrec` 2 as in the `prec_9` and `prec_12` builds | `ExactOrReason` (`MulExact`, `DivExact`, `New`, `IntPart`), `ExactPrecision`, `MulTruncates`, `RoundedOnce` (`MulDivRound`), `LegacyChainAgrees` |
| `div` | 10 bits, two calls in a row | `DivGreatestPrec` and `EstimateTight`: the bit-length estimate is at most one digit low, which one probe recovers |
| `legacy` | 7 bits, `DefaultPrec` 2 | a violation, see below |
| `aggregate` | 7 bits, up to 4 arguments at the carry limits, every mode and precision, an invalid one of each | `NoWrap`, `PrecCovers`, `TypeOK`, `SumIsExact` (`Aggregate` implements `ExactSum`), `AvgTruncatesMean`, `AvgExactOrRounded` |
| `search` | all thresholds for limits up to those of `MCPrecSearch`, fair | `FindsGreatest`, `SearchBrackets` (unsigned bounds never wrap), `Terminates` |
| `receivers` | 10 bits, four kinds of destination, 8 held values, foreign messages at the edges of every decoder | `RoundTrips`, `NoStaleAmount`, `ParseComplete`, `BinaryCanonical`, `CacheTransparent`, and `TypeOK`: canonical Decimals only, and none from a float in a strict type |
| `kernels` | 7-bit words; limbs at the ends of the word, the normalization bit and the powers of ten; every kernel | `DigitsExact`: between digits, quotient times divisor plus remainder is the dividend taken down, so each estimate was corrected exactly. `KernelsImplementIntegers`: `Kernels` implements `KernelSpec`, no trap included |
| `parser` | 10-bit words, 3 places, literals of up to 14 bytes in every shape, both modes, fair | `StrictIsText` (the paths agree with `Text`), `TruncCutsOff` (the truncated value, by the digits), `Terminates` |
| `wire` | 10-bit words, 3 places, 48 coefficients at every precision, 9 requests for places, many spellings of each text, fair | `CanonicalText`, `FixedText`, `JSONMeansText` (plain, quoted and bare), `WireTerminates` |
| `floats` | two scaled formats, every float with its last place between 2^-14 and 2^17 in the one and 2^-19 and 2^14 in the other, both signs | `ShortestClosest`: the digits round back, none fewer do, none as many is closer, ties go to even. `Converts`: what guards, integer path and assembly answer is what the contract says of the shortest decimal, errors included |
| `refused` | the same | a violation, see below |

Bounds. `MaxCalls` is 1 in `small` and `wide`: in `small` the first values are
all Decimals, so one step is an induction step and longer histories add
nothing; in `wide` they are boundary values chosen so that products, quotients
and scaled operands land on both sides of one and two limbs and of 256 bits.
`div` runs two calls. Four arguments are enough for an aggregate to skip,
fill a narrow subtotal, carry, hand over, lift its precision and cancel.
`MaxCalls` stops the client, so those configurations turn the deadlock check
off; the others keep it on. `Receivers` has no bound: its state space is
finite and explored completely. `kernels` and `floats` keep the deadlock check:
a call that is answered repeats a step of its own, and any other state
without a step would be reported. In `parser` and `wire` a call stops when it
is answered, so the check is off there and `Terminates` says that nothing
stops earlier.

`kernels` takes the edges of 7-bit words, among them the divisors 65 and 66 for
which the rare last correction of `div2by1` happens, and dividends for which
both corrections of `div3by2` and the carry out of its partial remainder do.
`parser` scales 200 bytes to 14, the short loop from 16 bytes to 3
and the 19 digits of a chunk to 3: six digits always fit a coefficient and
seven may, so chunks overflow at every place, and exponents lie on both sides
of the saturation bound. `wire` has a 16-byte scratch buffer for at most 9
bytes, as 64 is for 41, and padding in runs of 4 zeros, as the code's 32.
`floats` keeps the proportions that decide the digits: spare bits of the
word for `kappa` digits, a single binary exponent with a tie between two
shortest decimals, interval ends from the upper word of the power for one
format and from all of it for the other. The float64 nearest to `10^-MaxPrec`
is the bound of the domain itself and the float32 nearest to it lies below that
bound, as 15474250 * 2^-87 lies below 10^-19; exponents reach past both bounds.

Fairness. A call is straight-line code in one goroutine, so the only fairness
assumed is that a call that can step does (`WF_vars(Step)` in `PrecSearch`, weak
fairness of `Next` in `Parser` and `Wire`; the client in `Wire` chooses only
what is sent, and sends it). These are the loops whose end depends on data. The
loops of `Aggregate` run over a finite slice and end whatever their steps do,
so nothing is claimed and no fairness assumed there, and `Calculator` and
`Receivers` assume none because nothing obliges a client to call again.

### A finding: the legacy chain

The comment of `MulDivRound` (`muldiv.go:20`) says that, when the product is
exact and `Div` keeps `DefaultPrec` digits, `d.Mul(e).Div(f)` *rounded to
places* agrees with `MulDivRound` in `ToNearestAway` and `TowardZero`. `legacy`
refutes it at `places = DefaultPrec`: the chain has been truncated there
already and rounding it does nothing, while `MulDivRound` rounds (7*1/15 at 19
places ends in ...6667 and ...6666). The test of the relation,
`TestMulDivRoundLegacyChain`, leaves that case out (`places >= DefaultPrec` at
`muldiv_test.go:227`). With the test's restriction the relation holds:
`LegacyChainAgrees`, which also pins down what the comment says of the other
four modes.

### A finding: the float32 written 10^-19

`NewFromFloat32` compares its argument, widened to a float64, with the constant
`1e-19` (`parse.go:1018`). The float32 nearest to 10^-19 is 15474250 * 2^-87,
about 9.9999997e-20, so it is refused with `ErrPrecOutOfRange` although its
shortest form, `1e-19`, has `MaxPrec` places, and `NewFromFloat` accepts the
float64 of that text. The comment of `NewFromFloat` (`parse.go:980`) names the
size as a reason of its own, and `Converts` states that contract. The tests say
more: of every `ErrPrecOutOfRange` "the oracle independently confirms the
shortest form needs more than MaxPrec fractional digits"
(`dbox_shortest_test.go:38`, asserted at line 61), on inputs with
`|f| >= 1e-19` (line 182), among which this float is not. `refused` refutes
that claim, `RefusedNeedsPlaces`, with 131 * 2^-17, the narrow format's float
nearest to 10^-3.

## Proofs

The proofs hold for every word size of at least 2 bits, every table of powers
of ten that fits its words, and any client, arguments or requests. They assume
`WordAssumption` and `TableAssumption` (`Words`), `DefaultPrecAssumption`
(`Decimal`: the build tag chooses between 1 and `MaxPrec`), `CallAssumption`
(`Calculator`: operands are Decimals, `New` takes an int64 and an int, a
precision is unsigned), `TermsAssumption` and `PlacesAssumption` (`Aggregate`:
2^63 terms times 10^19 stay below 2^128, and a precision is unsigned) and
`LimitsAssumption` (`PrecSearch`: a limit is at most 127). They hold for 64-bit
words, 19 digits and slices that fit an address space. `CallsAssumption`
(`Kernels`) is that operands are words and that a caller keeps to the
documented preconditions (`Precondition` of `KernelSpec`). `CacheAssumption`
(`Text`) is that scaling a value of the cache window to hundredths stays inside
a word, `SendersAssumption` (`Receivers`) that other senders hold Decimals and
that a foreign message is one its form can carry: a text as the scanners leave
it, an integer of its Go type, a float by its shortest digits, two words of a
binary message; flags, length and precision are unrestricted. `ParserAssumption`
(`Parser`) is that a literal of the short loop has at most `MaxPrec` digits (15
bytes against 19) and that some byte is accepted, `LiteralsAssumption` that
literals are what the scanners can have seen (`IsLiteral`: digits are digits, a
fraction only behind a point, an exponent only behind its letter).
`PrinterAssumption` (`Printer`) is that the widest number, `2*MaxPrec + 1`
digits, a sign and a point, fits the scratch buffer and what the parser accepts
(41 bytes of 64 and of 200), that Decimals are written, and that the places
asked for are unsigned. TLC evaluates the assumptions for the instances it
checks.

### The operations

Each is a statement about an operator of `Arith`, `Rounding`, `Exact` or
`MulDiv` for all its arguments; none of them is about a state.

| Theorem | States | Argument |
|---|---|---|
| `AddIsExact`, `SubIsExact` (`ArithProofs`) | for all Decimals, the exact sum or difference at the greater precision, or `Overflow` iff that coefficient does not fit | case by path; in the unaligned path the scaled operand is split at 128 bits, and a borrow of opposite signs may bring it back |
| `QuoRemIsExact`, `CmpIsExact` (`ArithProofs`) | the integral quotient, the remainder and the order of the exact values | operands aligned by the power of ten the paths choose; the fast paths are the general one where nothing is lost |
| `DivisionRoundsOnce` (`ArithProofs`) | quotient, remainder and half comparison determine the rounding of the exact fraction in every mode | the remainder doubled against the divisor decides the nearest neighbour; the parity decides ties |
| `MulDivRoundOnce`, `FamilyRoundsOnce` (`ArithProofs`; lemmas `MulRoundOnce`, `DivRoundOnce`) | one rounding of the exact fraction, or the first argument error, or `Overflow` iff the rounded coefficient does not fit | every division helper returns an `IsQuotient`: the quotient, whether anything was dropped and how it compares with a half. That survives scaling of numerator and denominator, and `FinishRoundOnce` turns it into the rounding |
| `MulExactIsExact`, `DivExactIsExact`, `NewIsExact` (`ArithProofs`) | the exact result at the precision the comment names, or the one reason there is none | at most one power of ten makes the fraction a whole number that fits; the stripping loops and the binary search find it |
| `DivIsGreatest` (`ArithProofs`; lemma `EstimateIsTight`) | `Div` truncates at the greatest precision that fits | bit lengths bound a product within a factor of two, a decimal digit is worth more than three bits, so the estimate is at most one digit low |

A loop that the modules write as a recursive function on records is proved
through `LoopDefined` and `LoopAnswers` of `ArithProofs`: where a measure
decreases, the equation of the loop has a solution, and an invariant that every
pass keeps holds of its answer. The code's loops all count something down (digits left,
precisions left), which is the measure.

### The components

| Theorem | States | Inductive invariant |
|---|---|---|
| `ClientHoldsDecimals` and eleven more (`CalculatorProofs`) | `TypeOK`, `AddSubExact`, `QuoRemIdentity`, `MulTruncates`, `DivGreatestPrec`, `EstimateTight`, `RoundedOnce`, `RoundFamily`, `ExactOrReason`, `ExactPrecision`, `OrderIsExact`, `LegacyChainAgrees`, through any history of calls | what a call answered is the value of its operator at the request it remembers, and whatever the client holds is a Decimal. The properties alone are not inductive: nothing in them says that the next operand is canonical. For the legacy chain: its quotient is the exact one cut off at `DefaultPrec` (`ChainQuotient`; a zero with fewer places would have left room for one more digit), and rounding what is cut differs from rounding the exact remainder only where the cut lost something and landed on a tie or on nothing to drop (`CutThenRounded`) |
| `AggregateTypeOK`, `TotalsNeverWrap`, `PrecisionCovers` (`AggregateProofs`) | the totals stay inside their words, are sums of the terms they stand for, and their precision covers every term added | each total is bounded by the number of terms consumed times 10^prec times the greatest coefficient; the type alone is not inductive, since nothing in it stops the addition of one more term |
| `SumImplementsExactSum` (`AggregateProofs`) | every behaviour of `Sum` is one of `ExactSum` | refinement: the abstract total is `pos - neg` brought to `MaxPrec` digits; a narrow addition that carries is undone and maps to a stutter, a lift of both totals leaves that number as it was, and the invariant above excludes wrapping |
| `AvgAlwaysTruncatesMean`, `MeansAlwaysExactOrRounded` (`AggregateProofs`) | `Avg` never fails and truncates the exact mean once; `AvgExact` is exact or says why; `AvgRound` rounds the exact mean once | `MInv`: the total so far is the exact sum of the terms consumed (from the refinement, step by step), and each phase belongs to its operations. Then the two-step mean is the exact one at every precision (`MeanAtExact`), precision 0 always fits because a mean is never above the greatest term, and the search finds the greatest that does |
| `EveryRoundTrip`, `NoAmountGoesStale`, `DestinationStaysCanonical` (`ReceiverProofs`) | `RoundTrips`, `NoStaleAmount`, `TypeOK`, for any values, messages and history | the destination is well typed, the wire well formed, and a message with a sender of this library says what the sender held (`Sent`). `TypeOK` alone says nothing of the wire. `CanonicalReads`: the text of a Decimal, parsed, has its value and no trailing zero, and only `Trim` gives that (`ReducedUnique`). Each call refuses, stores or clears (`Refuses`, `Stores`, `Clears`) |
| `ParsingAlwaysComplete`, `BinaryAlwaysCanonical`, `CacheNeverShows` (`ReceiverProofs`) | `ParseComplete`, `BinaryCanonical`, `CacheTransparent` | significant digits do not end in zero, so only nonnegative powers can make the coefficient, and if one precision fits, the least does (`AssemblesLeast`); a value determines its two words; the zeros at a number's end are the same however it is split (`TrailingZerosUnique`) |
| `StrictParsingIsText`, `TruncationCutsOff` (`ParserProofs`) | `StrictIsText`, `TruncCutsOff`, for literals of any digits and any exponent | `ParserInv`: what each path knows of the literal when it is taken (`AtShort`, `AtWindow`, `AtLong`); that while it folds, the coefficient is the number of the first digits of the run and the others still wait (`Partway`), or, truncating, that the digits between were dropped because one more would not have fit, are counted, and the first of them that is not zero is remembered (`Accumulated`); which mode takes which path (`ModesHold`). The answer alone says nothing before the end. Strict: two readings meet, `ExactAnswer` (the digits kept, scaled) and `PlainAnswer` (all digits, trimmed), both what `Text` says of the number by `TrimmedIs` and `AssemblesLeast`; the window's wrapped word is undone by `Unwrapped`, and a fold that overflows means more than 128 bits because a number never falls as digits are added (`NeverFalls`). Truncating: the number cut off after `MaxPrec` places is read off the mantissa, extended by zeros (`Placed`, `CutOffMeans`); a chunk is cut after the last digit that fits (`ReplayFits`), and dropped digits that would be shown either make the number too large or are zeros precision takes up (`DroppedAnswer`, `Stops`). In both, the exponent, which saturates, is past every bound when it does (`CappedExponent`, `CappedPlaces`) |
| `CanonicalAlwaysWritten`, `FixedAlwaysRounded` (`WireProofs`) | `CanonicalText`, `FixedText`, for every amount, every number of places and any buffer it fits | `WriterInv`: the buffer holds the low digits of the number with the point in place (`Stored`), and each stage knows what is left: the chunk and its width, and the quotient above (`AtFrac` ... `AtSign`); a nonzero digit of the fraction stops the trim (`AtTrim`), and what is left above a chunk in the midst is not zero, so a number starts with a zero only if it is below one (`AtInt`, `AtChunk`). Neither property says anything before the last byte. One lemma per action. From it the masked stores never wrap (`InsideScratch`), the bytes are the digits, point and zeros they should be (`Laid`), the scanner reads just those (`LiteralIs`), and their value is the quotient the trim left (`Denoted`). The canonical form then is the text of the number (`CanonicalFraction`, `CanonicalInteger`), the fixed one the amount within half a unit (`FixedNearest`, by `FamilyRoundsOnce`) |
| `JSONAlwaysMeansText` (`WireProofs`) | `JSONMeansText`, for every string of characters and escapes, every bare number, exponents aside, and every buffer | `JSONInv` beside `WriterInv` and `ParserInv`: while the string is parsed as it stands, the literal is the one its encoded bytes spell; while it is decoded, the buffer holds what the units so far stand for (`Told`) and all of them are well formed; in the second parse the literal is the one the whole string means. The property says nothing before the last answer. Four facts carry it: a string the parser accepts as it stands has no escapes and is what it means, because any other unit puts a byte into it that no literal has (`StrangeUnit`, `JunkRefused`, `AsItStands`); a well-formed unit takes at most six bytes for each it decodes to and one decodes to no less than its beginning, so neither the length test nor a full buffer refuses a number the parser would take (`StringFacts`, `TooLongMeans`); the prefix test on bytes is the rule on literals (`BareLiteral`); and what the parser answers to the text written is its number, trimmed (`ReadBackRight`, where strict and truncating parsing meet in `PaddedAnswer`) |
| `SearchFindsGreatest`, `SearchStaysBracketed` (`PrecSearchProofs`) | the loops answer with the greatest fitting precision; their bounds bracket it | best = lo - 1, everything below `lo` fits and nothing above `hi` does; for `Div`, that `p` is at least the estimate |

### The words underneath

All of the above computes with integers below `Cap` and `Wide`. That this is
what the multi-word code computes is proved for every word size, so nothing
rests on the run's 7-bit instance.

| Theorem | States | Argument |
|---|---|---|
| `Div3by2Exact` (`KernelProofs`) | one digit of the division by a normalized two-word divisor: exact digit, exact remainder below the divisor, no trap | the clamped trial digit, from the two upper words alone, is at least the digit and at most two more; the product is subtracted modulo three words, so the borrow says whether it was too large, and the wrapped deficit, compared once more, whether by two |
| `Div2by1Exact` (`KernelProofs`) | one digit by a reciprocal: exact digit and remainder | the product with the reciprocal is at most two low; the candidate is stepped up, which may wrap, and comparing the wrapped remainder with the low word of the product tells an overshoot; a second comparison catches the last unit |
| `Pow10EntryExact`, `Divmod64Pow10Exact` (`KernelProofs`) | the generated table holds normalized powers and their reciprocals; one high multiplication by the magic constant divides a word by 10^k, for k at least 1 (the entry for k = 0 has none, and no caller divides by 1) | 10^k is 2^k times a whole number, the shift by k comes off first, and rounding the multiplier up is too little to reach the next quotient (`MagicDivides`) |
| `StraightLineExact` (`KernelProofs`) | sums, differences, negations, comparisons and products of two and four words are the integer ones, carry, borrow and fit flag included | `Add64`, `Sub64`, `Mul64` as equations with their carry; the columns of the schoolbook product add up, and its top column cannot carry |
| `DigitsAlwaysExact` (`KernelProofs`) | `DigitsExact` | `Running`: (quotient * divisor + remainder) * (place of the limbs left) + (limbs left) = dividend * 2^shift, and the remainder is below the divisor. `DigitsExact` drops the limbs left, which is why it is not inductive. Each entry establishes it (`BeginWide`, `BeginThree`, `BeginSlow`, `BeginPair`: normalizing loses no bit, and the skipped digit of `div256by128` is zero), each digit keeps it (`RunDigit`) |
| `KernelsKeepTheirPromise` (`KernelProofs`) | `Kernels` implements `KernelSpec`: one answer, the integer one, and no trap | `IInv`, with `KernelsStayInLine`: which kernel may be at work for which call (`Routed`: a hand-over keeps the callee's precondition), that what the second pass of `divU256Pow10` still has to divide is worth what the caller is owed (`Owed`), and `Running`. One lemma per action shows that it keeps `IInv` and either answers with the promise or changes nothing a caller sees |

### Only model-checked

- Liveness (`Terminates`, `WireTerminates`), which rests on fairness and is out
  of the prover's reach.
- `ShortestClosest` and `Converts` of `Floats`: the proportions of a float
  format enter through bounds on how far a cut-off table power is from the power
  of ten, for each exponent of the format. That is a computation over the table,
  not a consequence of a few assumptions about it.

## What is not modelled

- Byte-level tricks of the scanners: the eight-bytes-at-a-time digit tests and
  conversions of `parse.go` and the two-digit table of `format.go` are taken by
  the digits they find or store. Bytes of no literal are one class.
- `InexactFloat64`, which hands the canonical text to `strconv.ParseFloat`, and
  non-finite floats beyond the error that `Text` gives them.
- Buffers that callers pass to `Append*`, and allocation.
- `Must*` and `Require*`, which panic on the error of a modelled operation.
- The generator beyond the definitions of its table entries (`computeEntry` in
  `Limbs`, `computeDboxPow10` in `Floats`): rendering, and self checks.
- Benchmarks and scripts.

## Plan

Every safety property of every module but `Floats` is a theorem. Further work:

1. Exponents among the bytes of `Wire`: the `e` of a bare number or a quoted
   string, which `LiteralOf` does not read; `Parser` has them.
2. `Floats`: the bounds on each table entry as assumptions TLC evaluates for the
   format at hand, and `ShortestClosest` from them.
