# A TLA+ model of golzma

golzma decodes LZMA and LZMA2. This directory models its two readers and the
decoder they share, the input buffer and the range coder, and the three engines:
their decisions bit by bit, and, of the two generated assembly kernels, the use
of registers and stack and the copying of matches. TLC checks all of it on
small instances; for every value of the constants, TLAPS proves the invariants of
both readers and that they implement the abstract one, and those of the engines'
decisions, the input buffer, the range coder, arm64's direct bits, the bound on a
symbol's bytes and the copies of matches. File names without a directory are those
of the repository's root.

## 1. The system

| Component | Code | State it keeps | Operations |
|---|---|---|---|
| LZMA reader | `decoder.go`: `Reset`, `Read` | `dic`, `dicPos`, `readPos`, `size`, `eos` | begin a stream, reuse for another, read |
| Pure Go engine | `decoder.go`: `decodeLoop`, `writeRem` | `state`, `reps`, `processedPos`, `checkDicSize`, `remainLen`, the probabilities, `rng` and `code` | decode symbols up to a limit, complete an interrupted match |
| Assembly engine | `lzmadec_amd64.go`, `lzmadec_arm64.go` (`tryDecodeAsm`), `*.s`; `lzmadec_noasm.go` | none of its own: it copies the decoder's state to `cdec` and back | decode symbols up to a limit while 20 bytes of input are buffered |
| Input buffer, range coder | `range_decoder.go` | `buf`, `pos`, `end`, `eof`, `rng`, `code` | `init`, `fill`, `readByte` |
| LZMA2 reader | `lzma2.go` | `chunkRemain`, `inLZMA`, `inUncomp`, `propSet`, `eof` and a decoder | read; begin a chunk, continue it |
| Headers | `lzma.go` | none | decode properties and sizes, make a reader |
| Generators | `gen_lzmadec_*.py`, `goasm_*.py` | registers and labels at generation time | emit `lzmadec_*.s` |

A caller calls `Read` of one of the two readers. `Read` hands over bytes that
are buffered in the dictionary (`readPos` to `dicPos`); when there are none it
starts over at slot 0 if the dictionary is full, computes a limit, and runs
`tryDecodeAsm`, and `decodeLoop` if that could not be used. Both engines work
on the same fields of the decoder and take turns in the middle of a stream:
the assembly stops when fewer than 20 bytes of input are buffered, and
`decodeLoop` reads the rest; the assembly resumes at the next call. There is
no concurrency. What is hard:

* **matches cut short.** The end of the dictionary, of the declared size, of an
  LZMA2 chunk, or the clamp that `tryDecodeAsm` applies interrupts a match; the
  rest waits in `remainLen` until some engine, under another limit, completes
  it (`writeRem` is called from four places).
* **`checkDicSize`.** Until the dictionary is full a distance is compared with
  `processedPos`, after that with the dictionary's size. Five places decide
  that it is full, by three different conditions, one of them in wrapping
  32-bit arithmetic.
* **errors half way.** An engine that fails has produced bytes. `Read` charges
  them to `size` and returns them in the next call. A source may fail and
  recover.
* **two engines, one state.** What one leaves (pending match, repeat distances,
  probabilities, input position) the other takes over.
* **three programs for one symbol.** `decodeLoop` and the two generated assembly
  loops index the table of probabilities, split the range, collect bits and
  rotate distances each in its own way, and share the table in the middle of a
  stream. The assembly looks at its input only between symbols.
* **one buffer, two users.** `readByte` refills the input buffer when it is
  empty and `tryDecodeAsm` in the middle, from a source that may return few bytes,
  an error with bytes, or `io.EOF` with or after the last ones.
* **few registers.** The kernels keep some twenty quantities in fewer registers:
  `R9` of amd64 is a mask, a byte, an index and a distance. They copy matches 16
  bytes at a time, by words, or by filling, and loops run to an exact zero.
* **chunks.** LZMA2 chunks share the dictionary and reset some of the state.
  Uncompressed chunks move the dictionary without an engine.

What makes the components correct: each byte is decoded from the right context
and handed over exactly once, in order (`InOrderDelivery`); `size` and
`chunkRemain` account for every byte (`SizeAccounting`, `ChunkAccounting`);
`io.EOF` comes after all of them and not before the declared size (`StreamSpec`,
`EofAtDeclaredSize`); a new distance is accepted exactly when it refers to bytes of
the stream (`LegalDistanceAccepted`, `NewDistanceInStream`; a repeated one is
compared with nothing), and no index leaves the dictionary (`NoFault`); the
positions stay in order (`TypeOK`); every call returns (`ReadReturns`). For the
engines: each decision uses and updates the same probability in all of them
(`SameProbability`, `OwnRegion`), with the same arithmetic (`SameOutcome`,
`LateReadsAgree`), and yields the same symbol (`SameSymbol`); the coder's range
is never empty and a byte suffices to normalise it (`RangeNeverEmpty`,
`OneByteSuffices`, `CodeBelowRange`); a symbol's input is there before the
assembly begins it (`EnoughInput`, `AsmWithinInput`). For the kernels: a register
holds what it is read for (`PlacesHold`), and a match copied in whatever way is
the match (`BytewiseCopy`), in its place (`StoresInMatch`), after finitely many
steps (`CopyEnds`). For the input: every byte is used once and in order
(`BufferHolds`, `InputInOrder`), the end is reported at the end (`EofOnlyAtEnd`),
and a chunk begins where the last one ended (`ChunkFraming`).

## 2. The modules

    DecoderCore   the decoder both readers share: dictionary, both engines
      ReadCall    + the caller, its buffer, the loop that fills it
        Decoder       + size, eos, Reset: the LZMA reader     -> ByteStream
        LZMA2Reader   + chunks: the LZMA2 reader              -> ByteStream
    ByteStream    the abstract reader both implement
    EngineProofs  lemmas about DecoderCore, for both readers
      DecoderProofs   Decoder: types, sizes, bytes, distances, end; it implements ByteStream
      LZMA2Proofs     the same of LZMA2Reader
    ProbTable     the layout of the probabilities, the input of one symbol
    Words         the operators of words: &, |, ^
      GoWalk, AmdWalk, ArmWalk   the decisions of one symbol, in each engine
        Walks         the three side by side
          WalksProofs   the theorems about them
    CoderSteps    the coder's arithmetic, in each engine
      RangeCoder    any sequence of decisions
        DirectBits         + the direct bits of arm64 beside decodeLoop's
          RangeCoderProofs   the theorems of both
    InputBound    the bytes that one symbol may take
      InputBoundProofs   the theorem that 20 suffice
    RangeInput    the buffer the bytes come from, and LZMA2's chunks of them
      RangeInputProofs   its theorems
    Machine       the instructions a match copy depends on
      MatchCopy     the copy of one match, in each engine
    Frame         which place holds which quantity
      AmdFrame, ArmFrame   the blocks of the two kernels
        Kernel        MatchCopy and both frames: calls of a kernel
          KernelProofs   theorems about the copies
    MCDecoder, MCLZMA2, MCWalks, MCInputBound   instances for TLC

**What a byte is.** A slot of `dic` holds the *offset in the output* of the byte
it contains, or `Garbage`. A literal is right when it is decoded in the right
context: nothing went wrong before, `processedPos` and `state` are what the
encoder had, and the previous byte (after a match also the byte at distance
`rep0`) is right; it then gets the offset `outPos`. A byte of a match is right when the slot it is
copied from holds the offset that lies one distance back. So a wrong slot, a
forgotten or doubled byte, or a stale `rep0` turns into `Garbage` or a wrong
offset at the point where the caller gets it. `coded` counts the bytes that the
symbols decoded so far stand for; it is how the model knows that a symbol is
decoded at the place where it belongs.

**The input** is the environment. It chooses the next symbol, whether 20 bytes
are buffered (`AsmRun` or `AsmLeave`), whether the source fails (`AsmReadError`)
or ends in the middle of a symbol (`ok = FALSE`; `decodeLoop` then takes every
missing bit for 0, finishes some symbol and stops). Where `conforming` is TRUE,
which `Origins` allows or not, the symbols are those an encoder may write;
otherwise they are arbitrary. Each stream of a reused reader chooses anew.

`conforming` becomes FALSE in the middle of an encoder's stream where the reader
loses its place in the input but can be read on: what is decoded from there on is
not what the encoder wrote. That may happen

* to both readers when the first symbol of an assembly call takes a byte more than
  was lent (`PastInput`; `RangeInput` says when);
* to LZMA2 when a source fails behind a control byte, so that the next `Read` takes the
  middle of a header for one (`HeaderError`), when it fails in the drain of a
  chunk, which nobody reports (`AfterDecode`), and when an engine has failed in a
  chunk: `chunkRemain` still counts what it made, so that a caller who reads on
  lets the engine decode past the chunk's last symbol (`PastChunk`).

"the stream's place in the input is lost" below and in the properties' comments
means this. An error of the source at a control byte does not lose it
(`ControlError`), nor does one in the refill before the assembly (`AsmReadError`); one
in the middle of a symbol of `decodeLoop` sets `tainted`.

**Correspondence.** `pc` names places of the code: `ready` (no call), `loop`
(the `for len(p) > 0` of `Read`), `chunk` (`lzma2.go:93`, past the wrap), `decode`
(`tryDecodeAsm` is called), `asm` (its loop), `asmFirst` and `asmNext` (inside
the assembly; it decodes one symbol before it looks at its limits), `goEntry`
and `go` (`decodeLoop`), `decoded` (an engine has returned) and `fault` (an
index left the dictionary). One action is one iteration or one early return:

| Actions | Code |
|---|---|
| `Literal`, `ShortRep`, `Rep`, `Match`, `EndMarker`, `Refuse...` | one iteration of `decodeLoop` (`decoder.go:257-556`) or of the assembly's loop |
| `WriteRem` (part of `GoEntry`, `AsmEntry`, `AsmReturn`, `ContinueLZMA`) | `writeRem` (`decoder.go:92-123`) |
| `AsmEntry`, `AsmRun`, `AsmReturn`, `AsmLeave`, `AsmReadError` | `tryDecodeAsm` (`lzmadec_amd64.go:40-145`; the arm64 driver is the same) |
| `ReadBuffered`, `ReadAtEnd`, `InitFails`, `ReadBegin`, `Decode`, `LoopStep`, `AfterDecode`, `ReadDone`, `Reset` | `Read` and `Reset` (`decoder.go:40-192`) |
| `PastInput`, `PastChunk` | no code of their own: the next symbol comes from the wrong bytes (`lzmadec_amd64.go:111-115`, `lzma2.go:108-114`) |
| `ControlError`, `HeaderError`, `BadHeader`, `LZMAHeaderFails` | the returns between the parts of a chunk header |
| `ContinueLZMA`, `ContinueUncomp`, `UncompHeader`, `LZMAHeader`, ... | the three parts of the loop of `LZMA2Reader.Read` (`lzma2.go:93-262`) |

`Word` stands for 2^32: `Plus32` and `Minus32` are Go's uint32 operations, and
`ToInt` is the conversion `int(d.size)`. `outPos`, `base`, `coded`, `tainted`,
`delivered`, `errors`, `size0`, `streams`, `announced`, `due` and `cut` are
history variables: no guard of a step of the code reads them except to bound
the model or to keep a `conforming` input to what an encoder writes.

**`ByteStream`** is what both readers promise: bytes are made, handed over once
and in order, and `io.EOF` comes after the last one and for good. Its status
`failed` is for a reader that is used on after an error that lost its place in
the input (`tainted`): what it made is still handed over once, but no end is
promised. A reader that loses its place unnoticed goes on as one of a stream of
unknown size (`Misread`). An error of the source that the reader recovers from is a stutter.

### The engines, decision by decision

`DecoderCore` takes the symbol from the environment. How an engine gets it from
bits is the other half of the model, cut in three along what each part depends on.

**Walks.** `GoWalk`, `AmdWalk` and `ArmWalk` are state machines over a record of
the variables (`decodeLoop`) or registers (the generators `gen_lzmadec_*.py`)
that matter for addresses and symbols. An action is the code from one
`decodeBit`, or one `NORM`, to the next; its parameter is the bit. A macro that
is used with several parameters (`BIT_1`, `LITM`, `REV_1`) is one operator. The
assembly loads a probability through one address expression, often before the
decision that leads to it, and stores it through another, so both addresses are
kept: `load` of the next decision, `store` of the last one. Each engine has its
own base: amd64 points 1664 entries into the table, arm64 at `IsMatch`.
`Walks` takes the same bit in all three. `arm64` and `amd64` keep `state` doubled
and remember it as a place in the code as well (`label`). The repeated distances
are the numbers 1 to 4, so that their order shows. `Inputs` are the values the
loops find when a symbol begins: any properties that `decodeProps` accepts, any
state, position and bytes, but that the first symbol of a stream has position 0.
A match whose distance is `EndDistance` (2^32 - 1) is no match but the end of the stream: the
engines leave their loops with `remainLen` set and `numStates` taken from the state.
`Words` has `&`, `|` and `^` of 32 bits, by halves down to single bits: the
operators of `Bitwise` are recursive, and nothing could be proved over them.
`MCWalks` compares the two on some words. The other integers are not cut at 32
bits. `processedPos << 8` may be more than 32 bits long, but the masks keep the
lowest 12 of them only; and no register of a distance overflows, since what it
holds with *n* bits to come is at most the distance, which has 32 bits, shifted
right by *n*, once more shifted left in amd64.

**Arithmetic.** `CoderSteps` has one binary decision in each of its five forms
(Go, the branches and the conditional moves of amd64, arm64) and a direct bit in
two. `RangeCoder` runs them from any state `rangeDecoder.init` can produce, on
any bytes. `legal` is a history variable: an encoder could have written the
input. `DirectBits` is about arm64's unrolled loop (`gen_lzmadec_arm64.py:812-819`),
which does not test the range after its first byte: it adds arm64's range, code
and the byte it owes to the state of `RangeCoder`. Its claim is about distances
that begin in a stream an encoder wrote. On other input `code` may be above the
range, from `init` on, and then the engines may read different bits.

**The bytes of one symbol.** `InputBound` abstracts a decision to the smallest part it can leave of
the range, and follows the order of the decisions in the assembly from
`isMatch` to `fin`.

### The input

`RangeInput` is the other side of `readByte`: the source, the buffer, and who
takes bytes out of it. A byte is its offset in the source, so that `next`, the
offset the coder needs, tells a byte lost, doubled or stale from the right one.
`Got` is what a `Read` of the source (or of the chunk's `LimitedReader`) may
return. An action is a byte that `decodeLoop` or `init` takes with the `fill` it
may need (`InitByte`, `DecodeByte`), its failure (`InitFails`, `DecodeFails`), the
compaction and refill of `tryDecodeAsm` (`Refill`), a symbol of the assembly
(`AsmSymbol`), or a step of
`LZMA2Reader.Read` on the source itself: a header, the data of an uncompressed
chunk, the drain of an LZMA chunk. A symbol with the normalisation at the kernel's end takes up to
`Required` bytes from a range that `init` or `fin` left normalised, and one more
(`SymbolMax`) from what `decodeLoop` or the symbol before it left (`rng`). After another symbol
of the same call that byte is there, since the kernel goes on only with more than `Required`
left (`GoesOn`); after `decodeLoop` it need not be: then the assembly takes the byte behind `end`,
an old one or one behind the array, and returns with `pos` = `end` + 1. `lost` is a history variable: the reader has
given up its place in the source. It is set where an error came in the middle of
a header or of `init` (whose `fill`, called again, drops what came with the
error), where a header or the first byte was refused, where the source
returned neither bytes nor an error to `readByte`, which then uses an old byte
and leaves `pos` past `end`, and where the assembly took a byte past the end. In the
last two cases the driver's slice expression panics at the next refill
(`RefillFaults`, `lzmadec_amd64.go:61`).

### The kernels

**Frames.** A block is the code between two labels that decisions or branches
lead to. `AmdFrame` and `ArmFrame` list for each what it takes its registers,
stack slots and fields of `cLzmaDec` to hold (`reads`), what it leaves there
(`writes`), which quantities it changes (`sets`), so that any other place that
held one is out of date, and where it leads (`to`). Stack slots have their
offset and size, and a store to one that overlaps another destroys it. The
values themselves are in the walks.

**Copies.** `MatchCopy` has the labels of `copy_match` in both kernels with the
addresses and counts in registers of `Machine`, whose width is a parameter, so
that carries, borrows and sign extension are those of the code. A byte of the
dictionary is named by its slot before the match. `Copied` is what `writeRem`'s
bytewise loop leaves. The third engine is `decodeLoop`'s doubling copy.

**`Kernel`** runs calls of a kernel from entry to return, through any succession of
blocks, and copies a match wherever one is copied. `loaded` says that `rep0`
was loaded from the struct and not decoded in this call: arm64's `MOVW`
extends its sign.

## 3. The runs

| Run | Question | Result |
|---|---|---|
| `decoder` | Is an encoder's stream, and another after it in a reused reader, also after a stream that was none, delivered byte for byte, and no legal distance refused? Is on any input the size exact, and no new distance accepted from before the stream? Does the reader implement `ByteStream`, and does every call return? | holds |
| `lzma2` | The same for LZMA2, with chunks in the place of the size | holds |
| `walks` | Do all engines use the same probabilities for a symbol, none of another kind, and get the same symbol and state? | holds |
| `coder` | Is the range never empty, one byte enough to normalise it, and the arithmetic of all engines the same? Are arm64's late reads harmless? | holds |
| `input_bound` | Do 20 bytes suffice for a symbol, from a normalised range? | holds |
| `input_bound_mixed` | And from the range `decodeLoop` leaves? | violated |
| `decoder_fault` | Is every index inside the dictionary on any input? | violated |
| `lzma2_fault` | As `decoder_fault`, for LZMA2 | violated |
| `kernel` | Does every register of the kernels hold what it is read for, on every way through the symbols? Is every match copied as byte by byte, nothing else stored to, and does the copy end? | holds |
| `kernel_distance` | And for distances with the highest bit set? | violated |
| `range_input` | As long as the reader has its place in the source: does the coder get every byte once and in order, whoever asks; is the end reported only there; does a chunk begin where the last ended? Has the assembly a symbol's input, save in the case of `input_bound_mixed`? | holds |
| `range_drain` | And if the source fails while a chunk is drained? | violated |

Every property of a passing run has a mutant in `PROJECT.json`: a changed
definition, of the kind a plausible bug would make, that TLC must refute with
the same configuration.

The five violations:

* `decoder_fault`: `decodeLoop` sets `checkDicSize` only at a match, by
  `dicSize - processedPos <= length` (`decoder.go:514`). If literals fill the
  dictionary exactly, the difference wraps at the next match, `checkDicSize` stays 0,
  and `processedPos` remains the limit of distances: one larger than the
  dictionary makes an index negative. The assembly's driver clamps its limit
  (`lzmadec_amd64.go:79-87`) so as not to miss that point, the pure Go engine has
  no such clamp. `fuzz_test.go:9-17` expects any data to be decoded or refused.
* `lzma2_fault`: an uncompressed chunk compares `processedPos` with
  `d.prop.dicSize`, which is 0 until the first properties arrive
  (`lzma2.go:135`), so `checkDicSize` stays 0 while the dictionary fills.
* `input_bound_mixed`: `decodeLoop` leaves the range as its last decision made it
  (`decoder.go:558-565`), the assembly normalises it when it returns. After
  `decodeLoop`, a call that finds exactly 20 bytes buffered may need 21 for its
  first symbol and the normalisation at `fin`. It takes a source with short
  reads for `decodeLoop` to be followed by the assembly, and a symbol whose every
  decision is the least likely one. The 21st byte is an old byte of the buffer, or not of the
  buffer at all, and the stream is decoded wrongly from there; `rc.pos` is then `rc.end` + 1,
  so that the slice of the next refill, `rc.buf[rc.pos:rc.end]` (`lzmadec_amd64.go:61`), panics. `RangeInput` has both steps, the two readers
  have the first (`PastInput`).
* `kernel_distance`: arm64 loads the repeated distances with `MOVW`, which
  extends the sign (`goasm_arm64.py:232`), and uses all 64 bits of `rep0` in the
  copy. A distance of 2^31 or more (a dictionary that large is accepted,
  `maxdictsize_test.go:75`) that was decoded in an earlier call is negative there.
  amd64's `MOVL` clears the upper half.
* `range_drain`: `io.Copy(io.Discard, lr.chunkR)` (`lzma2.go:118`) drops its error.
  The rest of the chunk is then read as a header.

Three disagreements have no run. `processedPos` wraps at 4 GiB of output, while
`checkDicSize` may still be 0 for the reason of `decoder_fault`; legal distances
are then refused (`decoder` without the assembly, with `Word = 8` and `MaxOut = 9`, shows it). `int(d.size)`
(`decoder.go:159`) drops half of the size where `int` has 32 bits (`decoder` with `IntMax = 1`).
And amd64's kernel saves `BX` after it has loaded its argument there
(`gen_lzmadec_amd64.py:522-530`): what it restores is not the caller's. Go's ABI0
has no callee-saved registers, so nothing depends on it; `AmdSaved` leaves it out.
A comment (`decoder.go:44-46`) says that the wide copy may write 15 bytes past a
match; `StoresInMatch` shows that it writes none.

The bound of 20 is tight: with 19 (the mutant of `EnoughInput`) a symbol with 26 direct bits
breaks it from a normalised range. That 20 suffice is proved for every such range (section 4).

`README.md` of the repository calls `NewLZMA2Reader(compressedReader, dictProp)`
with two arguments and one result; the function takes three and returns two
(`lzma2.go:40`). This has no behaviour to check.

### Bounds

* `SpecLen = 4`, `Lens = {2, 3}` (in `decoder` only 3): `matchSpecLenStart` is 274 and lengths are 2 to
  273. The model needs lengths that fit, that are cut at every place, and that
  are as long as the dictionary.
* `DicSizes`, `DicSize`: 3 slots. The code's smallest dictionary is 4096,
  and no step depends on more than the order of `dicPos`, the limit, the
  distance and the size; with 3 slots a match of 3 at distance 3 or 1 wraps,
  overlaps itself, and is cut after 0, 1 or 2 bytes.
* `Dists`: the dictionary's size; the shortest distance, 1, is what the repeated ones
  begin with. In the runs that ask for a fault, 1 and one beyond the size.
* `MaxOut`: no symbol is begun at an offset past it: 4 and 5 bytes are more than
  one turn of the dictionary, and a match begun there fills the second turn or goes on into the third; 9, in the runs that ask for a fault, are three.
* `Word = 64` never wraps in these bounds.
* `IntMax = 1000` is an `int` that holds every size.
* `MaxRead = 2`: buffers of 0, 1 and 2 bytes, all smaller than the dictionary, so
  a call ends before, at and after the end of what is buffered.
* `MaxErrors`, `MaxStreams`: after so many errors the caller gives a stream up,
  and after so many streams it stops. Deadlock checking is off for that
  reason: a system whose caller has stopped stops.
* `HasAsm = TRUE`: a build with the assembly; any call may still find `noAsm`
  set, so that these runs contain the behaviours of a build without it. (The
  code sets `noAsm` only in tests, between streams; that it may change between
  calls is more than the code does.)
* `Sizes`: unknown, and 4, which no turn of the dictionary divides.
* `ChunkSizes`: shorter than, and equal to, the dictionary and the longest match.

* `Settings` of `MCWalks`: the corners of `lc` and `lp` and the usual ones; states
  after literals and after each kind of match; positions with all bits of `pbMask` set. `Bits` leaves out slots 61 to 63
  (their distances do not fit TLC's integers), and `EndDistance` is the last distance of
  slot 60 instead, so that the marker is met after the same decisions; it follows only uniform bits in
  the middle and high length trees when a new distance comes next (the trees
  themselves are complete with repeated distances), and takes all combinations of
  direct bits only for the last `FreeDirect`: each direct bit is shifted alike.
  These are bounds of the run: `Next` of `Walks` tries both bits everywhere, and the
  theorems are about all of them and all inputs.
* `Total = 16`, `Move = 4`, `Top = 32`, `Byte = 8`: an 8-bit coder that meets
  `CoderAssumption`, as the real one (2^11, 2^5, 2^24, 2^8) does; the theorems are
  about every coder that does.
* `Unroll = 3`: eight bits use up a byte of eight bits; in the scaled coder, three
  one of three. `MaxBits = 7` is two runs and a rest (for any other number: section 4).
  A distance begins at one
  value of the probability only, which direct bits do not use.
* `SomeRanges`: the least and the greatest normalised range, the one `init` sets,
  and others between them; the theorem is about all. The model keeps the range of 32 bits in two parts.

* `kernel`: a dictionary of 11 bytes at address 20, all starts and limits in it, all
  distances up to 11, lengths up to 11. `Wide = 4` stands for 16 bytes, so that a
  match is two turns of the wide loop and a tail; words have their 4 bytes.
  `Full = 256` and `Half = 64` (16 in `kernel_distance`) stand for 2^64 and 2^32.
* `range_input`: a buffer of 4 bytes and a symbol of up to 2 of them, so that a
  refill finds 0 or 1 left, after which one read may not be enough, and a symbol of 3 of them
  after `decodeLoop` has 2 or more; chunks of 1, 3
  and 4 bytes, shorter than what `init` takes, and as long as the buffer; sources of 9 bytes are two or
  three chunks, or two fills and a rest. Two errors, so that one may follow a recovery.

### Fairness

`FairSpec` has weak fairness of `InCall`, the steps of a call that has begun.
`Read` is a sequential program that does nothing but run, and every `Read` of
the source returns. `ReadReturns` of LZMA2 is about encoders' streams
whose place is not lost. `Kernel` has weak
fairness of `Copy`: a kernel runs until it returns. Nothing is assumed of the caller, who may never call again.

## 4. The proofs

What is proved holds for every value of the constants that the modules' own
assumptions allow: every dictionary, stream, chunk and buffer size, every set of
lengths and distances, any input unless the text says "encoder's stream", with
and without the assembly, and however often the caller reads on after an
error (what an encoder's stream promises ends where its place in the input is lost). Two theorems name an assumption more:

* `Wide` (`Decoder` only): an `int` holds every declared size, as on all 64-bit
  builds. Without it the claims are false (section 3).
* `Below4GiB`, `MaxOut + SpecLen <= Word`: the streams considered are shorter than
  the range of `processedPos`, less one match. It is needed where the position
  decides what is right: `processedPos` wraps at 4 GiB, and then legal distances
  may be refused (section 3).

**`EngineProofs`** has no theorems of its own. It shows once, for both readers, what
a step of `DecoderCore` does. Its lemmas come in layers, each resting on the one before:

1. `Core`, the types: `readPos <= dicPos <= limit <= dicBufSize`, so that no engine
   writes past its limit, through the copy of a match and both engines' control.
2. `Counts`: the bytes decoded and the match under way (`Pend`) are what the symbols
   stand for, the assembly runs only when no match is pending (`Owed`), `processedPos` is never ahead of the bytes since the last
   reset (`Behind`), and `checkDicSize` is set only when the dictionary is full or
   the pending match fills it (`FullDic`). The match under way must be counted in: at
   `decoder.go:514` the code sets `checkDicSize` before it copies.
3. `Tags`: every slot in the window holds its own offset or `Garbage`, never another
   byte's offset, on any input.
4. On an encoder's stream, `Known` (`processedPos` and `state` are the encoder's),
   `Linked` (the pending match refers to what its symbol referred to) and `Context`
   (after a match, the byte at `rep0` is in the window), together `Exact`; this is
   what makes the next literal be decoded in its place.

**`DecoderProofs`**: `TypeCorrect` (`Spec => []TypeOK`) and `SizesAccounted`, by
`Account == TypeOK /\ SizeAccounting /\ Positions`. `TypeOK` alone is not
inductive: that `limit` does not pass the declared size depends on what is left
of it (`SizeAccounting`), and that every byte is handed over once depends on
what `pc` says about buffered bytes when an engine starts (`Positions`). About the
stream, each invariant containing the one before:

* `NewDistancesInStream` (`NewDistanceInStream`), by `Bounded == Account /\ Owed /\ Behind /\ FullDic`.
  The distance limit is either `processedPos`, which is never ahead, or the
  dictionary's size, once it is full. This is about distances as they are decoded. A
  repeated distance is compared with nothing, in no engine: as the first symbol
  of a stream (but for `decodeLoop`'s short rep) or after a refused distance it
  reads what another stream left. `LegalNeverRefused` and `BytesInOrder` say
  that this does not happen to an encoder's stream.
* `LegalNeverRefused` (`LegalDistanceAccepted`) and `BytesInOrder` (`InOrderDelivery`),
  on an encoder's stream below 4 GiB whose place in the input is not lost, by
  `InPlace == Bounded /\ Exact`.
* `FinishedAtSize` (`EofAtDeclaredSize`), by `Finished`, which adds that an encoder's
  stream of declared size meets no end marker, and that no engine runs once the
  end is noticed.
* `ImplementsStream` (`StreamSpec`), by `Reader`, which adds when `io.EOF` has been
  reported. Every action is shown to be a step of `ByteStream` or a stutter.

**`LZMA2Proofs`** has the same for chunks:

* `TypeCorrect` and `ChunksAccounted` (`ChunkAccounting`), by `Chunks`: an engine runs only
  inside an LZMA chunk, and its limit leaves no more room than the chunk has left.
* `LegalNeverRefused` and `BytesInOrder`, by `Placed == Chunks /\ Placement /\ Whole`. Two
  things differ from `Decoder`. A state reset drops a pending match, so on input
  no encoder writes `FullDic` is false, which is why `NewDistanceInStream` is not
  claimed for LZMA2; on an encoder's stream no match is pending at a header
  (`Whole`). And between a dictionary reset by an uncompressed chunk and the next
  state reset, `rep0` may point outside the window; no literal is decoded there (`due`).
* `ImplementsStream`, by `Reader == Chunks /\ EndReported`.

**`WalksProofs`** proves, for all `Inputs` that `InputsAssumption` allows (every
`lc`, `lp`, `pb`, state, position, previous byte and match byte) and every
sequence of bits, also those that TLC's run leaves out:

* `WalksSameProbability` (`SameProbability`), `WalksSameSymbol` (`SameSymbol`) and
  `WalksOwnRegion` (`OwnRegion`): the three engines use one entry of the table for each
  decision, none beyond the table or of another kind, and end with one symbol.

The three properties are not inductive, since they do not say what the registers
that are no address hold. The invariant `Inv` (`Related`) does so for each kind of the next
decision (`KindInv`). What is not obvious in it is where an engine is ahead of the others:

* on repeated distances the assembly has set its state before it knows that they are (`RepInv`),
  and amd64 has moved the first distances in the struct while the displaced one waits in a
  register (`IsRepG1Inv`, `IsRepG2Inv`);
* a length is kept less an offset that depends on its tree, with the index standing in for
  what has been decoded of it (`LowInv`, `MidInv`, `HighInv`), and arm64 marks a new
  distance by a bit of the state (`LengthInv`);
* in the bits of a short distance the assembly has only an address, which becomes the
  distance in the end (`SpecInv`); that it stays in the 128 entries is shown by the room
  the bits to come leave (`SpecRoom`);
* amd64 shifts a distance by four from its first direct bit on and keeps the four
  align bits in the index of their tree until the last of them, arm64 sets them one by one
  (`DirectInv`, `AlignInv`).

`Compare` covers the comparison with a match byte: what `&` and `^` make of it is 0 or
the marking bit, and doubled where the operands are. `Masks` covers the context of a literal,
for which decodeLoop and amd64 compute one mask in two ways (`GoMask`) and arm64 keeps
it shifted, with `lc` below it (`ArmMasked`): each cuts the same `lp` bits out of the position
and `lc` bits out of the byte, shown by `Field`, `LowMask` and `HighMask` of the words, byte
by byte. `LiteralRoom` shows that the context leaves 768 entries before the table's end.
There is one lemma for each kind of decision (`IsMatchStep`, ..., `AlignStep`),
with a case for each place it leads to, and `InvProbability`, `InvSymbol` and
`InvRegion` draw the conclusions.

**`RangeCoderProofs`** proves, for every coder that meets `CoderAssumption` and any
bytes:

* `CoderSound`, `OneByteEnough` and `CodeStaysBelow`: `RangeNeverEmpty`,
  `OneByteSuffices` and `CodeBelowRange` hold always. Their conjunction is
  inductive: that a decision leaves both parts non-empty needs the bounds of the
  probability, that a byte suffices needs the range after the last one, and that
  the code stays below needs both. The lemmas are about division, which the code
  does by shifts.
* `EnginesAgree`: `SameOutcome` holds always, in particular that the arithmetic
  shift of a negative difference (amd64, arm64) is the update that `decodeLoop`
  writes with two formulas. It needs `Total % Move = 0`.

It also proves, for the same coders and any number of bits in a byte and of direct
bits (`DirectBits`), `LateReadsHarmless` (`LateReadsAgree`) and `OneByteBehind`
(`AtMostOneBehind`). The invariant `DirectInv` says why arm64 may read untested: up to
the first byte it tests as often as decodeLoop (`Tested`), and the range falls
below `topValue` within the eight tested bits. From then on the range is `q` times
2^`run`, where `q` is what it was before the byte (`Untested`): halving it until the
next byte is due loses no bit. While arm64 is behind, its code is decodeLoop's without
the last byte. If the range was above half of `topValue` before the first byte, both read
at the same bits; otherwise no bit has been lost yet and the code is still below
the range. That case split needs `topValue` even, an assumption the module now
states: for `Top = 33` TLC finds the engines to disagree. `Doubling` states of
2^n what the provers lack; TLC evaluates it.

**`RangeInputProofs`** proves, for every size of the buffer, of a symbol, of the
chunks and of the source, and whatever the reads return:

* `BufferSafe`, `OrderSafe`, `EndSafe`: `BufferHolds`, `InputInOrder`,
  `EofOnlyAtEnd`, all three until the reader gives up its place (`lost`).
* `AsmSafe`: `AsmWithinInput`. The assembly begins every symbol with all the input
  that it may take but in one case, right after `decodeLoop` with exactly `Required` bytes
  buffered; and a slice is missing only where `lost` says that a byte was used that had not come.
* `FramingSafe`: `ChunkFraming`, until the reader gives up its place, if the source does not fail while a chunk is
  drained (`range_drain` refutes it otherwise).

The invariant is `InputInv`. Its core is `BufferHolds`: between `pos` and `end` are
the bytes between the coder's place and the source's. To it come where the
source stands (`Stands`): nothing past the chunk is read, `eof` is set only at the
end, and `init` begins with an empty buffer; without this, the `fill` of `init`
would drop bytes. `RangeLeft` says which ranges an engine may leave, on which the
bytes of a symbol depend. `Returns` says what a read can return, `Filled` and
`RefillKeeps` what the buffer holds after a fill and after a compaction. `Rebuilt`
lists what is left to show of a step, and there is a lemma for each action or
group of actions.

**`InputBoundProofs`** proves `TwentyBytesSuffice` (`EnoughInput`) for every set of
normalised ranges to start from, under `Normalised` and `~AfterGo`: the call begins
with the range that `init` or the assembly left. After `decodeLoop` the claim is
false (`input_bound_mixed`), so this is not an assumption to be dropped. What
a step leaves is monotone in the range it finds, and a byte that has not been read
is worth a factor 256. `Floor` is the run of the longest symbol from the least
range, row by row; `Reached` says that a state is no worse than a row, `NoWorse`
that a step keeps it so. `Entry` gives each place of a symbol its row, and
`Follows` shows that every way through a symbol follows the table or falls behind
it (`Weaker`). The last row has 21 bytes read (20 for the first symbol of a call) and
a range above `kTopValue`, so `fin` reads no further one.

**`KernelProofs`** proves, for every set of dictionary sizes, every match in them,
every place of the dictionary in memory and every width of the machine that
`MachineAssumption` and `CopyAssumption` allow:

* `CopiesAgree` (`BytewiseCopy`): however a match was copied, the dictionary is what
  copying it byte after byte makes of it. `StoresStayInside` (`StoresInMatch`): no store
  has left the match, at any moment. For arm64 both assume `NoSignBit`, that distances
  are below 2^31; `kernel_distance` shows what happens otherwise. amd64 and
  `decodeLoop` need no such assumption, and the theorems make none for them.

What is to be shown is a recursive definition (`Bytewise`: a byte may be copied
from a byte of the same match). `ByteAfterByte` gives its solution, the bytes before the match repeated
with period `rep0`, and is the only lemma that unfolds the recursion; `ByteAhead`
and `Period` are what the loops need of it. The invariant `CopyInv` says that the
memory is `Copied(match, n)` for some `n` (`Has`) and, for each label of the copies, what
is in the registers after `n` bytes (`Place`). Stating it takes care where a loop is
ahead of or behind the memory: the byte loops hold the next byte in `sym` and keep
the last one for `copy_end`; the fill rounds its count up to words and stores over
bytes that are there already, which are the same ones (`SameByte`); what
the doubling of `decodeLoop` has copied so far repeats in what it has still to
copy (`AtDouble`); the wide loop
runs only where `rep0` is at least the count, so that a group never loads what
it has stored. Counts that run up to zero are modulo
2^64 (`PlusFits`, `PlusWraps`, `MinusFits`, `MinusWraps`); the word loop needs 2^64 to be a multiple of
4. `AmdOutside` and `ArmOutside` go through the other blocks of the kernels: none of them
jumps into the middle of a copy. That `CopyInv` is inductive has one
lemma for each label (`WideTurn`, `FlushTurn`, ...) and one for each way in
(`CopyMatchTurn`, `CopyShortTurn`, `GoCopyTurn`).

Only model-checked:

* that no engine of `Walks` is stuck before the symbol is complete (the deadlock check
  of `walks`), which is about `ENABLED`. `WalksDispatched` proves what it rests on: the
  engines wait for the same kind of decision, and the guards within it that are not
  complementary (a label, a slot, the number of an align bit) have a branch for what they meet;
* `PlacesHold`: the frames are tables without parameters, so that TLC's run is not an
  instance but the whole of them;
* `ReadReturns` and `CopyEnds`, which as liveness properties are out of TLAPS's
  reach here.

## 5. What is not modelled

* The assembler text that the emitters `goasm_*.py` print: `Machine` has what the
  instructions do, not how operands are formatted and ordered.
* The kernels' blocks are modelled by what places hold, not by values, except for
  the copies (`MatchCopy`), the decisions (walks) and the arithmetic (`CoderSteps`).
  Distances and lengths that the kernels refuse are in `DecoderCore`, with
  the differences to `decodeLoop` that matter to the state (no check of a first
  short rep, no update of `checkDicSize`, at least one symbol per call, distance
  refused after the push).
* The connection of the layers is by definition, not by refinement: the
  symbols of `Walks` are those of `DecoderCore`, the bits those of `RangeCoder`, the
  bytes those of `RangeInput`, and `DecoderCore` copies a match bytewise, as
  `MatchCopy` shows that every engine does.
* What follows a read that returns 0 bytes and no error to `readByte`, or a byte the
  assembly takes past the end of its input: modelled, up to the panic (`RangeInput`), but
  nothing is claimed of the bytes that come of it; the readers' models know only the second.
* `decodeProps`, the sizes in headers, tests and benchmarks.
* LZMA2 after an error that loses the place in the input (behind a control byte, in a drain, in
  `init`, in a symbol): modelled; what is claimed are the types, that bytes are handed
  over once and in order, and that none of the stream's comes at a wrong place.
* `EndDistance` is 2^32 - 1 in the code; the theorems of `WalksProofs` are about any
  value of it, TLC's run about one it can reach.

## 6. Plan

1. Done: all modules of section 2, the theorems of section 4.
2. Proofs still open: that every step of a copy lessens a measure (what can be proved
   of `CopyEnds`); that a finished copy of `MatchCopy` is the copy of `DecoderCore`.
3. `Headers`: `decodeProps`, sizes, `DictSizeFromLZMA2Prop`.
4. The emitters: operand order and size suffixes of the printed instructions.
