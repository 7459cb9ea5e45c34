------------------------------ MODULE ReadCall ------------------------------
(***************************************************************************)
(* What Decoder.Read and LZMA2Reader.Read have in common: a caller who     *)
(* reads with buffers of any size, and bytes handed to it from the         *)
(* dictionary.                                                             *)
(***************************************************************************)
EXTENDS DecoderCore

CONSTANTS
  MaxRead,     \* bound: length of a caller's buffer
  MaxErrors    \* bound: the caller gives a stream up after so many errors

ASSUME CallAssumption == MaxRead \in Nat /\ MaxErrors \in Nat

VARIABLES
  want,       \* len(p): room left in the caller's buffer
  total,      \* bytes this call of Read has copied
  result,     \* what the last call returned, [n, err]
  delivered,  \* history: bytes of this stream the caller has got
  errors      \* history: errors the caller has got

caller == <<want, total, result, delivered, errors>>

InitialResult == [n |-> 0, err |-> "none"]

Buffered == dicPos - readPos

\* An engine runs, or has just returned or failed.
InEngine == pc \in {"decode", "asm", "asmFirst", "asmNext", "goEntry", "go",
                    "decoded", "fault"}

\* A call with a buffer of length n begins.
Called(n) == pc = "ready" /\ errors < MaxErrors /\ n \in 0 .. MaxRead

\* copy(p, dic[readPos:dicPos]) into a buffer with room for room bytes.
Copy(room) ==
  LET n == Lesser(room, Buffered)
  IN  /\ readPos' = readPos + n
      /\ delivered' = delivered + n

Return(n, err) ==
  /\ pc' = "ready"
  /\ result' = [n |-> n, err |-> err]
  /\ errors' = IF err \in {"nil", "EOF"} THEN errors ELSE errors + 1

\* The loop of Read fills the caller's buffer from the dictionary.
LoopCopy ==
  /\ pc = "loop" /\ want > 0 /\ Buffered > 0
  /\ Copy(want)
  /\ want' = want - Lesser(want, Buffered)
  /\ total' = total + Lesser(want, Buffered)
  /\ UNCHANGED <<window, engine, dicBufSize, propDicSize, base, conforming,
                 state, reps, ioErr, history, pc, result, errors>>

\* The dictionary is full and all of it is delivered: start over at slot 0.
\* Mutant: it never starts over.
NeverWrapped == dicPos

Wrapped == IF dicPos = dicBufSize THEN 0 ELSE dicPos
Wrap == dicPos' = Wrapped /\ readPos' = IF Wrapped = dicPos THEN readPos ELSE 0

----------------------------------------------------------------------------
(* Properties of both readers. *)

\* Every byte a caller is given is the right one: of an encoder's stream,
\* with engines alternating in the middle of matches, a dictionary that
\* wraps, transient read errors and a reused dictionary, byte number k of
\* the output is what the decoder hands over as number k; and after a failed
\* symbol, once the place in the input is lost, or on other input, no right
\* byte comes at a wrong place
\* (decoder.go:97-118, 126-155; lzma2.go:73-121).
InOrderDelivery ==
  [][delivered' > delivered =>
       \A i \in 0 .. (delivered' - delivered - 1) :
         dic[readPos + i] \in {delivered + i} \cup
                              (IF conforming /\ ~tainted THEN {} ELSE {Garbage})]_delivered

\* What LZMA lets a distance refer to: a byte of this stream, or of the part
\* of it since the last dictionary reset, that is at most a dictionary away.
Available == Lesser(outPos - base, dicBufSize)

\* An engine never refuses a distance an encoder may use (decoder.go:502).
LegalDistanceAccepted ==
  conforming /\ ~tainted /\ Decoding => Available <= DistLimit

\* Whatever the input, an engine accepts a new distance only if it refers to
\* a byte of the stream since the last dictionary reset: checkDicSize is never
\* set before the dictionary is full (decoder.go:120, 502-509, 514;
\* lzmadec_amd64.go:82-87, 123).  Distances that a symbol repeats are compared
\* with nothing (decoder.go:345-364), nor is one that was refused and then
\* repeated: of those this says nothing.
NewDistanceInStream == Decoding => DistLimit <= outPos - base

\* Whatever the input, no index expression on dic is out of range: decoding
\* untrusted data does not panic (fuzz_test.go:9-27).
NoFault == pc # "fault"
=============================================================================
