------------------------------ MODULE MCWalks ------------------------------
(* Small sets of inputs for Walks, and the bits that are tried. *)
EXTENDS Walks

CONSTANT FreeDirect   \* bound: direct bits are equal, except so many at the end

Input(lc, lp, pb, s, pos, first, prev, match) ==
  [lc |-> lc, lp |-> lp, pb |-> pb, state |-> s, processedPos |-> pos,
   first |-> first, prevByte |-> prev, matchByte |-> match]

\* The corners of the properties, and the usual lc = 3, lp = 0.
Settings == {<<0, 0>>, <<3, 0>>, <<8, 0>>, <<0, 4>>, <<8, 4>>, <<3, 1>>}

\* Literals: a byte at the start of the stream, and later ones.
Literals ==
  {Input(x[1], x[2], 2, s, pos, FALSE, 181, match) :
     x \in Settings, s \in {0, 5, 7, 9, 11}, pos \in {6, 15},
     match \in {165, 255}}
  \cup {Input(x[1], x[2], 2, 0, 0, TRUE, 181, 0) : x \in Settings}

\* Matches: states after literals and after every kind of match, at the last
\* position of pb = 4, and others.
Matches ==
  {Input(3, 0, 4, s, 15, FALSE, 181, 0) : s \in {0, 3, 6, 7, 8, 9, 11}}
  \cup {Input(3, 0, 0, 0, 7, FALSE, 181, 0), Input(3, 0, 2, 7, 5, FALSE, 181, 0)}

SomeInputs == Literals \cup Matches

\* The bits a step tries: slots 61 to 63 are left out (their distances do
\* not fit the checker's integers, so EndDistance is the last of slot 60), a
\* new distance follows every low length but only uniform bits in the other
\* two trees, and long runs of direct bits are uniform.
Bits ==
  CASE go.at = "isMatch" -> {b \in {0, 1} : inp \in IF b = 0 THEN Literals ELSE Matches}
    [] go.at = "slot" /\ go.m \in {31, 62} -> {0}
    [] go.at \in {"mid", "high"} /\ go.state >= numStates /\ go.m > 1 -> {go.m % 2}
    [] go.at = "direct" /\ go.n > FreeDirect /\ go.distance > 3 -> {go.distance % 2}
    [] OTHER -> {0, 1}

MCNext == Complete \/ \E b \in Bits : Decision(b)
MCSpec == Init /\ [][MCNext]_walkVars

\* The operators of Words are those of Bitwise.
Bit == INSTANCE Bitwise
SomeWords == 0 .. 20 \cup {31, 32, 255, 256, 511, 512, 3840, 4080, 65535, 65536, 1048575, 2097151, 715827882, 1073741823}
ASSUME SameOperators ==
  \A x, y \in SomeWords :
    /\ And(x, y) = Bit!&(x, y)
    /\ Or(x, y)  = Bit!|(x, y)
    /\ Xor(x, y) = Bit!^^(x, y)
=============================================================================
