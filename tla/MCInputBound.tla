---------------------------- MODULE MCInputBound ----------------------------
(* The range just normalised, the least and the greatest range, and others. *)
EXTENDS InputBound

SomeRanges == {<<2^13, 0>>, <<2^13, 2047>>, <<8380, 700>>, <<12000, 5>>,
               <<70000, 1>>, <<2^21 - 1, 2047>>}
=============================================================================
