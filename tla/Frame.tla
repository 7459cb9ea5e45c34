------------------------------- MODULE Frame -------------------------------
(* Which register, stack slot or field of the cLzmaDec struct holds which   *)
(* quantity of the decoder.  A block of a kernel reads places that it takes  *)
(* to hold certain quantities, leaves quantities in places, and changes some *)
(* quantities, after which every other place that held them is out of date.  *)
(* A quantity that has two forms has two names: dicPtr is the address and    *)
(* dicPos the offset, state2 the state times PMULT, matchState the state     *)
(* with the mark of a new distance.                                          *)
EXTENDS Integers, TLC

Stale == "stale"

Block(reads, writes, sets, to) == [reads |-> reads, writes |-> writes, sets |-> sets, to |-> to]

\* What every decoded bit changes, wherever a kernel keeps it.
CoderSets == {"range", "code", "buf"}

\* What a decoded byte changes.
ByteSets == {"prevByte", "processedPos", "dicPtr", "dicPos", "stateProbs", "posState"}
StateSets == {"state", "state2"}
RepSets == {"rep0", "rep1", "rep2", "rep3"}

Overlap(a, b) == a[1] < b[1] + b[2] /\ b[1] < a[1] + a[2]

\* The arguments, and the fields of the struct as the driver fills them
\* (lzmadec_amd64.go:89-112).
Given ==
  [A_lzma |-> "lzma", A_limit |-> "limit", A_bufLimit |-> "bufLimit", A_ret |-> Stale,
   S_probs |-> "probs", S_dic |-> "dic", S_dicBufSize |-> "dicBufSize", S_dicPos |-> "dicPos",
   S_buf |-> "buf", S_rng |-> "range", S_code |-> "code", S_processedPos |-> "processedPos",
   S_checkDicSize |-> "checkDicSize", S_rep0 |-> "rep0", S_rep1 |-> "rep1", S_rep2 |-> "rep2",
   S_rep3 |-> "rep3", S_state |-> "state", S_remainLen |-> "remainLen", S_lc |-> "lc", S_lp |-> "lp",
   S_pb |-> "pb"]

\* What the driver reads back (lzmadec_amd64.go:114-138).
Results ==
  [A_ret |-> "ret", S_dicPos |-> "dicPos", S_buf |-> "buf", S_rng |-> "range", S_code |-> "code",
   S_processedPos |-> "processedPos", S_rep0 |-> "rep0", S_rep1 |-> "rep1", S_rep2 |-> "rep2",
   S_rep3 |-> "rep3", S_state |-> "state", S_remainLen |-> "remainLen"]

Holds(at, places) == \A p \in DOMAIN places : at[p] = places[p]

After(at, block, layout) ==
  [p \in DOMAIN at |->
     IF p \in DOMAIN block.writes THEN block.writes[p]
     ELSE IF \/ at[p] \in block.sets
             \/ /\ p \in DOMAIN layout
                /\ \E w \in DOMAIN block.writes \cap DOMAIN layout : Overlap(layout[p], layout[w])
          THEN Stale
     ELSE at[p]]
=============================================================================
