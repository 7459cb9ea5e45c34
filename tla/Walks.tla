------------------------------- MODULE Walks -------------------------------
(***************************************************************************)
(* decodeLoop and the two assembly loops decode the same symbol from the   *)
(* same bits, side by side.  What may differ is how they compute           *)
(* addresses, lengths and distances; what must agree is every entry of the *)
(* table they use, and the symbol.                                         *)
(***************************************************************************)
EXTENDS GoWalk, AmdWalk, ArmWalk

CONSTANT Inputs   \* the values of inp

ASSUME InputsAssumption ==
  /\ Inputs \subseteq [lc : 0 .. 8, lp : 0 .. 4, pb : 0 .. 4, state : 0 .. 11,
                       processedPos : Nat, first : BOOLEAN,
                       prevByte : 0 .. 255, matchByte : 0 .. 255]
  /\ \A i \in Inputs : i.first => i.processedPos = 0

walkVars == <<inp, go, amd, arm>>

Init == inp \in Inputs /\ GoInit /\ AmdInit /\ ArmInit

Decision(b) == GoBit(b) /\ AmdStep(b) /\ ArmStep(b) /\ UNCHANGED inp

\* The symbol is complete.  (An engine that cannot follow the others before
\* that is a deadlock.)
Complete == go.at = "end" /\ UNCHANGED walkVars

Next == Complete \/ \E b \in {0, 1} : Decision(b)

Spec == Init /\ [][Next]_walkVars

----------------------------------------------------------------------------

\* No engine uses a probability the others would not: for the decision that
\* comes next all three are about to load the same entry of the table, and
\* the decision before it stored back to the entry it came from.
SameProbability ==
  /\ AmdEntry(amd.load) = GoEntry /\ ArmEntry(arm.load) = GoEntry
  /\ AmdEntry(amd.store) = go.last /\ ArmEntry(arm.store) = go.last

\* All engines are at the same decision, and agree on the symbol when it is
\* complete: the byte, the length, the distances and their order, the state,
\* and, for the assembly, the label that fits the state.  After the marker of
\* the end no label follows: the assembly returns, with the state that
\* decodeLoop has.
SameSymbol ==
  /\ amd.at = go.at /\ arm.at = go.at
  /\ go.at = "end" =>
       /\ amd.out = go.out /\ arm.out = go.out
       /\ amd.state = 2 * go.state /\ arm.state = 2 * go.state
       /\ amd.label = IF go.out[1] = "marker" THEN "fin" ELSE EntryLabel(amd.state)
       /\ arm.label = IF go.out[1] = "marker" THEN "fin" ELSE ArmEntryLabel(arm.state)

\* A decision uses an entry of its own part of the table, which no other
\* kind of decision shares, and never one beyond the end of the table.
OwnRegion == GoEntry \in Region(go.at)
=============================================================================
