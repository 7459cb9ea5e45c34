------------------------------- MODULE Kernel -------------------------------
(* A call of lzmaDecodeReal3 on either machine, from its entry to its       *)
(* return: the blocks the decisions lead through, with what registers and    *)
(* stack slots hold (AmdFrame, ArmFrame), and every match copied store by    *)
(* store (MatchCopy); beside them decodeLoop, of which only the copy is      *)
(* modelled here.  Which symbols come, and where in the dictionary a match   *)
(* falls, is chosen freely.                                                  *)
EXTENDS MatchCopy, AmdFrame, ArmFrame
VARIABLES
  at,         \* what each place holds
  fresh       \* rep0 was decoded by the symbol being decoded
vars == <<arch, pc, at, fresh, match, mem, reg, touched>>

Blocks == IF Amd THEN AmdBlocks ELSE ArmBlocks
Layout == IF Amd THEN AmdLayout ELSE ArmLayout
Called == IF Amd THEN AmdCalled ELSE ArmCalled
Saved  == IF Amd THEN AmdSaved ELSE ArmSaved

Init ==
  /\ \/ arch \in {"amd64", "arm64"} /\ pc = "entry" /\ at = Called
     \/ arch = "go" /\ pc = "decodeLoop" /\ at = << >>
  /\ fresh = FALSE
  /\ NoCopy

Pass == at' = After(at, Blocks[pc], Layout)

\* A block that copies nothing, up to a label it can lead to.
Step ==
  /\ pc \in DOMAIN Blocks \ {"copy_match", "IsRep0Short_label"}
  /\ Pass
  /\ pc' \in Blocks[pc].to
  /\ fresh' = (pc = "new_distance")
  /\ UNCHANGED <<arch, copyVars>>

StartMatch ==
  /\ pc = "copy_match"
  /\ Pass
  /\ \E m \in LegalMatches, loaded \in BOOLEAN :
       /\ Room(m) > 0 /\ (fresh => ~loaded)
       /\ CopyMatch(m, loaded)
  /\ fresh' = FALSE /\ UNCHANGED arch

\* The driver's limit may leave no room (lzmadec_amd64.go:79-87 when
\* processedPos is dicSize already).
NoRoom ==
  /\ pc = "copy_match"
  /\ pc' = "fin_dicPos_LIMIT"
  /\ fresh' = FALSE /\ UNCHANGED <<arch, at, copyVars>>

StartShort ==
  /\ pc = "IsRep0Short_label"
  /\ Pass
  /\ \E m \in LegalMatches, loaded \in BOOLEAN :
       m.len = 2 /\ m.limit = m.start + 1 /\ CopyShort([m EXCEPT !.len = 1], loaded)
  /\ UNCHANGED <<arch, fresh>>

Copy == CopyStep /\ UNCHANGED <<arch, at, fresh>>

GoMatch ==
  /\ pc = "decodeLoop"
  /\ \E m \in LegalMatches : Room(m) > 0 /\ GoCopy(m)
  /\ UNCHANGED <<arch, at, fresh>>

LeaveCopy ==
  /\ pc = "copied" /\ pc' = IF arch = "go" THEN "decodeLoop" ELSE "lz_check_limits"
  /\ match' = NoMatch /\ mem' = << >> /\ reg' = NoRegs /\ touched' = {}
  /\ UNCHANGED <<arch, at, fresh>>

CallAgain ==
  /\ pc = "return" /\ pc' = "entry"
  /\ at' = Called
  /\ UNCHANGED <<arch, fresh, copyVars>>

Next == Step \/ StartMatch \/ NoRoom \/ StartShort \/ GoMatch \/ Copy \/ LeaveCopy \/ CallAgain
Spec == Init /\ [][Next]_vars
\* A kernel runs until it returns.
FairSpec == Spec /\ WF_vars(Copy)

-----------------------------------------------------------------------------
\* Registers and slots serve several purposes (R12 of amd64 is dic, the
\* length and the match byte's offset; R9 lpMask, the match byte and a
\* distance): whatever way a block is reached, each place it reads holds what
\* it is read for, and on every return the struct holds the results of this
\* call and the saved registers are the caller's.
PlacesHold ==
  /\ pc \in DOMAIN Blocks => Holds(at, Blocks[pc].reads)
  /\ pc = "return" => Holds(at, Results @@ Saved)

\* However a match is copied, wide, by words, by filling or doubling, or across
\* the end of the dictionary, the dictionary is in the end what copying byte
\* after byte makes it, and a kernel has the last byte, the context of the next
\* symbol, in its register.
BytewiseCopy ==
  pc = "copied" =>
    LET n == Count(match) IN
    /\ mem = Copied(match, n)
    /\ reg.dicPos = Dic + match.start + n
    /\ arch # "go" => reg.sym = mem[reg.dicPos - 1]

\* No store goes outside the slots of the match, not even for a moment:
\* before them is what later matches refer to, behind them what the caller
\* has not been given yet.
StoresInMatch ==
  \A a \in touched : Minus(a, Dic + match.start) < Count(match)

\* A copy comes to its end: the counts that the loops run to zero are hit.
CopyEnds == Copying ~> pc = "copied"
=============================================================================
