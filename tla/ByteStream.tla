----------------------------- MODULE ByteStream -----------------------------
(***************************************************************************)
(* What a decompressing io.Reader promises its caller, whatever the format *)
(* and however the input arrives: the bytes of a stream are made, handed   *)
(* over once each and never before they are made, never more of them than  *)
(* the stream declares, and io.EOF is reported once every byte has been    *)
(* handed over, and for good.  The reader may be given another stream.     *)
(* After an error a reader may be used on: bytes are still handed over     *)
(* once, but nothing is promised of the end.                               *)
(***************************************************************************)
EXTENDS Integers

CONSTANT Unknown   \* the declared size of a stream that declares none

VARIABLES
  declared,   \* the size the stream declares, or Unknown
  made,       \* bytes made so far
  given,      \* bytes handed over so far
  status      \* "open", "ended" (the last byte is made), "reported",
              \* or "failed"

vars == <<declared, made, given, status>>

Fresh ==
  /\ declared \in Nat \cup {Unknown}
  /\ made = 0 /\ given = 0 /\ status = "open"

Make ==
  /\ status = "open"
  /\ made' \in Nat /\ made' > made
  /\ declared # Unknown => made' <= declared
  /\ UNCHANGED <<declared, given, status>>

Give ==
  /\ status # "reported"
  /\ given' \in Nat /\ given < given' /\ given' <= made
  /\ UNCHANGED <<declared, made, status>>

End ==
  /\ status = "open"
  /\ declared # Unknown => made = declared
  /\ status' = "ended"
  /\ UNCHANGED <<declared, made, given>>

Report ==
  /\ status = "ended" /\ given = made
  /\ status' = "reported"
  /\ UNCHANGED <<declared, made, given>>

Fail ==
  /\ status = "open"
  /\ status' = "failed"
  /\ made' \in Nat /\ made' >= made
  /\ declared # Unknown => made' <= declared
  /\ UNCHANGED <<declared, given>>

UseOn ==
  /\ status = "failed"
  /\ made' \in Nat /\ made' >= made
  /\ given' \in Nat /\ given' >= given /\ given' <= made
  /\ declared # Unknown => made' <= declared
  /\ UNCHANGED <<declared, status>>

\* What is read is no longer the stream that declared the size.
Misread ==
  /\ status = "open"
  /\ declared' = Unknown
  /\ UNCHANGED <<made, given, status>>

Another ==
  /\ declared' \in Nat \cup {Unknown}
  /\ made' = 0 /\ given' = 0 /\ status' = "open"

Next == Make \/ Give \/ End \/ Report \/ Fail \/ UseOn \/ Misread \/ Another

Spec == Fresh /\ [][Next]_vars
=============================================================================
