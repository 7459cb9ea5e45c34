----------------------------- MODULE MCDecoder -----------------------------
(* Model checking of Decoder. *)
EXTENDS Decoder

MCSizes == {Unknown, 4}
=============================================================================
