------------------------------ MODULE MCLZMA2 ------------------------------
(* Model checking of LZMA2Reader. *)
EXTENDS LZMA2Reader
=============================================================================
