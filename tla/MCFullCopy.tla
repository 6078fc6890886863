----------------------------- MODULE MCFullCopy -----------------------------
(* Small instances of FullCopy for TLC. *)
EXTENDS FullCopy
=============================================================================
