--------------------------- MODULE MCNonLocalJump ---------------------------
(* NonLocalJump with model values.                                         *)
EXTENDS NonLocalJump
=============================================================================
