----------------------------- MODULE MCVlaArena -----------------------------
(***************************************************************************)
(* The arena with the declarations of a function                           *)
(*      int a[n]; { int b[n]; } int c[n];                                  *)
(* so that b and c stand in the scope of a, and end for each other.        *)
(***************************************************************************)
EXTENDS VlaArena

MCWithin == [s \in Slots |-> IF s = 0 THEN NoSlot ELSE 0]

(* One after the other in one block.                                       *)
MCChain == [s \in Slots |-> s - 1]

MCRequests == {[bytes |-> 1, align |-> 2], [bytes |-> 2, align |-> 1]}
MCEmpty == {[bytes |-> n, align |-> 1] : n \in 0..2}
=============================================================================
