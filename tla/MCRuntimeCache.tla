--------------------------- MODULE MCRuntimeCache ---------------------------
(* RuntimeCache with runs and keys that are model values.                  *)
EXTENDS RuntimeCache, TLC

Alike == Permutations(Run) \cup Permutations(Key)
=============================================================================
