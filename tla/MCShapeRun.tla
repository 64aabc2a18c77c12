----------------------------- MODULE MCShapeRun -----------------------------
(***************************************************************************)
(* Every small graph, recovered, emitted and run.                          *)
(***************************************************************************)
EXTENDS ShapeRun
CONSTANTS MaxOut, Twice, Reducible
INSTANCE SmallGraphs
=============================================================================
