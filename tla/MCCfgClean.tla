----------------------------- MODULE MCCfgClean -----------------------------
(***************************************************************************)
(* The graphs of four blocks in which block 1 branches, and all graphs of  *)
(* three blocks (the fourth is one that nothing reaches).  A block holds a *)
(* statement or none, and ends in a jump, in a `return`, or in a choice of *)
(* two targets at most, which may list a block twice.                      *)
(***************************************************************************)
EXTENDS CfgClean

Jumps(B) == {[jump |-> TRUE, to |-> <<x>>] : x \in B}
Choice(to) == [jump |-> FALSE, to |-> to]
Choices(B) == {Choice(<<x>>) : x \in B} \cup {Choice(<<x, y>>) : x, y \in B}

Block(b, full, term) ==
    [stmts |-> IF full THEN <<b>> ELSE <<>>, jump |-> term.jump, to |-> term.to,
     who |-> IF term.jump THEN NoBlock ELSE b]

Plain == Jumps(Ids) \cup {Choice(<<>>)}
Terms == Plain \cup Choices(Ids)

(* What the blocks end in: all but block 1 plainly, or block 3 in a        *)
(* `return`, the others as they like, but not with block 3.                *)
Last == N - 1
OneChooses(t) == \A b \in Ids \ {1} : t[b] \in Plain
InThree(t) ==
    t[Last].to = <<>> /\ \A b \in Ids : \A i \in DOMAIN t[b].to : t[b].to[i] # Last

MCLowered ==
    {[b \in Ids |-> Block(b, b \in full, t[b])] :
        full \in SUBSET Ids, t \in {x \in [Ids -> Terms] : OneChooses(x) \/ InThree(x)}}
=============================================================================
