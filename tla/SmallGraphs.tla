----------------------------- MODULE SmallGraphs ----------------------------
(***************************************************************************)
(* Every graph with N blocks that the clean-up passes of cfg.rs can hand   *)
(* to the relooper, numbered as `renumber` numbers one.                    *)
(***************************************************************************)
EXTENDS Integers, FiniteSets

LOCAL INSTANCE TLC

CONSTANTS N,
          MaxOut,     \* the most targets a terminator has
          Twice,      \* the blocks whose `switch` may list its default as a case
          Reducible   \* whether to have the graphs that Rust's loops can say as they are

Numbers == 0 .. N - 1

Targets == {S \in SUBSET Numbers : Cardinality(S) <= MaxOut}

(* The trees of a depth-first walk, numbered in reverse postorder: a       *)
(* subtree is numbered without a gap, its root first.                      *)
Above(parent) ==
    [v \in Numbers |-> {u \in Numbers : \A S \in SUBSET Numbers :
                     v \in S /\ (\A x \in S \ {0} : parent[x] \in S) => u \in S}]
Trees ==
    {parent \in [1 .. N - 1 -> Numbers] :
        /\ \A v \in 1 .. N - 1 : parent[v] < v
        /\ \A v \in Numbers :
               LET below == {u \in Numbers : v \in Above(parent)[u]}
               IN  below = v .. v + Cardinality(below) - 1}

(* What u may jump to: its children in the tree, and besides these to an   *)
(* ancestor or forwards.                                                   *)
Branches(parent, u) ==
    {S \in Targets :
        /\ {v \in 1 .. N - 1 : parent[v] = u} \subseteq S
        /\ S \subseteq Above(parent)[u] \cup u + 1 .. N - 1}

(* The graphs with a given tree, block by block.                           *)
WithTree(parent) ==
    LET upto[k \in 0 .. N] ==
            IF k = 0 THEN {<<>>}
            ELSE {g @@ (k - 1 :> S) : g \in upto[k - 1], S \in Branches(parent, k - 1)}
    IN  upto[N]

(* A block that a cycle of the walk goes back to can be gone round: the    *)
(* cycle has two ways in.                                                  *)
Avoiding(succ, v) ==
    LET upto[k \in 0 .. N] ==
            IF k = 0 THEN {0} \ {v}
            ELSE LET r == upto[k - 1] IN (r \cup UNION {succ[u] : u \in r}) \ {v}
    IN  upto[N]
Irreducible(succ) ==
    \E v \in 1 .. N - 1 :
        \E u \in v + 1 .. N - 1 : v \in succ[u] /\ u \in Avoiding(succ, v)

Numbered == {g \in UNION {WithTree(parent) : parent \in Trees} : Reducible \/ Irreducible(g)}

(* The target a `switch` repeats, if it does: in a graph whose branches    *)
(* have two targets, which is what makes a difference to a branch.         *)
Repeats(succ) ==
    {[b \in Numbers |-> IF b \in Twice THEN r[b] ELSE {}] :
        r \in {x \in [Twice -> {{}} \cup {{t} : t \in Numbers}] :
                  \A b \in Twice : x[b] # {} =>
                      /\ x[b] \subseteq succ[b] /\ Cardinality(succ[b]) = 2
                      /\ \A c \in Numbers : Cardinality(succ[c]) <= 2}}

MCGraphs == UNION {{[succ |-> s, twice |-> r] : r \in Repeats(s)} : s \in Numbered}
=============================================================================
