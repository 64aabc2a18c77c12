------------------------------ MODULE CfgClean ------------------------------
(***************************************************************************)
(* The clean-up passes of crates/cinrs-core/src/cfg.rs (`Lowerer::finish`),*)
(* between the lowering of a C function into basic blocks and the relooper:*)
(* jumps through empty blocks are threaded, a block with one way in is     *)
(* appended to the block it follows, and what is left is numbered in       *)
(* reverse postorder.                                                      *)
(*                                                                         *)
(* A statement is the block it was lowered into; a terminator is either a  *)
(* jump or names its block too: what it evaluates stays one thing however  *)
(* the blocks are moved.                                                   *)
(***************************************************************************)
EXTENDS Integers, Sequences, FiniteSets

CONSTANTS N,            \* how many blocks the lowering made
          Lowered       \* the graphs it may have made of them

Ids == 0 .. N - 1
NoBlock == -1

ASSUME BlocksAssumption == N \in Nat \ {0}

(* What the lowering makes: a block holds its statement or none, and ends  *)
(* in a jump or in a terminator that goes by its name.                     *)
ASSUME LoweredAssumption ==
    \A g \in Lowered :
        /\ g = [b \in Ids |-> g[b]]
        /\ \A b \in Ids :
               /\ g[b] \in [stmts : {<<>>, <<b>>}, jump : BOOLEAN,
                            who : {NoBlock, b}, to : Seq(Ids)]
               /\ g[b].jump => Len(g[b].to) = 1
               /\ g[b].jump <=> g[b].who = NoBlock

VARIABLES orig, start,        \* the graph as it was lowered, and its entry
          phase,              \* the pass that runs
          blocks, entry,      \* the graph as the passes have left it
          preds, todo,        \* merge_chains: `predecessors`, the blocks to visit
          stack, visited, order   \* renumber: the walk, and its postorder

vars == <<orig, start, phase, blocks, entry, preds, todo, stack, visited, order>>
walk == <<stack, visited, order>>

-----------------------------------------------------------------------------
(* The graph.                                                              *)

(* The edges of a graph, one for each target a terminator lists.           *)
Edges(g, from) == UNION {{u} \X DOMAIN g[u].to : u \in from}
WaysIn(g, from, b) == {e \in Edges(g, from) : g[e[1]].to[e[2]] = b}

(* A block with no statement that only jumps.                              *)
Skips(g, b) == g[b].stmts = <<>> /\ g[b].jump

(* What `Unreachable` leaves of a block another one has taken in.          *)
Emptied == [stmts |-> <<>>, jump |-> FALSE, who |-> NoBlock, to |-> <<>>]

(* The blocks a walk along the edges comes to: the least set of blocks     *)
(* that holds `from` and is left by no edge.                               *)
Closed(g, S) == \A u \in S : \A k \in DOMAIN g[u].to : g[u].to[k] \in S
Reachable(g, from) ==
    {b \in DOMAIN g : \A S \in SUBSET DOMAIN g : from \in S /\ Closed(g, S) => b \in S}

(* The blocks control passes from b before anything is run or chosen.      *)
Onward(g, c) == IF Skips(g, c) THEN g[c].to[1] ELSE c
Along(g, b) ==
    LET at[n \in 0 .. N] == IF n = 0 THEN b ELSE Onward(g, at[n - 1])
    IN  at

(* `resolve`: along them, until a jump leads to a block that is no empty   *)
(* jump, or that has been passed.                                          *)
Stops(g, at, n) == ~Skips(g, at[n]) \/ \E m \in 0 .. n - 1 : at[m] = at[n]
Resolve(b) ==
    LET at == Along(blocks, b)
    IN  at[CHOOSE n \in 0 .. N :
               Stops(blocks, at, n) /\ \A m \in 0 .. n - 1 : ~Stops(blocks, at, m)]

(* `map_targets`                                                           *)
Retarget(block, f) == [block EXCEPT !.to = [k \in DOMAIN block.to |-> f[block.to[k]]]]

-----------------------------------------------------------------------------
(* The passes, in the order of `finish`.                                   *)

Init ==
    /\ orig \in Lowered /\ start \in {0, N - 1}
    /\ phase = "thread"
    /\ blocks = orig /\ entry = start
    /\ preds = [b \in Ids |-> 0] /\ todo = {}
    /\ stack = <<>> /\ visited = {} /\ order = <<>>

ThreadJumps ==
    /\ phase = "thread"
    /\ LET resolved == [b \in Ids |-> Resolve(b)]
       IN  /\ blocks' = [b \in Ids |-> Retarget(blocks[b], resolved)]
           /\ entry' = resolved[entry]
    /\ phase' = "count"
    /\ UNCHANGED <<orig, start, preds, todo, walk>>

(* The ways into each block from a block that control can reach.           *)
CountPredecessors ==
    /\ phase = "count"
    /\ LET reachable == Reachable(blocks, entry)
       IN  /\ preds' = [b \in Ids |-> Cardinality(WaysIn(blocks, reachable, b))]
           /\ todo' = reachable
    /\ phase' = "merge"
    /\ UNCHANGED <<orig, start, blocks, entry, walk>>

(* The block `merge_chains` has come to, in the order of their numbers.    *)
Visiting(b) == phase = "merge" /\ b \in todo /\ \A c \in todo : b <= c

(* A faulty Absorbs: the entry, which a `longjmp` comes back to, is taken  *)
(* in like any other block.                                                *)
AbsorbsEntry(b, t) ==
    /\ blocks[b].jump /\ blocks[b].to[1] = t
    /\ t # b /\ preds[t] = 1

Absorbs(b, t) ==
    /\ blocks[b].jump /\ blocks[b].to[1] = t
    /\ t # b /\ t # entry /\ preds[t] = 1

(* t's statements go after b's, and its terminator takes the jump's place. *)
Chain(g, b, t) ==
    [g EXCEPT ![b] = [g[t] EXCEPT !.stmts = g[b].stmts \o @], ![t] = Emptied]

Absorb(b, t) ==
    /\ Visiting(b) /\ Absorbs(b, t)
    /\ blocks' = Chain(blocks, b, t)
    /\ preds' = [preds EXCEPT ![t] = 0]
    /\ UNCHANGED <<orig, start, phase, entry, todo, walk>>

NextBlock(b) ==
    /\ Visiting(b) /\ \A t \in Ids : ~Absorbs(b, t)
    /\ todo' = todo \ {b}
    /\ UNCHANGED <<orig, start, phase, blocks, entry, preds, walk>>

StartNumbering ==
    /\ phase = "merge" /\ todo = {}
    /\ phase' = "number"
    /\ stack' = <<[id |-> entry, next |-> 0]>> /\ visited' = {entry}
    /\ UNCHANGED <<orig, start, blocks, entry, preds, todo, order>>

(* The walk's next successor of the block on top, the last one first.      *)
Explore ==
    /\ phase = "number" /\ stack # <<>>
    /\ LET top == Head(stack)
           to  == blocks[top.id].to
           s   == to[Len(to) - top.next]
           on  == <<[top EXCEPT !.next = @ + 1]>> \o Tail(stack)
       IN  /\ top.next < Len(to)
           /\ stack' = IF s \in visited THEN on ELSE <<[id |-> s, next |-> 0]>> \o on
           /\ visited' = visited \cup {s}
    /\ UNCHANGED <<orig, start, phase, blocks, entry, preds, todo, order>>

(* A faulty Leave: the postorder is not reversed.                          *)
LeaveInPostorder ==
    /\ phase = "number" /\ stack # <<>>
    /\ Head(stack).next = Len(blocks[Head(stack).id].to)
    /\ order' = Append(order, Head(stack).id)
    /\ stack' = Tail(stack)
    /\ UNCHANGED <<orig, start, phase, blocks, entry, preds, todo, visited>>

(* `order` is kept reversed: the block that is done last comes first.      *)
Leave ==
    /\ phase = "number" /\ stack # <<>>
    /\ Head(stack).next = Len(blocks[Head(stack).id].to)
    /\ order' = <<Head(stack).id>> \o order
    /\ stack' = Tail(stack)
    /\ UNCHANGED <<orig, start, phase, blocks, entry, preds, todo, visited>>

(* The blocks the walk met, under their new numbers; the rest are dropped. *)
Numbered ==
    LET index_of == [b \in visited |-> (CHOOSE i \in DOMAIN order : order[i] = b) - 1]
    IN  [i \in 0 .. Len(order) - 1 |-> Retarget(blocks[order[i + 1]], index_of)]

Renumber ==
    /\ phase = "number" /\ stack = <<>>
    /\ blocks' = Numbered /\ entry' = 0
    /\ phase' = "done"
    /\ UNCHANGED <<orig, start, preds, todo, walk>>

Next ==
    \/ ThreadJumps \/ CountPredecessors
    \/ \E b, t \in Ids : Absorb(b, t)
    \/ \E b \in Ids : NextBlock(b)
    \/ StartNumbering \/ Explore \/ Leave \/ Renumber

Spec == Init /\ [][Next]_vars

-----------------------------------------------------------------------------
(* What is promised.                                                       *)

(* The block control comes to from b before anything is run or chosen;     *)
(* NoBlock if it goes round empty blocks for ever.                         *)
Settles(g, b) ==
    LET c == Along(g, b)[N]
    IN  IF Skips(g, c) THEN NoBlock ELSE c

(* The first thing that happens when control comes to b: a statement, or   *)
(* what a terminator evaluates, under the block it was lowered into.       *)
First(g, b) ==
    LET c == Settles(g, b)
    IN  IF c = NoBlock THEN NoBlock
        ELSE IF g[c].stmts # <<>> THEN Head(g[c].stmts) ELSE g[c].who

(* What comes next in the program as it was lowered, o, after the          *)
(* statement of a block that jumps.                                        *)
Follows(o, s) == Settles(o, o[s].to[1])

SameStatements(o, g, b) ==
    \A i \in 1 .. Len(g[b].stmts) - 1 :
        LET s == g[b].stmts[i]
        IN  o[s].jump /\ Follows(o, s) = g[b].stmts[i + 1]

SameJump(o, g, b) ==
    g[b].jump /\ g[b].stmts # <<>> =>
        LET s == g[b].stmts[Len(g[b].stmts)]
        IN  o[s].jump /\ Follows(o, s) = First(g, g[b].to[1])

SameChoice(o, g, b) ==
    ~g[b].jump =>
        LET w == g[b].who
            s == IF g[b].stmts = <<>> THEN w ELSE g[b].stmts[Len(g[b].stmts)]
        IN  /\ w # NoBlock
            /\ s # w => o[s].jump /\ Follows(o, s) = w
            /\ ~o[w].jump
            /\ (o[w].stmts = <<>>) <=> (g[b].stmts = <<>> \/ s # w)
            /\ Len(g[b].to) = Len(o[w].to)
            /\ \A k \in DOMAIN o[w].to : First(g, g[b].to[k]) = Settles(o, o[w].to[k])

(* After every pass, and between two blocks of a pass, the graph runs the  *)
(* C program: the same statements in the same order, the same choices with *)
(* the same ways out, and round for ever where the C goes round for ever.  *)
SameRuns ==
    /\ First(blocks, entry) = Settles(orig, start)
    /\ \A b \in Reachable(blocks, entry) :
           /\ SameStatements(orig, blocks, b)
           /\ SameJump(orig, blocks, b)
           /\ SameChoice(orig, blocks, b)

(* What the relooper is written for: the blocks are exactly those control  *)
(* can reach, numbered from the entry in the reverse postorder of a depth- *)
(* first walk, so that a dominator comes first and an edge back is a loop. *)
(* SmallGraphs enumerates these graphs for the relooper's own checks.      *)
Small(size) == INSTANCE SmallGraphs WITH N <- size, MaxOut <- size, Twice <- {}, Reducible <- TRUE
Succ(b) == {blocks[b].to[k] : k \in DOMAIN blocks[b].to}
NumberedForReloop ==
    phase = "done" =>
        /\ entry = 0 /\ Reachable(blocks, entry) = DOMAIN blocks
        /\ \E size \in 1 .. N :
               /\ DOMAIN blocks = 0 .. size - 1
               /\ \E parent \in Small(size)!Trees :
                      \A u \in DOMAIN blocks : Succ(u) \in Small(size)!Branches(parent, u)

=============================================================================
