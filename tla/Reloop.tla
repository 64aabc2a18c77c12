------------------------------- MODULE Reloop -------------------------------
(***************************************************************************)
(* The relooper of crates/cinrs-core/src/reloop.rs: it turns the graph of  *)
(* basic blocks of a function that has a `goto` into nested shapes, which  *)
(* the code generator emits as labelled blocks, `loop`s and `match`es.     *)
(*                                                                         *)
(* The recursion of `process` is a stack of frames.  A frame is one call   *)
(* in progress: the run of shapes it appends to, the groups of a Multiple  *)
(* or of a branch whose arms are still to be processed, and the entries    *)
(* and blocks of the next turn of its loop.  The top frame takes the next  *)
(* step, exactly as the innermost call does.  The trees are flattened: a   *)
(* run is named by a number, and a shape names the runs inside it.         *)
(*                                                                         *)
(* A terminator is known by the set of its targets, and by the blocks it   *)
(* lists twice (a `switch` whose `default` is also a `case`).              *)
(***************************************************************************)
EXTENDS Integers, Sequences, FiniteSets

CONSTANTS N,        \* how many basic blocks the graph has
          Graphs    \* the graphs `renumber` may hand to `plan`

Block == 0 .. N - 1

(* A graph: the targets of each block, and those its terminator repeats.   *)
Graph == [succ : [Block -> SUBSET Block], twice : [Block -> SUBSET Block]]

(* Every block can be reached from block 0: `renumber` drops the others.   *)
FromEntry(g) ==
    \A S \in SUBSET Block :
        0 \in S /\ (\A b \in S : g.succ[b] \subseteq S) => S = Block

ASSUME NAssumption == N \in Nat \ {0}
ASSUME GraphsAssumption ==
    /\ Graphs \subseteq Graph
    /\ \A g \in Graphs : FromEntry(g)

VARIABLES graph,    \* the graph being recovered
          cut,      \* the edges hidden because a loop's head `continue`s them
          runs,     \* the runs of shapes built so far
          stack,    \* the calls of `process` in progress, innermost last
          states    \* how many state variables irreducible regions have taken

vars == <<graph, cut, runs, stack, states>>

-----------------------------------------------------------------------------
(* The graph that is left.                                                 *)

(* A faulty succ_in: it follows the edges a loop has hidden.               *)
succ_in_uncut(b, S) == graph.succ[b] \cap S

(* The targets of b still in S, whose edge is still in the graph.          *)
succ_in(b, S) == {t \in graph.succ[b] \cap S : <<b, t>> \notin cut}

preds_in(b, S) == {f \in S : b \in graph.succ[f] /\ <<f, b>> \notin cut}

(* The blocks of B that a walk inside B from one of E gets to: what is in  *)
(* every set that holds E and that no edge leaves.                         *)
Closed(S, B) == \A b \in S : succ_in(b, B) \subseteq S
Reach(E, B) ==
    LET closed == {S \in SUBSET B : E \subseteq S /\ Closed(S, B)}
    IN  {b \in B : \A S \in closed : b \in S}

(* The blocks outside P that a block of P jumps to.                        *)
leaving(B, P) == (UNION {succ_in(b, B) : b \in P}) \ P

(* The entries of a loop and everything that can get back to one.          *)
reaching(E, B) == {b \in B : Reach({b}, B) \cap E # {}}

(* Blocks with one way in, from a block already inside, are pulled in.     *)
widen_loop(B, inner) ==
    LET widened ==
            {S \in SUBSET B :
                /\ inner \subseteq S
                /\ \A b \in S : \A t \in succ_in(b, B) :
                       preds_in(t, B) = {b} => t \in S}
    IN  {b \in B : \A S \in widened : b \in S}

loop_blocks(E, B) ==
    LET inner == E \cup reaching(E, B)
    IN  IF Cardinality(leaving(B, inner)) > 1 THEN widen_loop(B, inner) ELSE inner

(* A faulty independent_groups: a group holds what others reach as well.   *)
overlapping_groups(E, B) ==
    [e \in {x \in E : \A y \in E \ {x} : x \notin Reach({y}, B)} |-> Reach({e}, B)]

(* For each entry no other entry reaches, the blocks only it can reach.    *)
independent_groups(E, B) ==
    [e \in {x \in E : \A y \in E \ {x} : x \notin Reach({y}, B)} |->
        {b \in Reach({e}, B) : \A y \in E \ {e} : b \notin Reach({y}, B)}]

consumed(groups) == UNION {groups[e] : e \in DOMAIN groups}

(* A faulty next_entries: it forgets the entries no group took.            *)
next_entries_entered(E, B, groups) ==
    UNION {succ_in(b, B \ consumed(groups)) : b \in consumed(groups)}

(* The entries left for what follows the groups split off from B.          *)
next_entries(E, B, groups) ==
    LET rest == B \ consumed(groups)
    IN  (E \ consumed(groups)) \cup UNION {succ_in(b, rest) : b \in consumed(groups)}

(* No target of a branch may be generated twice.                           *)
fusable(b, targets) ==
    /\ Cardinality(targets) >= 2
    /\ targets \cap graph.twice[b] = {}

-----------------------------------------------------------------------------
(* The shapes.  A state variable is numbered from 1, and so is a run; 0 is *)
(* none.  The entries of a Simple are its block.                           *)

NoArms == [e \in {} |-> 0]
NoGroups == [e \in {} |-> {}]

Shape(kind, E, k, body) ==
    [kind |-> kind, entries |-> E, state |-> k, body |-> body, arms |-> NoArms]
Simple(b) == Shape("simple", {b}, 0, 0)
Loop(E, k, body) == Shape("loop", E, k, body)
Dispatch(E, k) == Shape("dispatch", E, k, 0)

(* A call of `process`.  `inline` says that the groups are laid out in the *)
(* run itself (a Multiple) and not in the arms of its last shape; `head`   *)
(* is the state variable of the dispatch the frame has to begin with.      *)
Frame(q, groups, inline, head, E, B) ==
    [run |-> q, groups |-> groups, inline |-> inline, head |-> head,
     entries |-> E, blocks |-> B]

(* The call once it has split the groups off B, which it enters at E.      *)
Split(q, inline, E, B, groups) ==
    Frame(q, groups, inline, 0, next_entries(E, B, groups), B \ consumed(groups))

Top == stack[Len(stack)]
Goes(f) == [stack EXCEPT ![Len(stack)] = f]     \* the top call goes on as f
Calls(f, g) == Append(Goes(f), g)               \* and calls g

(* The frame whose turn it is, when no group of it is waiting.             *)
Turn(f) == f = Top /\ DOMAIN f.groups = {}

(* The entries that are still there: `entries.retain`.                     *)
Here(f) == f.entries \cap f.blocks
Single(E) == \E b \in E : E = {b}

(* A faulty fresh_state: every region takes the first state variable.      *)
first_state(E) == IF Single(E) THEN 0 ELSE 1

(* The state variable of a region entered at E: a natural loop needs none. *)
fresh_state(E) == IF Single(E) THEN 0 ELSE states + 1

(* The last shape of run q gets an arm entered at e, whose body is a run.  *)
AddArm(q, e, body) ==
    [runs EXCEPT ![q][Len(runs[q])].arms =
        [x \in DOMAIN @ \cup {e} |-> IF x = e THEN body ELSE @[x]]]

Place(q, shape) == [runs EXCEPT ![q] = Append(@, shape)]

-----------------------------------------------------------------------------
Init ==
    /\ graph \in Graphs
    /\ cut = {}
    /\ runs = << <<>> >>
    /\ stack = << Frame(1, NoGroups, FALSE, 0, {0}, Block) >>
    /\ states = 0

(* One block, and the groups of its targets when its branch may hold them. *)
make_simple ==
    \E f \in {Top} : \E b \in Here(f) :
        LET rest    == f.blocks \ {b}
            targets == succ_in(b, rest)
            groups  == IF fusable(b, targets)
                       THEN independent_groups(targets, rest)
                       ELSE NoGroups
        IN  /\ Turn(f) /\ f.head = 0
            /\ Here(f) = {b} /\ preds_in(b, f.blocks) = {}
            /\ runs' = Place(f.run, Simple(b))
            /\ stack' = Goes(Split(f.run, FALSE, targets, rest, groups))
            /\ UNCHANGED <<graph, cut, states>>

(* Several entries, some of which own blocks: one group after another.     *)
make_multiple ==
    \E f \in {Top} :
        LET groups == independent_groups(Here(f), f.blocks)
        IN  /\ Turn(f) /\ f.head = 0
            /\ Here(f) # {} /\ ~Single(Here(f))
            /\ DOMAIN groups # {}
            /\ stack' = Goes(Split(f.run, TRUE, Here(f), f.blocks, groups))
            /\ UNCHANGED <<graph, cut, runs, states>>

(* The next group, in the order of the entries: a call of its own, in the  *)
(* run of the frame or in a new one that becomes an arm.                   *)
process_group ==
    \E f \in {Top} : \E e \in DOMAIN f.groups :
        LET left == [f EXCEPT !.groups = [x \in DOMAIN f.groups \ {e} |-> f.groups[x]]]
            new  == Len(runs) + 1
        IN  /\ \A x \in DOMAIN f.groups : e <= x
            /\ runs' = IF f.inline THEN runs ELSE Append(AddArm(f.run, e, new), <<>>)
            /\ stack' = Calls(left, Frame(IF f.inline THEN f.run ELSE new,
                                          NoGroups, FALSE, 0, {e}, f.groups[e]))
            /\ UNCHANGED <<graph, cut, states>>

(* A loop over the entries and everything that can get back to one.  The   *)
(* jumps to its heads from inside are hidden from the shapes of its body.  *)
make_loop ==
    \E f \in {Top} :
        LET E     == Here(f)
            inner == loop_blocks(E, f.blocks)
            new   == Len(runs) + 1
            state == fresh_state(E)
        IN  /\ Turn(f) /\ f.head = 0 /\ E # {}
            /\ IF Single(E) THEN \E b \in E : preds_in(b, f.blocks) # {}
               ELSE DOMAIN independent_groups(E, f.blocks) = {}
            /\ cut' = cut \cup {edge \in inner \X E : edge[2] \in graph.succ[edge[1]]}
            /\ states' = IF state = 0 THEN states ELSE state
            /\ runs' = Append(Place(f.run, Loop(E, state, new)), <<>>)
            /\ stack' = Calls(Frame(f.run, NoGroups, FALSE, 0,
                                    leaving(f.blocks, inner), f.blocks \ inner),
                              Frame(new, NoGroups, FALSE, state, E, inner))
            /\ UNCHANGED graph

(* The body of an irreducible region begins with the dispatch over its     *)
(* heads, one arm for each.                                                *)
make_dispatch ==
    \E f \in {Top} :
        LET groups == independent_groups(f.entries, f.blocks)
        IN  /\ Turn(f) /\ f.head # 0
            /\ runs' = Place(f.run, Dispatch(DOMAIN groups, f.head))
            /\ stack' = Goes(Split(f.run, FALSE, f.entries, f.blocks, groups))
            /\ UNCHANGED <<graph, cut, states>>

(* No entry is left: the call returns its run.                             *)
return ==
    /\ Turn(Top) /\ Top.head = 0 /\ Here(Top) = {}
    /\ stack' = SubSeq(stack, 1, Len(stack) - 1)
    /\ UNCHANGED <<graph, cut, runs, states>>

Process ==
    /\ stack # <<>>
    /\ \/ make_simple \/ make_multiple \/ process_group
       \/ make_loop \/ make_dispatch \/ return

Recovered == stack = <<>>

Next == Process \/ (Recovered /\ UNCHANGED vars)

Spec == Init /\ [][Next]_vars /\ WF_vars(Process)

-----------------------------------------------------------------------------
(* Where a block is: in a Simple of some run, or held by a call that has   *)
(* still to place it.                                                      *)
PlacedAt(b, q, i) ==
    /\ q \in DOMAIN runs /\ i \in DOMAIN runs[q]
    /\ runs[q][i].kind = "simple" /\ b \in runs[q][i].entries
Held(f) == f.blocks \cup consumed(f.groups)

(* `plan` counts how often each block stands in the shapes, and falls back *)
(* to the state machine unless it is once ("which has not been observed,   *)
(* and is checked for rather than trusted").  The count never fails: once  *)
(* the shapes are made, every block stands in exactly one of them.         *)
EveryBlockOnce ==
    Recovered =>
        \A b \in Block :
            /\ \E q \in DOMAIN runs : \E i \in DOMAIN runs[q] : PlacedAt(b, q, i)
            /\ \A q, r \in DOMAIN runs : \A i \in DOMAIN runs[q], j \in DOMAIN runs[r] :
                   PlacedAt(b, q, i) /\ PlacedAt(b, r, j) => q = r /\ i = j

(* The head of an irreducible region always splits into one group for each *)
(* entry: the `None` arm of `make_loop`, "cannot happen", does not.        *)
HeadsIndependent ==
    \A k \in DOMAIN stack :
        stack[k].head # 0 =>
            DOMAIN independent_groups(stack[k].entries, stack[k].blocks) = stack[k].entries
=============================================================================
