----------------------------- MODULE ReloopPlan -----------------------------
(***************************************************************************)
(* What the relooper checks about the shapes it built, and what the code   *)
(* generator then emits for them: the labelled block that ends where a     *)
(* shape begins, the jumps that break it, the `continue`s of a loop.       *)
(* Sources: the second half of reloop.rs (`plan`, `resolves`, `nesting`)   *)
(* and the shape_* functions of codegen.rs.                                *)
(***************************************************************************)
EXTENDS Reloop, SequencesExt

CONSTANT MaxNesting     \* how deeply the output may nest blocks and loops

ASSUME MaxNestingAssumption == MaxNesting \in Nat

(* The places of the plan: the i-th shape of run q.                        *)
Places == UNION {{q} \X DOMAIN runs[q] : q \in DOMAIN runs}
At(p) == runs[p[1]][p[2]]
After(p) == <<p[1], p[2] + 1>>

IsLoop(p) == At(p).kind = "loop"
IsSimple(p) == At(p).kind = "simple"
BlockOf(p) == CHOOSE b \in At(p).entries : TRUE

(* The shape a run stands in.                                              *)
Bodies(shape) == ({shape.body} \ {0}) \cup {shape.arms[e] : e \in DOMAIN shape.arms}
Holds(p, q) == q \in Bodies(At(p))
Holder(q) == CHOOSE p \in Places : Holds(p, q)

-----------------------------------------------------------------------------
(* Where control arrives when it runs off the end of a shape, or leaves a  *)
(* construct: the entries, and the state variable that says which.         *)
Exit(targets, state) == [targets |-> targets, state |-> state]
Nowhere == Exit({}, 0)

exit(shape) == Exit(shape.entries, shape.state)

(* The exit a shape is given, from the one its run is given.               *)
FallFrom(p, fall) ==
    IF After(p) \in Places THEN exit(At(After(p))) ELSE fall

(* The exit given to each run: a loop's body falls to its head.            *)
RunFall ==
    LET fall[q \in DOMAIN runs] ==
            IF q = 1 THEN Nowhere
            ELSE LET h == Holder(q)
                 IN  IF IsLoop(h) THEN exit(At(h)) ELSE FallFrom(h, fall[h[1]])
    IN  fall

Fall(p) == FallFrom(p, RunFall[p[1]])

(* What a jump can leave, innermost last.  `to` is where control goes.     *)
Scope(how, ex, to) == [how |-> how, exit |-> ex, to |-> to]
Later(p) ==
    LET count == Len(runs[p[1]]) - p[2]
    IN  [k \in 1 .. count |->
            LET s == <<p[1], Len(runs[p[1]]) + 1 - k>>
            IN  Scope("block", exit(At(s)), s)]

(* The scopes around each run; a loop adds its follow and its head.        *)
RunScopes ==
    LET around[q \in DOMAIN runs] ==
            IF q = 1 THEN <<>>
            ELSE LET h == Holder(q)
                 IN  around[h[1]] \o Later(h) \o
                     IF IsLoop(h)
                     THEN << Scope("break", Fall(h), After(h)),
                             Scope("continue", exit(At(h)), <<q, 1>>) >>
                     ELSE <<>>
    IN  around

Scopes(p) == RunScopes[p[1]] \o Later(p)

-----------------------------------------------------------------------------
(* The edges of the graph that are not into an arm of their own block.     *)
Jumps == {j \in Places \X Block :
             /\ IsSimple(j[1])
             /\ j[2] \in graph.succ[BlockOf(j[1])] \ DOMAIN At(j[1]).arms}

(* Falling is free; anything else leaves the innermost construct that      *)
(* arrives at the target.                                                  *)
FallsTo(p, t) == t \in Fall(p).targets
Arriving(p, t) == {k \in DOMAIN Scopes(p) : t \in Scopes(p)[k].exit.targets}
Left(p, t) == Scopes(p)[Max(Arriving(p, t))]

resolves == \A j \in Jumps : FallsTo(j[1], j[2]) \/ Arriving(j[1], j[2]) # {}

(* The block that keys the labelled block ending where a shape begins.     *)
Least(S) == CHOOSE x \in S : \A y \in S : x <= y
label_key(p) == Least(exit(At(p)).targets)

(* The labelled blocks something breaks to: by the key of the block, as    *)
(* `resolves` marks them, and by place, as the code generator opens them.  *)
Broken == {Left(j[1], j[2]) : j \in {k \in Jumps : ~FallsTo(k[1], k[2])}}

(* A faulty `labelled`: a loop's head is marked like a block to break.     *)
labelled_heads == {label_key(s.to) : s \in {x \in Broken : x.how \in {"block", "continue"}}}

labelled == {label_key(s.to) : s \in {x \in Broken : x.how = "block"}}
used_labels == {s.to : s \in {x \in Broken : x.how = "block"}}

(* How deep the output nests: a shape stands inside one labelled block for *)
(* each later shape of its run that is broken to, and its bodies one       *)
(* deeper.                                                                 *)
nesting ==
    LET deep[q \in DOMAIN runs] ==
            LET around(i) == Cardinality({j \in i + 1 .. Len(runs[q]) :
                                              label_key(<<q, j>>) \in labelled})
                inner(i) == {deep[b] + 1 : b \in Bodies(runs[q][i])}
            IN  Max({0} \cup {around(i) + Max({0} \cup inner(i)) :
                                  i \in DOMAIN runs[q]})
    IN  deep[1]

(* The runs the walk of the tree gets to from its root.  A shape owns the  *)
(* runs inside it, so the walk meets none of them twice.                   *)
Inner(q) == UNION {Bodies(runs[q][i]) : i \in DOMAIN runs[q]}
Walked ==
    LET walk[q \in DOMAIN runs] == {q} \cup UNION {walk[b] : b \in Inner(q)}
    IN  walk[1]

(* How many Simple shapes the walk meets that hold the block.              *)
count_blocks(b) ==
    Cardinality({p \in Places : /\ p[1] \in Walked
                                /\ IsSimple(p) /\ b \in At(p).entries})

(* Whether the shapes are used, or the state machine has to be.            *)
planned ==
    /\ \A b \in Block : count_blocks(b) = 1
    /\ resolves
    /\ nesting <= MaxNesting

-----------------------------------------------------------------------------
(* `plan` checks its shapes rather than trusting them ("a `false` would be *)
(* a bug in this module"): every jump still has a construct to leave, and  *)
(* the walk of the tree counts every block once.  Neither check ever fails.*)
ChecksNeverFail ==
    Recovered => resolves /\ \A b \in Block : count_blocks(b) = 1

(* `nesting` knows a labelled block by the first block it ends at, the     *)
(* code generator by an id of its own.  They agree on which are opened, so *)
(* what is emitted nests exactly as deep as what MAX_NESTING bounded.      *)
LabelsAgree ==
    Recovered =>
        LET marked == labelled
            opened == used_labels
        IN  \A p \in Places : p[2] > 1 => (label_key(p) \in marked <=> p \in opened)

(* The state variables are declared at the head of the run whose loops     *)
(* they belong to, in Rust scopes where a nearer declaration of the same   *)
(* number would hide one further out.  A jump that assigns one stands      *)
(* inside that run with no such declaration in between, and none stands    *)
(* between the declaration and the `match` that reads it: what the jump    *)
(* writes is what the dispatch it goes to reads.                           *)
RunsAround ==
    LET above[q \in DOMAIN runs] ==
            {q} \cup IF q = 1 THEN {} ELSE above[Holder(q)[1]]
    IN  above
Declares(q) == {runs[q][i].state : i \in {j \in DOMAIN runs[q] : IsLoop(<<q, j>>)}}
ArrivesAt(p, t) == IF FallsTo(p, t) THEN Fall(p) ELSE Left(p, t).exit
Writes ==               \* the runs that assign a state variable, and for where
    {w \in {<<j[1][1], ArrivesAt(j[1], j[2])>> : j \in Jumps} : w[2].state # 0}
EntryInScope ==
    Recovered /\ states # 0 =>
        \A w \in Writes :
            \E h \in Places :
                /\ IsLoop(h) /\ exit(At(h)) = w[2]
                /\ h[1] \in RunsAround[w[1]]
                /\ \A q \in RunsAround[w[1]] \ RunsAround[h[1]] : w[2].state \notin Declares(q)
                /\ w[2].state \notin Declares(At(h).body)
=============================================================================
