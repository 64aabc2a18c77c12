------------------------------ MODULE ShapeRun ------------------------------
(***************************************************************************)
(* The code generated for a recovered function, running.  Once the plan is *)
(* made, control moves through the shapes as it moves through the Rust the *)
(* shape_* functions of codegen.rs emit for them: off the end of an arm to *)
(* what follows the `match`, off the end of a `loop` body to its head, out *)
(* of a labelled block by `break`, and through the `match` on a state      *)
(* variable.  None of it consults the graph: that every block is followed  *)
(* by the block its terminator chose is the refinement of CfgRun.          *)
(***************************************************************************)
EXTENDS ReloopPlan

VARIABLES code,     \* where each edge and each end of a run has control go
          pos,      \* where control stands; see below
          entry,    \* the value of each state variable
          at,       \* the block that runs, or ran last
          next      \* the target its terminator has chosen

runvars == <<code, pos, entry, at, next>>
allvars == <<vars, runvars>>

NoBlock == -1
NotCalled == <<>>           \* the function is not running yet
Machine == <<0, 0>>         \* in the `loop` of the state machine
Returned == <<0, 1>>        \* the function has returned
(* Any other position <<q, i>> is the beginning of shape i of run q, or    *)
(* its end when it has one shape fewer.                                    *)

NoCode == [edges |-> <<>>, ends |-> <<>>]

RInit ==
    /\ Init
    /\ code = NoCode
    /\ pos = NotCalled
    /\ entry = <<>>
    /\ at = NoBlock
    /\ next = NoBlock

-----------------------------------------------------------------------------
(* The emission.  An edge becomes the arm it enters, a fall, or a `break`  *)
(* or `continue`, each with the state variable it assigns.                 *)
Go(to, state) == [to |-> to, state |-> state]

(* A faulty enter_shape: a fall does not assign the state variable.        *)
enter_shape_unset(p, t) ==
    IF t \in DOMAIN At(p).arms THEN Go(<<At(p).arms[t], 1>>, 0)
    ELSE IF FallsTo(p, t) THEN Go(After(p), 0)
    ELSE Go(Left(p, t).to, Left(p, t).exit.state)

enter_shape(p, t) ==
    IF t \in DOMAIN At(p).arms THEN Go(<<At(p).arms[t], 1>>, 0)
    ELSE IF FallsTo(p, t) THEN Go(After(p), Fall(p).state)
    ELSE Go(Left(p, t).to, Left(p, t).exit.state)

SimpleAt(b) == CHOOSE p \in Places : IsSimple(p) /\ BlockOf(p) = b

(* A faulty OffEnd: the body of a loop falls out of the loop.              *)
OffEnd_once(q) == After(Holder(q))

(* Where control gets to by running off the end of a run: round the loop,  *)
(* or past the statement the arm belongs to.                               *)
OffEnd(q) == IF IsLoop(Holder(q)) THEN <<q, 1>> ELSE After(Holder(q))

shape_seq ==
    [edges |-> [b \in Block |->
                   [t \in graph.succ[b] |-> enter_shape(SimpleAt(b), t)]],
     ends  |-> [q \in 2 .. Len(runs) |-> OffEnd(q)]]

(* The first entries of the loops of a run whose state variable it binds:  *)
(* they are declared, as index zero, each time the run begins.             *)
Declared(q) == {i \in DOMAIN runs[q] : runs[q][i].kind = "loop" /\ runs[q][i].state # 0}
Bound(p, values) ==
    IF p[2] # 1 THEN values
    ELSE [k \in DOMAIN values |->
             IF \E i \in Declared(p[1]) : runs[p[1]][i].state = k
             THEN Least(UNION {runs[p[1]][i].entries :
                                  i \in {j \in Declared(p[1]) : runs[p[1]][j].state = k}})
             ELSE values[k]]

Enter(p, values) == pos' = p /\ entry' = Bound(p, values)

-----------------------------------------------------------------------------
(* The code is emitted and called: its shapes, or its state machine.       *)
Call ==
    /\ Recovered /\ pos = NotCalled
    /\ code' = IF planned THEN shape_seq ELSE NoCode
    /\ IF code' # NoCode THEN Enter(<<1, 1>>, [k \in 1 .. states |-> NoBlock])
       ELSE pos' = Machine /\ entry' = entry
    /\ next' = 0
    /\ UNCHANGED <<vars, at>>

InShapes == pos \in Places
Moving == next # NoBlock

(* Control arrives at a block: its statements run.                         *)
RunBlock ==
    /\ InShapes /\ Moving
    /\ IsSimple(pos)
    /\ at' = BlockOf(pos)
    /\ next' = NoBlock
    /\ UNCHANGED <<vars, code, pos, entry>>

(* Its terminator chooses a target and control leaves for it.              *)
Branch ==
    /\ InShapes /\ ~Moving
    /\ \E t \in graph.succ[BlockOf(pos)] :
          LET go == code.edges[BlockOf(pos)][t]
          IN  /\ next' = t
              /\ Enter(go.to, IF go.state = 0 THEN entry
                              ELSE [entry EXCEPT ![go.state] = t])
    /\ UNCHANGED <<vars, code, at>>

(* Its terminator is a `return`.                                           *)
Return ==
    /\ ~Moving
    /\ \/ InShapes /\ graph.succ[BlockOf(pos)] = {}
       \/ pos = Machine /\ graph.succ[at] = {}
    /\ pos' = Returned
    /\ UNCHANGED <<vars, code, entry, at, next>>

(* `'l: loop {`: the body begins.                                          *)
EnterLoop ==
    /\ InShapes /\ Moving /\ IsLoop(pos)
    /\ Enter(<<At(pos).body, 1>>, entry)
    /\ UNCHANGED <<vars, code, at, next>>

(* The `match` on the state variable; its last arm is `_`.                 *)
EnterArm ==
    /\ InShapes /\ Moving /\ At(pos).kind = "dispatch"
    /\ LET arms  == At(pos).arms
           value == entry[At(pos).state]
           arm   == IF value \in DOMAIN arms THEN value ELSE Max(DOMAIN arms)
       IN  Enter(<<arms[arm], 1>>, entry)
    /\ UNCHANGED <<vars, code, at, next>>

(* Control runs off the end of a run other than the function's own.        *)
FallOff ==
    /\ Moving /\ pos[1] \in 2 .. Len(runs) /\ pos[2] = Len(runs[pos[1]]) + 1
    /\ Enter(code.ends[pos[1]], entry)
    /\ UNCHANGED <<vars, code, at, next>>

(* The state machine of a plan given up: `match state` in a `loop`.        *)
MachineRun ==
    /\ pos = Machine
    /\ \/ Moving /\ at' = next /\ next' = NoBlock
       \/ ~Moving /\ at' = at /\ next' \in graph.succ[at]
    /\ UNCHANGED <<vars, code, pos, entry>>

Run ==
    /\ pos # NotCalled
    /\ \/ RunBlock \/ Branch \/ Return \/ EnterLoop \/ EnterArm \/ FallOff \/ MachineRun

RNext ==
    \/ Process /\ UNCHANGED runvars
    \/ Call
    \/ Run
    \/ pos = Returned /\ UNCHANGED allvars

(* A program that runs goes on running.                                    *)
RSpec ==
    /\ RInit /\ [][RNext]_allvars
    /\ WF_allvars(Run)

-----------------------------------------------------------------------------
(* The generated code executes the graph: the block that runs after a      *)
(* block is the one its terminator chose, through every fall, `break`,     *)
(* `continue` and dispatch, and control that has left for a block reaches  *)
(* it: no `loop` of the shapes goes round without running one.             *)
Cfg == INSTANCE CfgRun WITH succ <- graph.succ
ExecutesGraph == Cfg!CfgSpec
=============================================================================
