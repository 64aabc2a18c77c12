------------------------------ MODULE LowerRun ------------------------------
(***************************************************************************)
(* A function and the graph it is lowered to, running side by side: the    *)
(* graph takes part in every event of the C program.                       *)
(***************************************************************************)
EXTENDS CfgLower

VARIABLES graph,    \* what the lowerer made
          entry,    \* the block it is entered at
          g,        \* where the graph has got to, and its hidden locals
          sites     \* for each buffer set, the site its `setjmp` is

cvars == <<fn, c, saved>>
vars == <<cvars, graph, entry, g, sites>>

Begin(block, value, goto_value, resume) ==
    [block |-> block, index |-> 1, value |-> value,
     goto_value |-> goto_value, resume |-> resume]

Returned == 0
Ended(x) == x.block = Returned
Ending(x) == x.index > Len(graph.blocks[x.block].stmts)
StmtAt(x) == graph.blocks[x.block].stmts[x.index]
TermAt(x) == graph.blocks[x.block].term

Past(x) == [x EXCEPT !.index = @ + 1]
Enter(x, block) == [x EXCEPT !.block = block, !.index = 1]

(* The arm of a `match` on a value: the first that has it, or the last.    *)
Arm(t, v) ==
    LET hits == {k \in DOMAIN t.cases : t.cases[k] = v}
    IN  IF hits = {} THEN Last(t.to) ELSE t.to[CHOOSE k \in hits : \A j \in hits : k <= j]

(* What the code emitted for a statement, and for a terminator, does that  *)
(* can be observed.                                                        *)
StmtMoves(x) ==
    LET s == StmtAt(x)
    IN  CASE s.op = "call" -> {Move(Event("call", s.id, 0), Past(x))}
          [] s.op = "use"  -> {Move(Event("call", s.id, x.value), Past(x))}
          [] s.op = "save" -> {Move(Event("setjmp", s.id, 0), Past(x))}
          [] s.op = "store" ->
                 {Move(Event("goto", 0, Taken[k]), [Past(x) EXCEPT !.goto_value = k]) :
                     k \in DOMAIN Taken}
          [] s.op = "store_read" ->
                 {Move(Event("read", 0, e), [Past(x) EXCEPT !.goto_value = e + 1]) :
                     e \in 0 .. Len(Table) - 1}
          [] OTHER -> {}

TermMoves(x) ==
    LET t == TermAt(x)
    IN  CASE t.op = "branch" /\ t.cond.op = "plain" ->
                 {Move(Event("test", t.cond.id, b), Enter(x, IF b = 1 THEN t.to[1] ELSE t.to[2])) :
                     b \in 0 .. 1}
          [] t.op = "switch" /\ t.cond.op = "plain" ->
                 {Move(Event("switch", t.cond.id, v), Enter(x, Arm(t, v))) : v \in Values}
          [] t.op = "return" -> {Move(Event("return", 0, 0), Enter(x, Returned))}
          [] OTHER -> {}

GMoves(x) ==
    IF Ended(x) THEN {} ELSE IF Ending(x) THEN TermMoves(x) ELSE StmtMoves(x)

(* What it does besides: the stores to `value`, the branches on it, and    *)
(* the dispatches on the hidden locals.                                    *)
Hidden(t, x) ==
    CASE t.cond.op = "setjmp"     -> x.value
      [] t.cond.op = "goto_value" -> x.goto_value
      [] t.cond.op = "resume"     -> x.resume
      [] t.cond.op = "always"     -> 1

Stuck(x) == ~Ended(x) /\ Ending(x) /\ TermAt(x).op \in {"unreachable", "invalid"}

GSilent(x) ==
    IF ~Ending(x) THEN [Past(x) EXCEPT !.value = 0]
    ELSE LET t == TermAt(x)
         IN  CASE t.op = "jump"   -> Enter(x, t.to[1])
               [] t.op = "branch" -> Enter(x, IF Hidden(t, x) # 0 THEN t.to[1] ELSE t.to[2])
               [] t.op = "switch" -> Enter(x, Arm(t, Hidden(t, x)))

RECURSIVE GSettled(_, _)
GSettled(x, passed) ==
    IF GMoves(x) # {} \/ Ended(x) \/ x \in passed THEN x
    ELSE IF Stuck(x) THEN x
    ELSE GSettled(GSilent(x), passed \cup {x})
GSettle(x) == GSettled(x, {})

GStep(e) ==
    \E m \in GMoves(g) :
        /\ m.event = e
        /\ g' = GSettle(m.to)
        /\ sites' = IF e[1] = "setjmp" THEN (e[2] :> StmtAt(g).site) @@ sites ELSE sites

(* The unwind of a `longjmp` to this activation sets `resume` and `value`  *)
(* and runs the graph again.                                               *)
GLongJmp(b) ==
    /\ g' = GSettle(Begin(entry, 1, g.goto_value, sites[b]))
    /\ UNCHANGED sites

-----------------------------------------------------------------------------
HoldsSetJmp(e) == e.op = "setjmp" \/ \E k \in DOMAIN e.sub : e.sub[k].op = "setjmp"
CallsSetJmp == \E p \in Paths(fn) : HoldsSetJmp(At(p).cond)

(* The lowering and the first steps, of a function already given.          *)
LInit ==
    /\ CInit
    /\ LET made == lower(fn, CallsSetJmp)
       IN  graph = made.graph /\ entry = made.entry
    /\ g = GSettle(Begin(entry, 0, 0, 0))
    /\ sites = <<>>

Happens ==
    \E m \in Moves(c) : CStep(m.event) /\ GStep(m.event) /\ UNCHANGED <<fn, graph, entry>>

LongJmp ==
    \E b \in DOMAIN saved : CLongJmp(b) /\ GLongJmp(b) /\ UNCHANGED <<fn, graph, entry>>

LNext == Happens \/ LongJmp \/ (c.how = "over" /\ UNCHANGED vars)

-----------------------------------------------------------------------------
Events(moves) == {m.event : m \in moves}

(* The graph does what the C program does: after the same events the same  *)
(* ones are possible, so that no jump lands elsewhere, no call or cleanup  *)
(* is made too often, too seldom or in another order, and neither of the   *)
(* two goes round for ever where the other does not.                       *)
SameEvents == Events(Moves(c)) = Events(GMoves(g))

(* Cleanups alone: all that C makes on leaving a scope ...                 *)
CleansWhatItLeaves ==
    \A e \in Events(Moves(c)) : c.owe # <<>> => e \in Events(GMoves(g))

(* ... and no others.                                                      *)
CleansOnlyWhatItLeaves ==
    \A e \in Events(GMoves(g)) : e[1] = "call" => e \in Events(Moves(c))
=============================================================================
