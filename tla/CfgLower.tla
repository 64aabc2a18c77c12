------------------------------ MODULE CfgLower ------------------------------
(***************************************************************************)
(* The lowering of a function body to basic blocks: `lower` and the        *)
(* `Lowerer` of cfg.rs.  Each operator takes the lowerer's state and       *)
(* returns it changed; blocks are numbered from 1 in the order they are    *)
(* made.  The clean-up passes that follow are in CfgClean.                 *)
(***************************************************************************)
EXTENDS CStmt, TLC

Jump(b) == [op |-> "jump", cond |-> Always, cases |-> <<>>, to |-> <<b>>]
BranchOn(e, t, f) == [op |-> "branch", cond |-> e, cases |-> <<>>, to |-> <<t, f>>]
SwitchOn(e, cases, to) == [op |-> "switch", cond |-> e, cases |-> cases, to |-> to]
Ends(op) == [op |-> op, cond |-> Always, cases |-> <<>>, to |-> <<>>]

(* The statements of a block: a call, the use of what a `setjmp` returned, *)
(* the save of a site, and the stores to the hidden locals.                *)
Simple(op, id, site) == [op |-> op, id |-> id, site |-> site]
GotoValue == Cond("goto_value", 0, <<>>)
Resume == Cond("resume", 0, <<>>)

NewLowerer(depths) ==
    [blocks |-> <<>>, current |-> 0, labels |-> <<>>, loops |-> <<>>, switches |-> <<>>,
     cleanups |-> <<>>, label_cleanups |-> depths, dispatch |-> 0, sites |-> <<>>]

-----------------------------------------------------------------------------
(* Building blocks.                                                        *)
new_blocks(L, n) ==
    [L EXCEPT !.blocks = @ \o [k \in 1 .. n |-> [stmts |-> <<>>, term |-> Ends("unreachable")]]]
new_block(L) == new_blocks(L, 1)
Made(L) == Len(L.blocks)

continue_at(L, b) == [L EXCEPT !.current = b]
current(L) == IF L.current # 0 THEN L ELSE continue_at(new_block(L), Made(L) + 1)

Pushed(L, s) == [L EXCEPT !.blocks[L.current].stmts = Append(@, s)]
push(L, s) == Pushed(current(L), s)

Terminated(L, t) == [L EXCEPT !.blocks[L.current].term = t, !.current = 0]
terminate(L, t) == Terminated(current(L), t)

jump(L, b) == terminate(L, Jump(b))

(* The block of a label, made the first time it is mentioned.              *)
label_block(L, id) ==
    IF id \in DOMAIN L.labels THEN L
    ELSE [new_block(L) EXCEPT !.labels = @ @@ (id :> Made(L) + 1)]

-----------------------------------------------------------------------------
(* Cleanups.                                                               *)
IsCleanup(s) == s.op = "cleanup"
Cleanups(items, n) == Len(SelectSeq(SubSeq(items, 1, n), IsCleanup))

RECURSIVE Depths(_, _)

Depths(s, depth) ==
    CASE s.op = "block" ->
             UNION {Depths(s.kids[i], depth + Cleanups(s.kids, i - 1)) : i \in DOMAIN s.kids}
      [] s.op = "for" ->
             Depths(Last(s.kids), depth + Cleanups(s.kids, Len(s.kids)))
      [] s.op = "label" -> {<<s.id, depth>>} \cup Depths(s.kids[1], depth)
      [] OTHER -> UNION {Depths(s.kids[i], depth) : i \in DOMAIN s.kids}

(* How many cleanup calls are owed where each label stands.                *)
collect_label_cleanups(s) ==
    LET found == Depths(s, 0)
    IN  [id \in {f[1] : f \in found} |-> (CHOOSE f \in found : f[1] = id)[2]]

(* The calls owed between here and `depth`, innermost first.               *)
leave_cleanups(L, depth) ==
    IF Len(L.cleanups) <= depth \/ L.current = 0 THEN L
    ELSE [L EXCEPT !.blocks[L.current].stmts =
             @ \o Reverse(SubSeq(L.cleanups, depth + 1, Len(L.cleanups)))]

LabelDepth(L, id) == IF id \in DOMAIN L.label_cleanups THEN L.label_cleanups[id] ELSE 0
Least2(a, b) == IF a < b THEN a ELSE b

-----------------------------------------------------------------------------
(* setjmp.                                                                 *)
(* A new site, which goes on in a block of its own.                        *)
resume_site(L, cont) ==
    [continue_at(jump(new_block(L), cont), cont) EXCEPT !.sites = Append(@, cont)]

(* A faulty lift_setjmp: a call that returns leaves `value` as it was.     *)
lift_setjmp_unset(L, e) ==
    IF e.op # "setjmp" THEN L
    ELSE LET saved_at == push(L, Simple("save", e.id, Len(L.sites) + 1))
         IN  resume_site(saved_at, Made(saved_at) + 1)

(* Lifts the `setjmp` out of an expression: the save, `value = 0`, and a   *)
(* jump to the site's continuation.                                        *)
lift_setjmp(L, e) ==
    IF e.op # "setjmp" THEN L
    ELSE LET zero == push(push(L, Simple("save", e.id, Len(L.sites) + 1)), Simple("zero", 0, 0))
         IN  resume_site(zero, Made(zero) + 1)

(* The same for the condition of a branch, through the `&&` and `||` that  *)
(* hold one (an `and` or `or` here always does): each becomes the branch   *)
(* it stands for.  Left is the last operand.                               *)
RECURSIVE LastOperand(_)
LastOperand(e) == IF e.op \in {"and", "or"} THEN LastOperand(e.sub[2]) ELSE e

RECURSIVE lift_condition(_, _, _, _)
lift_condition(L, e, then_blk, else_blk) ==
    IF e.op \notin {"and", "or"} THEN lift_setjmp(L, e)
    ELSE LET right    == Made(L) + 1
             on_true  == IF e.op = "or" THEN then_blk ELSE right
             on_false == IF e.op = "or" THEN right ELSE else_blk
             lhs  == lift_condition(new_block(L), e.sub[1], on_true, on_false)
             left == terminate(lhs, BranchOn(LastOperand(e.sub[1]), on_true, on_false))
         IN  lift_condition(continue_at(left, right), e.sub[2], then_blk, else_blk)

(* The entry of a function that calls `setjmp`.                            *)
resume_dispatch(L, dispatch, body) ==
    [L EXCEPT !.blocks[dispatch].term =
        SwitchOn(Resume, [k \in DOMAIN L.sites |-> k], Append(L.sites, body))]

-----------------------------------------------------------------------------
(* Computed `goto`.                                                        *)
dispatch(L) ==
    IF L.dispatch # 0 THEN L
    ELSE LET block   == Made(L) + 1
             invalid == Made(L) + 2
             targets == [k \in DOMAIN Taken |-> L.labels[Taken[k]]]
         IN  [new_blocks(L, 2) EXCEPT
                 !.blocks[block].term = SwitchOn(GotoValue, [k \in DOMAIN Taken |-> k],
                                                 Append(targets, invalid)),
                 !.blocks[invalid].term = Ends("invalid"),
                 !.dispatch = block]

(* The scopes no target is inside are left: the shallowest of their depths.*)
goto_ptr(L, s) ==
    IF Taken = <<>> THEN terminate(L, Ends("unreachable"))
    ELSE LET depths == {LabelDepth(L, l) : l \in Range(Taken)}
             depth  == CHOOSE d \in depths : \A other \in depths : d <= other
             left   == leave_cleanups(L, Least2(depth, Len(L.cleanups)))
             stored == push(left, Simple(IF s.to = 1 THEN "store_read" ELSE "store", 0, 0))
             M      == dispatch(stored)
         IN  jump(M, M.dispatch)

-----------------------------------------------------------------------------
(* Statements.                                                             *)
RECURSIVE stmt(_, _), stmts(_, _)

(* One statement is lowered before the next is looked at: the value is     *)
(* named by a bound variable, which TLC works out there and then.          *)
stmts(L, items) ==
    IF items = <<>> THEN L
    ELSE CHOOSE out \in {stmts(M, Tail(items)) : M \in {stmt(L, Head(items))}} : TRUE

(* A scope: its statements, then the cleanups it owes on the way out.      *)
scope(L, items) ==
    LET depth == Len(L.cleanups)
        M     == leave_cleanups(stmts(L, items), depth)
    IN  [M EXCEPT !.cleanups = SubSeq(@, 1, depth)]

expr(L, s) ==
    LET M == lift_setjmp(L, s.cond)
    IN  IF s.cond.op = "setjmp" /\ s.id = 0 THEN M
        ELSE push(M, Simple(IF s.cond.op = "setjmp" THEN "use" ELSE "call", s.id, 0))

if_stmt(L, s) ==
    LET then_blk == Made(L) + 1
        else_blk == Made(L) + 2
        has_else == Len(s.kids) = 2
        join   == IF has_else THEN Made(L) + 3 ELSE else_blk
        tested == terminate(lift_condition(new_blocks(L, IF has_else THEN 3 ELSE 2),
                                           s.cond, then_blk, else_blk),
                            BranchOn(LastOperand(s.cond), then_blk, else_blk))
        then   == jump(stmt(continue_at(tested, then_blk), s.kids[1]), join)
        other  == IF has_else THEN jump(stmt(continue_at(then, else_blk), s.kids[2]), join)
                  ELSE then
    IN  continue_at(other, join)

(* Ends the current block on a loop's controlling expression.              *)
test(L, e, then_blk, else_blk) ==
    LET M == lift_condition(L, e, then_blk, else_blk)
    IN  IF LastOperand(e) = Always THEN jump(M, then_blk)
        ELSE terminate(M, BranchOn(LastOperand(e), then_blk, else_blk))

Registers(L, id, brk, cont, depth) ==
    [L EXCEPT !.loops = @ @@ (id :> [brk |-> brk, cont |-> cont, cleanups |-> depth])]

while_stmt(L, s) ==
    LET head == Made(L) + 1
        body == Made(L) + 2
        exit == Made(L) + 3
        top  == continue_at(jump(new_blocks(L, 3), head), head)
        in   == Registers(test(top, s.cond, body, exit), s.id, exit, head, Len(L.cleanups))
    IN  continue_at(jump(stmt(continue_at(in, body), s.kids[1]), head), exit)

do_while(L, s) ==
    LET body   == Made(L) + 1
        tested == Made(L) + 2
        exit   == Made(L) + 3
        in  == Registers(jump(new_blocks(L, 3), body), s.id, exit, tested, Len(L.cleanups))
        out == jump(stmt(continue_at(in, body), s.kids[1]), tested)
    IN  continue_at(test(continue_at(out, tested), s.cond, body, exit), exit)

(* The init clause's cleanups are owed by everything that leaves the loop: *)
(* the exit block makes the calls, whichever way it was left.              *)
for_loop(L, s, outer) ==
    LET head  == Made(L) + 1
        body  == Made(L) + 2
        step  == Made(L) + 3
        exit  == Made(L) + 4
        top   == continue_at(jump(new_blocks(L, 4), head), head)
        in    == Registers(test(top, s.cond, body, exit), s.id, exit, step, Len(L.cleanups))
        out   == continue_at(jump(stmt(continue_at(in, body), Last(s.kids)), step), step)
        next  == jump(IF s.to = 0 THEN out ELSE push(out, Simple("call", s.to, 0)), head)
    IN  [leave_cleanups(continue_at(next, exit), outer) EXCEPT !.cleanups = SubSeq(@, 1, outer)]
for_stmt(L, s) == for_loop(stmts(L, Front(s.kids)), s, Len(L.cleanups))

(* A `switch` of the value just computed; then its dispatch, from the      *)
(* block that computed it.                                                 *)
arms(L, s, exit) ==
    LET frame == [brk |-> exit, cleanups |-> Len(L.cleanups),
                  cases |-> <<>>, to |-> <<>>, default |-> exit]
        in == [new_block(L) EXCEPT !.switches = (s.id :> frame) @@ @, !.current = 0]
    IN  jump(stmt(in, s.kids[1]), exit)
dispatches(L, from, e, f) ==
    [L EXCEPT !.blocks[from].term = SwitchOn(e, f.cases, Append(f.to, f.default))]
switch(L, s) ==
    LET M    == current(lift_setjmp(L, s.cond))
        exit == Made(M) + 1
        out  == arms(M, s, exit)
    IN  continue_at(dispatches(out, M.current, s.cond, out.switches[s.id]), exit)

case(L, s) ==
    LET block == Made(L) + 1
        M     == continue_at(jump(new_block(L), block), block)
        in    == IF s.to = Default THEN [M EXCEPT !.switches[s.id].default = block]
                 ELSE [M EXCEPT !.switches[s.id].cases = Append(@, s.to),
                                !.switches[s.id].to = Append(@, block)]
    IN  stmt(in, s.kids[1])

label(L, s) ==
    LET M == label_block(L, s.id)
    IN  stmt(continue_at(jump(M, M.labels[s.id]), M.labels[s.id]), s.kids[1])

goto(L, s) ==
    LET M == label_block(L, s.to)
    IN  jump(leave_cleanups(M, Least2(LabelDepth(M, s.to), Len(M.cleanups))), M.labels[s.to])

break(L, s) ==
    LET out == IF s.to \in DOMAIN L.loops THEN L.loops[s.to] ELSE L.switches[s.to]
    IN  jump(leave_cleanups(L, out.cleanups), out.brk)

continue(L, s) ==
    jump(leave_cleanups(L, L.loops[s.to].cleanups), L.loops[s.to].cont)

stmt(L, s) ==
    CASE s.op = "nop"      -> L
      [] s.op = "expr"     -> expr(L, s)
      [] s.op = "cleanup"  -> [L EXCEPT !.cleanups = Append(@, Simple("call", s.id, 0))]
      [] s.op = "block"    -> scope(L, s.kids)
      [] s.op = "if"       -> if_stmt(L, s)
      [] s.op = "while"    -> while_stmt(L, s)
      [] s.op = "do"       -> do_while(L, s)
      [] s.op = "for"      -> for_stmt(L, s)
      [] s.op = "switch"   -> switch(L, s)
      [] s.op = "case"     -> case(L, s)
      [] s.op = "label"    -> label(L, s)
      [] s.op = "goto"     -> goto(L, s)
      [] s.op = "goto_ptr" -> goto_ptr(L, s)
      [] s.op = "break"    -> break(L, s)
      [] s.op = "continue" -> continue(L, s)
      [] s.op = "return"   -> terminate(leave_cleanups(L, 0), Ends("return"))

(* The whole body.  `calls_setjmp` says whether a `longjmp` can come back. *)
lower(body, calls_setjmp) ==
    LET fresh  == NewLowerer(collect_label_cleanups(body))
        taken  == FoldLeft(label_block, fresh, Taken)
        resume == IF calls_setjmp THEN new_block(taken) ELSE taken
        entry  == Made(resume) + 1
        out    == stmts(continue_at(new_block(resume), entry), body.kids)
        closed == IF out.current = 0 THEN out
                  ELSE [out EXCEPT !.blocks[out.current].term = Ends("unreachable")]
    IN  IF calls_setjmp
        THEN [graph |-> resume_dispatch(closed, Made(resume), entry), entry |-> Made(resume)]
        ELSE [graph |-> closed, entry |-> entry]
=============================================================================
