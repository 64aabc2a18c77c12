------------------------------- MODULE CStmt -------------------------------
(***************************************************************************)
(* What the body of a C function does: the typed statements of ir.rs,      *)
(* executed as C executes them.  Control stands at a statement of the tree;*)
(* what it does there that can be observed (a call, the test of a          *)
(* condition, the value of a `switch`, a `setjmp`) is an event.  The graph *)
(* that cfg.rs lowers the tree to is compared with this.                   *)
(***************************************************************************)
EXTENDS Integers, SequencesExt

CONSTANTS Taken,    \* the labels whose address is taken, in the order of their numbers
          Table,    \* the dispatch table that is folded: the first labels of Taken
          Values    \* what a `switch` may be given

ASSUME TableAssumption == IsPrefix(Table, Taken)

VARIABLES fn,       \* the body of the function
          c,        \* where C has got to
          saved     \* for each buffer set, where its `setjmp` stands

(* A statement: its kind, what it is known by, what it names, its          *)
(* condition, and the statements in it (a `for` has its init clause first).*)
Stmt(op, id, to, cond, kids) ==
    [op |-> op, id |-> id, to |-> to, cond |-> cond, kids |-> kids]
Cond(op, id, sub) == [op |-> op, id |-> id, sub |-> sub]
Always == Cond("always", 0, <<>>)       \* a constant that is true, or none
Default == -1                           \* the value of `default:`

-----------------------------------------------------------------------------
(* Places in the tree.                                                     *)
RECURSIVE Within(_, _)
Within(s, p) == IF p = <<>> THEN s ELSE Within(s.kids[Head(p)], Tail(p))
At(p) == Within(fn, p)
Parent(p) == Front(p)
Kid(p, i) == Append(p, i)
BodyOf(p) == Kid(p, Len(At(p).kids))
RECURSIVE Operand(_, _)
Operand(e, sub) == IF sub = <<>> THEN e ELSE Operand(e.sub[Head(sub)], Tail(sub))
CondAt(p, sub) == Operand(At(p).cond, sub)

RECURSIVE Paths(_)
Paths(s) ==
    {<<>>} \cup UNION {{<<i>> \o p : p \in Paths(s.kids[i])} : i \in DOMAIN s.kids}
All(op, id) == {p \in Paths(fn) : At(p).op = op /\ At(p).id = id}
The(op, id) == CHOOSE p \in All(op, id) : TRUE

Loops == {"while", "do", "for"}

(* What a `break` leaves, and what a `continue` restarts.                  *)
Left(s) == CHOOSE p \in Paths(fn) :
              At(p).op \in Loops \cup {"switch"} /\ At(p).id = s.to

-----------------------------------------------------------------------------
(* The cleanup calls owed at a place, outermost first: those registered    *)
(* before it in the scopes it stands in.                                   *)
Registered(q, n) ==
    IF At(q).op \notin {"block", "for"} THEN <<>>
    ELSE SelectSeq([i \in 1 .. n |-> Kid(q, i)], LAMBDA r : At(r).op = "cleanup")

Owed(p) ==
    FlattenSeq([k \in DOMAIN p |-> Registered(SubSeq(p, 1, k - 1), p[k] - 1)])

OwedAtEnd(p) == Owed(p) \o Registered(p, Len(At(p).kids))

(* The calls made on the way from one place to another: innermost first,   *)
(* those of the scopes that are left.                                      *)
Unwound(from, to) ==
    LET gone == SelectSeq(from, LAMBDA r : r \notin Range(to))
    IN  [k \in DOMAIN gone |-> At(Reverse(gone)[k]).id]

-----------------------------------------------------------------------------
(* Where control is: at a statement, about to do it, to test its condition *)
(* (at the operand `sub`, with what a `setjmp` there returned), to take    *)
(* the step of a loop, or done with it; and the calls to make before that. *)
None == -1
Arrive(p, how) == [at |-> p, how |-> how, sub |-> <<>>, value |-> None, owe |-> <<>>]
Leave(from, p, how, to) == [Arrive(p, how) EXCEPT !.owe = Unwound(from, to)]

Done(p) == Arrive(p, "done")
Return(p) == Leave(Owed(p), p, "return", <<>>)

Goto(from, l) ==
    LET q == The("label", l) IN Leave(Owed(from), q, "do", Owed(q))

(* A computed `goto` leaves what no label it could name stands in, and     *)
(* reads its target then.                                                  *)
GotoPtr(p) ==
    Leave(Owed(p), p, "test",
          FlattenSeq([k \in DOMAIN Taken |-> Owed(The("label", Taken[k]))]))
Entered(l) == Arrive(The("label", l), "do")

Break(p) == LET q == Left(At(p)) IN Leave(Owed(p), q, "done", Owed(q))

Again(q) == IF At(q).op = "for" THEN "step" ELSE "test"
Continue(p) == LET q == Left(At(p)) IN Leave(Owed(p), q, Again(q), Owed(BodyOf(q)))

(* A `switch` given v: to the label, wherever it stands in the body.       *)
Select(p, v) ==
    LET labels(w) == {q \in All("case", At(p).id) : At(q).to = w}
    IN  IF labels(v) # {} THEN Arrive(CHOOSE q \in labels(v) : TRUE, "do")
        ELSE IF labels(Default) # {} THEN Arrive(CHOOSE q \in labels(Default) : TRUE, "do")
        ELSE Done(p)

(* The condition of the statement at p turned out to be b.                 *)
Branch(p, b) ==
    IF b THEN Arrive(IF At(p).op = "if" THEN Kid(p, 1) ELSE BodyOf(p), "do")
    ELSE IF At(p).op = "if" /\ Len(At(p).kids) = 2 THEN Arrive(Kid(p, 2), "do")
    ELSE Leave(OwedAtEnd(p), p, "done", Owed(p))

(* The operand at `sub` turned out to be b: `&&` and `||` go on with their *)
(* other operand when this one does not decide.                            *)
RECURSIVE Decide(_, _, _)
Decide(p, sub, b) ==
    IF sub = <<>> THEN Branch(p, b)
    ELSE LET whole == CondAt(p, Front(sub))
         IN  IF Last(sub) = 1 /\ b = (whole.op = "and")
             THEN [Arrive(p, "test") EXCEPT !.sub = Append(Front(sub), 2)]
             ELSE Decide(p, Front(sub), b)

-----------------------------------------------------------------------------
(* What follows without being observed.                                    *)
BeginAt(p) ==
    LET s == At(p)
    IN  CASE s.op \in {"nop", "cleanup"}          -> Done(p)
          [] s.op = "block" /\ s.kids = <<>>      -> Done(p)
          [] s.op \in {"block", "label", "case", "do"} -> Arrive(Kid(p, 1), "do")
          [] s.op = "for" /\ Len(s.kids) > 1      -> Arrive(Kid(p, 1), "do")
          [] s.op = "goto"                        -> Goto(p, s.to)
          [] s.op = "goto_ptr"                    -> GotoPtr(p)
          [] s.op = "break"                       -> Break(p)
          [] s.op = "continue"                    -> Continue(p)
          [] s.op = "return"                      -> Return(p)
          [] OTHER                                -> Arrive(p, "test")

AfterKid(p, i) ==
    LET s == At(p)
    IN  CASE s.op = "block" /\ i < Len(s.kids)    -> Arrive(Kid(p, i + 1), "do")
          [] s.op = "block" /\ i = Len(s.kids)    -> Leave(OwedAtEnd(p), p, "done", Owed(p))
          [] s.op = "for" /\ i < Len(s.kids) - 1  -> Arrive(Kid(p, i + 1), "do")
          [] s.op = "for" /\ i = Len(s.kids) - 1  -> Arrive(p, "test")
          [] s.op \in Loops /\ i = Len(s.kids)    -> Arrive(p, Again(p))
          [] OTHER                                -> Done(p)

Evaluate(p, sub, value) ==
    LET e == CondAt(p, sub)
    IN  CASE e.op \in {"and", "or"}   -> [Arrive(p, "test") EXCEPT !.sub = Append(sub, 1)]
          [] e.op = "always"          -> Decide(p, sub, TRUE)
          [] At(p).op = "switch"      -> Select(p, value)
          [] At(p).op = "expr"        -> Done(p)
          [] OTHER                    -> Decide(p, sub, value # 0)

Silent(x) ==
    CASE x.how = "do"     -> BeginAt(x.at)
      [] x.how = "done"   -> AfterKid(Parent(x.at), Last(x.at))
      [] x.how = "step"   -> Arrive(x.at, "test")
      [] x.how = "test"   -> Evaluate(x.at, x.sub, x.value)

-----------------------------------------------------------------------------
(* What can be observed next, each event with what it does.                *)
Event(kind, id, value) == <<kind, id, value>>
Move(event, to) == [event |-> event, to |-> to]

Tests(x) ==
    LET e == CondAt(x.at, x.sub)
        s == At(x.at)
    IN  CASE e.op = "setjmp" /\ x.value = None ->
                 {Move(Event("setjmp", e.id, 0), [x EXCEPT !.value = 0])}
          [] e.op = "setjmp" /\ s.op = "expr" /\ s.id # 0 ->
                 {Move(Event("call", s.id, x.value), Done(x.at))}
          [] e.op = "plain" /\ s.op = "switch" ->
                 {Move(Event("switch", e.id, v), Select(x.at, v)) : v \in Values}
          [] e.op = "plain" /\ s.op = "expr" ->
                 {Move(Event("call", s.id, 0), Done(x.at))}
          [] e.op = "plain" /\ s.op = "goto_ptr" ->
                 IF s.to = 1
                 THEN {Move(Event("read", 0, k), Entered(Table[k + 1])) : k \in 0 .. Len(Table) - 1}
                 ELSE {Move(Event("goto", 0, l), Entered(l)) : l \in Range(Taken)}
          [] e.op = "plain" ->
                 {Move(Event("test", e.id, b), Decide(x.at, x.sub, b = 1)) : b \in 0 .. 1}
          [] OTHER -> {}

Moves(x) ==
    IF x.owe # <<>> THEN {Move(Event("call", Head(x.owe), 0), [x EXCEPT !.owe = Tail(@)])}
    ELSE IF x.how = "test" THEN Tests(x)
    ELSE IF x.how = "step" /\ At(x.at).to # 0
    THEN {Move(Event("call", At(x.at).to, 0), Arrive(x.at, "test"))}
    ELSE IF x.how = "return" THEN {Move(Event("return", 0, 0), Arrive(x.at, "over"))}
    ELSE {}

(* Control, brought to where something can be observed.  A loop that does  *)
(* nothing never gets there.                                               *)
RECURSIVE Settled(_, _)
Settled(x, passed) ==
    IF Moves(x) # {} \/ x.how = "over" \/ x \in passed THEN x
    ELSE Settled(Silent(x), passed \cup {x})
Settle(x) == Settled(x, {})

CInit == c = Settle(Arrive(<<>>, "do")) /\ saved = <<>>

(* The event e happens.                                                    *)
CStep(e) ==
    \E m \in Moves(c) :
        /\ m.event = e
        /\ c' = Settle(m.to)
        /\ saved' = IF e[1] = "setjmp"
                    THEN [b \in DOMAIN saved \cup {e[2]} |->
                             IF b = e[2] THEN [c EXCEPT !.owe = <<>>] ELSE saved[b]]
                    ELSE saved

(* A `longjmp` to a buffer that is set, from a call: its `setjmp` returns  *)
(* again, with 1.  No cleanup runs.                                        *)
CLongJmp(b) ==
    /\ b \in DOMAIN saved
    /\ \E m \in Moves(c) : m.event[1] = "call"
    /\ c' = Settle([saved[b] EXCEPT !.value = 1])
    /\ UNCHANGED saved
=============================================================================
