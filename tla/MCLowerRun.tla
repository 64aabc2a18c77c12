----------------------------- MODULE MCLowerRun -----------------------------
(***************************************************************************)
(* Two constructs, one in the other, each with a cleanup, a label and a    *)
(* jump in its scope:                                                      *)
(*                                                                         *)
(*     l4: a40; if (t4) goto l2;                                           *)
(*     K1 { cleanup 71; a10; l1: a11;                                      *)
(*          K2 { cleanup 72; a20; l2: a21; j2; a22 }                       *)
(*          j1; a12 }                                                      *)
(*     l3: a30; { cleanup 73; l5: a31 } return;                            *)
(*                                                                         *)
(* A `switch` has its labels at l1 and l2: those of the outer one reach    *)
(* into the inner construct.  A `for` registers a cleanup of its own.      *)
(***************************************************************************)
EXTENDS LowerRun

TakenLabels == <<3, 4>>     \* both outside every scope that has a cleanup
MixedLabels == <<1, 3>>     \* one inside
TableLabels == <<3>>
NoTable == <<>>

CONSTANTS Outer, Inner,     \* the constructs
          OuterJumps, InnerJumps,
          Conditions        \* the conditions of the outer one

Plain(id) == Cond("plain", id, <<>>)
SetJmp(id) == Cond("setjmp", id, <<>>)
No == Always

Nop == Stmt("nop", 0, 0, No, <<>>)
Call(id) == Stmt("expr", id, 0, Plain(id), <<>>)
Owes(id) == Stmt("cleanup", id, 0, No, <<>>)
Block(items) == Stmt("block", 0, 0, No, items)
Label(id, s) == Stmt("label", id, 0, No, <<s>>)
Case(id, v, s) == Stmt("case", id, v, No, <<s>>)

(* A construct, around the items of its scope.                             *)
Construct(k, id, e, items) ==
    LET b == Block(items)
    IN  CASE k = "block"   -> b
          [] k = "then"    -> Stmt("if", id, 0, e, <<b>>)
          [] k = "else"    -> Stmt("if", id, 0, e, <<Call(id), b>>)
          [] k = "while"   -> Stmt("while", id, 0, e, <<b>>)
          [] k = "forever" -> Stmt("while", id, 0, Always, <<b>>)
          [] k = "do"      -> Stmt("do", id, 0, e, <<b>>)
          [] k = "for"     -> Stmt("for", id, 50 + id, e, <<Owes(60 + id), b>>)
          [] k = "ever"    -> Stmt("for", id, 0, Always, <<Call(50 + id), b>>)
          [] k = "switch"  -> Stmt("switch", id, 0, e, <<b>>)

IsLoop(k) == k \in {"while", "forever", "do", "for", "ever"}
Breaks(k) == IsLoop(k) \/ k = "switch"

Labels == [goto1 |-> 1, goto2 |-> 2, goto3 |-> 3, goto4 |-> 4, goto5 |-> 5]

(* A jump written in constructs k1 > k2 (k2 is "none" outside the inner).  *)
Possible(j, k1, k2) ==
    CASE j = "break"    -> Breaks(k1) \/ Breaks(k2)
      [] j = "continue" -> IsLoop(k1) \/ IsLoop(k2)
      [] OTHER          -> TRUE
JumpStmt(j, k1, k2) ==
    CASE j = "break"    -> Stmt("break", 0, IF Breaks(k2) THEN 2 ELSE 1, No, <<>>)
      [] j = "continue" -> Stmt("continue", 0, IF IsLoop(k2) THEN 2 ELSE 1, No, <<>>)
      [] j = "return"   -> Stmt("return", 0, 0, No, <<>>)
      [] j = "setjmp"   -> Stmt("expr", 0, 0, SetJmp(9), <<>>)
      [] j = "use"      -> Stmt("expr", 8, 0, SetJmp(8), <<>>)
      [] j = "goto*"    -> Stmt("goto_ptr", 0, 0, Plain(0), <<>>)
      [] j = "table"    -> Stmt("goto_ptr", 0, 1, Plain(0), <<>>)
      [] j = "none"     -> Nop
      [] j \in DOMAIN Labels -> Stmt("goto", 0, Labels[j], No, <<>>)

Program(k1, k2, e, j1, j2) ==
    LET here(k, id, v, s) == IF k = "switch" THEN Case(id, v, s) ELSE s
        inner == Construct(k2, 2, Plain(2),
            << Owes(72), Call(20),
               here(k1, 1, 1, here(k2, 2, Default, Label(2, Call(21)))),
               JumpStmt(j2, k1, k2), Call(22) >>)
        outer == Construct(k1, 1, e,
            << Owes(71), Call(10), here(k1, 1, 0, Label(1, Call(11))),
               inner, JumpStmt(j1, k1, "none"), Call(12) >>)
    IN  Block(<< Label(4, Call(40)),
                 Stmt("if", 0, 0, Plain(4), << JumpStmt("goto2", k1, k2) >>),
                 outer, Label(3, Call(30)),
                 Block(<< Owes(73), Label(5, Call(31)) >>),
                 Stmt("return", 0, 0, No, <<>>) >>)
Condition(e) ==
    CASE e = "plain"  -> Plain(1)
      [] e = "setjmp" -> SetJmp(1)
      [] e = "and"    -> Cond("and", 0, <<Plain(1), SetJmp(1)>>)
      [] e = "or"     -> Cond("or", 0, <<SetJmp(1), Plain(1)>>)
      [] e = "both"   -> Cond("and", 0, <<Cond("or", 0, <<SetJmp(1), Plain(1)>>), SetJmp(2)>>)
Fits(e, k) ==
    CASE e = "plain"  -> TRUE
      [] e = "setjmp" -> k \notin {"block", "forever", "ever"}
      [] OTHER        -> k \in {"then", "else", "while", "do", "for"}

Init ==
    /\ \E k1 \in Outer, k2 \in Inner, e \in Conditions, j1 \in OuterJumps, j2 \in InnerJumps :
          /\ e # "plain" => j1 = "none"
          /\ Fits(e, k1) /\ Possible(j1, k1, "none") /\ Possible(j2, k1, k2)
          /\ fn = Program(k1, k2, Condition(e), j1, j2)
    /\ LInit
Spec == Init /\ [][LNext]_vars
=============================================================================
