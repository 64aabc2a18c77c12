------------------------------- MODULE IfExpr -------------------------------
(***************************************************************************)
(* `Eval` (pp.rs): the value of the expression of an #if, by precedence    *)
(* climbing over its tokens, in integers of Width bits that are signed or  *)
(* unsigned (64 in the source).  An answer is where the evaluation has got *)
(* to, [toks, pos, depth, bad, deep], with the value, [v, u]: `u` says it  *)
(* is unsigned, `deep` that it was given up for its nesting.               *)
(***************************************************************************)
EXTENDS Integers, Sequences, Bitwise

CONSTANTS Width,
          MaxEvalDepth, \* expressions within expressions
          Letters,      \* what names are spelled with
          DigitValue    \* the value of each digit

Modulus == 2 ^ Width
Make(v, u) == IF u THEN [v |-> v % Modulus, u |-> TRUE]
              ELSE [v |-> ((v + Modulus \div 2) % Modulus) - Modulus \div 2, u |-> FALSE]
Boolean(b) == [v |-> IF b THEN 1 ELSE 0, u |-> FALSE]
AsOperand(x, u) == IF u /\ x.v < 0 THEN x.v + Modulus ELSE x.v

Sign(x) == IF x < 0 THEN -1 ELSE 1
Quotient(x, y) == Sign(x) * Sign(y) * ((x * Sign(x)) \div (y * Sign(y)))

(* `binary_op`: how tightly an operator binds.                             *)
Precedence ==
    [op \in {"||", "&&", "|", "^", "&", "==", "!=", "<", ">", "<=", ">=", "<<", ">>",
             "+", "-", "*", "/", "%"} |->
        CASE op = "||" -> 1
          [] op = "&&" -> 2
          [] op = "|"  -> 3
          [] op = "^"  -> 4
          [] op = "&"  -> 5
          [] op \in {"==", "!="} -> 6
          [] op \in {"<", ">", "<=", ">="} -> 7
          [] op \in {"<<", ">>"} -> 8
          [] op \in {"+", "-"} -> 9
          [] OTHER -> 10]

(* `apply`, with x and y converted to the type u says.                     *)
Arithmetic(op, x, y, u) ==
    CASE op = "==" -> Boolean(x = y)
      [] op = "!=" -> Boolean(x # y)
      [] op = "<"  -> Boolean(x < y)
      [] op = ">"  -> Boolean(x > y)
      [] op = "<=" -> Boolean(x <= y)
      [] op = ">=" -> Boolean(x >= y)
      [] op = "+"  -> Make(x + y, u)
      [] op = "-"  -> Make(x - y, u)
      [] op = "*"  -> Make(x * y, u)
      [] op = "/"  -> Make(IF y = 0 THEN 0 ELSE Quotient(x, y), u)
      [] op = "%"  -> Make(IF y = 0 THEN 0 ELSE x - y * Quotient(x, y), u)
      [] op = "&"  -> Make((x % Modulus) & (y % Modulus), u)
      [] op = "|"  -> Make((x % Modulus) | (y % Modulus), u)
      [] op = "^"  -> Make((x % Modulus) ^^ (y % Modulus), u)
      [] op = "<<" -> Make(x * 2 ^ (y % Width), u)
      [] op = ">>" -> Make(x \div 2 ^ (y % Width), u)

Operate(op, a, b, u) ==
    CASE op = "&&" -> Boolean(a.v # 0 /\ b.v # 0)
      [] op = "||" -> Boolean(a.v # 0 \/ b.v # 0)
      [] OTHER -> Arithmetic(op, AsOperand(a, u), AsOperand(b, u), u)

Answer(r, x) == [r EXCEPT !.v = x.v, !.u = x.u]
Fails(r) == [r EXCEPT !.bad = TRUE]
TooDeep(r) == [r EXCEPT !.v = 0, !.u = FALSE, !.bad = TRUE, !.deep = TRUE,
                        !.pos = Len(r.toks) + 1]

(* A division by zero is an error where it is evaluated.                   *)
Apply(op, a, b, eval) ==
    Answer(IF eval /\ op \in {"/", "%"} /\ b.v = 0 THEN Fails(b) ELSE b,
           Operate(op, a, b, a.u \/ b.u))

-----------------------------------------------------------------------------
Peek(r) == IF r.pos <= Len(r.toks) THEN r.toks[r.pos] ELSE <<>>
Operator(r) == IF Len(Peek(r)) = 1 /\ Peek(r)[1] \in DOMAIN Precedence THEN Peek(r)[1] ELSE ""
Eat(r) == [r EXCEPT !.pos = @ + 1]

RECURSIVE Expression(_, _), Sequel(_, _), Conditional(_, _), Climb(_, _, _), Unary(_, _)

Sequel(r, eval) ==
    IF Peek(r) = <<",">> THEN Sequel(Conditional(Eat(r), eval), eval) ELSE r
Deeper(r, by) == [r EXCEPT !.depth = @ + by]
Expression(r, eval) ==
    IF r.depth >= MaxEvalDepth THEN TooDeep(r)
    ELSE Deeper(Sequel(Conditional(Deeper(r, 1), eval), eval), -1)

(* `c ? t : f`: the type is that of both, the value that of the one taken. *)
Pick(c, t, f) ==
    Answer(f, Make(AsOperand(IF c.v # 0 THEN t ELSE f, t.u \/ f.u), t.u \/ f.u))
Arms(c, t, eval) ==
    IF Peek(t) # <<":">> THEN Fails(Answer(t, c))
    ELSE Pick(c, t, Conditional(Eat(t), eval /\ c.v = 0))
Question(c, eval) ==
    IF Peek(c) # <<"?">> THEN c ELSE Arms(c, Expression(Eat(c), eval /\ c.v # 0), eval)

(* Of && and || the right operand may not be evaluated.                    *)
Reached(op, a, eval) ==
    CASE op = "&&" -> eval /\ a.v # 0
      [] op = "||" -> eval /\ a.v = 0
      [] OTHER     -> eval
Climb(a, least, eval) ==
    IF Operator(a) = "" THEN a
    ELSE IF Precedence[Operator(a)] < least THEN a
    ELSE Climb(Apply(Operator(a), a,
                     Climb(Unary(Eat(a), Reached(Operator(a), a, eval)),
                           Precedence[Operator(a)] + 1, Reached(Operator(a), a, eval)),
                     eval),
               least, eval)
Conditional(r, eval) == Question(Climb(Unary(r, eval), 0, eval), eval)

(* An integer, or an identifier that no macro replaced, which is 0.        *)
Primary(r) ==
    IF Peek(r) = <<>> THEN Fails(Answer(r, Make(0, FALSE)))
    ELSE IF Peek(r)[1] \in DOMAIN DigitValue THEN
        Eat(Answer(r, Make(DigitValue[Peek(r)[1]], Len(Peek(r)) = 2 /\ Peek(r)[2] = "U")))
    ELSE Eat(Answer(IF Peek(r)[1] \in Letters THEN r ELSE Fails(r), Make(0, FALSE)))

Closed(r) == IF Peek(r) = <<")">> THEN Eat(r) ELSE Fails(r)
Negated(r) == Answer(r, Make(-AsOperand(r, r.u), r.u))
Flipped(r) == Answer(r, Make(-AsOperand(r, r.u) - 1, r.u))
Denied(r) == Answer(r, Boolean(r.v = 0))

Unary(r, eval) ==
    CASE Peek(r) = <<"+">> -> Unary(Eat(r), eval)
      [] Peek(r) = <<"-">> -> Negated(Unary(Eat(r), eval))
      [] Peek(r) = <<"~">> -> Flipped(Unary(Eat(r), eval))
      [] Peek(r) = <<"!">> -> Denied(Unary(Eat(r), eval))
      [] Peek(r) = <<"(">> -> Closed(Expression(Eat(r), eval))
      [] OTHER -> Primary(r)

(* `eval_expression`: nothing may be left over.                            *)
NothingLeft(r) == IF r.pos <= Len(r.toks) THEN Fails(r) ELSE r
Eval(toks) ==
    NothingLeft(Expression([toks |-> toks, pos |-> 1, depth |-> 0, bad |-> FALSE, deep |-> FALSE,
                            v |-> 0, u |-> FALSE], TRUE))
=============================================================================
