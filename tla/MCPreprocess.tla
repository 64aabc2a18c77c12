---------------------------- MODULE MCPreprocess ----------------------------
(* Units: every text with every pair of macros of a list, and every file   *)
(* of a list with every header of a list.                                  *)
EXTENDS PreprocessMeaning

A == <<"A">>
B == <<"B">>
F == <<"F">>
V == <<"V">>
X == <<"X">>
One == <<"1">>

Of(site, fn, variadic, params, body) ==
    [fn |-> fn, variadic |-> variadic, params |-> params, body |-> body, site |-> site]
Object(body) == Of("program", FALSE, FALSE, <<>>, body)
Function(params, body) == Of("program", TRUE, FALSE, params, body)
Variadic(params, body) == Of("program", TRUE, TRUE, params, body)

Def(name, def) == [dir |-> "define", name |-> name, def |-> def]
Toks(sps) == [i \in DOMAIN sps |-> [text |-> sps[i]]]
Dir(kind, name) == [dir |-> kind, name |-> name]
If(kind, name, body) == [test |-> Dir(kind, name), body |-> body]
IfTree(kind, tree, body) ==
    [test |-> [dir |-> kind, tree |-> tree, toks |-> Written(tree)], body |-> body]
Operand1(toks) == [op |-> "toks", toks |-> toks]
IfToks(kind, toks, body) == IfTree(kind, Operand1(toks), body)
Group(arms) == [arms |-> arms, closed |-> TRUE]
IncludeOf(key) == [dir |-> "include", key |-> key]

UnitOf(main, h, forced) ==
    LET trees == [key \in {"main", "h"} |-> IF key = "main" THEN main ELSE h]
    IN  [trees |-> trees, files |-> [key \in {"main", "h"} |-> Lines(trees[key])],
         forced |-> forced]

(* Macros and texts.                                                       *)
DefsOfA == {Object(body) : body \in {<<A>>, <<B>>, <<B, A>>, <<F>>, <<F, LParen, A, RParen>>, <<>>}}
DefsOfB == {Object(body) : body \in {<<A>>, <<F>>, <<One>>, <<LParen>>, <<A, Comma, B>>}}
DefsOfF == {Function(<<X>>, body) : body \in
               {<<X>>, <<F, LParen, X, RParen>>, <<X, F>>, <<Hash, X, X>>, <<A, Paste, X>>,
                <<X, Paste, X, Paste, B>>, <<X, LParen, X, RParen>>}}
DefOfV == Variadic(<<X>>, <<X, Comma, Paste, VaArgs>>)
Texts ==
    {<<A, B>>, <<F, LParen, A, RParen, B>>, <<F, LParen, F, LParen, One, RParen, RParen>>,
     <<F, LParen, F, RParen, LParen, B, RParen>>, <<F, A, LParen, One, RParen>>,
     <<A, LParen, B, RParen, LParen, A, RParen>>, <<F, LParen, B, Comma, One, RParen, A>>,
     <<F, LParen, RParen, F, B, A, RParen>>, <<V, LParen, A, RParen, F, LParen, One>>,
     <<V, LParen, B, Comma, LParen, A, Comma, B, RParen, Comma, F, RParen>>,
     <<F, LParen, LParen, B, Comma, A, RParen, RParen, RParen>>}
MacroUnits ==
    {UnitOf(<<Def(A, a), Def(B, b), Def(F, f), Def(V, DefOfV)>> \o Toks(t), <<>>, <<>>) :
        a \in DefsOfA, b \in DefsOfB, f \in DefsOfF, t \in Texts}

-----------------------------------------------------------------------------
(* Files and headers.  `G` is the macro of a guard.                        *)
G == <<"G">>
Zero == <<"0">>
Open(arms) == [arms |-> arms, closed |-> FALSE]
Otherwise(body) == [test |-> [dir |-> "else"], body |-> body]
Plain(dir) == <<[dir |-> dir]>>

Chain(body) ==      \* a group of every form, one within each of its branches
    <<Group(<<IfToks("if", <<A>>, Toks(<<A>>) \o body),
              If("elifdef", B, <<Group(<<If("ifndef", B, body), Otherwise(Toks(<<One>>))>>)>>),
              IfToks("elif", <<Defined, G>>, body \o Toks(<<B>>)),
              Otherwise(<<Group(<<IfToks("if", <<F, LParen, B, RParen>>, body), Otherwise(body)>>)>>)>>)>>
Guarded(body) == <<Group(<<If("ifndef", G, <<Def(G, Object(<<>>))>> \o body)>>)>>

Headers ==
    {Guarded(Toks(<<B, F>>)),
     Guarded(<<Dir("undef", G)>> \o Toks(<<A>>)),
     Guarded(<<IncludeOf("h")>> \o Toks(<<A>>)) \o Toks(<<B>>),
     Plain("once") \o Toks(<<A>>) \o <<IncludeOf("h"), Dir("undef", A)>>,
     Toks(<<B, F>>) \o <<Open(<<If("ifdef", A, Toks(<<A>>)), Otherwise(Toks(<<B>>))>>)>>,
     <<Open(<<If("ifndef", A, <<Open(<<If("ifdef", G, Toks(<<A>>))>>)>>)>>)>>,
     Toks(<<A>>) \o <<Group(<<If("ifndef", A, <<IncludeOf("h")>>), Otherwise(<<Dir("undef", A), IncludeOf("h")>>)>>)>>,
     <<Dir("push_macro", A), Def(A, Object(<<Zero>>))>> \o Toks(<<A>>)
        \o <<Dir("push_macro", B), Dir("undef", B), Dir("pop_macro", A), Dir("push_macro", A)>>,
     Chain(<<Def(G, Object(<<G, A>>))>> \o Toks(<<G>>))}

Mains ==
    {<<IncludeOf("h")>> \o Toks(<<LParen, B, RParen>>) \o <<IncludeOf("h")>> \o Toks(<<G>>),
     <<Group(<<If("ifdef", A, <<IncludeOf("h")>> \o Toks(<<A>>)), Otherwise(<<IncludeOf("h")>>)>>),
       IncludeOf("h"), Dir("undef", G), IncludeOf("h")>>,
     Chain(<<IncludeOf("h")>>) \o Toks(<<A, B>>),
     Toks(<<F, LParen, A>>)
        \o <<Group(<<If("ifdef", A, Toks(<<B, RParen, F, LParen, A>>)), Otherwise(Toks(<<One>>))>>)>>
        \o Toks(<<RParen>>) \o Chain(Toks(<<B>>)),
     <<IncludeOf("h"), Dir("pop_macro", B)>> \o Toks(<<B>>)
        \o <<Dir("undef", A), Dir("pop_macro", A), IncludeOf("h"), Dir("pop_macro", B)>> \o Toks(<<A, B>>),
     <<Open(<<If("ifdef", B, <<IncludeOf("h")>> \o Toks(<<B>>))>>)>>}

Prologues ==
    {<<Def(F, Function(<<X>>, <<X, X>>)), Def(B, Object(b))>> \o a :
        b \in {<<A>>, <<One>>},
        a \in {<<>>, <<Def(A, Object(<<One>>))>>, <<Def(A, Object(<<F>>))>>}}

FileUnits ==
    {UnitOf(start \o main, h, forced) :
        start \in Prologues \cup {<<>>}, main \in Mains, h \in Headers, forced \in {<<>>, <<"h">>}}

-----------------------------------------------------------------------------
(* The expressions of an #if: two operators, in every shape of a tree.     *)
Operators == {"||", "&&", "==", "<", "-", "*", "/", "%"}
Leaves == {Operand1(<<sp>>) : sp \in {Zero, <<"3">>, <<"2", "U">>}}
           \cup {Operand1(<<F, LParen, B, RParen>>), Operand1(<<Defined, G>>)}
Few == {Operand1(<<Zero>>), Operand1(<<<<"1", "U">>>>), [op |-> "neg", a |-> Operand1(<<<<"3">>>>)]}
Binary(op, a, b) == [op |-> op, a |-> a, b |-> b]
Ternary(a, b, c) == [op |-> "?", a |-> a, b |-> b, c |-> c]

Pairs == {Binary(op, a, b) : op \in Operators, a \in Few, b \in Few}
Trees ==
    {Binary(op, a, b) : op \in Operators, a \in Leaves, b \in Pairs}
      \cup {Binary(op, a, b) : op \in Operators, a \in Pairs, b \in Few}
      \cup {Binary("<", Ternary(a, b, c), d) : a \in Few, b \in Leaves \cup Pairs, c \in Few, d \in Few}
      \cup {Ternary(a, b, Ternary(c, d, d)) : a \in Few, b \in Few, c \in Few, d \in Pairs}
      \cup {[op |-> o, a |-> a] : o \in {"not", "neg"}, a \in Pairs}

ExprUnits ==
    {UnitOf(<<Def(B, Object(<<One>>)), Def(F, Function(<<X>>, <<X, Paste, X>>)),
              Group(<<IfTree("if", tree, Toks(<<A>>)), Otherwise(Toks(<<X>>))>>)>>, <<>>, <<>>) :
        tree \in Trees}

(* A `defined` of every form, and expressions within expressions.          *)
Asking ==
    {<<Defined, LParen, G, RParen>>, <<Defined, LParen, B, RParen>>, <<Defined, LParen, B>>,
     <<Defined, One>>, <<Defined>>, <<Defined, LParen, RParen>>}
RECURSIVE Nested(_, _)
Nested(tree, n) == IF n = 0 THEN tree ELSE Binary("-", Operand1(<<One>>), Nested(tree, n - 1))
AskUnits ==
    {UnitOf(<<Def(B, Object(<<One>>)),
              Group(<<IfTree("if", tree, Toks(<<A>>)), Otherwise(Toks(<<X>>))>>)>>, <<>>, <<>>) :
        tree \in {Operand1(toks) : toks \in Asking}
                   \cup {Binary("<", Operand1(<<Zero>>), Operand1(<<Defined, LParen, n, RParen>>)) : n \in {B, G}}
                   \cup {Nested(tree, n) : tree \in Few, n \in {3, 4, 5}}}

(* The program, a bundled header and the platform's own define one macro.  *)
Sites == {"program", "bundled", "platform"}
SiteUnits ==
    {UnitOf(<<Def(A, Of(first, FALSE, FALSE, <<>>, <<One>>)), Dir("push_macro", A),
              Def(A, Of(second, FALSE, FALSE, <<>>, b)), Def(A, Of(third, FALSE, FALSE, <<>>, <<B>>))>>
              \o Toks(<<A>>) \o <<Dir("pop_macro", A)>> \o Toks(<<A>>), <<>>, <<>>) :
        first \in Sites, second \in Sites, third \in Sites, b \in {<<One>>, <<X>>}}

HeaderUnits(headers) ==
    {UnitOf(start \o main, h, <<>>) : start \in Prologues, main \in Mains, h \in headers}

MCUnits == MacroUnits \cup FileUnits \cup ExprUnits \cup AskUnits \cup SiteUnits

MCDigitValue == "0" :> 0 @@ "1" :> 1 @@ "2" :> 2 @@ "3" :> 3

(* Headers that end a group they did not open, and a guard with an #else.  *)
StrayUnits == HeaderUnits({Toks(<<A>>) \o Plain("endif"), Plain("else")})
ElseUnits == HeaderUnits({<<Group(<<If("ifndef", G, <<Def(G, Object(<<>>))>>), Otherwise(Toks(<<A>>))>>)>>})
=============================================================================
