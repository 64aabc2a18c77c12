-------------------------- MODULE PreprocessMeaning --------------------------
(***************************************************************************)
(* What a translation unit means (C99 6.10): a file is a tree of groups,   *)
(* an #if reads one of its groups and none of the others, and text is      *)
(* replaced by Prosser's recursive algorithm, from which the standard's    *)
(* words were made: `expand` and `subst` on lists of tokens, without a     *)
(* state, a budget, a stack of files or a remembered guard.                *)
(*                                                                         *)
(* A tree is a sequence of elements of a file and of groups,               *)
(* [arms |-> <<[test, body], ...>>, closed |-> ...].                       *)
(***************************************************************************)
EXTENDS Preprocess

RECURSIVE Lines(_), Expand(_, _), Replace(_, _, _, _, _),
          Run(_, _, _, _, _)

(* The file a tree is written as.                                          *)
LinesOf(item) ==
    IF "arms" \notin DOMAIN item THEN <<item>>
    ELSE FlattenSeq([k \in DOMAIN item.arms |-> <<item.arms[k].test>> \o Lines(item.arms[k].body)])
           \o (IF item.closed THEN <<[dir |-> "endif"]>> ELSE <<>>)
Lines(tree) == FlattenSeq([k \in DOMAIN tree |-> LinesOf(tree[k])])

-----------------------------------------------------------------------------
(* The list of arguments that `ts` opens at its second token.              *)
Nesting(ts, i) ==
    Cardinality({j \in 2 .. i : ts[j].sp = LParen}) - Cardinality({j \in 2 .. i : ts[j].sp = RParen})
Closing(ts) == {i \in 2 .. Len(ts) : Nesting(ts, i) = 0}
CloseOf(ts) == CHOOSE i \in Closing(ts) : \A j \in Closing(ts) : i <= j

Commas(ts) == SetToSortSeq({i \in 2 .. CloseOf(ts) : ts[i].sp = Comma /\ Nesting(ts, i) = 1}, <)
FirstOf(s, n) == SubSeq(s, 1, IF n < Len(s) THEN n ELSE Len(s))
Cuts(ts, def) ==
    <<2>> \o (IF def.variadic THEN FirstOf(Commas(ts), Len(def.params)) ELSE Commas(ts))
          \o <<CloseOf(ts)>>
Between(ts, cuts) == [k \in 1 .. Len(cuts) - 1 |-> SubSeq(ts, cuts[k] + 1, cuts[k + 1] - 1)]
Actuals(ts, def) ==
    IF def.params = <<>> /\ ~def.variadic /\ CloseOf(ts) = 3 THEN <<>> ELSE Between(ts, Cuts(ts, def))
ArityMeant(def, n) == IF def.variadic THEN n >= Len(def.params) ELSE n = Len(def.params)
Supplied(def, args) == IF def.variadic /\ Len(args) = Len(def.params) THEN Append(args, <<>>) ELSE args

(* `glue`: an empty operand is an empty token, and two that make no token  *)
(* stay two.                                                               *)
Glue(os, rhs) ==
    IF os = <<>> \/ ~Joins(Last(os).sp, Head(rhs).sp) THEN os \o rhs
    ELSE Append(Front(os), [sp |-> Last(os).sp \o Head(rhs).sp,
                            hide |-> IF Last(os).sp = <<>> THEN Head(rhs).hide
                                     ELSE IF Head(rhs).sp = <<>> THEN Last(os).hide
                                     ELSE Last(os).hide \cap Head(rhs).hide]) \o Tail(rhs)
Whole(arg) == IF arg = <<>> THEN <<Fresh(<<>>)>> ELSE arg

Formals(def) == IF def.variadic THEN Append(def.params, VaArgs) ELSE def.params
IsFormal(def, sp) == def.fn /\ sp \in Range(Formals(def))
Actual(def, args, sp) == args[CHOOSE k \in DOMAIN args : Formals(def)[k] = sp]

(* `subst`: of a replacement list, what is left of it and what is made.    *)
Replace(M, def, args, is, os) ==
    IF is = <<>> THEN os
    ELSE IF def.fn /\ is[1] = Hash THEN
        Replace(M, def, args, SubSeq(is, 3, Len(is)),
                Append(os, Fresh(Stringify(Actual(def, args, is[2])))))
    ELSE IF def.variadic /\ Len(is) > 2 /\ is[1] = Comma /\ is[2] = Paste /\ is[3] = VaArgs THEN
        Replace(M, def, args, SubSeq(is, 4, Len(is)),
                os \o (IF Last(args) = <<>> THEN <<>> ELSE <<Fresh(Comma)>> \o Last(args)))
    ELSE IF is[1] = Paste THEN
        Replace(M, def, args, SubSeq(is, 3, Len(is)),
                Glue(os, IF IsFormal(def, is[2]) THEN Whole(Actual(def, args, is[2]))
                         ELSE <<Fresh(is[2])>>))
    ELSE Replace(M, def, args, Tail(is),
                 os \o (IF ~IsFormal(def, is[1]) THEN <<Fresh(is[1])>>
                        ELSE IF Len(is) > 1 /\ is[2] = Paste THEN Whole(Actual(def, args, is[1]))
                        ELSE Expand(M, Actual(def, args, is[1]))))

HsAdd(toks, hide) == SelectSeq([i \in DOMAIN toks |-> [toks[i] EXCEPT !.hide = @ \cup hide]],
                               LAMBDA t : t.sp # <<>>)

(* `expand`: of an invocation with the wrong number of arguments, or no    *)
(* end, nothing is left.                                                   *)
IsInvocation(M, ts) ==
    /\ ts[1].sp \in DOMAIN M /\ ts[1].sp \notin ts[1].hide
    /\ M[ts[1].sp].fn => Len(ts) > 1 /\ ts[2].sp = LParen

Rewritten(M, def, ts, args, hide) ==
    HsAdd(Replace(M, def, args, def.body, <<>>), hide \cup {ts[1].sp})

Expand(M, ts) ==
    IF ts = <<>> THEN <<>>
    ELSE IF ~IsInvocation(M, ts) THEN <<Head(ts)>> \o Expand(M, Tail(ts))
    ELSE IF ~M[ts[1].sp].fn THEN
        Expand(M, Rewritten(M, M[ts[1].sp], ts, <<>>, ts[1].hide) \o Tail(ts))
    ELSE IF Closing(ts) = {} THEN <<>>
    ELSE IF ~ArityMeant(M[ts[1].sp], Len(Actuals(ts, M[ts[1].sp]))) THEN
        Expand(M, SubSeq(ts, CloseOf(ts) + 1, Len(ts)))
    ELSE Expand(M, Rewritten(M, M[ts[1].sp], ts,
                             Supplied(M[ts[1].sp], Actuals(ts, M[ts[1].sp])),
                             ts[1].hide \cap ts[CloseOf(ts)].hide)
                     \o SubSeq(ts, CloseOf(ts) + 1, Len(ts)))

-----------------------------------------------------------------------------
(* A tree, read from its first item to its last.  Text waits in `text`     *)
(* until a directive that could change what it means.                      *)
TextOf(s) == [s EXCEPT !.text = <<>>,
                       !.out = @ \o [i \in DOMAIN Expand(s.M, s.text) |-> Expand(s.M, s.text)[i].sp]]

(* The expression of an #if is a tree, in C's types: what is written, and  *)
(* what it is worth.  A tree that is one operand may be a call of a macro. *)
RECURSIVE Written(_), Worth(_, _)

Level(tree) == CASE tree.op = "?" -> 0
                 [] tree.op \in {"toks", "not", "neg"} -> 11
                 [] OTHER -> CHOOSE k \in 1 .. 10 :
                        tree.op \in <<{"||"}, {"&&"}, {"|"}, {"^"}, {"&"}, {"==", "!="},
                                      {"<", ">", "<=", ">="}, {"<<", ">>"}, {"+", "-"},
                                      {"*", "/", "%"}>>[k]
Inside(tree, level) == IF Level(tree) >= level THEN Written(tree)
                       ELSE <<LParen>> \o Written(tree) \o <<RParen>>
Written(tree) ==
    CASE tree.op = "toks" -> tree.toks
      [] tree.op = "not"  -> <<<<"!">>>> \o Inside(tree.a, 11)
      [] tree.op = "neg"  -> <<<<"-">>>> \o Inside(tree.a, 11)
      [] tree.op = "?" -> Inside(tree.a, 1) \o <<<<"?">>>> \o Written(tree.b) \o <<<<":">>>>
                            \o Inside(tree.c, 0)
      [] OTHER -> Inside(tree.a, Level(tree)) \o <<<<tree.op>>>> \o Inside(tree.b, Level(tree) + 1)

Known(v, u) == [ok |-> TRUE, v |-> v, u |-> u]
Wrong(u) == [ok |-> FALSE, v |-> 0, u |-> u]
InType(v, u) == IF u THEN v % Modulus
                ELSE CHOOSE x \in -(Modulus \div 2) .. Modulus \div 2 - 1 : (x - v) % Modulus = 0
Bit(b) == Known(IF b THEN 1 ELSE 0, FALSE)

Operand(M, toks) ==
    LET ts == Expand(M, [i \in DOMAIN toks |-> Fresh(toks[i])])
        asked == {n \in Range(toks) : /\ IsName(n)
                                      /\ toks \in {<<Defined, n>>, <<Defined, LParen, n, RParen>>}}
    IN  IF toks[1] = Defined THEN (IF asked = {} THEN Wrong(FALSE) ELSE Bit(asked \subseteq DOMAIN M))
        ELSE IF Len(ts) # 1 \/ ~IsWord(ts[1].sp) THEN Wrong(FALSE)
        ELSE IF IsName(ts[1].sp) THEN Known(0, FALSE)
        ELSE LET u == Len(ts[1].sp) = 2 IN Known(InType(DigitValue[ts[1].sp[1]], u), u)

Combined(op, a, b) ==
    LET u == a.u \/ b.u
        x == InType(a.v, u)
        y == InType(b.v, u)
        q == CHOOSE k \in -Modulus .. Modulus :
                \E r \in -Modulus .. Modulus :
                    /\ x = k * y + r /\ (r < 0 => -r < (IF y < 0 THEN -y ELSE y))
                    /\ (r >= 0 => r < (IF y < 0 THEN -y ELSE y))
                    /\ (r > 0 => x > 0) /\ (r < 0 => x < 0)
    IN  CASE op = "=="  -> Bit(x = y)
          [] op = "<"   -> Bit(x < y)
          [] op = "-"   -> Known(InType(x - y, u), u)
          [] op = "*"   -> Known(InType(x * y, u), u)
          [] op = "/"   -> IF y = 0 THEN Wrong(u) ELSE Known(InType(q, u), u)
          [] op = "%"   -> IF y = 0 THEN Wrong(u) ELSE Known(InType(x - q * y, u), u)

Worth(M, tree) ==
    CASE tree.op = "toks" -> Operand(M, tree.toks)
      [] tree.op \in {"not", "neg"} ->
             LET a == Worth(M, tree.a)
             IN  IF ~a.ok THEN Wrong(a.u /\ tree.op = "neg")
                 ELSE IF tree.op = "not" THEN Bit(a.v = 0) ELSE Known(InType(-a.v, a.u), a.u)
      [] tree.op \in {"&&", "||"} ->
             LET a == Worth(M, tree.a)
             IN  IF ~a.ok THEN Wrong(FALSE)
                 ELSE IF (a.v # 0) = (tree.op = "||") THEN Bit(a.v # 0)
                 ELSE LET b == Worth(M, tree.b) IN IF b.ok THEN Bit(b.v # 0) ELSE Wrong(FALSE)
      [] tree.op = "?" ->
             LET a == Worth(M, tree.a)
                 b == Worth(M, tree.b)
                 c == Worth(M, tree.c)
                 x == IF a.v # 0 THEN b ELSE c
                 u == b.u \/ c.u
             IN  IF a.ok /\ x.ok THEN Known(InType(x.v, u), u) ELSE Wrong(u)
      [] OTHER ->
             LET a == Worth(M, tree.a)
                 b == Worth(M, tree.b)
             IN  IF a.ok /\ b.ok THEN Combined(tree.op, a, b)
                 ELSE Wrong(tree.op \notin {"==", "<"} /\ (a.u \/ b.u))

Holds(M, test) ==
    CASE test.dir \in {"ifdef", "elifdef"} -> test.name \in DOMAIN M
      [] test.dir = "ifndef" -> test.name \notin DOMAIN M
      [] test.dir = "else" -> TRUE
      [] OTHER -> LET x == Worth(M, test.tree) IN x.ok /\ x.v # 0

Without(M, name) == [n \in DOMAIN M \ {name} |-> M[n]]
With(M, name, def) == (name :> def) @@ M

(* Of one macro of the C library the platform's own definition counts,     *)
(* whichever comes first; two that agree are one.                          *)
Meaning(def) == <<def.fn, def.variadic, def.params, def.body>>
Outranked(M, d) ==
    \E n \in DOMAIN M : /\ n = d.name /\ <<M[n].site, d.def.site>> = <<"platform", "bundled">>
                        /\ Meaning(M[n]) # Meaning(d.def)

(* The definitions pushed and not popped, for each name the last first.    *)
Change(s, d) ==
    CASE d.dir = "define" -> IF Outranked(s.M, d) THEN s ELSE [s EXCEPT !.M = With(s.M, d.name, d.def)]
      [] d.dir = "undef"  -> [s EXCEPT !.M = Without(s.M, d.name)]
      [] d.dir = "push_macro" ->
             [s EXCEPT !.pushed = <<<<d.name, {n \in {d.name} : n \in DOMAIN s.M}, s.M>>>> \o s.pushed]
      [] d.dir = "pop_macro" ->
             LET mine == {i \in DOMAIN s.pushed : s.pushed[i][1] = d.name}
                 i    == CHOOSE k \in mine : \A j \in mine : k <= j
             IN  IF mine = {} THEN s
                 ELSE [s EXCEPT !.pushed = RemoveAt(s.pushed, i),
                                !.M = IF s.pushed[i][2] = {} THEN Without(s.M, d.name)
                                      ELSE With(s.M, d.name, s.pushed[i][3][d.name])]
      [] OTHER -> s

Taken(M, arms) == {k \in DOMAIN arms : Holds(M, arms[k].test)}
Chosen(M, arms) ==
    IF Taken(M, arms) = {} THEN <<>>
    ELSE arms[CHOOSE k \in Taken(M, arms) : \A j \in Taken(M, arms) : k <= j].body

(* A file is read in the place of its #include, unless it asked to be read *)
(* once and was.                                                           *)
Item(trees, item, key, depth, s) ==
    CASE "arms" \in DOMAIN item -> Run(trees, Chosen(s.M, item.arms), key, depth, s)
      [] "text" \in DOMAIN item -> [s EXCEPT !.text = Append(@, Fresh(item.text))]
      [] item.dir = "include" ->
             IF depth >= MaxIncludeDepth \/ item.key \in s.once THEN s
             ELSE TextOf(Run(trees, trees[item.key], item.key, depth + 1, TextOf(s)))
      [] item.dir = "once" -> [s EXCEPT !.once = @ \cup {key}]
      [] OTHER -> Change(TextOf(s), item)

Run(trees, tree, key, depth, s) ==
    IF tree = <<>> THEN s
    ELSE Run(trees, Tail(tree), key, depth, Item(trees, Head(tree), key, depth, s))

Blank == [M |-> <<>>, text |-> <<>>, out |-> <<>>, once |-> {}, pushed |-> <<>>]
Forced(u) == [k \in DOMAIN u.forced |-> [dir |-> "include", key |-> u.forced[k]]]
Meant(u) ==
    TextOf(Run(u.trees, u.trees["main"], "main", 1,
               Run(u.trees, Forced(u), "main", 1, Blank))).out

-----------------------------------------------------------------------------
(* What reaches the parser is what the unit means: hide sets end every     *)
(* expansion and stop none too early, arguments are replaced on their own, *)
(* only the groups that are chosen are read, and a header that is not read *)
(* again because of its guard would have given nothing.  Only a budget     *)
(* that is exceeded may cut it short, and that is an error.                *)
TooMuch == {"too many tokens", "macro arguments nest too deeply", "#if nests too deeply"}
SameOutput ==
    pp.status = "done" /\ pp.errors \cap TooMuch = {} => pp.out = Meant(unit)

(* A header does not touch the groups of the file that includes it: when   *)
(* it ends they are what they were, whatever groups it opened and left.    *)
HeadersKeepGroups ==
    \A i \in DOMAIN pp.open : IsPrefix(pp.open[i].under, pp.conds)

(* Replacement ends by itself: no name is replaced within what came of it, *)
(* so these units need a bounded number of tokens, and none is cut short   *)
(* under the larger budget.                                                *)
CONSTANT Enough
EndsByItself == pp.given >= Enough => ~pp.aborted
=============================================================================
