----------------------------- MODULE Preprocess -----------------------------
(***************************************************************************)
(* The preprocessor (pp.rs): one struct, `Pp`, that reads the files of a   *)
(* translation unit, obeys their directives and replaces macros by pushing *)
(* each replacement back in front of what is still to be read.             *)
(*                                                                         *)
(* A spelling is a sequence of letters, digits or other marks: <<"A">> is  *)
(* a name, <<"A", "1">> what pasting makes of two.  A file is a sequence   *)
(* of elements: a token of text, [text |-> spelling], or a directive,      *)
(* [dir |-> ...], which in the source is the tokens of one line.           *)
(***************************************************************************)
EXTENDS IfExpr, SequencesExt, FiniteSets

CONSTANTS Units,                \* [files, forced]: a unit's files by their keys
          Budgets,              \* values of MAX_EXPANDED_TOKENS
          MaxExpansionDepth,    \* arguments within arguments
          MaxIncludeDepth       \* files open at once

VARIABLES unit, pp

vars == <<unit, pp>>

Digits == DOMAIN DigitValue

(* Tokens.                                                                 *)
LParen == <<"(">>
RParen == <<")">>
Comma  == <<",">>
Hash   == <<"#">>
Paste  == <<"##">>
VaArgs == <<"__VA_ARGS__">>
Quote  == "\""

IsName(sp) == sp # <<>> /\ (sp[1] \in Letters \/ sp = VaArgs)
IsWord(sp) == sp # <<>> /\ sp[1] \in Letters \cup Digits
Fresh(sp) == [sp |-> sp, hide |-> {}]
Placemarker == Fresh(<<>>)

(* `MacroDef`: `params` and `variadic` matter when it is function-like;    *)
(* `site` says whose header the definition was written in.                 *)
ParamIndex(def, sp) ==
    IF ~def.fn THEN 0
    ELSE IF def.variadic /\ sp = VaArgs THEN Len(def.params) + 1
    ELSE IF sp \in Range(def.params) THEN CHOOSE k \in DOMAIN def.params : def.params[k] = sp
    ELSE 0

At(body, i) == IF i \in DOMAIN body THEN body[i] ELSE <<>>

(* `check_body`: what a replacement list may not be.                       *)
BadBody(def) ==
    \/ At(def.body, 1) = Paste
    \/ Len(def.body) > 1 /\ Last(def.body) = Paste
    \/ \E i \in DOMAIN def.body :
          \/ def.fn /\ def.body[i] = Hash /\ ParamIndex(def, At(def.body, i + 1)) = 0
          \/ def.body[i] = VaArgs /\ ParamIndex(def, VaArgs) = 0

-----------------------------------------------------------------------------
(* Reading.  `pending` is what macro replacement produced, the next token  *)
(* first; a file is read only when it is empty.                            *)
File(st) == Last(st.open)
Elements(st) == unit.files[File(st).key]
AtEof(st) == File(st).pos > Len(Elements(st))
Ahead(st) == Elements(st)[File(st).pos]
AtDirective(st) == ~AtEof(st) /\ "dir" \in DOMAIN Ahead(st)
Skipping(st) == st.conds # <<>> /\ ~Last(st.conds).active
Advance(st) == [st EXCEPT !.open[Len(st.open)].pos = @ + 1]
Error(st, what) == [st EXCEPT !.errors = @ \cup {what}]
Abort(st, what) ==
    IF st.aborted THEN st ELSE [Error(st, what) EXCEPT !.aborted = TRUE]

(* `peek` and `bump`, which may be kept from reading the file.             *)
OpensList(st, input) ==
    IF st.pending # <<>> THEN Head(st.pending).sp = LParen
    ELSE input /\ ~AtEof(st) /\ ~AtDirective(st) /\ Ahead(st).text = LParen

NextToken(st) == IF st.pending # <<>> THEN Head(st.pending) ELSE Fresh(Ahead(st).text)
Bump(st) == IF st.pending # <<>> THEN [st EXCEPT !.pending = Tail(@)] ELSE Advance(st)

-----------------------------------------------------------------------------
(* Replacement lists.                                                      *)
Flat(toks) == FlattenSeq([i \in DOMAIN toks |-> toks[i].sp])
Stringify(arg) == <<Quote>> \o Flat(arg) \o <<Quote>>

(* `paste_pieces`: the last piece so far and the first of `rhs` become one *)
(* token, unless their spellings make none, which is an error that leaves  *)
(* both.                                                                   *)
Joins(l, r) == l = <<>> \/ r = <<>> \/ (IsWord(l) /\ IsWord(r))
PastePieces(pieces, rhs) ==
    IF pieces = <<>> \/ ~Joins(Last(pieces).sp, Head(rhs).sp) THEN pieces \o rhs
    ELSE Append(Front(pieces),
                [sp   |-> Last(pieces).sp \o Head(rhs).sp,
                 hide |-> IF Last(pieces).sp = <<>> THEN Head(rhs).hide ELSE Last(pieces).hide])
           \o Tail(rhs)

BadPaste(pieces, rhs) == pieces # <<>> /\ ~Joins(Last(pieces).sp, Head(rhs).sp)

OrPlacemarker(toks) == IF toks = <<>> THEN <<Placemarker>> ELSE toks

PasteOperand(def, args, sp) ==
    IF ParamIndex(def, sp) = 0 THEN <<Fresh(sp)>>
    ELSE OrPlacemarker(args[ParamIndex(def, sp)])

(* A faulty Hiding: what an expansion made may be replaced again.          *)
HidingNothing(pieces, hide) == SelectSeq(pieces, LAMBDA t : t.sp # <<>>)

(* What `subst` hands back: the pieces that are tokens, each hiding what   *)
(* the expansion hides.                                                    *)
Hiding(pieces, hide) ==
    SelectSeq([i \in DOMAIN pieces |-> [pieces[i] EXCEPT !.hide = @ \cup hide]],
              LAMBDA t : t.sp # <<>>)

(* `push_pending`, under the budget of tokens.                             *)
PushPending(st, toks) ==
    IF st.budget < Len(toks) THEN Abort(st, "too many tokens")
    ELSE [st EXCEPT !.budget = @ - Len(toks), !.pending = toks \o @]

ArityOk(def, given) ==
    IF def.variadic THEN given >= Len(def.params) ELSE given = Len(def.params)

Pad(def, args) ==
    IF def.variadic /\ Len(args) = Len(def.params) THEN Append(args, <<>>) ELSE args

-----------------------------------------------------------------------------
(* Conditionals and files, apart from the evaluation of an `#if`.          *)
PushCond(st, outer, value) ==
    [st EXCEPT !.conds = Append(@, [outer_active |-> outer, taken |-> value,
                                    active |-> outer /\ value, seen_else |-> FALSE])]
OpenCond(t) == PushCond(t.st, TRUE, t.value)

MayElif(st) == st.conds # <<>> /\ ~Last(st.conds).seen_else
MustTest(st) == Last(st.conds).outer_active /\ ~Last(st.conds).taken
Branch(t) == [t.st EXCEPT !.conds = Append(Front(@),
                     [Last(@) EXCEPT !.active = t.value, !.taken = @ \/ t.value])]

Else(st) ==
    IF st.conds = <<>> THEN Error(st, "#else without #if")
    ELSE IF Last(st.conds).seen_else THEN Error(st, "#else after #else")
    ELSE [st EXCEPT !.conds = Append(Front(@),
             [Last(@) EXCEPT !.seen_else = TRUE, !.taken = TRUE,
                             !.active = MustTest(st)])]

Endif(st) ==
    IF st.conds = <<>> THEN Error(st, "#endif without #if")
    ELSE [st EXCEPT !.conds = Front(@)]

WithMacro(macros, name, def) == [n \in DOMAIN macros \cup {name} |->
                                 IF n = name THEN def ELSE macros[n]]
WithoutMacro(macros, name) == [n \in DOMAIN macros \ {name} |-> macros[n]]

(* A macro of the platform's headers stands when a bundled one differs.    *)
StandsAside(d, previous) ==
    /\ previous.site = "platform" /\ d.def.site = "bundled"
    /\ [d.def EXCEPT !.site = previous.site] # previous

Define(st, d) ==
    IF BadBody(d.def) THEN Error(st, "bad replacement list")
    ELSE IF d.name \in DOMAIN st.macros /\ StandsAside(d, st.macros[d.name]) THEN st
    ELSE [st EXCEPT !.macros = WithMacro(@, d.name, d.def)]
Undef(st, d) == [st EXCEPT !.macros = WithoutMacro(@, d.name)]

(* push_macro saves a definition, or that there is none.                   *)
PushMacro(st, d) ==
    [st EXCEPT !.stacks = Append(@, [name |-> d.name, had |-> d.name \in DOMAIN st.macros,
                                     def |-> IF d.name \in DOMAIN st.macros
                                             THEN st.macros[d.name] ELSE 0])]
Saved(st, d) == {i \in DOMAIN st.stacks : st.stacks[i].name = d.name}
PopMacroAt(st, i) ==
    [st EXCEPT !.stacks = RemoveAt(@, i),
               !.macros = IF st.stacks[i].had THEN WithMacro(@, st.stacks[i].name, st.stacks[i].def)
                          ELSE WithoutMacro(@, st.stacks[i].name)]
PopMacro(st, d) ==
    IF Saved(st, d) = {} THEN st
    ELSE PopMacroAt(st, CHOOSE i \in Saved(st, d) : \A j \in Saved(st, d) : j <= i)

(* `detect_include_guard`.                                                 *)
DirAt(elements, i) ==
    IF i \in DOMAIN elements /\ "dir" \in DOMAIN elements[i] THEN elements[i].dir ELSE "none"
Depth(elements, i) ==
    Cardinality({j \in 1 .. i : DirAt(elements, j) \in {"if", "ifdef", "ifndef"}})
      - Cardinality({j \in 1 .. i : DirAt(elements, j) = "endif"})
(* A faulty Guards: text may follow the #endif.                            *)
GuardsAnyEnd(elements) ==
    IF /\ DirAt(elements, 1) = "ifndef" /\ DirAt(elements, 2) = "define"
       /\ elements[1].name = elements[2].name
    THEN {elements[1].name} ELSE {}

Guards(elements) ==
    IF /\ DirAt(elements, 1) = "ifndef" /\ DirAt(elements, 2) = "define"
       /\ elements[1].name = elements[2].name
       /\ \A i \in DOMAIN elements :
             DirAt(elements, i) = "endif" /\ Depth(elements, i) = 0 => i = Len(elements)
       /\ Depth(elements, Len(elements)) = 0 /\ DirAt(elements, Len(elements)) = "endif"
    THEN {elements[1].name} ELSE {}

(* `under` is not in the source: the groups that were open when the file   *)
(* was entered, of which the source keeps the number.                      *)
OpenFile(st, key) ==
    [st EXCEPT !.guards[key] = Guards(unit.files[key]),
               !.open = Append(@, [key |-> key, pos |-> 1, cond_base |-> Len(st.conds),
                                   under |-> st.conds])]

Include(st, key) ==
    IF Len(st.open) >= MaxIncludeDepth THEN Error(st, "#include nested too deeply")
    ELSE IF key \in st.once THEN st
    ELSE IF st.guards[key] \cap DOMAIN st.macros # {} THEN st
    ELSE OpenFile(st, key)

(* The files named by -include are read before the unit's own first line.  *)
OpenForcedInclude(st) ==
    IF Len(st.open) = 1 /\ st.forced # <<>>
    THEN OpenFile([st EXCEPT !.forced = Tail(@)], Head(st.forced))
    ELSE st

-----------------------------------------------------------------------------
(* Macro replacement: `try_expand` and what it calls.  They take the state *)
(* and give the next one, as the methods do with `&mut self`; `collect_args`  *)
(* obeys the directives that stand between the arguments.                  *)
RECURSIVE TryExpand(_, _, _), CollectArgs(_, _, _, _, _), Subst(_, _, _, _, _),
          ExpandLoop(_, _), Directive(_)

(* `tok` may be replaced, if a list of arguments follows where one must.   *)
Replaceable(st, tok) ==
    ~st.aborted /\ IsName(tok.sp) /\ tok.sp \notin tok.hide /\ tok.sp \in DOMAIN st.macros

Finished(r, saved) ==
    [toks |-> r.toks, st |-> [r.st EXCEPT !.pending = saved, !.depth = @ - 1]]

(* `expand_padded`: an argument is replaced as if it were all there is.    *)
ExpandPadded(st, toks) ==
    IF toks = <<>> THEN [toks |-> toks, st |-> st]
    ELSE IF st.depth >= MaxExpansionDepth
         THEN [toks |-> toks, st |-> Abort(st, "macro arguments nest too deeply")]
    ELSE Finished(ExpandLoop([st EXCEPT !.pending = toks, !.depth = @ + 1], <<>>), st.pending)

NextOf(r, tok, out) == ExpandLoop(r.st, IF r.done THEN out ELSE Append(out, tok))
ExpandLoop(st, out) ==
    IF st.pending = <<>> THEN [toks |-> out, st |-> st]
    ELSE NextOf(TryExpand([st EXCEPT !.pending = Tail(@)], Head(st.pending), FALSE),
                Head(st.pending), out)

(* `expanded_arg`: once for each argument, on its first use.               *)
Expanded(st, arg) ==
    IF arg.done THEN [toks |-> arg.expanded, st |-> st] ELSE ExpandPadded(st, arg.raw)
Keep(args, k, toks) == [args EXCEPT ![k].done = TRUE, ![k].expanded = toks]

Raw(args) == [k \in DOMAIN args |-> args[k].raw]

(* `subst` from the `i`-th token of the replacement list on.               *)
SubstExpanded(r, def, args, i, k, pieces) ==
    Subst(r.st, def, Keep(args, k, r.toks), i + 1, pieces \o r.toks)
SubstPaste(st, def, args, i, pieces, rhs) ==
    Subst(IF BadPaste(pieces, rhs) THEN Error(st, "bad paste") ELSE st,
          def, args, i + 2, PastePieces(pieces, rhs))

IsStringify(def, i) ==
    def.fn /\ def.body[i] = Hash /\ ParamIndex(def, At(def.body, i + 1)) # 0
IsElision(def, i) ==
    /\ def.body[i] = Comma /\ At(def.body, i + 1) = Paste
    /\ def.fn /\ def.variadic /\ At(def.body, i + 2) = VaArgs

Subst(st, def, args, i, pieces) ==
    IF i > Len(def.body) THEN [toks |-> pieces, st |-> st]
    ELSE IF IsStringify(def, i) THEN
        Subst(st, def, args, i + 2,
              Append(pieces, Fresh(Stringify(args[ParamIndex(def, def.body[i + 1])].raw))))
    ELSE IF IsElision(def, i) THEN
        Subst(st, def, args, i + 3,
              IF Last(args).raw = <<>> THEN pieces
              ELSE Append(pieces, Fresh(Comma)) \o Last(args).raw)
    ELSE IF def.body[i] = Paste /\ i < Len(def.body) THEN
        SubstPaste(st, def, args, i, pieces, PasteOperand(def, Raw(args), def.body[i + 1]))
    ELSE IF ParamIndex(def, def.body[i]) = 0 THEN
        Subst(st, def, args, i + 1, Append(pieces, Fresh(def.body[i])))
    ELSE IF At(def.body, i + 1) = Paste THEN
        Subst(st, def, args, i + 1,
              pieces \o OrPlacemarker(args[ParamIndex(def, def.body[i])].raw))
    ELSE SubstExpanded(Expanded(st, args[ParamIndex(def, def.body[i])]), def, args, i,
                       ParamIndex(def, def.body[i]), pieces)

(* `collect_args`: after the list's parenthesis.  Read from the file, the  *)
(* arguments may have directives among them, and groups that are skipped.  *)
IntoArg(args, tok) == [args EXCEPT ![Len(args)] = Append(@, tok)]
NoArgs(def, args) == ~def.variadic /\ def.params = <<>> /\ args = <<<<>>>>

CollectArgs(st, def, input, args, depth) ==
    IF input /\ st.pending = <<>> /\ AtDirective(st) THEN
        CollectArgs(Directive(st), def, input, args, depth)
    ELSE IF st.pending = <<>> /\ (~input \/ AtEof(st)) THEN
        [ok |-> FALSE, st |-> Error(st, "unterminated argument list")]
    ELSE IF st.pending = <<>> /\ Skipping(st) THEN
        CollectArgs(Advance(st), def, input, args, depth)
    ELSE IF NextToken(st).sp = RParen /\ depth = 0 THEN
        [ok |-> TRUE, st |-> Bump(st), rparen |-> NextToken(st),
         args |-> IF NoArgs(def, args) THEN <<>> ELSE args]
    ELSE IF NextToken(st).sp = Comma /\ depth = 0
              /\ (~def.variadic \/ Len(args) <= Len(def.params)) THEN
        CollectArgs(Bump(st), def, input, Append(args, <<>>), depth)
    ELSE CollectArgs(Bump(st), def, input, IntoArg(args, NextToken(st)),
                     CASE NextToken(st).sp = LParen -> depth + 1
                       [] NextToken(st).sp = RParen -> depth - 1
                       [] OTHER -> depth)

Pushed(r, hide) == [done |-> TRUE, st |-> PushPending(r.st, Hiding(r.toks, hide))]
Args(raw) == [k \in DOMAIN raw |-> [raw |-> raw[k], done |-> FALSE, expanded |-> <<>>]]

Invoke(c, tok, def) ==
    IF ~c.ok THEN [done |-> TRUE, st |-> c.st]
    ELSE IF ~ArityOk(def, Len(c.args)) THEN [done |-> TRUE, st |-> Error(c.st, "wrong arity")]
    ELSE Pushed(Subst(c.st, def, Args(Pad(def, c.args)), 1, <<>>),
                (tok.hide \cap c.rparen.hide) \cup {tok.sp})

TryExpand(st, tok, input) ==
    IF ~Replaceable(st, tok) THEN [done |-> FALSE, st |-> st]
    ELSE IF ~st.macros[tok.sp].fn THEN
        Pushed(Subst(st, st.macros[tok.sp], <<>>, 1, <<>>), tok.hide \cup {tok.sp})
    ELSE IF ~OpensList(st, input) THEN [done |-> FALSE, st |-> st]
    ELSE Invoke(CollectArgs(Bump(st), st.macros[tok.sp], input, <<<<>>>>, 0),
                tok, st.macros[tok.sp])

-----------------------------------------------------------------------------
(* Directives.  In an #if `defined` is answered before macros are replaced, *)
(* and after, if one of them made it.                                      *)
Defined == <<"defined">>
Spellings(toks) == [i \in DOMAIN toks |-> toks[i].sp]
NameAt(toks) == IF At(Spellings(toks), 2) = LParen THEN 3 ELSE 2
AfterDefined(toks) == SubSeq(toks, 2 * NameAt(toks) - 1, Len(toks))
RECURSIVE Misasked(_), ResolveDefined(_, _)
Misasked(toks) ==
    IF toks = <<>> THEN FALSE
    ELSE IF Head(toks).sp # Defined THEN Misasked(Tail(toks))
    ELSE \/ ~IsName(At(Spellings(toks), NameAt(toks)))
         \/ NameAt(toks) = 3 /\ At(Spellings(toks), 4) # RParen
         \/ Misasked(AfterDefined(toks))
ResolveDefined(st, toks) ==
    IF toks = <<>> THEN toks
    ELSE IF Head(toks).sp # Defined THEN <<Head(toks)>> \o ResolveDefined(st, Tail(toks))
    ELSE <<[sp |-> IF toks[NameAt(toks)].sp \in DOMAIN st.macros THEN <<"1">> ELSE <<"0">>,
            hide |-> Head(toks).hide \cup {Defined}]>> \o ResolveDefined(st, AfterDefined(toks))

(* `Truth` of an Eval, and an `#if` that names nothing to its `defined`.   *)
Truth(r, st) ==
    [value |-> ~r.bad /\ r.v # 0,
     st |-> IF r.deep THEN Error(st, "#if nests too deeply")
            ELSE IF r.bad THEN Error(st, "bad #if") ELSE st]
Unanswered(st) == [value |-> FALSE, st |-> Error(st, "bad defined")]

EvalCondition(r) ==
    IF Misasked(r.toks) THEN Unanswered(r.st)
    ELSE Truth(Eval(Spellings(ResolveDefined(r.st, r.toks))), r.st)
EvalLine(st, toks) ==
    IF Misasked(toks) THEN Unanswered(st)
    ELSE EvalCondition(ExpandPadded(st, ResolveDefined(st, toks)))

Test(st, d) ==
    CASE d.dir \in {"ifdef", "elifdef"} -> [value |-> d.name \in DOMAIN st.macros, st |-> st]
      [] d.dir = "ifndef" -> [value |-> d.name \notin DOMAIN st.macros, st |-> st]
      [] OTHER -> EvalLine(st, [i \in DOMAIN d.toks |-> Fresh(d.toks[i])])

Elif(st, d) ==
    IF ~MayElif(st) THEN Error(st, "misplaced #elif")
    ELSE Branch(IF MustTest(st) THEN Test(st, d) ELSE [value |-> FALSE, st |-> st])

Act(st, d) ==
    CASE d.dir = "define"  -> Define(st, d)
      [] d.dir = "undef"   -> Undef(st, d)
      [] d.dir = "include" -> Include(st, d.key)
      [] d.dir = "once"    -> [st EXCEPT !.once = @ \cup {File(st).key}]
      [] d.dir = "push_macro" -> PushMacro(st, d)
      [] d.dir = "pop_macro"  -> PopMacro(st, d)

(* A faulty Obey: a skipped group hides even an #if.                       *)
ObeyUntracked(st, d) ==
    CASE d.dir \in {"if", "ifdef", "ifndef"} -> IF Skipping(st) THEN st ELSE OpenCond(Test(st, d))
      [] d.dir \in {"elif", "elifdef"} -> Elif(st, d)
      [] d.dir = "else"  -> Else(st)
      [] d.dir = "endif" -> Endif(st)
      [] OTHER -> IF Skipping(st) THEN st ELSE Act(st, d)

(* In a skipped group only the conditionals are tracked.                   *)
Obey(st, d) ==
    CASE d.dir \in {"if", "ifdef", "ifndef"} ->
             IF Skipping(st) THEN PushCond(st, FALSE, FALSE) ELSE OpenCond(Test(st, d))
      [] d.dir \in {"elif", "elifdef"} -> Elif(st, d)
      [] d.dir = "else"  -> Else(st)
      [] d.dir = "endif" -> Endif(st)
      [] OTHER -> IF Skipping(st) THEN st ELSE Act(st, d)

Directive(st) == Obey(Advance(st), Ahead(st))

-----------------------------------------------------------------------------
(* The main loop, `run`: what is at the front decides its next step.       *)
Start(budget) ==
    [open |-> <<[key |-> "main", pos |-> 1, cond_base |-> 0, under |-> <<>>]>>,
     pending |-> <<>>, out |-> <<>>, conds |-> <<>>, macros |-> <<>>, stacks |-> <<>>,
     once |-> {}, guards |-> [key \in DOMAIN unit.files |-> {}], forced |-> unit.forced,
     given |-> budget, budget |-> budget, depth |-> 0, aborted |-> FALSE, errors |-> {}, status |-> "running"]

Init ==
    /\ unit \in Units
    /\ \E budget \in Budgets : pp = OpenForcedInclude(Start(budget))

Idle == pp.status = "running" /\ pp.pending = <<>>

(* `close_file`, and `open_forced_include` again.  A group is left over    *)
(* when the file is: `drain` takes them, and panics if there are fewer     *)
(* than when the file was entered.                                         *)
Unterminated(st, base) ==
    IF Len(st.conds) > base THEN {"unterminated conditional"} ELSE {}

Left(st) ==
    IF File(st).cond_base > Len(st.conds) THEN [st EXCEPT !.status = "panicked"]
    ELSE [st EXCEPT !.errors = @ \cup Unterminated(st, File(st).cond_base),
                  !.conds = SubSeq(@, 1, File(st).cond_base), !.open = Front(@)]

CloseFile ==
    /\ Idle /\ AtEof(pp) /\ Len(pp.open) > 1
    /\ pp' = OpenForcedInclude(Left(pp))
    /\ UNCHANGED unit

Finish ==
    /\ Idle /\ AtEof(pp) /\ Len(pp.open) = 1
    /\ pp' = [pp EXCEPT !.errors = @ \cup Unterminated(pp, 0),
                        !.conds = <<>>, !.status = "done"]
    /\ UNCHANGED unit

ObeyDirective ==
    /\ Idle /\ AtDirective(pp)
    /\ pp' = Directive(pp)
    /\ UNCHANGED unit

SkipToken ==
    /\ Idle /\ ~AtEof(pp) /\ ~AtDirective(pp) /\ Skipping(pp)
    /\ pp' = Advance(pp)
    /\ UNCHANGED unit

(* A token of text is replaced or goes to the parser.                      *)
Emitted(r, tok) == IF r.done THEN r.st ELSE [r.st EXCEPT !.out = Append(@, tok.sp)]

ReadToken ==
    /\ pp.status = "running"
    /\ Idle => ~AtEof(pp) /\ ~AtDirective(pp) /\ ~Skipping(pp)
    /\ pp' = Emitted(TryExpand(Bump(pp), NextToken(pp), TRUE), NextToken(pp))
    /\ UNCHANGED unit

Ended == pp.status # "running" /\ UNCHANGED vars

Next == CloseFile \/ Finish \/ ObeyDirective \/ SkipToken \/ ReadToken \/ Ended

Spec == Init /\ [][Next]_vars
=============================================================================
