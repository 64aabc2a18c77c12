---------------------------- MODULE Declarations ----------------------------
(***************************************************************************)
(* What the code makes of a translation unit's declarations: the parser's  *)
(* scopes, which say only whether a name is a type (parse.rs); sema's, and *)
(* its tables of objects and functions (sema/decl.rs, sema/mod.rs),        *)
(* the inline definitions it finds at the end of the unit, the walk that   *)
(* leaves out what an object file does not need (reach.rs), and the items, *)
(* symbols and `extern` block codegen writes (codegen.rs).                 *)
(*                                                                         *)
(* The unit is any that C allows; CUnit reads it beside the code, one      *)
(* declaration or use at a time.                                           *)
(***************************************************************************)
EXTENDS CUnit

CONSTANTS Name,
          Alphabets     \* what a unit is written with; how many of them, in
                        \* scopes how deep, and whether some are statements'

(* What the model writes: declarations without types, uses, and `asm`.     *)
Storages == {"none", "static", "extern"}
Hows == {"call", "address", "value", "type"}
Written(items) ==
    \A d \in items :
        /\ d.name \in Name
        /\ \/ \E s \in Storages, i \in Name \cup {NoInit, Value} :
                  d = Object(d.name, s, i) /\ (s = "extern" => i = NoInit)
           \/ \E s \in Storages, i, b \in BOOLEAN : d = Function(d.name, s, i, b)
           \/ \E i \in Name \cup {Value} : d = Constant(d.name, i)
           \/ d = Typedef(d.name)
           \/ \E how \in Hows \cup {"asm"} : d = Use(d.name, how)
ASSUME AlphabetsAssumption ==
    /\ NoInit \notin Name /\ Value \notin Name
    /\ \A a \in Alphabets : Written(a.items) /\ a.stmts \in BOOLEAN

VARIABLES
    alphabet,
    syms,           \* Parser::scopes: the names that were declared, as what
    scopes,         \* Sema::scopes: what each name denotes
    objects,        \* Program::objects
    functions,      \* Program::functions, with Sema::inline_decls
    externs,        \* Program::externs
    statics,        \* Program::statics
    initialized,    \* Sema::initialized
    templates,      \* Program::global_asm
    within,         \* the function whose body is being checked, or 0
    means,          \* what each declaration and use of `unit` was taken for
    rejected,       \* an error was reported
    reach           \* reach.rs: Reach, with the work-list of its Walk

tables == <<objects, functions, externs, statics, initialized, templates>>
sema == <<syms, scopes, tables, within, means, rejected>>
vars == <<cvars, alphabet, sema, reach>>

-----------------------------------------------------------------------------
(* Scopes.                                                                 *)

Nothing == <<"nothing", 0>>
AnObject(id) == <<"object", id>>
AFunction(id) == <<"function", id>>
AConstant(j) == <<"constant", j>>
AType(j) == <<"typedef", j>>
EmptyScope == [n \in Name |-> Nothing]
NoSyms == [n \in Name |-> "nothing"]

Lookup(ss, n) ==
    LET in == {k \in DOMAIN ss : ss[k][n] # Nothing}
    IN  IF in = {} THEN Nothing ELSE ss[Max(in)][n]
DeclaredHere(n) == scopes[Len(scopes)][n]

(* A faulty LookupLinked: the innermost declaration.                       *)
LookupLinkedInnermost(n) == Lookup(scopes, n)
LookupLinked(n) == scopes[1][n]

(* The parser reads the whole unit before sema does; what it knows at a    *)
(* place is the same, so that here the two go along together.              *)
Declare(n, kind) == [syms EXCEPT ![Len(syms)][n] = kind]
IsTypedefName(ss, n) ==
    LET in == {k \in DOMAIN ss : ss[k][n] # "nothing"}
    IN  in # {} /\ ss[Max(in)][n] = "typedef"
(* A name that only one of the two takes for a type is an error.           *)
ReadAlike(ss, n) == IsTypedefName(ss, n) = (Lookup(scopes, n)[1] = "typedef")

(* A statement with an expression in it is a scope (C99 6.8.4p3) for sema; *)
(* for the parser only a `for` and a block are.                            *)
PushScope(ss, known) ==
    /\ blocks' = Append(blocks, Len(unit) + 1)
    /\ scopes' = Append(ss, EmptyScope) /\ syms' = Append(known, NoSyms)
PushStatement ==
    /\ blocks' = Append(blocks, -(Len(unit) + 1))
    /\ scopes' = Append(scopes, EmptyScope) /\ UNCHANGED syms
PopScope ==
    /\ blocks' = Front(blocks) /\ scopes' = Front(scopes)
    /\ syms' = IF InStatement THEN syms ELSE Front(syms)

Insert(n, e) == [scopes EXCEPT ![Len(scopes)][n] = e]
InsertAtFileScope(n, e) == [scopes EXCEPT ![1][n] = e]

Init ==
    /\ alphabet \in Alphabets
    /\ unit = <<>> /\ blocks = <<0>>
    /\ syms = <<NoSyms>>
    /\ scopes = <<EmptyScope>>
    /\ objects = <<>> /\ functions = <<>>
    /\ externs = {} /\ statics = <<>> /\ initialized = {} /\ templates = {}
    /\ within = 0 /\ means = <<>> /\ rejected = FALSE
    /\ reach = [at |-> "sema", functions |-> {}, objects |-> {}, work |-> {}]

-----------------------------------------------------------------------------
(* Both readings of a declaration d: C's, with the use its initialiser     *)
(* makes of a name ...                                                     *)
NamesAnother(d) == d.inits \notin {NoInit, Value}

CDeclares(d, constant) ==
    LET u == Declared(unit, d)
    IN  /\ ~InStatement /\ Agrees(u)
        /\ IF NamesAnother(d)
           THEN /\ Usable(u, d.inits, "address") /\ (constant => Lasts(u[Visible(u, d.inits)]))
                /\ unit' = Used(u, d.inits, "address", Owner(u))
           ELSE unit' = u

(* ... and sema's: what the declared name and the one in the initialiser   *)
(* are taken for.  The scopes are those the initialiser is checked in.     *)
Refers(ss, d) == IF NamesAnother(d) THEN {<<Lookup(ss, d.inits), "address">>} ELSE {}
Meant(e, ss, d) == means \o <<e>> \o (IF NamesAnother(d) THEN <<Lookup(ss, d.inits)>> ELSE <<>>)
Unresolved(ss, d) == NamesAnother(d) /\ Lookup(ss, d.inits) = Nothing
Redefinition(n) == DeclaredHere(n) # Nothing

-----------------------------------------------------------------------------
(* Objects.                                                                *)

NewObject(n, storage) == Append(objects, [name |-> n, storage |-> storage])
NewId == Len(objects) + 1

(* A static object's item, `init` being the declaration its value is from: *)
(* zero, until an initialiser has been checked.                            *)
Zeroed(id) == [object |-> id, init |-> 0, refers |-> {}]
Initialised(ss, list, id, d) ==
    IF d.inits = NoInit THEN list
    ELSE [k \in DOMAIN list |->
             IF list[k].object = id
             THEN [object |-> id, init |-> Len(unit) + 1, refers |-> Refers(ss, d)]
             ELSE list[k]]

(* A faulty DefinesHere: "Doing nothing at all is what left `extern int x; *)
(* int x;` with an undefined symbol at link time."                         *)
DefinesNothing(id, storage) == FALSE
(* Whether a declaration moves an object out of the `extern` block.        *)
DefinesHere(id, storage) == storage # "static" /\ objects[id].storage = "extern"

(* Another declaration at file scope of an object that is there already.   *)
CompleteTentative(d, id) ==
    LET moves == DefinesHere(id, d.storage)
        list  == IF moves THEN Append(statics, Zeroed(id)) ELSE statics
        twice == d.defines /\ id \in initialized
    IN  /\ objects' = IF moves THEN [objects EXCEPT ![id].storage = "exported"] ELSE objects
        /\ externs' = IF moves THEN externs \ {id} ELSE externs
        /\ statics' = IF twice THEN list ELSE Initialised(scopes, list, id, d)
        /\ initialized' = IF d.defines THEN initialized \cup {id} ELSE initialized
        /\ rejected' = (twice \/ Unresolved(scopes, d))
        /\ means' = Meant(AnObject(id), scopes, d)
        /\ UNCHANGED scopes

(* The name is in scope for its own initialiser.                           *)
NewStatic(d) ==
    LET id == NewId
        ss == Insert(d.name, AnObject(id))
        exported == AtFileScope /\ d.storage # "static"
    IN  /\ scopes' = ss
        /\ objects' = NewObject(d.name, IF exported THEN "exported" ELSE "static")
        /\ statics' = Initialised(ss, Append(statics, Zeroed(id)), id, d)
        /\ initialized' = IF d.defines THEN initialized \cup {id} ELSE initialized
        /\ rejected' = (Redefinition(d.name) \/ Unresolved(ss, d))
        /\ means' = Meant(AnObject(id), ss, d)
        /\ UNCHANGED externs

DeclareStatic(d) ==
    /\ d.what = "object" /\ d.storage # "extern"
    /\ AtFileScope \/ d.storage = "static"
    /\ CDeclares(d, TRUE)
    /\ IF AtFileScope /\ DeclaredHere(d.name)[1] = "object"
       THEN CompleteTentative(d, DeclaredHere(d.name)[2])
       ELSE NewStatic(d)
    /\ syms' = Declare(d.name, "ordinary")
    /\ UNCHANGED <<blocks, functions, templates, within>>

DeclareAutomatic(d) ==
    LET id == NewId
        ss == Insert(d.name, AnObject(id))
    IN  /\ d.what = "object" /\ d.storage = "none" /\ ~AtFileScope
        /\ CDeclares(d, FALSE)
        /\ scopes' = ss
        /\ objects' = NewObject(d.name, "automatic")
        /\ functions' = [functions EXCEPT ![within].uses = @ \cup Refers(ss, d)]
        /\ syms' = Declare(d.name, "ordinary")
        /\ rejected' = (Redefinition(d.name) \/ Unresolved(ss, d))
        /\ means' = Meant(AnObject(id), ss, d)
        /\ UNCHANGED <<blocks, externs, statics, initialized, templates, within>>

(* A name with linkage belongs in the file scope, wherever it is declared. *)
DeclareExtern(d) ==
    LET linked == LookupLinked(d.name)
        new    == AnObject(NewId)
    IN  /\ d.what = "object" /\ d.storage = "extern"
        /\ CDeclares(d, FALSE)
        /\ IF linked[1] = "object"
           THEN /\ scopes' = Insert(d.name, linked)
                /\ means' = Append(means, linked)
                /\ UNCHANGED <<objects, externs>>
           ELSE /\ scopes' = [InsertAtFileScope(d.name, new) EXCEPT ![Len(scopes)][d.name] = new]
                /\ means' = Append(means, new)
                /\ objects' = NewObject(d.name, "extern")
                /\ externs' = externs \cup {NewId}
        /\ syms' = Declare(d.name, "ordinary")
        /\ UNCHANGED <<blocks, functions, statics, initialized, templates, within, rejected>>

(* `enum { n = value };`, where the value may be another enumerator's or   *)
(* the size of a type: both readers do not get to n at the same time.      *)
HowUsed(n) == IF Visible(unit, n) # 0 /\ unit[Visible(unit, n)].what = "typedef" THEN "type" ELSE "value"
DeclareConstant(d) ==
    LET used == IF ~NamesAnother(d) THEN unit
                ELSE Used(unit, d.inits, HowUsed(d.inits), Body(unit))
        new  == AConstant(Len(used) + 1)
    IN  /\ d.what = "constant"
        /\ NamesAnother(d) => /\ Usable(unit, d.inits, HowUsed(d.inits))
                              /\ unit[Visible(unit, d.inits)].what # "object"
        /\ Agrees(Declared(used, d))
        /\ unit' = Declared(used, d)
        /\ syms' = Declare(d.name, "ordinary")
        /\ scopes' = Insert(d.name, new)
        /\ means' = (IF NamesAnother(d) THEN Append(means, Lookup(scopes, d.inits)) ELSE means) \o <<new>>
        /\ rejected' = (Redefinition(d.name) \/ (NamesAnother(d) /\ ~ReadAlike(syms', d.inits)))
        /\ UNCHANGED <<blocks, tables, within>>

DeclareTypedef(d) ==
    LET new == AType(Len(unit) + 1)
    IN  /\ d.what = "typedef"
        /\ CDeclares(d, FALSE)
        /\ rejected' = Redefinition(d.name)
        /\ syms' = Declare(d.name, "typedef")
        /\ scopes' = Insert(d.name, new)
        /\ means' = Append(means, new)
        /\ UNCHANGED <<blocks, tables, within>>

-----------------------------------------------------------------------------
(* Functions.                                                              *)

NewFunction(d) ==
    [name |-> d.name, is_static |-> d.storage = "static", is_inline |-> d.inline,
     body |-> FALSE, uses |-> {}, all_inline |-> TRUE, any_extern |-> FALSE, inline_only |-> FALSE]
Merged(f, d) ==
    [f EXCEPT !.is_static = @ \/ d.storage = "static", !.is_inline = @ \/ d.inline]
(* `inline_decls`: C99 6.7.4p7 reads the declarations at file scope.       *)
Noted(f, d) ==
    IF AtFileScope
    THEN [f EXCEPT !.all_inline = @ /\ d.inline, !.any_extern = @ \/ d.storage = "extern"]
    ELSE f

(* A function's id once d is declared, and whether d is refused instead.   *)
FunctionId(d) ==
    IF Lookup(scopes, d.name)[1] = "function" THEN Lookup(scopes, d.name)[2] ELSE Len(functions) + 1
Refused(d) ==
    \/ Lookup(scopes, d.name)[1] \notin {"nothing", "function"}
    \/ FunctionId(d) \in DOMAIN functions /\ d.defines /\ functions[FunctionId(d)].body

FunctionsWith(d) ==
    LET id == FunctionId(d)
    IN  IF id \in DOMAIN functions
        THEN [functions EXCEPT ![id] = Noted(Merged(@, d), d)]
        ELSE Append(functions, Noted(NewFunction(d), d))
ScopesWith(d) ==
    IF FunctionId(d) \in DOMAIN functions THEN scopes
    ELSE InsertAtFileScope(d.name, AFunction(FunctionId(d)))

DeclareFunction(d) ==
    /\ CDeclares(d, FALSE)
    /\ rejected' = Refused(d)
    /\ functions' = IF Refused(d) THEN functions ELSE FunctionsWith(d)
    /\ means' = Append(means, IF Refused(d) THEN Nothing ELSE AFunction(FunctionId(d)))
    /\ UNCHANGED <<objects, externs, statics, initialized, templates>>

(* In a block, the name must not mean something else there: C allows it to,*)
(* and the code does not.                                                  *)
Prototype(d) ==
    /\ d.what = "function" /\ ~d.defines
    /\ \/ AtFileScope
       \/ /\ d.storage # "static" /\ ~d.inline
          /\ Visible(unit, d.name) # 0 => unit[Visible(unit, d.name)].what = "function"
    /\ DeclareFunction(d)
    /\ scopes' = IF Refused(d) THEN scopes ELSE ScopesWith(d)
    /\ syms' = Declare(d.name, "ordinary")
    /\ UNCHANGED <<blocks, within>>

(* A definition, as far as the scope of its body ...                       *)
BeginFunction(d) ==
    /\ d.what = "function" /\ d.defines /\ AtFileScope
    /\ DeclareFunction(d)
    /\ IF Refused(d) THEN UNCHANGED <<blocks, syms, scopes, within>>
       ELSE PushScope(ScopesWith(d), Declare(d.name, "ordinary")) /\ within' = FunctionId(d)

(* ... and when the body has been checked.                                 *)
EndFunction ==
    /\ Len(blocks) = 2
    /\ PopScope
    /\ functions' = [functions EXCEPT ![within].body = TRUE]
    /\ within' = 0
    /\ UNCHANGED <<unit, objects, externs, statics, initialized, templates, means, rejected>>

OpenBlock ==
    /\ Len(blocks) \in 2 .. alphabet.deep - 1
    /\ PushScope(scopes, syms)
    /\ UNCHANGED <<unit, tables, within, means, rejected>>
OpenStatement ==
    /\ alphabet.stmts /\ Len(blocks) \in 2 .. alphabet.deep - 1
    /\ PushStatement
    /\ UNCHANGED <<unit, tables, within, means, rejected>>
Close ==
    /\ Len(blocks) > 2
    /\ PopScope
    /\ UNCHANGED <<unit, tables, within, means, rejected>>

(* A name in an expression.                                                *)
Mention(d) ==
    LET e == Lookup(scopes, d.name)
    IN  /\ d.what \in Hows /\ ~AtFileScope
        /\ Usable(unit, d.name, d.what)
        /\ unit' = Used(unit, d.name, d.what, Body(unit))
        /\ means' = Append(means, e)
        /\ rejected' = (e = Nothing \/ ~ReadAlike(syms, d.name))
        /\ functions' = [functions EXCEPT ![within].uses = @ \cup {<<e, d.what>>}]
        /\ UNCHANGED <<blocks, syms, scopes, objects, externs, statics, initialized, templates, within>>

(* A file-scope `asm` that names something of the unit's.                  *)
Assemble(d) ==
    /\ d.what = "asm" /\ AtFileScope
    /\ templates' = templates \cup {d.name}
    /\ UNCHANGED <<cvars, syms, scopes, objects, functions, externs, statics, initialized,
                   within, means, rejected>>

Write(d) ==
    \/ DeclareStatic(d) \/ DeclareAutomatic(d) \/ DeclareExtern(d) \/ DeclareConstant(d)
    \/ DeclareTypedef(d) \/ Prototype(d) \/ BeginFunction(d) \/ Mention(d) \/ Assemble(d)

-----------------------------------------------------------------------------
(* The end of the unit.                                                    *)

(* Inline definitions provide no external definition.                      *)
Classified(f) ==
    [f EXCEPT !.inline_only = f.body /\ ~f.is_static /\ f.is_inline /\ f.all_inline /\ ~f.any_extern]

(* What the linker sees, and what an `asm` may name.                       *)
LinkerSeesFunction(f) == f.body /\ ~f.is_static /\ ~f.inline_only
LinkerSeesObject(object) == object.storage = "exported"
StaticObjects == {statics[k].object : k \in DOMAIN statics}
Roots(table) ==
    {AFunction(id) : id \in {i \in DOMAIN table :
                                LinkerSeesFunction(table[i]) \/ table[i].name \in templates}}
    \cup {AnObject(id) : id \in {i \in DOMAIN objects :
                                \/ i \in StaticObjects /\ LinkerSeesObject(objects[i])
                                \/ objects[i].storage # "automatic" /\ objects[i].name \in templates}}

(* Walk::function and Walk::object: what is seen first is walked, if there *)
(* is a body or an initialiser to walk.                                    *)
Seen(r, table, entries) ==
    LET fs == {e[2] : e \in {x \in entries : x[1] = "function"}} \ r.functions
        os == {e[2] : e \in {x \in entries : x[1] = "object"}} \ r.objects
    IN  [r EXCEPT !.functions = @ \cup fs, !.objects = @ \cup os,
                  !.work = @ \cup {AFunction(id) : id \in {i \in fs : table[i].body}}
                             \cup {AnObject(id) : id \in os \cap StaticObjects}]

EndUnit ==
    /\ MayEnd
    /\ LET table == [id \in DOMAIN functions |-> Classified(functions[id])]
       IN  /\ functions' = table
           /\ reach' = Seen([reach EXCEPT !.at = "walk"], table, Roots(table))
    /\ UNCHANGED <<cvars, syms, scopes, objects, externs, statics, initialized, templates,
                   within, means, rejected>>

RefersTo(id) == UNION {statics[k].refers : k \in {j \in DOMAIN statics : statics[j].object = id}}
Entries(uses) == {u[1] : u \in uses}

(* A faulty FoundIn: initialisers are not walked.                          *)
FoundInBodies(item) == IF item[1] = "function" THEN Entries(functions[item[2]].uses) ELSE {}
FoundIn(item) ==
    Entries(IF item[1] = "function" THEN functions[item[2]].uses ELSE RefersTo(item[2]))

(* The work-list is a stack; here it is taken from in any order.           *)
Walk ==
    /\ reach.at = "walk"
    /\ \E item \in reach.work :
           reach' = Seen([reach EXCEPT !.work = @ \ {item}], functions, FoundIn(item))
    /\ UNCHANGED <<cvars, sema>>

Next ==
    /\ ~rejected
    /\ UNCHANGED alphabet
    /\ \/ /\ reach.at = "sema"
          /\ \/ /\ Len(unit) < alphabet.most
                /\ \E d \in alphabet.items : Write(d)
                /\ UNCHANGED reach
             \/ (EndFunction \/ OpenBlock \/ OpenStatement \/ Close) /\ UNCHANGED reach
             \/ EndUnit
       \/ Walk

Spec == Init /\ [][Next]_vars

-----------------------------------------------------------------------------
(* What is generated for an object file.                                   *)

Done == reach.at = "walk" /\ reach.work = {} /\ ~rejected

FunctionItems == {id \in reach.functions : functions[id].body}
StaticItems == {k \in DOMAIN statics : statics[k].object \in reach.objects}
(* What their Rust names.                                                  *)
Tokens ==
    UNION ({functions[id].uses : id \in FunctionItems} \cup {statics[k].refers : k \in StaticItems})

(* A call of an inline definition is of the private copy, its address is   *)
(* the symbol.                                                             *)
Private(e, how) == functions[e[2]].inline_only /\ how = "call"
ExternFunctions ==
    {id \in DOMAIN functions :
        /\ ~functions[id].body \/ functions[id].inline_only
        /\ \E t \in Tokens : t[1] = AFunction(id) /\ ~Private(t[1], t[2])}
ExternObjects == {id \in externs : \E t \in Tokens : t[1] = AnObject(id)}

Exported ==
    {functions[id].name : id \in {i \in FunctionItems : LinkerSeesFunction(functions[i])}}
    \cup {objects[statics[k].object].name :
             k \in {j \in StaticItems : LinkerSeesObject(objects[statics[j].object])}}
Imported ==
    {functions[id].name : id \in ExternFunctions} \cup {objects[id].name : id \in ExternObjects}

-----------------------------------------------------------------------------
(* Two names written in the unit are taken for one object or function, in  *)
(* whichever scopes they are, exactly when C has them mean the same; and   *)
(* no declaration or use C allows is refused.                              *)
MeansTheSame ==
    /\ ~rejected
    /\ \A i, j \in DOMAIN unit : (means[i] = means[j]) = (unit[i].entity = unit[j].entity)

(* The symbols of the object file are the unit's: it defines what C says   *)
(* the unit defines for others, each object once and with the initialiser  *)
(* its declarations gave it, and imports what it uses and does not define. *)
SymbolsAsC ==
    Done =>
        /\ Exported = ExternalDefinitions
        /\ Imported = Taken(templates)
        /\ \A j \in DOMAIN unit :
               unit[j].what = "object" /\ Linked(unit[j]) /\ Defined(unit[j].name) =>
                   \E k \in DOMAIN statics :
                       /\ {m \in DOMAIN statics : AnObject(statics[m].object) = means[j]} = {k}
                       /\ statics[k].init = Max({0} \cup Defining(unit[j].name, "object"))

(* What is left out is never missed: every name in a generated item has an *)
(* item or a declaration, and so has every definition an `asm` names.      *)
Closed ==
    Done =>
        /\ \A t \in Tokens :
               CASE t[1][1] = "function" ->
                        t[1][2] \in ExternFunctions \cup
                            {id \in FunctionItems : ~functions[id].inline_only \/ t[2] = "call"}
                 [] t[1][1] = "object" ->
                        \/ objects[t[1][2]].storage = "automatic"
                        \/ t[1][2] \in ExternObjects \cup {statics[k].object : k \in StaticItems}
                 [] OTHER -> TRUE
        /\ \A n \in templates :
               /\ Defining(n, "function") # {} => \E id \in FunctionItems : functions[id].name = n
               /\ Of(n, "object") # {} /\ Defined(n) =>
                     \E k \in StaticItems : objects[statics[k].object].name = n
=============================================================================
