------------------------------- MODULE CUnit -------------------------------
(***************************************************************************)
(* A translation unit as the C standard reads it, one declaration or use   *)
(* of a name at a time: which earlier declarations are visible (6.2.1),    *)
(* what linkage a declaration has and so which entity it names (6.2.2),    *)
(* what may be declared twice (6.7p3, 6.9), and which names the unit       *)
(* defines for others (6.7.4p7, 6.9.2).                                    *)
(***************************************************************************)
EXTENDS Integers, SequencesExt

VARIABLES unit,     \* the declarations and uses written so far
          blocks    \* the open scopes, innermost last: what was written when
                    \* each began, less than 0 for a statement's, which is no
                    \* block's, and 0 for the file scope
cvars == <<unit, blocks>>

(* What is written.  `inits` is the name in an object's initialiser, or    *)
(* NoInit, or Value; `defines` says that it has an initialiser or a body.  *)
NoInit == "no initialiser"
Value == "a value"
Declaration(what, n, storage, inline, defines, inits) ==
    [what |-> what, name |-> n, storage |-> storage, inline |-> inline,
     defines |-> defines, inits |-> inits]
Object(n, storage, inits) == Declaration("object", n, storage, FALSE, inits # NoInit, inits)
Function(n, storage, inline, body) == Declaration("function", n, storage, inline, body, NoInit)
Constant(n, inits) == Declaration("constant", n, "none", FALSE, TRUE, inits)
Typedef(n) == Declaration("typedef", n, "none", FALSE, TRUE, Value)
Use(n, how) == [what |-> how, name |-> n]

Declares(d) == d.what \in {"object", "function", "constant", "typedef"}
Scope == blocks[Len(blocks)]
Here == <<Len(blocks), Scope>>
FileScope == <<1, 0>>
AtFileScope == Scope = 0
InStatement == Scope < 0

(* The declaration of a name that is visible, or 0.                        *)
Visible(u, n) ==
    Max({0} \cup {j \in DOMAIN u : /\ Declares(u[j]) /\ u[j].name = n
                                   /\ \E k \in DOMAIN blocks : u[j].scope = <<k, blocks[k]>>})

(* 6.2.2p3-6.                                                              *)
Linkage(u, d) ==
    LET prior == Visible(u, d.name)
    IN  IF d.what \in {"constant", "typedef"} \/ (d.what = "object" /\ ~AtFileScope /\ d.storage # "extern")
        THEN "none"
        ELSE IF d.storage = "static" THEN "internal"
        ELSE IF d.what = "object" /\ d.storage = "none" THEN "external"
        ELSE IF prior # 0 /\ u[prior].link # "none" THEN u[prior].link
        ELSE "external"

Linked(d) == Declares(d) /\ d.link # "none"

(* A unit with one more declaration, or one more use of what is visible.   *)
(* A name without linkage is an entity of its own each time.               *)
Declared(u, d) ==
    LET link == Linkage(u, d)
    IN  Append(u, [what |-> d.what, name |-> d.name, storage |-> d.storage,
                   inline |-> d.inline, defines |-> d.defines, inits |-> d.inits,
                   scope |-> Here, link |-> link,
                   entity |-> <<d.name, IF link = "none" THEN Len(u) + 1 ELSE 0>>])

(* A use belongs to what its text is part of: the object declared last, if *)
(* it is in the initialiser of one that lasts, or else the function.       *)
Lasts(d) == d.link # "none" \/ d.storage = "static"
Body(u) == IF AtFileScope THEN <<>> ELSE u[blocks[2]].entity
Owner(u) == IF Lasts(Last(u)) THEN Last(u).entity ELSE Body(u)
Used(u, n, how, from) ==
    Append(u, [what |-> how, name |-> n, entity |-> u[Visible(u, n)].entity, from |-> from])

(* The declaration written last is one C allows: in one scope only linked  *)
(* names are declared twice, a linked name means one thing and has one     *)
(* linkage in the whole unit, and is defined at most once.                 *)
Agrees(u) ==
    LET d == u[Len(u)]
    IN  \A j \in 1 .. Len(u) - 1 :
            Declares(u[j]) /\ u[j].name = d.name =>
                /\ u[j].scope = d.scope => Linked(u[j]) /\ Linked(d)
                /\ Linked(u[j]) /\ Linked(d) =>
                       u[j].what = d.what /\ u[j].link = d.link /\ ~(u[j].defines /\ d.defines)

(* How a name can be used: called, as an address, for its value, as a type.*)
Usable(u, n, how) ==
    /\ Visible(u, n) # 0
    /\ CASE how = "call" -> u[Visible(u, n)].what = "function"
         [] how = "address" -> u[Visible(u, n)].what \in {"object", "function"}
         [] how = "value" -> u[Visible(u, n)].what \in {"object", "constant"}
         [] how = "type" -> u[Visible(u, n)].what = "typedef"

-----------------------------------------------------------------------------
(* The finished unit.                                                      *)

Of(n, what) == {j \in DOMAIN unit : unit[j].what = what /\ unit[j].name = n /\ Linked(unit[j])}
Defining(n, what) == {j \in Of(n, what) : unit[j].defines}
Names == {unit[j].name : j \in DOMAIN unit}
Has(n, link) == \E j \in DOMAIN unit : Linked(unit[j]) /\ unit[j].name = n /\ unit[j].link = link

(* 6.7.4p7: every declaration at file scope is inline and none is extern.  *)
InlineDefinition(n) ==
    LET file == {j \in Of(n, "function") : unit[j].scope = FileScope}
    IN  /\ Has(n, "external") /\ Defining(n, "function") # {}
        /\ \A j \in file : unit[j].inline /\ unit[j].storage # "extern"

(* The names with linkage that the unit defines: functions with a body,    *)
(* and objects that some declaration at file scope does not call extern.   *)
Defined(n) ==
    \/ Defining(n, "function") # {}
    \/ \E j \in Of(n, "object") : unit[j].storage # "extern"

(* What the unit defines for other units.                                  *)
ExternalDefinitions == {n \in Names : Has(n, "external") /\ Defined(n) /\ ~InlineDefinition(n)}

(* What an object file of the unit needs: what it defines for others,      *)
(* whatever has a name that an `asm` mentions, and what those use; no more *)
(* than that, so that it is what all sets have that are closed so.         *)
Asked(named) ==
    {<<n, 0>> : n \in ExternalDefinitions}
        \cup {unit[j].entity : j \in {i \in DOMAIN unit : unit[i].name \in named}}
Needed(named) ==
    LET entities == {unit[j].entity : j \in DOMAIN unit}
        asked    == Asked(named)
        enough   == {es \in SUBSET entities :
                        /\ asked \subseteq es
                        /\ \A j \in DOMAIN unit :
                               ~Declares(unit[j]) /\ unit[j].from \in es => unit[j].entity \in es}
    IN  {e \in entities : \A es \in enough : e \in es}

(* The names it takes from other units.  A call of an inline definition is *)
(* one the unit can make by itself.                                        *)
Taken(named) ==
    LET needed == Needed(named)
    IN  {u.name : u \in {v \in Range(unit) :
            /\ ~Declares(v) /\ v.from \in needed
            /\ v.entity = <<v.name, 0>> /\ Has(v.name, "external")
            /\ v.name \notin ExternalDefinitions
            /\ ~(v.what = "call" /\ InlineDefinition(v.name))}}

(* The unit may end: at file scope, with a body for each function that is  *)
(* inline (6.7.4p7) and for each static one that is used (6.9p3).          *)
MayEnd ==
    /\ AtFileScope
    /\ \A j \in DOMAIN unit :
           LET d == unit[j]
           IN  \/ Declares(d) /\ d.inline
               \/ ~Declares(d) /\ d.entity = <<d.name, 0>> /\ Has(d.name, "internal")
               => Defined(d.name)
=============================================================================
