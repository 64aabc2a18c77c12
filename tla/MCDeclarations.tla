--------------------------- MODULE MCDeclarations ---------------------------
(***************************************************************************)
(* Units written with seven small vocabularies: the declarations of one    *)
(* object in every scope; those of one function, and its uses, and the     *)
(* inline ones of them at greater length; objects and functions that refer *)
(* to each other; names that hide others, in statements and in blocks      *)
(* within blocks; types.                                                   *)
(***************************************************************************)
EXTENDS Declarations

Uses(names, hows) == {Use(n, how) : n \in names, how \in hows}
Main == Function("main", "none", FALSE, TRUE)
Asm(n) == Use(n, "asm")
Alphabet(items, most, deep, stmts) ==
    [items |-> items, most |-> most, deep |-> deep, stmts |-> stmts]

Objects ==
    Alphabet({Object("x", s, i) : s \in {"none", "static"}, i \in {NoInit, Value, "x"}}
                 \cup {Object("x", "extern", NoInit), Main, Use("x", "value")},
             5, 3, FALSE)

Functions ==
    Alphabet({Function("f", s, i, b) : s \in Storages, i \in BOOLEAN, b \in BOOLEAN}
                 \cup {Main, Asm("f")} \cup Uses({"f"}, {"call", "address"}),
             4, 2, FALSE)

InlineFunctions ==
    Alphabet({Function("f", s, TRUE, b) : s \in {"none", "extern"}, b \in BOOLEAN}
                 \cup {Function("f", "none", FALSE, FALSE), Main}
                 \cup Uses({"f"}, {"call", "address"}),
             5, 2, FALSE)

Edges ==
    Alphabet({Object("x", "static", "y"), Object("y", "extern", NoInit)}
                 \cup {Object("y", s, "f") : s \in {"static", "none"}}
                 \cup {Function("f", "static", FALSE, TRUE), Function("g", "none", TRUE, TRUE)}
                 \cup {Main, Asm("x"), Use("x", "address"), Use("f", "call"), Use("g", "call")},
             7, 2, FALSE)

Hiding ==
    Alphabet({Constant("x", Value), Object("x", "none", NoInit), Object("x", "none", "f"),
              Object("f", "none", "f"), Function("f", "none", FALSE, FALSE), Main}
                 \cup Uses({"x"}, {"value", "address"}) \cup Uses({"f"}, {"address"}),
             5, 3, TRUE)

Types ==
    Alphabet({Typedef("x"), Object("x", "none", NoInit),
              Constant("x", "y"), Constant("y", "x"), Constant("y", Value), Main}
                 \cup Uses({"x"}, {"type", "value"}) \cup Uses({"y"}, {"value"}),
             5, 3, FALSE)

Blocks ==
    Alphabet({Object("x", s, NoInit) : s \in Storages} \cup {Main, Use("x", "value")}, 4, 5, FALSE)

AllAlphabets == {Objects, Functions, InlineFunctions, Edges, Hiding, Types, Blocks}

(* An enumerator at file scope beside a declaration with linkage in a      *)
(* block; one whose value is the size of a type of its own name; and one   *)
(* that hides a type in the condition of a statement.                      *)
Overwritten ==
    Alphabet({Constant("x", Value), Object("x", "extern", NoInit), Main, Use("x", "value")},
             5, 2, FALSE)
NamedAsType == Alphabet({Typedef("x"), Constant("x", "x"), Main}, 4, 2, FALSE)
InCondition == Alphabet({Typedef("x"), Constant("x", Value), Main, Use("x", "type")}, 4, 3, TRUE)
Enumerators == {Overwritten, NamedAsType, InCondition}
=============================================================================
