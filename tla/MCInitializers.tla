--------------------------- MODULE MCInitializers ---------------------------
(***************************************************************************)
(* Objects of every kind, with the items their lists are made of.          *)
(***************************************************************************)
EXTENDS Initializers

V == Value(IntType)
Plain(init) == Item(<<>>, init)
Braced(init) == Plain(List(<<Plain(init)>>))
Pair == List(<<Plain(V), Plain(V)>>)

Matrix == Array(2, Array(2, IntType))
MatrixItems ==
    {Plain(V), Braced(V), Plain(Pair), Plain(List(<<>>)), Plain(Constant0),
     Item(<<Index(2)>>, V), Item(<<Index(1), Index(2)>>, V), Item(<<Index(2), Index(1)>>, V),
     Item(<<Index(1)>>, List(<<Plain(V)>>)), Item(<<Elements(1, 2)>>, Pair),
     Item(<<Elements(1, 2), Index(2)>>, V), Item(<<Index(3)>>, V)}

A == Struct(<<Member("x", IntType), Member("y", IntType)>>)
Outside == Struct(<<Member("a", A), Member("t", IntType)>>)
OutsideItems ==
    {Plain(V), Braced(V), Plain(Value(A)), Plain(Literal(A)), Plain(Pair),
     Item(<<Field("t")>>, V), Item(<<Field("a"), Field("y")>>, V), Item(<<Field("a")>>, V),
     Item(<<Field("a")>>, Value(A)), Item(<<Field("a")>>, Pair), Item(<<Field("b")>>, V)}

Unknown == Array(Unsized, A)
UnknownItems ==
    {Plain(V), Plain(Value(A)), Plain(Pair), Item(<<Index(2), Field("y")>>, V),
     Item(<<Index(1)>>, Value(A)), Item(<<Elements(1, 2)>>, List(<<Plain(V)>>)),
     Item(<<Index(3)>>, List(<<>>)), Item(<<Elements(1, 2), Field("x")>>, V)}

(* doc/c-status.md: `{ .i[0].p[1] = 5, 6, 7, 8 }`                          *)
Nested ==
    Struct(<<Member("i", Array(2, Struct(<<Member("p", Array(2, IntType))>>))),
             Member("z", IntType)>>)
NestedItems ==
    {Plain(V), Braced(V), Item(<<Field("i"), Index(1), Field("p"), Index(2)>>, V),
     Item(<<Field("i"), Index(2)>>, Braced(V).init), Item(<<Field("i")>>, V), Item(<<Field("z")>>, V),
     Item(<<Field("i"), Index(2), Field("p")>>, V), Plain(List(<<>>))}

(* A member without a name has a type that nothing else has.               *)
Unnamed == Struct(<<Member("x", IntType), Member("y", IntType), Member("w", IntType)>>)
Choice == Union(<<Anonymous(Unnamed), Member("b", IntType), Member("p", Array(2, IntType))>>)
Holder ==
    LET uv == Struct(<<Member("u", IntType), Member("v", IntType)>>)
    IN  Struct(<<Anonymous(Union(<<Member("a", A), Anonymous(uv)>>)),
                 Member("c", Choice), Member("t", IntType)>>)
HolderItems ==
    {Plain(V), Braced(V), Plain(Value(Choice)), Plain(Value(A)), Item(<<Field("v")>>, V),
     Item(<<Field("a"), Field("y")>>, V), Item(<<Field("u")>>, V),
     Item(<<Field("c"), Field("x")>>, V), Item(<<Field("c"), Field("p")>>, V), Item(<<Field("t")>>, V)}
ChoiceItems ==
    {Plain(V), Plain(Pair), Item(<<Field("x")>>, V), Item(<<Field("y")>>, V),
     Item(<<Field("b")>>, V), Item(<<Field("p")>>, V), Item(<<Field("p"), Index(2)>>, V)}

Words == Array(2, Struct(<<Member("s", Array(3, CharType)), Member("t", IntType)>>))
WordsItems ==
    {Plain(V), Plain(String(2)), Braced(String(4)), Plain(List(<<Plain(String(1)), Plain(V)>>)),
     Item(<<Index(2), Field("s")>>, String(3)), Item(<<Index(1), Field("s"), Index(2)>>, V),
     Item(<<Index(2)>>, V)}
Lines == Array(Unsized, Array(3, CharType))
LinesItems ==
    {Plain(V), Plain(String(2)), Braced(String(3)), Item(<<Index(2)>>, String(1)),
     Item(<<Index(1), Index(2)>>, V)}
Line == Array(Unsized, CharType)
LineItems == {Plain(V), Plain(String(2)), Item(<<Index(3)>>, V)}

AllLists ==
    Matrix :> MatrixItems @@ Outside :> OutsideItems @@ Unknown :> UnknownItems @@ Nested :> NestedItems
        @@ Holder :> HolderItems @@ Choice :> ChoiceItems @@ Words :> WordsItems
        @@ Lines :> LinesItems @@ Line :> LineItems
=============================================================================
