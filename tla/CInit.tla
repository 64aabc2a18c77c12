------------------------------- MODULE CInit -------------------------------
(***************************************************************************)
(* What a braced initialiser gives the object it initialises, as C11       *)
(* 6.7.9 says it: one walk over the list with a current place in the whole *)
(* object.  A designator sets the place, and else it is the subobject      *)
(* after the last one that was given a value; an expression goes down from *)
(* there to the first subobject that it fits.  Braces start a walk of      *)
(* their own, over a subobject that is zero again.                         *)
(*                                                                         *)
(* Parts - members and elements - are numbered from 1.  A place is a path  *)
(* of steps, each a part or GNU's range of elements.                       *)
(***************************************************************************)
EXTENDS Integers, SequencesExt

IntType == [is |-> "int"]
CharType == [is |-> "char"]
Array(n, elem) == [is |-> "array", len |-> n, elem |-> elem]
Struct(members) == [is |-> "struct", members |-> members]
Union(members) == [is |-> "union", members |-> members]
Member(n, type) == [name |-> n, type |-> type]
Anonymous(type) == Member("", type)
Unsized == 0      \* the length in `T x[]`

IsUnsized(t) == t.is = "array" /\ t.len = Unsized
IsRecord(t) == t.is \in {"struct", "union"}
IsScalar(t) == t.is \in {"int", "char", "pointer"}
PartCount(t) == CASE t.is = "array" -> t.len [] IsRecord(t) -> Len(t.members) [] OTHER -> 0
PartType(t, i) == IF t.is = "array" THEN t.elem ELSE t.members[i].type

(* An expression is known by a number, 0 for the constant 0; `literal`     *)
(* says that it is a compound literal.                                     *)
Value(t) == [is |-> "value", type |-> t, id |-> 1, literal |-> FALSE]
Constant0 == [Value(IntType) EXCEPT !.id = 0]
Literal(t) == [Value(t) EXCEPT !.literal = TRUE]
String(n) == [is |-> "string", chars |-> n, id |-> 1]
List(items) == [is |-> "list", items |-> items]
Item(designators, init) == [designators |-> designators, init |-> init]
Field(n) == [is |-> "field", name |-> n]
Elements(lo, hi) == [is |-> "index", lo |-> lo, hi |-> hi]
Index(i) == Elements(i, i)

(* The initialiser with numbers of its own.                                *)
RECURSIVE Numbered(_, _)
Numbered(init, n) ==
    IF init.is = "list"
    THEN List([k \in DOMAIN init.items |->
                  [init.items[k] EXCEPT !.init = Numbered(@, 10 * n + k)]])
    ELSE [init EXCEPT !.id = IF @ = 0 THEN 0 ELSE n]

(* The values in an initialiser.                                           *)
RECURSIVE Evaluations(_)
Evaluations(init) ==
    CASE init.is = "list" -> UNION {Evaluations(init.items[k].init) : k \in DOMAIN init.items}
      [] init.is = "value" -> {init.id} \ {0}
      [] OTHER -> {}

-----------------------------------------------------------------------------
(* The contents of an object.  A scalar's is the part of an expression it  *)
(* was given, or <<>> for zero; a union's says which member it is.         *)
Leaf(of) == [is |-> "leaf", of |-> of]
Parts(parts) == [is |-> "parts", parts |-> parts]
One(at, part) == [is |-> "one", at |-> at, part |-> part]

RECURSIVE Copy(_, _)
Copy(t, of) ==
    LET Part(i) == Copy(PartType(t, i), IF of = <<>> THEN of ELSE Append(of, i))
    IN  CASE IsScalar(t) -> Leaf(of)
          [] t.is = "union" -> IF of = <<>> THEN One(1, Part(1)) ELSE One(0, Leaf(of))
          [] OTHER -> Parts([i \in 1..PartCount(t) |-> Part(i)])
Zeros(t) == Copy(t, <<>>)

Chars(t, s) == Parts([i \in 1..t.len |-> Leaf(IF i > s.chars THEN <<>> ELSE <<s.id, i>>)])

Step(i) == [lo |-> i, hi |-> i]
In(i, step) == step.lo <= i /\ i <= step.hi

RECURSIVE At(_, _)
At(t, path) == IF path = <<>> THEN t ELSE At(PartType(t, Head(path).lo), Tail(path))

(* `v`, of type t, with `new` at a place; a union that was another member  *)
(* is zero first.                                                          *)
RECURSIVE Put(_, _, _, _)
Put(v, t, path, new) ==
    LET step == Head(path)
        Within(old, i) == Put(old, PartType(t, i), Tail(path), new)
    IN  CASE path = <<>> -> new
          [] path # <<>> /\ t.is = "union" ->
                 One(step.lo, Within(IF v.at = step.lo THEN v.part ELSE Zeros(PartType(t, step.lo)), step.lo))
          [] OTHER ->
                 Parts([i \in DOMAIN v.parts |-> IF In(i, step) THEN Within(v.parts[i], i) ELSE v.parts[i]])

-----------------------------------------------------------------------------
Nowhere == <<[lo |-> 0, hi |-> 0]>>

(* The member of that name: its path, through members without one.         *)
RECURSIVE Named(_, _)
Named(t, n) ==
    LET direct == {i \in DOMAIN t.members : t.members[i].name = n}
        through == {i \in DOMAIN t.members : /\ t.members[i].name = "" /\ IsRecord(t.members[i].type)
                                             /\ Named(t.members[i].type, n) # Nowhere}
    IN  IF direct # {} THEN <<Step(Min(direct))>>
        ELSE IF through = {} THEN Nowhere
        ELSE <<Step(Min(through))>> \o Named(t.members[Min(through)].type, n)

(* The place that designators name.                                        *)
RECURSIVE Designated(_, _)
Designated(t, designators) ==
    LET d == Head(designators)
        first == CASE d.is = "field" -> IF IsRecord(t) THEN Named(t, d.name) ELSE Nowhere
                   [] OTHER -> IF t.is = "array" /\ d.lo <= d.hi /\ d.hi <= t.len
                               THEN <<[lo |-> d.lo, hi |-> d.hi]>> ELSE Nowhere
        rest == Designated(At(t, first), Tail(designators))
    IN  IF designators = <<>> THEN <<>>
        ELSE IF first = Nowhere \/ rest = Nowhere THEN Nowhere
        ELSE first \o rest

(* The place after another: the part after the innermost that has one.     *)
(* After a range it goes on in the last element.                           *)
After(t, path) ==
    LET Deeper(k) == At(t, SubSeq(path, 1, k - 1))
        more == {k \in DOMAIN path : /\ path[k].hi < PartCount(Deeper(k))
                                     /\ Deeper(k).is # "union" \/ path[k].hi = 0}
        k == Max(more)
    IN  IF more = {} THEN Nowhere
        ELSE [j \in 1..k |-> Step(IF j < k THEN path[j].hi ELSE path[k].hi + 1)]

Fits(t, init) ==
    CASE init.is = "string" -> t.is = "array" /\ t.elem = CharType
      [] init.is = "value" -> IF IsRecord(init.type) THEN t = init.type ELSE IsScalar(t)
      [] OTHER -> TRUE

(* The place an initialiser goes to from one on: the first part of the     *)
(* first part, until it fits.                                              *)
RECURSIVE Down(_, _, _)
Down(t, path, init) ==
    IF path = Nowhere \/ Fits(At(t, path), init) THEN path
    ELSE IF PartCount(At(t, path)) > 0 THEN Down(t, Append(path, Step(1)), init)
    ELSE Nowhere

-----------------------------------------------------------------------------
(* What a step of the walk may do that the code does otherwise, by name:   *)
(*   "part of a copy"  a designator names a part of what an earlier        *)
(*                     expression gave as a whole;                         *)
(*   "opened again"    a value without braces or a designator goes to a    *)
(*                     part of the next subobject, and an earlier          *)
(*                     designator gave something to that subobject;        *)
(*   "member again"    a part of a union's member is named that was given  *)
(*                     before another member was.                          *)
(* `given` is what was given so far, in order: the place and whether an    *)
(* expression gave it.                                                     *)
Meet(p, q) ==
    \A k \in 1..(IF Len(p) < Len(q) THEN Len(p) ELSE Len(q)) : p[k].lo <= q[k].hi /\ q[k].lo <= p[k].hi

Unlike(t, given, item, start, place) ==
    LET before == ToSet(given)
    IN  (IF /\ item.designators # <<>>
            /\ \E g \in before : g.whole /\ Len(g.place) < Len(place) /\ Meet(g.place, place)
         THEN {"part of a copy"} ELSE {})
        \cup
        (IF /\ item.designators = <<>> /\ Len(start) = 1 /\ Len(place) > 1
            /\ \E g \in before : Meet(g.place, start)
         THEN {"opened again"} ELSE {})
        \cup
        (IF /\ t.is = "union" /\ Len(place) > 1
            /\ \E g \in before : g.place[1] = place[1]
            /\ Last(given).place[1] # place[1]
         THEN {"member again"} ELSE {})

(* The walk over a list, and what an initialiser means.  An array of       *)
(* unknown length has room enough until its length is known.               *)
Room == 8
RECURSIVE Meaning(_, _)

Begin(t) == [ok |-> TRUE, value |-> Zeros(t), place |-> <<Step(0)>>, given |-> <<>>, unlike |-> {}]

Given(t, w, item) ==
    LET start == IF item.designators = <<>> THEN After(t, w.place) ELSE Designated(t, item.designators)
        place == Down(t, start, item.init)
        part == Meaning(At(t, place), item.init)
    IN  IF start = Nowhere \/ place = Nowhere THEN [w EXCEPT !.ok = FALSE]
        ELSE [ok |-> w.ok /\ part.ok,
              value |-> Put(w.value, t, place, part.value),
              place |-> place,
              given |-> Append(w.given, [place |-> place,
                                         whole |-> item.init.is = "value" /\ ~IsScalar(At(t, place))]),
              unlike |-> w.unlike \cup part.unlike \cup Unlike(t, w.given, item, start, place)]

Walk(t, items) == FoldLeft(LAMBDA w, item : Given(t, w, item), Begin(t), items)

Object(ok, value, unlike) == [ok |-> ok, value |-> value, unlike |-> unlike]
Refused == Object(FALSE, Leaf(<<>>), {})

Meaning(t, init) ==
    LET items == init.items
        first == items[1]
        inBraces == /\ items # <<>> /\ first.designators = <<>> /\ first.init.is = "string"
                    /\ Fits(t, first.init)
        room == IF IsUnsized(t) THEN Array(Room, t.elem) ELSE t
        walk == Walk(room, items)
        reached == Max({0} \cup {g.place[1].hi : g \in ToSet(walk.given)})
    IN  CASE init.is = "value" -> Object(Fits(t, init), Copy(t, IF init.id = 0 THEN <<>> ELSE <<init.id>>), {})
          [] init.is = "string" ->
                 IF Fits(t, init)
                 THEN Object(TRUE, Chars(IF IsUnsized(t) THEN Array(init.chars + 1, CharType) ELSE t, init), {})
                 ELSE Refused
          [] init.is = "list" /\ IsScalar(t) ->
                 IF items = <<>> THEN Object(TRUE, Zeros(t), {})
                 ELSE IF first.designators # <<>> THEN Refused
                 ELSE Meaning(t, first.init)
          [] init.is = "list" /\ ~IsScalar(t) /\ inBraces ->
                 IF Len(items) > 1 THEN Refused ELSE Meaning(t, first.init)
          [] OTHER ->
                 Object(walk.ok,
                        IF room = t THEN walk.value ELSE Parts(SubSeq(walk.value.parts, 1, reached)),
                        walk.unlike)
=============================================================================
