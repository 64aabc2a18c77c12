---------------------------- MODULE Initializers ----------------------------
(***************************************************************************)
(* How sema checks an initialiser (sema/init.rs): it descends through the  *)
(* type, an operation for each level, and all of them take items from one  *)
(* cursor on the braced list.  A level keeps a slot per part, the index of *)
(* the part it is at and, after a designator that reached below it, `sub`, *)
(* the steps from there to the last value.                                 *)
(*                                                                         *)
(* The list is written one item at a time, and CInit says what each means. *)
(* Indexes begin at 1 where the source's begin at 0.  Vectors, flexible    *)
(* array members and the limit on elements are left out.                   *)
(***************************************************************************)
EXTENDS CInit

CONSTANTS Lists,    \* the types of the objects, each with the items of its lists
          MaxItems, \* the items of a list
          Shown     \* what the lists may have of CInit's cases of Unlike

VARIABLES type, items
vars == <<type, items>>

(* Cursor, with the effects of the checks: the values checked, in order,   *)
(* and whether there was an error.  `checked` are the positions whose      *)
(* value was kept.                                                         *)
NewCursor(list, log, failed) ==
    [items |-> list, pos |-> 1, checked |-> {}, log |-> log, failed |-> failed]
AtEnd(c) == c.pos > Len(c.items)
Peek(c) == c.items[c.pos]
Advance(c) == [c EXCEPT !.pos = @ + 1]
Fail(c) == [c EXCEPT !.failed = TRUE]
Inner(c, list) == NewCursor(list, c.log, c.failed)
Outer(c, inner) == [c EXCEPT !.log = inner.log, !.failed = inner.failed]

(* The values of the translation (ir.rs).                                  *)
None == [is |-> "none"]
Scalar(of) == [is |-> "value", of |-> of]
Zeroed == [is |-> "zeroed"]
RecordLit(fields) == [is |-> "record", parts |-> fields]
UnionLit(at, v) == [is |-> "union", at |-> at, value |-> v]
ArrayLit(elems) == [is |-> "array", parts |-> elems]
ArrayRepeat(v, n) == [is |-> "repeat", value |-> v, len |-> n]
Result(v, c) == [value |-> v, cursor |-> c]
Taken(r) == Result(r.value, Advance(r.cursor))

RECURSIVE Zero(_)
Zero(t) ==
    CASE IsScalar(t) -> Scalar(<<>>)
      [] t.is = "array" -> ArrayRepeat(Zero(t.elem), t.len)
      [] OTHER -> Zeroed

RECURSIVE IsZeroValue(_)
IsZeroValue(v) ==
    CASE v.is = "value" -> v.of = <<>>
      [] v.is = "repeat" -> IsZeroValue(v.value)
      [] v.is \in {"array", "record"} -> \A k \in DOMAIN v.parts : IsZeroValue(v.parts[k])
      [] OTHER -> v.is = "zeroed"

(* The contents of the object a value gives.                               *)
RECURSIVE Contents(_, _)
Contents(t, v) ==
    CASE v.is = "value" -> Copy(t, v.of)
      [] v.is = "zeroed" -> Zeros(t)
      [] v.is = "union" -> One(v.at, Contents(PartType(t, v.at), v.value))
      [] v.is = "repeat" -> Parts([i \in 1..v.len |-> Contents(t.elem, v.value)])
      [] OTHER -> Parts([i \in DOMAIN v.parts |-> Contents(PartType(t, i), v.parts[i])])

-----------------------------------------------------------------------------
(* `expr`: the value is checked, once more whenever this is asked.  A      *)
(* string literal has a pointer's type.                                    *)
TypeOf(init) == IF init.is = "string" THEN [is |-> "pointer"] ELSE init.type
Check(c, init) ==
    IF init.is = "value" /\ init.id # 0 THEN [c EXCEPT !.log = Append(@, init.id)] ELSE c

ConvertFor(c, init, t) ==
    Result(Scalar(IF init.id = 0 THEN <<>> ELSE <<init.id>>),
           IF Fits(t, init) THEN c ELSE Fail(c))

CheckItemAgain(c, init) == Check(c, init)

(* check_item: the value at the cursor, checked the first time.            *)
CheckItem(c, init) ==
    IF c.pos \in c.checked THEN c ELSE [Check(c, init) EXCEPT !.checked = @ \cup {c.pos}]

FillsArray(elem, init) == init.is = "string" /\ elem = CharType
BracedString(c) == ~AtEnd(c) /\ Peek(c).designators = <<>> /\ Peek(c).init.is = "string"

StringInitializer(c, init, t) ==
    LET Char(i) == Scalar(IF i > init.chars THEN <<>> ELSE <<init.id, i>>)
    IN  IF FillsArray(t.elem, init) THEN Result(ArrayLit([i \in 1..t.len |-> Char(i)]), c)
        ELSE Result(None, Fail(c))

-----------------------------------------------------------------------------
(* The subobjects that steps reach.                                        *)
TypeAt(t, steps) == At(t, steps)

FirstStep(t) == IF PartCount(t) > 0 THEN <<Step(1)>> ELSE <<>>

(* member_path                                                             *)
RECURSIVE MemberPath(_, _)
MemberPath(t, n) ==
    LET i == SelectInSeq(t.members, LAMBDA m : m.name = n)
        j == SelectInSeq(t.members, LAMBDA m : m.name = "" /\ IsRecord(m.type) /\ MemberPath(m.type, n) # <<>>)
    IN  IF i # 0 THEN <<Step(i)>>
        ELSE IF j # 0 THEN <<Step(j)>> \o MemberPath(t.members[j].type, n)
        ELSE <<>>

(* nested_steps, or Nowhere.                                               *)
NestedSteps(t, designators) ==
    LET Enter(steps, d) ==
            LET at == TypeAt(t, steps)
                found == IF d.is = "field" /\ IsRecord(at) THEN MemberPath(at, d.name) ELSE <<>>
            IN  IF steps = Nowhere THEN Nowhere
                ELSE IF found # <<>> THEN steps \o found
                ELSE IF d.is = "index" /\ at.is = "array" /\ d.lo <= d.hi /\ d.hi <= at.len
                THEN Append(steps, [lo |-> d.lo, hi |-> d.hi])
                ELSE Nowhere
    IN  FoldLeft(Enter, <<>>, designators)

HasNext(t, steps) ==
    LET parent == TypeAt(t, Front(steps))
    IN  steps # <<>> /\ parent.is # "union" /\ Last(steps).hi < PartCount(parent)
OneOn(steps) == Append(Front(steps), Step(Last(steps).hi + 1))

AdvanceStepsHere(t, steps) == IF HasNext(t, steps) THEN OneOn(steps) ELSE <<>>

(* advance_steps: the next subobject inside t, or <<>>.                    *)
RECURSIVE AdvanceSteps(_, _)
AdvanceSteps(t, steps) ==
    IF steps = <<>> \/ HasNext(t, steps) THEN AdvanceStepsHere(t, steps) ELSE AdvanceSteps(t, Front(steps))

ExistingMember(current, i) ==
    CASE current.is = "record" -> current.parts[i]
      [] current.is = "union" /\ current.at = i -> current.value
      [] OTHER -> None

ArrayItems(current, t) ==
    CASE current.is = "array" /\ Len(current.parts) = t.len -> current.parts
      [] current.is = "repeat" /\ current.len = t.len -> [i \in 1..t.len |-> current.value]
      [] OTHER -> [i \in 1..t.len |-> Zero(t.elem)]

(* place_steps: `v` put where the steps reach, into what is there already. *)
RECURSIVE PlaceSteps(_, _, _, _)
PlaceSteps(current, t, steps, v) ==
    LET step == Head(steps)
        i == step.lo
        Inside(old) == PlaceSteps(old, PartType(t, i), Tail(steps), v)
        member == Inside(ExistingMember(current, i))
        fields == IF current.is = "record" THEN current.parts
                  ELSE [k \in DOMAIN t.members |-> Zero(t.members[k].type)]
        elems == ArrayItems(current, t)
    IN  CASE steps = <<>> -> v
          [] steps # <<>> /\ t.is = "union" -> UnionLit(i, member)
          [] steps # <<>> /\ t.is = "struct" -> RecordLit([fields EXCEPT ![i] = member])
          [] OTHER -> ArrayLit([k \in DOMAIN elems |-> IF In(k, step) THEN Inside(elems[k]) ELSE elems[k]])

-----------------------------------------------------------------------------
RECURSIVE Initializer(_, _, _), Fill(_, _, _), FillParts(_, _, _)

(* checked_initializer: an expression goes through the cursor's cache.     *)
CheckedInitializer(c, init, t) ==
    IF t.is = "array" \/ init.is = "list" THEN Initializer(c, init, t)
    ELSE ConvertFor(CheckItem(c, init), init, t)

(* fill_element: the item at the cursor for a part, or the part's own      *)
(* parts if the braces around them were left out.                          *)
FillElement(t, c) ==
    LET init == Peek(c).init
        string == t.is = "array" /\ init.is = "string"
        whole == IsRecord(t) /\ init.is = "value" /\ init.literal
        looks == init.is # "list" /\ ~whole /\ IsRecord(t)
        seen == IF looks THEN CheckItem(c, init) ELSE c
    IN  IF looks /\ TypeOf(init) = t THEN Result(ConvertFor(seen, init, t).value, Advance(seen))
        ELSE IF init.is = "list" \/ string \/ whole \/ IsScalar(t)
        THEN Taken(CheckedInitializer(seen, init, t))
        ELSE Fill(t, seen, TRUE)

(* fill_at: the value at the steps, and the steps it went down; the item   *)
(* is taken.                                                               *)
RECURSIVE DownToString(_, _), DownToType(_, _, _)
DownToString(t, steps) ==
    LET at == TypeAt(t, steps)
    IN  IF at.is = "array" /\ at.elem.is = "array" THEN DownToString(t, Append(steps, Step(1))) ELSE steps
DownToType(t, steps, wanted) ==
    LET at == TypeAt(t, steps)
    IN  IF at = wanted \/ FirstStep(at) = <<>> THEN steps
        ELSE DownToType(t, steps \o FirstStep(at), wanted)

Reached(to, r) == [steps |-> to, value |-> r.value, cursor |-> r.cursor]
FillAt(t, steps, item, c) ==
    LET init == item.init
        strings == IF init.is = "string" THEN DownToString(t, steps) ELSE steps
        array == TypeAt(t, strings)
        down == DownToType(t, strings, TypeOf(init))
    IN  IF init.is = "list" THEN Reached(steps, Taken(Initializer(c, init, TypeAt(t, steps))))
        ELSE IF array.is = "array" /\ FillsArray(array.elem, init)
        THEN Reached(strings, Taken(StringInitializer(c, init, array)))
        ELSE Reached(down, Taken(ConvertFor(Check(c, init), init, TypeAt(t, down))))

(* The loop of fill_array and fill_record, with what either adds to it.    *)
(* An item whose designators are refused leaves the level as it was; the   *)
(* source may have moved the index, in a list it refuses all the same.     *)
Level(t, c) ==
    [slots |-> [i \in 1..PartCount(t) |-> None], index |-> 1, sub |-> <<>>, live |-> 0,
     cursor |-> c, ok |-> TRUE]

Exhausted(t, l) ==
    /\ l.sub = <<>>
    /\ \/ l.index > PartCount(t) /\ ~IsUnsized(t)
       \/ t.is = "union" /\ l.live # 0

EndsRun(t, l, elided) ==
    \/ AtEnd(l.cursor)
    \/ IF Peek(l.cursor).designators = <<>> THEN Exhausted(t, l) ELSE elided

(* The first designator names a part of this level, where an array may     *)
(* have no length yet; the rest go down from it.                           *)
Resolve(t, designators) ==
    LET d == Head(designators)
        rest == NestedSteps(t.elem, Tail(designators))
    IN  IF IsUnsized(t)
        THEN IF d.is = "index" /\ d.lo <= d.hi /\ rest # Nowhere
             THEN <<[lo |-> d.lo, hi |-> d.hi]>> \o rest ELSE Nowhere
        ELSE NestedSteps(t, designators)

(* The value is put into the parts from low to last, below which it went   *)
(* down r.steps, and the level goes on after it.                           *)
Placed(t, l, low, last, r) ==
    LET elem == PartType(t, low)
        next == AdvanceSteps(elem, r.steps)
        Old(i) == IF i \in DOMAIN l.slots THEN l.slots[i] ELSE None
    IN  IF r.value = None THEN [l EXCEPT !.cursor = r.cursor, !.ok = FALSE]
        ELSE [l EXCEPT
                 !.slots = [i \in 1..Max({last, Len(@)}) |->
                               IF low <= i /\ i <= last THEN PlaceSteps(Old(i), elem, r.steps, r.value)
                               ELSE Old(i)],
                 !.index = IF next = <<>> THEN last + 1 ELSE last,
                 !.sub = next,
                 !.live = last,
                 !.cursor = r.cursor]

FillItem(t, l, steps) ==
    LET low == Head(steps).lo
        elem == PartType(t, low)
        item == Peek(l.cursor)
    IN  Placed(t, l, low, Head(steps).hi,
               IF item.designators # <<>> \/ Tail(steps) # <<>>
               THEN FillAt(elem, Tail(steps), item, l.cursor)
               ELSE Reached(<<>>, FillElement(elem, l.cursor)))

FillParts(t, l, elided) ==
    LET item == Peek(l.cursor)
        steps == IF item.designators = <<>> THEN <<Step(l.index)>> \o l.sub
                 ELSE Resolve(t, item.designators)
    IN  IF ~l.ok \/ EndsRun(t, l, elided) THEN l
        ELSE FillParts(t, IF steps = Nowhere THEN [l EXCEPT !.cursor = Advance(Fail(@))]
                          ELSE FillItem(t, l, steps), elided)

(* assemble_array and the end of fill_record.                              *)
Filled(slots, t) == [i \in DOMAIN slots |-> IF slots[i] = None THEN Zero(PartType(t, i)) ELSE slots[i]]

AssembleArray(slots, t) ==
    IF \A i \in DOMAIN slots : slots[i] = None \/ IsZeroValue(slots[i])
    THEN ArrayRepeat(Zero(t.elem), Len(slots))
    ELSE ArrayLit(Filled(slots, t))

AssembleRecord(l, t) ==
    IF t.is = "struct" THEN RecordLit(Filled(l.slots, t))
    ELSE IF l.live = 0 THEN Zeroed
    ELSE UnionLit(l.live, l.slots[l.live])

Assembled(t, l) ==
    IF ~l.ok THEN Result(None, l.cursor)
    ELSE Result(IF t.is = "array" THEN AssembleArray(l.slots, t) ELSE AssembleRecord(l, t), l.cursor)

Fill(t, c, elided) ==
    LET init == Peek(c).init
        string == StringInitializer(c, init, IF IsUnsized(t) THEN Array(init.chars + 1, t.elem) ELSE t)
    IN  IF IsScalar(t)
        THEN IF AtEnd(c) THEN Result(Zero(t), c)
             ELSE IF Peek(c).designators # <<>> THEN Result(None, Advance(Fail(c)))
             ELSE Taken(CheckedInitializer(c, init, t))
        ELSE IF t.is = "array" /\ BracedString(c) /\ FillsArray(t.elem, Peek(c).init)
        THEN Taken(string)
        ELSE IF PartCount(t) = 0 /\ IsRecord(t) THEN Result(Zeroed, c)
        ELSE Assembled(t, FillParts(t, Level(t, c), elided))

(* initializer, and init_array_inferred.                                   *)
ListRead(c, t, filled) ==
    LET end == filled.cursor
        excess == filled.value # None /\ ~AtEnd(end) /\ ~IsScalar(t)
    IN  Result(filled.value, Outer(c, IF excess THEN Fail(end) ELSE end))

Initializer(c, init, t) ==
    IF init.is = "list" THEN ListRead(c, t, Fill(t, Inner(c, init.items), FALSE))
    ELSE IF t.is = "array"
    THEN IF init.is = "string" THEN StringInitializer(c, init, t) ELSE Result(None, Fail(c))
    ELSE ConvertFor(Check(c, init), init, t)

-----------------------------------------------------------------------------
Init == type \in DOMAIN Lists /\ items = <<>>

Write(item) ==
    /\ Len(items) < MaxItems
    /\ items' = Append(items, [item EXCEPT !.init = Numbered(@, Len(items) + 1)])
    /\ Meaning(type, List(items')).unlike \subseteq Shown
    /\ UNCHANGED type

Next == \E item \in Lists[type] : Write(item)
Spec == Init /\ [][Next]_vars

Code == Initializer(NewCursor(<<>>, <<>>, FALSE), List(items), type)
Sized == IF IsUnsized(type) THEN Array(Room, type.elem) ELSE type

(* The object has the contents C gives it, and a list is refused if C      *)
(* refuses it: every value lands where the walk over the whole object puts *)
(* it, through the levels, the slots and the steps kept between items.     *)
SameObject ==
    LET c == Meaning(type, List(items))
    IN  /\ c.ok = ~Code.cursor.failed
        /\ c.ok => Contents(Sized, Code.value) = c.value

(* An expression is checked once, though it is looked at for the levels    *)
(* around the part it is for: a check can create an object or an error.    *)
(* Of a scalar's own list all but the first are dropped unchecked.         *)
EvaluatedOnce ==
    LET log == Code.cursor.log
        Times(id) == Cardinality({k \in DOMAIN log : log[k] = id})
    IN  /\ \A id \in Evaluations(List(items)) : Times(id) <= 1
        /\ ~Code.cursor.failed =>
               \A k \in DOMAIN items :
                   items[k].init.is = "value" /\ items[k].init.id # 0 => Times(items[k].init.id) = 1
=============================================================================
