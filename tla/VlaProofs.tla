----------------------------- MODULE VlaProofs -----------------------------
(***************************************************************************)
(* What is proved of the arena, for any number of calls, declarations and  *)
(* requests: a chunk is in one list; and while no array is empty, what is  *)
(* alive is in place and apart.                                            *)
(***************************************************************************)
EXTENDS VlaArena, FiniteSetTheorems, TLAPS

-----------------------------------------------------------------------------
(* The inductive invariant, part by part.                                  *)
Position == Nat \X Nat
Space    == [id : Chunks, base : Bases, size : Nat]
Stretch  == [chunk : Chunks, from : Nat, upto : Nat]
Activation ==
    [kind : {"cfg", "blocks"}, chunks : Seq(Space), cur : Nat, top : Nat, floor : Position,
     marks : [Slots -> Position \cup {NoMark}], arrays : [Slots -> Stretch \cup {NoArray}],
     frames : Seq([mark : Position, array : Stretch]), kept : Seq(Stretch)]
TypeOK == calls \in Seq(Activation) /\ spare \in Seq(Seq(Space))

(* No chunk is in two places.                                              *)
Once ==
    /\ \A i, j \in DOMAIN calls : \A k \in DOMAIN calls[i].chunks, l \in DOMAIN calls[j].chunks :
          calls[i].chunks[k].id = calls[j].chunks[l].id => i = j /\ k = l
    /\ \A i, j \in DOMAIN spare : \A k \in DOMAIN spare[i], l \in DOMAIN spare[j] :
          spare[i][k].id = spare[j][l].id => i = j /\ k = l
    /\ \A i \in DOMAIN calls, j \in DOMAIN spare :
          \A k \in DOMAIN calls[i].chunks, l \in DOMAIN spare[j] :
              calls[i].chunks[k].id # spare[j][l].id

(* The position is in a chunk, but for a call that has taken none.         *)
Settled(a) == a.cur < Len(a.chunks) \/ (a.chunks = <<>> /\ a.cur = 0 /\ a.top = 0)

(* An object of a call ends at a position or below it.                     *)
Ends(a, o, p) ==
    \E k \in DOMAIN a.chunks : /\ a.chunks[k].id = o.chunk
                               /\ o.upto <= a.chunks[k].size
                               /\ ~Below(p, <<k - 1, o.upto>>)

(* What is alive is below the position, apart; an alloca's memory is below *)
(* the floor.                                                              *)
InPlace(c)  == \A x \in LiveIn(c) : Ends(c, x[3], mark(c))
Separate(c) == \A x, y \in LiveIn(c) : x = y \/ Apart(x[3], y[3])
Floored(c)  ==
    /\ ~Below(mark(c), c.floor)
    /\ \A k \in DOMAIN c.kept : Ends(c, c.kept[k], c.floor)

(* A graph's marks are below the position, an array's above those of what  *)
(* it stands in, and what is alive ends below the marks that follow its    *)
(* own.                                                                    *)
Sorted(c) ==
    c.kind = "cfg" =>
        /\ c.frames = <<>>
        /\ \A s \in Slots : c.marks[s] # NoMark =>
              /\ Below(c.marks[s], mark(c))
              /\ \A t \in Scope(s) : c.marks[t] # NoMark /\ Below(c.marks[t], c.marks[s])
        /\ \A t \in Slots : c.arrays[t] # NoArray =>
              /\ c.marks[t] # NoMark
              /\ \A u \in Slots : Below(c.marks[t], c.marks[u]) => Ends(c, c.arrays[t], c.marks[u])

(* A block's frames are stacked, each above the arrays of those around it. *)
Stacked(c) ==
    c.kind = "blocks" =>
        /\ \A s \in Slots : c.arrays[s] = NoArray
        /\ \A i \in DOMAIN c.frames : ~Below(mark(c), c.frames[i].mark)
        /\ \A i, j \in DOMAIN c.frames : i < j =>
              /\ ~Below(c.frames[i].mark, c.frames[j].mark)
              /\ Ends(c, c.frames[j].array, c.frames[i].mark)

Orderly(c) == InPlace(c) /\ Separate(c) /\ Floored(c) /\ Sorted(c) /\ Stacked(c)

(* While a graph has made no alloca, the marks below a position in the     *)
(* first chunk say how much of it is taken.                                *)
Most == Greatest({r.bytes + r.align - 1 : r \in Requests})
Under(c, p) == {s \in Slots : c.marks[s] # NoMark /\ Below(c.marks[s], p)}
Packed(c) ==
    c.kind = "cfg" /\ c.kept = <<>> =>
        /\ c.floor = <<0, 0>>
        /\ \A s \in Slots : c.marks[s] # NoMark /\ c.marks[s][1] = 0 =>
              c.marks[s][2] <= Most * Cardinality(Under(c, c.marks[s]))
        /\ c.cur = 0 => c.top <= Most * Cardinality(Under(c, mark(c)))

Settling == \A i \in DOMAIN calls : Settled(calls[i])
Order == \A i \in DOMAIN calls : Orderly(calls[i])
Packing == \A i \in DOMAIN calls : Packed(calls[i])

-----------------------------------------------------------------------------
(* Arithmetic of the padding.                                              *)
LEMMA Padding ==
    ASSUME NEW n \in Int, NEW d \in Nat \ {0}
    PROVE  n % d \in Nat /\ n % d < d
OBVIOUS

LEMMA Starts ==
    ASSUME NEW a, NEW req \in Request, a.top \in Nat, Chunk(a).base \in Nat
    PROVE  /\ Start(a, req) \in Nat /\ a.top <= Start(a, req)
           /\ Start(a, req) <= a.top + req.align - 1
<1> DEFINE pad == (-(Chunk(a).base + a.top)) % req.align
<1>1. pad \in Nat /\ pad < req.align /\ req.align \in Nat
  <2>1. -(Chunk(a).base + a.top) \in Int /\ req.align \in Nat \ {0}
    BY DEF Request
  <2> QED BY <2>1, Padding
<1>2. Start(a, req) = a.top + pad
  BY DEF Start
<1> HIDE DEF pad
<1> QED BY <1>1, <1>2

(* A chunk of its own is as large as is needed.                            *)
LEMMA Greater ==
    ASSUME NEW x \in Nat, NEW y \in Nat, NEW z \in Nat
    PROVE  Greatest({x, y, z}) \in Nat /\ x <= Greatest({x, y, z})
<1>1. \E m \in {x, y, z} : \A n \in {x, y, z} : n <= m
  <2>1. CASE y <= x /\ z <= x
    BY <2>1
  <2>2. CASE x <= y /\ z <= y
    BY <2>2
  <2>3. CASE x <= z /\ y <= z
    BY <2>3
  <2> QED BY <2>1, <2>2, <2>3
<1>2. Greatest({x, y, z}) \in {x, y, z} /\ \A n \in {x, y, z} : n <= Greatest({x, y, z})
  BY <1>1 DEF Greatest
<1> QED BY <1>2

(* An arena with other chunks and another position.                        *)
Moved(a, cs, cu, tp) == [a EXCEPT !.chunks = cs, !.cur = cu, !.top = tp]

LEMMA Same ==
    ASSUME NEW a \in Activation
    PROVE  a = Moved(a, a.chunks, a.cur, a.top)
BY DEF Activation, Moved

LEMMA Retyped ==
    ASSUME NEW a \in Activation, NEW cs \in Seq(Space), NEW cu \in Nat, NEW tp \in Nat,
           NEW b, b = Moved(a, cs, cu, tp)
    PROVE  /\ b \in Activation /\ b.chunks = cs /\ b.cur = cu /\ b.top = tp
           /\ b.kind = a.kind /\ b.floor = a.floor /\ b.marks = a.marks
           /\ b.arrays = a.arrays /\ b.frames = a.frames /\ b.kept = a.kept
BY DEF Activation, Moved

(* `grow` keeps the chunks up to the position's, and has room.             *)
LEMMA Grows ==
    ASSUME NEW a \in Activation, Settled(a), NEW req \in Request, 
           NEW new \in [id : Chunks, base : Bases]
    PROVE  \E cs \in Seq(Space), cu \in Nat :
              /\ grow(a, req, new) = Moved(a, cs, cu, 0)
              /\ cu < Len(cs) /\ cs[cu + 1].size >= req.bytes + req.align
              /\ IF a.chunks = <<>> THEN cu = 0 ELSE cu = a.cur + 1
              /\ \A k \in DOMAIN a.chunks : k <= a.cur + 1 => k \in DOMAIN cs /\ cs[k] = a.chunks[k]
              /\ \A k \in DOMAIN cs : \/ k \in DOMAIN a.chunks /\ cs[k].id = a.chunks[k].id
                                      \/ k = Len(cs) /\ cs[k].id = new.id
<1> DEFINE next == IF a.chunks = <<>> THEN 0 ELSE a.cur + 1
           need == req.bytes + req.align
           fits == next < Len(a.chunks) /\ a.chunks[next + 1].size >= need
           last == IF a.chunks = <<>> THEN 0 ELSE a.chunks[Len(a.chunks)].size
           size == Greatest({need, 2 * last, MinChunk})
           cut  == SubSeq(a.chunks, 1, next)
           mine == [id |-> new.id, base |-> new.base, size |-> size]
           cs   == IF fits THEN a.chunks ELSE Append(cut, mine)
<1>1. /\ a.chunks \in Seq(Space) /\ a.cur \in Nat /\ need \in Nat /\ next \in Nat
      /\ next <= Len(a.chunks) /\ new.id \in Chunks /\ new.base \in Bases
      /\ a.chunks # <<>> => a.cur < Len(a.chunks)
  <2>1. a.chunks \in Seq(Space) /\ a.cur \in Nat
    BY DEF Activation
  <2>2. need \in Nat /\ new.id \in Chunks /\ new.base \in Bases
    BY DEF Request
  <2>3. a.chunks # <<>> => a.cur < Len(a.chunks)
    BY DEF Settled
  <2>4. next \in Nat /\ next <= Len(a.chunks)
    <3>1. CASE a.chunks = <<>>
      BY <2>1, <3>1
    <3>2. CASE a.chunks # <<>>
      BY <2>1, <2>3, <3>2
    <3> QED BY <3>1, <3>2
  <2> HIDE DEF next, need
  <2> QED BY <2>1, <2>2, <2>3, <2>4
<1>2. last \in Nat
  <2>1. CASE a.chunks # <<>>
    <3>1. a.chunks[Len(a.chunks)] \in Space
      <4> HIDE DEF next
      <4> QED BY <1>1, <2>1
    <3> QED BY <2>1, <3>1 DEF Space
  <2> QED BY <2>1
<1>3. size \in Nat /\ need <= size
  <2> HIDE DEF need, last
  <2>1. 2 * last \in Nat
    BY <1>2
  <2>2. MinChunk \in Nat
    BY SizesAssumption
  <2> QED BY <1>1, <2>1, <2>2, Greater
<1>4. mine \in Space
  BY <1>1, <1>3 DEF Space
<1>5. /\ cut \in Seq(Space) /\ Len(cut) = next
      /\ \A k \in 1 .. next : cut[k] = a.chunks[k]
  BY <1>1
<1>6. grow(a, req, new) = Moved(a, cs, next, 0)
  BY DEF grow, Moved
<1>7. cs \in Seq(Space) /\ next < Len(cs)
  BY <1>1, <1>4, <1>5
<1>8. cs[next + 1].size >= need
  <2>1. CASE fits
    BY <2>1
  <2>2. CASE ~fits
    <3>1. cs[next + 1] = mine
      <4> HIDE DEF cut, mine
      <4> QED BY <1>1, <1>4, <1>5, <2>2
    <3>2. mine.size = size
      OBVIOUS
    <3> HIDE DEF cs, mine, size, need
    <3> QED BY <1>3, <3>1, <3>2
  <2> QED BY <2>1, <2>2
<1>9. \A k \in DOMAIN a.chunks : k <= a.cur + 1 => k \in DOMAIN cs /\ cs[k] = a.chunks[k]
  <2> SUFFICES ASSUME NEW k \in DOMAIN a.chunks, k <= a.cur + 1
               PROVE  k \in DOMAIN cs /\ cs[k] = a.chunks[k]
    OBVIOUS
  <2>1. a.chunks # <<>> /\ k \in 1 .. next
    BY <1>1
  <2>2. CASE ~fits
    BY <1>4, <1>5, <2>1, <2>2
  <2> QED BY <2>2
<1>10. \A k \in DOMAIN cs : \/ k \in DOMAIN a.chunks /\ cs[k].id = a.chunks[k].id
                            \/ k = Len(cs) /\ cs[k].id = new.id
  <2> SUFFICES ASSUME NEW k \in DOMAIN cs
               PROVE  \/ k \in DOMAIN a.chunks /\ cs[k].id = a.chunks[k].id
                      \/ k = Len(cs) /\ cs[k].id = new.id
    OBVIOUS
  <2>1. CASE ~fits
    <3>1. CASE k \in 1 .. next
      <4>1. cs[k] = a.chunks[k] /\ k \in DOMAIN a.chunks
        BY <1>1, <1>4, <1>5, <2>1, <3>1
      <4> QED BY <4>1
    <3>2. CASE k \notin 1 .. next
      <4>1. k = Len(cs) /\ cs[k] = mine
        <5>1. cs = Append(cut, mine)
          BY <2>1
        <5> HIDE DEF cut, mine, cs, next
        <5> QED BY <1>4, <1>5, <3>2, <5>1, <1>1
      <4>2. mine.id = new.id
        OBVIOUS
      <4> HIDE DEF mine, cs
      <4> QED BY <4>1, <4>2
    <3> QED BY <3>1, <3>2
  <2> QED BY <2>1
<1> HIDE DEF cs, next, need
<1>11. IF a.chunks = <<>> THEN next = 0 ELSE next = a.cur + 1
  BY DEF next
<1> QED
  <2>1. cs \in Seq(Space) /\ next \in Nat
    BY <1>1, <1>7
  <2> QED BY <1>6, <1>7, <1>8, <1>9, <1>10, <1>11, <2>1 DEF need

(* What `bytes` finds: room at the position or above it, in chunks that    *)
(* are the call's up to the position's, and else the spare list's or new.  *)
Room(a, req, r, cs, cu, tp) ==
    /\ r.arena = Moved(a, cs, cu, tp)
    /\ cu < Len(cs) /\ Start(r.arena, req) + req.bytes <= cs[cu + 1].size
    /\ ~Below(<<cu, tp>>, mark(a))
    /\ tp = 0 \/ (tp = a.top /\ cu = a.cur)
    /\ \A k \in DOMAIN a.chunks : k <= a.cur + 1 => k \in DOMAIN cs /\ cs[k] = a.chunks[k]
Whence(a, new, r, cs) ==
    /\ r.spare = spare \/ (spare # <<>> /\ r.spare = Tail(spare))
    /\ \A k \in DOMAIN cs :
          \/ k \in DOMAIN a.chunks /\ cs[k].id = a.chunks[k].id
          \/ k = Len(cs) /\ cs[k].id = new.id
          \/ /\ spare # <<>> /\ r.spare = Tail(spare) /\ a.chunks = <<>>
             /\ k \in DOMAIN spare[1] /\ cs[k].id = spare[1][k].id

LEMMA Filled ==
    ASSUME NEW a \in Activation, NEW req \in Request, Fits(a, req), 
           NEW r, r.arena = a
    PROVE  Room(a, req, r, a.chunks, a.cur, a.top)
<1>1. a.chunks \in Seq(Space) /\ a.cur \in Nat /\ a.top \in Nat
  BY DEF Activation
<1>2. a = Moved(a, a.chunks, a.cur, a.top)
  BY Same
<1>3. a.cur < Len(a.chunks) /\ Start(a, req) + req.bytes <= a.chunks[a.cur + 1].size
  BY DEF Fits, Chunk
<1>4. ~Below(<<a.cur, a.top>>, mark(a))
  BY <1>1 DEF Below, mark
<1> QED BY <1>1, <1>2, <1>3, <1>4 DEF Room

LEMMA Grown ==
    ASSUME NEW a \in Activation, Settled(a), NEW req \in Request, 
           NEW new \in [id : Chunks, base : Bases], NEW r, r.arena = grow(a, req, new)
    PROVE  \E cs \in Seq(Space), cu \in Nat :
              /\ Room(a, req, r, cs, cu, 0)
              /\ \A k \in DOMAIN cs : \/ k \in DOMAIN a.chunks /\ cs[k].id = a.chunks[k].id
                                      \/ k = Len(cs) /\ cs[k].id = new.id
<1>1. PICK cs \in Seq(Space), cu \in Nat :
              /\ grow(a, req, new) = Moved(a, cs, cu, 0)
              /\ cu < Len(cs) /\ cs[cu + 1].size >= req.bytes + req.align
              /\ IF a.chunks = <<>> THEN cu = 0 ELSE cu = a.cur + 1
              /\ \A k \in DOMAIN a.chunks : k <= a.cur + 1 => k \in DOMAIN cs /\ cs[k] = a.chunks[k]
              /\ \A k \in DOMAIN cs : \/ k \in DOMAIN a.chunks /\ cs[k].id = a.chunks[k].id
                                      \/ k = Len(cs) /\ cs[k].id = new.id
  BY Grows
<1>2. /\ r.arena = Moved(a, cs, cu, 0)
      /\ r.arena.chunks = cs /\ r.arena.cur = cu /\ r.arena.top = 0
  BY <1>1, Retyped
<1>3. cs[cu + 1] \in Space /\ cs[cu + 1].base \in Nat /\ cs[cu + 1].size \in Nat
  <2>1. cs[cu + 1] \in Space
    BY <1>1
  <2> QED BY <2>1, SizesAssumption DEF Space
<1>4. Start(r.arena, req) + req.bytes <= cs[cu + 1].size
  <2>1. Chunk(r.arena) = cs[cu + 1]
    BY <1>2 DEF Chunk
  <2>2. Start(r.arena, req) \in Nat /\ Start(r.arena, req) <= req.align - 1
    BY <1>2, <1>3, <2>1, Starts DEF Request
  <2> QED BY <1>1, <1>3, <2>2 DEF Request
<1>5. ~Below(<<cu, 0>>, mark(a))
  <2>1. a.cur \in Nat /\ a.top \in Nat
    BY DEF Activation
  <2> QED BY <1>1, <2>1 DEF Below, mark, Settled
<1>6. Room(a, req, r, cs, cu, 0)
  BY <1>1, <1>2, <1>4, <1>5 DEF Room
<1> QED BY <1>1, <1>6

LEMMA Found ==
    ASSUME NEW a \in Activation, Settled(a), NEW req \in Request, spare \in Seq(Seq(Space)),
           NEW new \in [id : Chunks, base : Bases]
    PROVE  \E cs \in Seq(Space), cu \in Nat, tp \in Nat :
              Room(a, req, Roomy(a, req, new), cs, cu, tp) /\ Whence(a, new, Roomy(a, req, new), cs)
<1> DEFINE taken == [a EXCEPT !.chunks = Head(spare)]
           r == Roomy(a, req, new)
<1>0. a.chunks \in Seq(Space) /\ a.cur \in Nat /\ a.top \in Nat
  BY DEF Activation
<1>1. CASE Fits(a, req)
  <2>1. r.arena = a /\ r.spare = spare
    BY <1>1 DEF Roomy
  <2>2. Room(a, req, r, a.chunks, a.cur, a.top)
    BY <1>1, <2>1, Filled
  <2>3. Whence(a, new, r, a.chunks)
    BY <2>1 DEF Whence
  <2> QED BY <1>0, <2>2, <2>3
<1>2. CASE ~Fits(a, req) /\ ~(a.chunks = <<>> /\ spare # <<>>)
  <2>1. r.arena = grow(a, req, new) /\ r.spare = spare
    BY <1>2 DEF Roomy
  <2>2. PICK cs \in Seq(Space), cu \in Nat :
              /\ Room(a, req, r, cs, cu, 0)
              /\ \A k \in DOMAIN cs : \/ k \in DOMAIN a.chunks /\ cs[k].id = a.chunks[k].id
                                      \/ k = Len(cs) /\ cs[k].id = new.id
    BY <2>1, Grown
  <2>3. Whence(a, new, r, cs)
    BY <2>1, <2>2 DEF Whence
  <2> QED BY <2>2, <2>3
<1>3. CASE ~Fits(a, req) /\ a.chunks = <<>> /\ spare # <<>>
  <2>1. /\ r.arena = IF Fits(taken, req) THEN taken ELSE grow(taken, req, new)
        /\ r.spare = Tail(spare)
    BY <1>3 DEF Roomy
  <2>2. Head(spare) \in Seq(Space) /\ Head(spare) = spare[1]
    BY <1>3
  <2>3. /\ taken \in Activation /\ taken.chunks = spare[1]
        /\ taken.cur = 0 /\ taken.top = 0 /\ a.cur = 0 /\ a.top = 0
    <3>1. a.cur = 0 /\ a.top = 0
      BY <1>0, <1>3 DEF Settled
    <3>2. taken \in Activation /\ taken.chunks = spare[1] /\ taken.cur = a.cur /\ taken.top = a.top
      BY <2>2 DEF Activation
    <3> QED BY <3>1, <3>2
  <2>4. Settled(taken)
    BY <2>2, <2>3 DEF Settled
  <2>5. \A b, cs, cu, tp : b = Moved(taken, cs, cu, tp)
                             => b = Moved(a, cs, cu, tp)
    BY DEF Activation, Moved
  <2>6. \A p : Below(p, mark(a)) <=> Below(p, mark(taken))
    BY <2>3 DEF mark
  <2>7. ASSUME NEW cs, NEW cu, NEW tp, Room(taken, req, r, cs, cu, tp)
        PROVE  Room(a, req, r, cs, cu, tp)
    <3> HIDE DEF taken, r
    <3> QED BY <1>3, <2>3, <2>5, <2>6, <2>7 DEF Room
  <2>8. CASE Fits(taken, req)
    <3>1. Room(taken, req, r, taken.chunks, taken.cur, taken.top)
      <4> HIDE DEF taken, r
      <4> QED BY <2>1, <2>3, <2>8, Filled
    <3>2. Whence(a, new, r, spare[1])
      <4> HIDE DEF r
      <4> QED BY <1>3, <2>1 DEF Whence
    <3> HIDE DEF taken, r
    <3> QED BY <2>2, <2>3, <2>7, <3>1, <3>2 DEF r
  <2>9. CASE ~Fits(taken, req)
    <3>0. r.arena = grow(taken, req, new)
      BY <2>1, <2>9
    <3> HIDE DEF taken, r
    <3>1. PICK cs \in Seq(Space), cu \in Nat :
              /\ Room(taken, req, r, cs, cu, 0)
              /\ \A k \in DOMAIN cs : \/ k \in DOMAIN taken.chunks /\ cs[k].id = taken.chunks[k].id
                                      \/ k = Len(cs) /\ cs[k].id = new.id
      BY <2>3, <2>4, <3>0, Grown
    <3>2. Whence(a, new, r, cs)
      BY <1>3, <2>1, <2>3, <3>1 DEF Whence
    <3> QED BY <2>7, <3>1, <3>2 DEF r
  <2> QED BY <2>8, <2>9
<1> QED BY <1>1, <1>2, <1>3

-----------------------------------------------------------------------------
(* What `alloc` gives: the object is at the position `bytes` found or a    *)
(* little above, within its chunk, and the position is its end.            *)
Placed(a, req, g, cs, cu, tp) ==
    /\ g.arena = Moved(a, cs, cu, g.object.upto)
    /\ g.object \in Stretch /\ cs \in Seq(Space) /\ cu \in Nat /\ tp \in Nat
    /\ g.object.chunk = cs[cu + 1].id
    /\ tp <= g.object.from /\ g.object.from <= tp + req.align - 1
    /\ g.object.upto = g.object.from + req.bytes
    /\ cu < Len(cs) /\ g.object.upto <= cs[cu + 1].size
    /\ ~Below(<<cu, tp>>, mark(a))
    /\ tp = 0 \/ (tp = a.top /\ cu = a.cur)
    /\ \A k \in DOMAIN a.chunks : k <= a.cur + 1 => k \in DOMAIN cs /\ cs[k] = a.chunks[k]

LEMMA NewAreNew ==
    ASSUME NEW new \in NewChunks
    PROVE  new \in [id : Chunks, base : Bases] /\ new.id \notin Used
<1> DEFINE free == Chunks \ Used
           n == CHOOSE m \in free : TRUE
<1>1. PICK b \in Bases : free # {} /\ new = [id |-> n, base |-> b]
  BY DEF NewChunks
<1>2. n \in free
  BY <1>1
<1> HIDE DEF n
<1> QED BY <1>1, <1>2

LEMMA Gives ==
    ASSUME NEW a \in Activation, Settled(a), spare \in Seq(Seq(Space)),
           NEW req \in Requests, NEW g \in alloc(a, req)
    PROVE  \E new \in NewChunks, cs \in Seq(Space), cu \in Nat, tp \in Nat :
              Placed(a, req, g, cs, cu, tp) /\ Whence(a, new, g, cs)
<1>0. req \in Request /\ req.bytes \in Nat /\ req.align \in Nat \ {0}
  BY SizesAssumption DEF Request
<1>1. PICK new \in NewChunks :
          LET r == Roomy(a, req, new)
          IN  g = [arena |-> Bump(r.arena, req), object |-> Object(r.arena, req), spare |-> r.spare]
  BY DEF alloc
<1> DEFINE r == Roomy(a, req, new)
<1>2. PICK cs \in Seq(Space), cu \in Nat, tp \in Nat :
          Room(a, req, r, cs, cu, tp) /\ Whence(a, new, r, cs)
  BY <1>0, Found, NewAreNew
<1>3. /\ g.arena = Bump(r.arena, req) /\ g.object = Object(r.arena, req) /\ g.spare = r.spare
  BY <1>1
<1> HIDE DEF r
<1>4. /\ r.arena \in Activation /\ r.arena.chunks = cs /\ r.arena.cur = cu /\ r.arena.top = tp
  BY <1>2, Retyped DEF Room
<1>5. cs[cu + 1] \in Space
  BY <1>2 DEF Room
<1>6. Chunk(r.arena) = cs[cu + 1] /\ cs[cu + 1].base \in Nat /\ cs[cu + 1].id \in Chunks
  BY <1>4, <1>5, SizesAssumption DEF Chunk, Space
<1> DEFINE start == Start(r.arena, req)
<1>7. start \in Nat /\ tp <= start /\ start <= tp + req.align - 1
  BY <1>0, <1>4, <1>6, Starts
<1>8. start + req.bytes <= cs[cu + 1].size
  BY <1>2 DEF Room
<1>9. g.object = [chunk |-> cs[cu + 1].id, from |-> start, upto |-> start + req.bytes]
  BY <1>3, <1>6 DEF Object
<1> HIDE DEF start
<1>10. /\ g.object \in Stretch /\ g.object.chunk = cs[cu + 1].id
       /\ g.object.from = start /\ g.object.upto = start + req.bytes
  BY <1>0, <1>6, <1>7, <1>9 DEF Stretch
<1>11. g.arena = Moved(a, cs, cu, g.object.upto)
  <2>1. g.arena = [r.arena EXCEPT !.top = start + req.bytes]
    BY <1>3 DEF Bump, start
  <2>2. r.arena = Moved(a, cs, cu, tp)
    BY <1>2 DEF Room
  <2> QED BY <1>10, <2>1, <2>2 DEF Moved, Activation
<1>12. Placed(a, req, g, cs, cu, tp)
  BY <1>2, <1>7, <1>8, <1>10, <1>11 DEF Room, Placed
<1>13. Whence(a, new, g, cs)
  BY <1>2, <1>3 DEF Whence
<1> QED BY <1>12, <1>13

-----------------------------------------------------------------------------
(* A step gives the innermost call an object, or takes some from it, or    *)
(* begins or ends a call.                                                  *)
LEMMA TailOf ==
    ASSUME NEW S, NEW s \in Seq(S), s # <<>>
    PROVE  /\ Tail(s) \in Seq(S) /\ Len(Tail(s)) = Len(s) - 1 /\ Tail(s) # s
           /\ 1 \in DOMAIN s /\ Head(s) = s[1] /\ Len(s) \in Nat \ {0}
           /\ DOMAIN s = 1 .. Len(s) /\ DOMAIN Tail(s) = 1 .. Len(s) - 1
           /\ \A i \in 1 .. Len(s) - 1 : i + 1 \in DOMAIN s /\ Tail(s)[i] = s[i + 1]
<1>1. Tail(s) \in Seq(S) /\ Len(Tail(s)) = Len(s) - 1
  OBVIOUS
<1>2. Tail(s) # s /\ Len(s) \in Nat \ {0}
  <2>1. Len(s) \in Nat /\ Len(s) # 0
    OBVIOUS
  <2>2. Len(s) \in Nat \ {0}
    BY <2>1
  <2>3. Len(s) - 1 # Len(s)
    BY <2>2
  <2> QED BY <1>1, <2>2, <2>3
<1>3. \A i \in 1 .. Len(s) - 1 : i + 1 \in DOMAIN s /\ Tail(s)[i] = s[i + 1]
  OBVIOUS
<1>4. DOMAIN s = 1 .. Len(s) /\ DOMAIN Tail(s) = 1 .. Len(s) - 1 /\ Head(s) = s[1]
  BY <1>1
<1>5. 1 \in DOMAIN s
  <2>1. 1 \in 1 .. Len(s)
    BY <1>2
  <2> QED BY <1>4, <2>1
<1> QED BY <1>1, <1>2, <1>3, <1>4, <1>5

LEMMA OnceTaken ==
    ASSUME TypeOK, Once, calls # <<>>, NEW a \in Activation, a.chunks = calls[1].chunks,
           NEW new \in NewChunks, NEW cs \in Seq(Space), NEW g, Whence(a, new, g, cs),
           NEW c \in Activation, c.chunks = cs,
           calls' = <<c>> \o Tail(calls), spare' = g.spare
    PROVE  Once'
<1>1. new.id \notin Used
  BY NewAreNew
<1>2. /\ Len(calls') = Len(calls) /\ calls'[1] = c
      /\ \A i \in DOMAIN calls' : i \in DOMAIN calls /\ (i # 1 => calls'[i] = calls[i])
  BY DEF TypeOK
<1>3. \A i \in DOMAIN calls, k \in Nat :
          k \in DOMAIN calls[i].chunks => calls[i].chunks[k].id # new.id
  <2> SUFFICES ASSUME NEW i \in DOMAIN calls, NEW k \in DOMAIN calls[i].chunks
               PROVE  calls[i].chunks[k].id # new.id
    OBVIOUS
  <2>1. calls[i].chunks \in Lists
    BY DEF Lists
  <2>2. calls[i].chunks[k].id \in Used
    BY <2>1 DEF Used
  <2> QED BY <1>1, <2>2
<1>4. \A i \in DOMAIN spare, k \in Nat : k \in DOMAIN spare[i] => spare[i][k].id # new.id
  <2> SUFFICES ASSUME NEW i \in DOMAIN spare, NEW k \in DOMAIN spare[i]
               PROVE  spare[i][k].id # new.id
    OBVIOUS
  <2>1. spare[i] \in Lists
    BY DEF Lists
  <2>2. spare[i][k].id \in Used
    BY <2>1 DEF Used
  <2> QED BY <1>1, <2>2
<1>5. /\ calls \in Seq(Activation) /\ spare \in Seq(Seq(Space)) /\ 1 \in DOMAIN calls
      /\ \A i \in DOMAIN calls : DOMAIN calls[i].chunks \subseteq Nat
      /\ \A i \in DOMAIN spare : DOMAIN spare[i] \subseteq Nat
      /\ DOMAIN cs = 1 .. Len(cs) /\ Len(cs) \in Nat
  <2>1. calls \in Seq(Activation) /\ spare \in Seq(Seq(Space))
    BY DEF TypeOK
  <2>2. \A i \in DOMAIN calls : calls[i].chunks \in Seq(Space)
    <3>1. \A i \in DOMAIN calls : calls[i] \in Activation
      BY <2>1
    <3> QED BY <3>1 DEF Activation
  <2> QED BY <2>1, <2>2
(* Where a chunk that is now in a list was, if it is not new.              *)
<1>6. \A i \in DOMAIN spare' :
          \E j \in DOMAIN spare : /\ spare'[i] = spare[j]
                                  /\ j = IF spare' = spare THEN i ELSE i + 1
  <2>1. CASE spare' = spare
    BY <2>1
  <2>2. CASE spare' # spare
    <3>1. spare # <<>> /\ spare' = Tail(spare)
      BY <2>2 DEF Whence
    <3>2. \A i \in DOMAIN spare' : i + 1 \in DOMAIN spare /\ spare'[i] = spare[i + 1]
      BY <1>5, <3>1, TailOf
    <3> QED BY <2>2, <3>2
  <2> QED BY <2>1, <2>2
<1>7. \A k \in DOMAIN cs :
          \/ k \in DOMAIN calls[1].chunks /\ cs[k].id = calls[1].chunks[k].id
          \/ k = Len(cs) /\ cs[k].id = new.id
          \/ /\ spare # <<>> /\ spare' = Tail(spare) /\ calls[1].chunks = <<>>
             /\ k \in DOMAIN spare[1] /\ cs[k].id = spare[1][k].id
  BY DEF Whence
<1>8. spare # <<>> => Tail(spare) # spare /\ 1 \in DOMAIN spare
  <2> SUFFICES ASSUME spare # <<>>
               PROVE  Tail(spare) # spare /\ 1 \in DOMAIN spare
    OBVIOUS
  <2> QED BY <1>5, TailOf
<1>9. ASSUME NEW i \in DOMAIN calls', NEW j \in DOMAIN calls',
             NEW k \in DOMAIN calls'[i].chunks, NEW l \in DOMAIN calls'[j].chunks,
             calls'[i].chunks[k].id = calls'[j].chunks[l].id
      PROVE  i = j /\ k = l
  <2>1. CASE i = 1 /\ j = 1
    <3>1. k \in DOMAIN cs /\ l \in DOMAIN cs /\ cs[k].id = cs[l].id /\ k \in Nat /\ l \in Nat
      BY <1>2, <1>5, <1>9, <2>1
    <3> DEFINE Own(m)  == m \in DOMAIN calls[1].chunks /\ cs[m].id = calls[1].chunks[m].id
               New(m)  == m = Len(cs) /\ cs[m].id = new.id
               Kept(m) == /\ spare # <<>> /\ calls[1].chunks = <<>>
                          /\ m \in DOMAIN spare[1] /\ cs[m].id = spare[1][m].id
    <3>2. \A m \in DOMAIN cs : Own(m) \/ New(m) \/ Kept(m)
      BY <1>7
    <3>3. \A m \in DOMAIN cs, n \in DOMAIN cs : Own(m) /\ Own(n) /\ cs[m].id = cs[n].id => m = n
      <4> SUFFICES ASSUME NEW m \in DOMAIN cs, NEW n \in DOMAIN cs, Own(m), Own(n), cs[m].id = cs[n].id
                   PROVE  m = n
        OBVIOUS
      <4>1. calls[1].chunks[m].id = calls[1].chunks[n].id
        OBVIOUS
      <4> QED BY <1>5, <4>1 DEF Once
    <3>4. \A m \in DOMAIN cs, n \in DOMAIN cs : Own(m) /\ New(n) => cs[m].id # cs[n].id
      BY <1>3, <1>5
    <3>5. \A m \in DOMAIN cs, n \in DOMAIN cs : Own(m) => ~Kept(n)
      OBVIOUS
    <3>6. \A m \in DOMAIN cs, n \in DOMAIN cs : New(m) /\ Kept(n) => cs[m].id # cs[n].id
      BY <1>4, <1>5, <1>8
    <3>7. \A m \in DOMAIN cs, n \in DOMAIN cs : Kept(m) /\ Kept(n) /\ cs[m].id = cs[n].id => m = n
      <4> SUFFICES ASSUME NEW m \in DOMAIN cs, NEW n \in DOMAIN cs, Kept(m), Kept(n), cs[m].id = cs[n].id
                   PROVE  m = n
        OBVIOUS
      <4>1. spare[1][m].id = spare[1][n].id /\ 1 \in DOMAIN spare
        BY <1>8
      <4> QED BY <4>1 DEF Once
    <3>8. k = l
      <4> HIDE DEF Own, Kept
      <4> QED BY <3>1, <3>2, <3>3, <3>4, <3>5, <3>6, <3>7
    <3> QED BY <2>1, <3>8
  <2>2. ASSUME NEW m \in DOMAIN calls, m # 1, NEW k2 \in DOMAIN cs, NEW l2 \in DOMAIN calls[m].chunks
        PROVE  cs[k2].id # calls[m].chunks[l2].id
    <3>1. l2 \in Nat
      BY <1>5
    <3>2. CASE k2 \in DOMAIN calls[1].chunks /\ cs[k2].id = calls[1].chunks[k2].id
      BY <1>5, <2>2, <3>2 DEF Once
    <3>3. CASE cs[k2].id = new.id
      BY <1>3, <3>1, <3>3
    <3>4. CASE spare # <<>> /\ k2 \in DOMAIN spare[1] /\ cs[k2].id = spare[1][k2].id
      BY <1>8, <3>4 DEF Once
    <3> QED BY <1>7, <3>2, <3>3, <3>4
  <2>3. CASE (i = 1) # (j = 1)
    BY <1>2, <1>9, <2>2, <2>3
  <2>4. CASE i # 1 /\ j # 1
    BY <1>2, <1>9, <2>4 DEF Once
  <2> QED BY <2>1, <2>3, <2>4
<1>10. ASSUME NEW i \in DOMAIN spare', NEW j \in DOMAIN spare',
              NEW k \in DOMAIN spare'[i], NEW l \in DOMAIN spare'[j],
              spare'[i][k].id = spare'[j][l].id
       PROVE  i = j /\ k = l
  <2>1. PICK m \in DOMAIN spare : spare'[i] = spare[m] /\ m = IF spare' = spare THEN i ELSE i + 1
    BY <1>6
  <2>2. PICK n \in DOMAIN spare : spare'[j] = spare[n] /\ n = IF spare' = spare THEN j ELSE j + 1
    BY <1>6
  <2>3. m = n /\ k = l
    BY <1>10, <2>1, <2>2 DEF Once
  <2>4. i \in Nat /\ j \in Nat
    <3>1. spare' \in Seq(Seq(Space))
      <4>1. spare' = spare \/ (spare # <<>> /\ spare' = Tail(spare))
        BY DEF Whence
      <4> QED BY <1>5, <4>1, TailOf
    <3> QED BY <3>1
  <2> QED BY <2>1, <2>2, <2>3, <2>4
<1>11. ASSUME NEW i \in DOMAIN calls', NEW j \in DOMAIN spare',
              NEW k \in DOMAIN calls'[i].chunks, NEW l \in DOMAIN spare'[j]
       PROVE  calls'[i].chunks[k].id # spare'[j][l].id
  <2>1. PICK m \in DOMAIN spare : spare'[j] = spare[m] /\ m = IF spare' = spare THEN j ELSE j + 1
    BY <1>6
  <2>2. CASE i # 1
    BY <1>2, <2>1, <2>2 DEF Once
  <2>3. CASE i = 1
    <3>1. calls'[i].chunks = cs /\ k \in DOMAIN cs /\ l \in DOMAIN spare[m] /\ l \in Nat
      BY <1>2, <1>5, <2>1, <2>3
    <3>2. CASE k \in DOMAIN calls[1].chunks /\ cs[k].id = calls[1].chunks[k].id
      <4>1. calls[1].chunks[k].id # spare[m][l].id
        BY <1>5, <3>1, <3>2 DEF Once
      <4> QED BY <2>1, <3>1, <3>2, <4>1
    <3>3. CASE cs[k].id = new.id
      BY <1>4, <2>1, <3>1, <3>3
    <3>4. CASE /\ spare # <<>> /\ spare' = Tail(spare)
               /\ k \in DOMAIN spare[1] /\ cs[k].id = spare[1][k].id
      <4>1. m = j + 1 /\ j \in Nat \ {0}
        <5>1. DOMAIN spare' = 1 .. Len(spare) - 1 /\ Len(spare) \in Nat
          BY <1>5, <3>4, TailOf
        <5> QED BY <1>8, <2>1, <3>4, <5>1
      <4>2. m # 1
        BY <4>1
      <4> QED BY <1>8, <2>1, <3>1, <3>4, <4>2 DEF Once
    <3> QED BY <1>7, <3>1, <3>2, <3>3, <3>4
  <2> QED BY <2>2, <2>3
<1> QED BY <1>9, <1>10, <1>11 DEF Once

-----------------------------------------------------------------------------
(* The position goes down, to the mark or the floor, and no further.       *)
Alike(a, b) ==
    /\ b.kind = a.kind /\ b.chunks = a.chunks /\ b.floor = a.floor
    /\ b.arrays = a.arrays /\ b.frames = a.frames /\ b.kept = a.kept

LEMMA Released ==
    ASSUME NEW a \in Activation, Settled(a), NEW to \in Position, NEW b, b = release(a, to)
    PROVE  /\ b \in Activation /\ Settled(b) /\ b.marks = a.marks /\ Alike(a, b)
           /\ mark(b) \in {to, a.floor, mark(a)} /\ ~Below(mark(a), mark(b))
           /\ \A p \in Position : ~Below(mark(a), p) /\ (~Below(to, p) \/ ~Below(a.floor, p))
                                     => ~Below(mark(b), p)
           /\ ~Below(mark(a), to) => ~Below(mark(b), to)
           /\ ~Below(mark(a), to) /\ ~Below(to, a.floor) => mark(b) = to
<1> DEFINE down == IF Below(a.floor, to) THEN to ELSE a.floor
<1>1. /\ a.cur \in Nat /\ a.top \in Nat /\ a.floor \in Position /\ a.chunks \in Seq(Space)
      /\ mark(a) = <<a.cur, a.top>>
  BY DEF Activation, mark
<1>2. down \in Position
  BY <1>1
<1>0. \A p, q \in Position : ~Below(p, q) /\ ~Below(q, p) => p = q
  BY DEF Position, Below
<1>5. ~Below(to, a.floor) => down = to
  BY <1>0, <1>1
<1>3. CASE ~Below(down, mark(a))
  <2>1. b = a
    BY <1>3 DEF release
  <2>2. ~Below(mark(a), mark(a))
    BY <1>1 DEF Below
  <2>3. ~Below(mark(a), to) /\ ~Below(to, a.floor) => mark(a) = to
    <3>1. mark(a) \in Position
      BY <1>1 DEF Position
    <3> HIDE DEF down
    <3> QED BY <1>0, <1>3, <1>5, <3>1
  <2> QED BY <2>1, <2>2, <2>3 DEF Alike
<1>4. CASE Below(down, mark(a))
  <2>1. b = [a EXCEPT !.cur = down[1], !.top = down[2]]
    BY <1>4 DEF release
  <2>2. down[1] \in Nat /\ down[2] \in Nat /\ down = <<down[1], down[2]>>
    BY <1>2 DEF Position
  <2> HIDE DEF down
  <2>3. b = Moved(a, a.chunks, down[1], down[2])
    BY <2>1 DEF Moved, Activation
  <2>4. /\ b \in Activation /\ b.chunks = a.chunks /\ b.marks = a.marks /\ Alike(a, b)
        /\ b.cur = down[1] /\ b.top = down[2]
    BY <1>1, <2>2, <2>3, Retyped DEF Alike
  <2>5. mark(b) = down
    BY <2>2, <2>4 DEF mark
  <2>6. Settled(b)
    <3>1. a.chunks = <<>> => a.cur = 0 /\ a.top = 0
      <4>1. a.chunks = <<>> => Len(a.chunks) = 0
        OBVIOUS
      <4> QED BY <1>1, <4>1 DEF Settled
    <3>2. a.chunks # <<>>
      BY <1>1, <1>4, <2>2, <3>1 DEF Below
    <3>3. a.cur < Len(a.chunks) /\ Len(a.chunks) \in Nat
      BY <1>1, <3>2 DEF Settled
    <3>4. down[1] <= a.cur
      BY <1>1, <1>4, <2>2 DEF Below
    <3> QED BY <1>1, <2>2, <2>4, <3>3, <3>4 DEF Settled
  <2>7. ~Below(mark(a), down)
    BY <1>1, <1>4, <2>2 DEF Below
  <2>8. \A p \in Position : ~Below(to, p) \/ ~Below(a.floor, p) => ~Below(down, p)
    <3> SUFFICES ASSUME NEW p \in Position, ~Below(to, p) \/ ~Below(a.floor, p)
                 PROVE  ~Below(down, p)
      OBVIOUS
    <3> QED BY <1>1 DEF Below, Position, down
  <2>9. ~Below(down, to)
    BY <1>1 DEF Below, Position, down
  <2>10. down \in {to, a.floor}
    BY DEF down
  <2> QED BY <1>5, <2>4, <2>5, <2>6, <2>7, <2>8, <2>9, <2>10
<1> QED BY <1>3, <1>4

LEMMA Redefined ==
    ASSUME NEW a \in Activation, Settled(a), NEW s \in Slots, NEW b, b = redefine(a, s)
    PROVE  /\ b \in Activation /\ Settled(b) /\ Alike(a, b)
           /\ b.marks[s] = mark(b)
           /\ \A t \in Slots \ {s} :
                 \/ b.marks[t] = NoMark
                 \/ /\ b.marks[t] = a.marks[t]
                    /\ a.marks[s] # NoMark => Below(a.marks[t], a.marks[s])
           /\ \A t \in Slots \ {s} :
                 a.marks[s] = NoMark \/ Below(a.marks[t], a.marks[s]) => b.marks[t] = a.marks[t]
           /\ a.marks[s] = NoMark => mark(b) = mark(a)
           /\ a.marks[s] # NoMark =>
                 /\ mark(b) \in {a.marks[s], a.floor, mark(a)} /\ ~Below(mark(a), mark(b))
                 /\ \A p \in Position :
                       ~Below(mark(a), p) /\ (~Below(a.marks[s], p) \/ ~Below(a.floor, p))
                          => ~Below(mark(b), p)
                 /\ ~Below(mark(a), a.marks[s]) => ~Below(mark(b), a.marks[s])
                 /\ ~Below(mark(a), a.marks[s]) /\ ~Below(a.marks[s], a.floor)
                       => mark(b) = a.marks[s]
<1> DEFINE mine  == a.marks[s]
           since == {t \in Slots : a.marks[t] # NoMark /\ ~Below(a.marks[t], mine)}
           left  == [t \in Slots |-> IF t \in since THEN NoMark ELSE a.marks[t]]
           fewer == [a EXCEPT !.marks = left]
           back  == IF mine = NoMark THEN a ELSE release(fewer, mine)
<1>1. /\ a.marks \in [Slots -> Position \cup {NoMark}] /\ a.cur \in Nat /\ a.top \in Nat
      /\ mine \in Position \cup {NoMark}
  BY DEF Activation
<1>2. b = [back EXCEPT !.marks[s] = mark(back)]
  BY DEF redefine
<1>3. left \in [Slots -> Position \cup {NoMark}]
  BY <1>1
<1>4. /\ fewer \in Activation /\ Alike(a, fewer) /\ mark(fewer) = mark(a)
      /\ fewer.marks = left /\ Settled(fewer)
  <2> HIDE DEF left
  <2> QED BY <1>3 DEF Activation, Alike, mark, Settled
<1>5. /\ back \in Activation /\ Settled(back) /\ Alike(a, back)
      /\ back.marks = IF mine = NoMark THEN a.marks ELSE left
      /\ mine = NoMark => mark(back) = mark(a)
      /\ mine # NoMark =>
            /\ mark(back) \in {mine, a.floor, mark(a)} /\ ~Below(mark(a), mark(back))
            /\ \A p \in Position :
                  ~Below(mark(a), p) /\ (~Below(mine, p) \/ ~Below(a.floor, p)) => ~Below(mark(back), p)
            /\ ~Below(mark(a), mine) => ~Below(mark(back), mine)
            /\ ~Below(mark(a), mine) /\ ~Below(mine, a.floor) => mark(back) = mine
  <2> HIDE DEF mine, left, fewer
  <2>1. CASE mine = NoMark
    BY <2>1 DEF Alike
  <2>2. CASE mine # NoMark
    <3>1. back = release(fewer, mine) /\ mine \in Position
      BY <1>1, <2>2
    <3> HIDE DEF back
    <3>2. fewer.floor = a.floor
      BY <1>4 DEF Alike
    <3>3. /\ back \in Activation /\ Settled(back) /\ back.marks = fewer.marks
          /\ Alike(fewer, back)
          /\ mark(back) \in {mine, fewer.floor, mark(fewer)} /\ ~Below(mark(fewer), mark(back))
          /\ \A p \in Position :
                ~Below(mark(fewer), p) /\ (~Below(mine, p) \/ ~Below(fewer.floor, p))
                   => ~Below(mark(back), p)
          /\ ~Below(mark(fewer), mine) => ~Below(mark(back), mine)
          /\ ~Below(mark(fewer), mine) /\ ~Below(mine, fewer.floor) => mark(back) = mine
      BY <1>4, <3>1, Released
    <3>4. Alike(a, back)
      BY <1>4, <3>3 DEF Alike
    <3> QED BY <1>4, <2>2, <3>2, <3>3, <3>4
  <2> QED BY <2>1, <2>2
<1> HIDE DEF back
<1>6. mark(back) \in Position
  BY <1>5 DEF Activation, mark, Position
<1>7. /\ b \in Activation /\ Alike(back, b) /\ b.cur = back.cur /\ b.top = back.top
      /\ b.marks = [back.marks EXCEPT ![s] = mark(back)]
  <2> DEFINE m == [back.marks EXCEPT ![s] = mark(back)]
  <2>1. back.marks \in [Slots -> Position \cup {NoMark}]
    BY <1>5 DEF Activation
  <2>2. m \in [Slots -> Position \cup {NoMark}]
    BY <1>6, <2>1
  <2>3. b = [back EXCEPT !.marks = m]
    BY <1>2
  <2> HIDE DEF m
  <2>4. back \in Activation
    BY <1>5
  <2> QED BY <2>2, <2>3, <2>4 DEF Activation, Alike, m
<1>8. mark(b) = mark(back) /\ Alike(a, b)
  BY <1>5, <1>7 DEF mark, Alike
<1>9. Settled(b)
  BY <1>5, <1>7 DEF Settled, Alike
<1>10. back.marks \in [Slots -> Position \cup {NoMark}]
  BY <1>5 DEF Activation
<1>11. b.marks[s] = mark(b)
  BY <1>7, <1>8, <1>10
<1>12. \A t \in Slots \ {s} : b.marks[t] = back.marks[t]
  BY <1>7, <1>10
<1>13. \A t \in Slots \ {s} :
           b.marks[t] = IF mine # NoMark /\ t \in since THEN NoMark ELSE a.marks[t]
  BY <1>5, <1>12
<1> HIDE DEF mine
<1>14. \A t \in Slots : t \in since <=> a.marks[t] # NoMark /\ ~Below(a.marks[t], mine)
  OBVIOUS
<1> HIDE DEF since
<1>15. \A t \in Slots \ {s} :
           \/ b.marks[t] = NoMark
           \/ b.marks[t] = a.marks[t] /\ (mine # NoMark => Below(a.marks[t], mine))
  BY <1>13, <1>14
<1>16. \A t \in Slots \ {s} :
           mine = NoMark \/ Below(a.marks[t], mine) => b.marks[t] = a.marks[t]
  BY <1>13, <1>14
<1> QED BY <1>5, <1>7, <1>8, <1>9, <1>11, <1>15, <1>16 DEF mine

-----------------------------------------------------------------------------
(* The innermost call, and the steps in which it is given an object.       *)
LEMMA Innermost ==
    ASSUME TypeOK, Settling, calls # <<>>
    PROVE  /\ calls[1] \in Activation /\ Settled(calls[1]) /\ Head(calls) = calls[1]
           /\ 1 \in DOMAIN calls
<1>1. calls \in Seq(Activation)
  BY DEF TypeOK
<1>2. 1 \in DOMAIN calls /\ Head(calls) = calls[1]
  BY <1>1, TailOf
<1> QED BY <1>1, <1>2 DEF Settling

Moves(g, c) == c.chunks = g.arena.chunks /\ c.cur = g.arena.cur /\ c.top = g.arena.top

LEMMA GivenTyped ==
    ASSUME NEW a \in Activation, Settled(a), spare \in Seq(Seq(Space)),
           NEW req \in Requests, NEW g \in alloc(a, req)
    PROVE  /\ g.arena \in Activation /\ g.object \in Stretch
           /\ g.arena.kind = a.kind /\ g.arena.floor = a.floor /\ g.arena.marks = a.marks
           /\ g.arena.arrays = a.arrays /\ g.arena.frames = a.frames /\ g.arena.kept = a.kept
           /\ g.arena.top = g.object.upto /\ Settled(g.arena)
<1>1. PICK new \in NewChunks, cs \in Seq(Space), cu \in Nat, tp \in Nat :
              Placed(a, req, g, cs, cu, tp) /\ Whence(a, new, g, cs)
  BY Gives
<1>2. g.object \in Stretch /\ g.object.upto \in Nat
  BY <1>1 DEF Placed, Stretch
<1>3. g.arena = Moved(a, cs, cu, g.object.upto) /\ cu < Len(cs)
  BY <1>1 DEF Placed
<1>4. /\ g.arena \in Activation /\ g.arena.chunks = cs /\ g.arena.cur = cu
      /\ g.arena.kind = a.kind /\ g.arena.floor = a.floor /\ g.arena.marks = a.marks
      /\ g.arena.arrays = a.arrays /\ g.arena.frames = a.frames /\ g.arena.kept = a.kept
      /\ g.arena.top = g.object.upto
  <2>1. PICK e \in Nat : e = g.object.upto
    BY <1>2
  <2>2. PICK b : b = g.arena
    OBVIOUS
  <2>3. b = Moved(a, cs, cu, e)
    BY <1>3, <2>1, <2>2
  <2>4. /\ b \in Activation /\ b.chunks = cs /\ b.cur = cu /\ b.top = e
        /\ b.kind = a.kind /\ b.floor = a.floor /\ b.marks = a.marks
        /\ b.arrays = a.arrays /\ b.frames = a.frames /\ b.kept = a.kept
    BY <2>3 DEF Activation, Moved
  <2> QED BY <2>1, <2>2, <2>4
<1>5. Settled(g.arena)
  BY <1>1, <1>3, <1>4 DEF Settled
<1> QED BY <1>2, <1>4, <1>5

ArraysAt(b, s, o) ==
    [t \in Slots |-> IF t = s THEN o ELSE IF t \in Scope(s) THEN b.arrays[t] ELSE NoArray]

LEMMA Declares ==
    ASSUME TypeOK, Settling, NEW s \in Slots, NEW req \in Requests, Declare(s, req)
    PROVE  LET b == redefine(calls[1], s)
           IN  \E g \in alloc(b, req), c \in Activation :
                  /\ calls # <<>> /\ calls[1].kind = "cfg"
                  /\ \A t \in Scope(s) : calls[1].arrays[t] # NoArray
                  /\ calls' = <<c>> \o Tail(calls) /\ spare' = g.spare /\ Moves(g, c)
                  /\ c.kind = b.kind /\ c.floor = b.floor /\ c.marks = b.marks
                  /\ c.frames = b.frames /\ c.kept = b.kept
                  /\ c.arrays = ArraysAt(b, s, g.object)
<1> DEFINE b == redefine(calls[1], s)
<1>1. calls # <<>> /\ calls[1].kind = "cfg" /\ \A t \in Scope(s) : calls[1].arrays[t] # NoArray
  BY DEF Declare
<1>2. b \in Activation /\ Settled(b) /\ spare \in Seq(Seq(Space))
  BY <1>1, Innermost, Redefined DEF TypeOK
<1>3. PICK g \in alloc(b, req) :
          Becomes([g.arena EXCEPT !.arrays = [t \in Slots |->
                        IF t = s THEN g.object ELSE IF t \in Scope(s) THEN @[t] ELSE NoArray]], g)
  BY DEF Declare
<1> HIDE DEF b
<1>4. /\ g.arena \in Activation /\ g.object \in Stretch
      /\ g.arena.kind = b.kind /\ g.arena.floor = b.floor /\ g.arena.marks = b.marks
      /\ g.arena.arrays = b.arrays /\ g.arena.frames = b.frames /\ g.arena.kept = b.kept
  BY <1>2, GivenTyped
<1> DEFINE new == [t \in Slots |-> IF t = s THEN g.object
                                   ELSE IF t \in Scope(s) THEN b.arrays[t] ELSE NoArray]
           c == [g.arena EXCEPT !.arrays = new]
<1>5. b.arrays \in [Slots -> Stretch \cup {NoArray}]
  BY <1>2 DEF Activation
<1>6. new \in [Slots -> Stretch \cup {NoArray}]
  BY <1>4, <1>5
<1>7. c = [g.arena EXCEPT !.arrays = [t \in Slots |->
                        IF t = s THEN g.object ELSE IF t \in Scope(s) THEN @[t] ELSE NoArray]]
  BY <1>4
<1>8. Becomes(c, g)
  BY <1>3, <1>7
<1> HIDE DEF new
<1>9. /\ c \in Activation /\ c.arrays = new /\ Moves(g, c)
      /\ c.kind = g.arena.kind /\ c.floor = g.arena.floor /\ c.marks = g.arena.marks
      /\ c.frames = g.arena.frames /\ c.kept = g.arena.kept
  BY <1>4, <1>6 DEF Activation, Moves
<1> HIDE DEF c
<1>10. calls' = <<c>> \o Tail(calls) /\ spare' = g.spare
  BY <1>8 DEF Becomes
<1>11. new = ArraysAt(b, s, g.object)
  BY DEF new, ArraysAt
<1> QED BY <1>1, <1>4, <1>9, <1>10, <1>11 DEF b

LEMMA Enters ==
    ASSUME TypeOK, Settling, NEW req \in Requests, Enter(req)
    PROVE  LET b == calls[1]
           IN  \E g \in alloc(b, req), c \in Activation :
                  /\ calls # <<>> /\ b.kind = "blocks"
                  /\ calls' = <<c>> \o Tail(calls) /\ spare' = g.spare /\ Moves(g, c)
                  /\ c.kind = b.kind /\ c.floor = b.floor /\ c.marks = b.marks
                  /\ c.arrays = b.arrays /\ c.kept = b.kept
                  /\ c.frames = <<[mark |-> mark(b), array |-> g.object]>> \o b.frames
<1> DEFINE b == calls[1]
<1>1. calls # <<>> /\ b.kind = "blocks"
  BY DEF Enter
<1>2. b \in Activation /\ Settled(b) /\ spare \in Seq(Seq(Space))
  BY <1>1, Innermost DEF TypeOK
<1>3. PICK g \in alloc(b, req) :
          Becomes([g.arena EXCEPT !.frames = <<[mark |-> mark(b), array |-> g.object]>> \o @], g)
  BY DEF Enter
<1> HIDE DEF b
<1>4. /\ g.arena \in Activation /\ g.object \in Stretch
      /\ g.arena.kind = b.kind /\ g.arena.floor = b.floor /\ g.arena.marks = b.marks
      /\ g.arena.arrays = b.arrays /\ g.arena.frames = b.frames /\ g.arena.kept = b.kept
  BY <1>2, GivenTyped
<1> DEFINE new == <<[mark |-> mark(b), array |-> g.object]>> \o b.frames
           c == [g.arena EXCEPT !.frames = new]
<1>5. b.frames \in Seq([mark : Position, array : Stretch]) /\ mark(b) \in Position
  BY <1>2 DEF Activation, mark, Position
<1>6. new \in Seq([mark : Position, array : Stretch])
  BY <1>4, <1>5
<1>7. Becomes(c, g)
  BY <1>3, <1>4
<1> HIDE DEF new
<1>8. /\ c \in Activation /\ c.frames = new /\ Moves(g, c)
      /\ c.kind = g.arena.kind /\ c.floor = g.arena.floor /\ c.marks = g.arena.marks
      /\ c.arrays = g.arena.arrays /\ c.kept = g.arena.kept
  BY <1>4, <1>6 DEF Activation, Moves
<1> HIDE DEF c
<1>9. calls' = <<c>> \o Tail(calls) /\ spare' = g.spare
  BY <1>7 DEF Becomes
<1> QED BY <1>1, <1>4, <1>8, <1>9 DEF b, new

LEMMA Allocas ==
    ASSUME TypeOK, Settling, NEW req \in Requests, alloca(req)
    PROVE  LET b == calls[1]
           IN  \E g \in alloc(b, req), c \in Activation :
                  /\ calls # <<>>
                  /\ calls' = <<c>> \o Tail(calls) /\ spare' = g.spare /\ Moves(g, c)
                  /\ c.kind = b.kind /\ c.floor = mark(g.arena) /\ c.marks = b.marks
                  /\ c.arrays = b.arrays /\ c.frames = b.frames
                  /\ c.kept = Append(b.kept, g.object)
<1> DEFINE b == calls[1]
<1>1. calls # <<>>
  BY DEF alloca
<1>2. b \in Activation /\ Settled(b) /\ spare \in Seq(Seq(Space))
  BY <1>1, Innermost DEF TypeOK
<1>3. PICK g \in alloc(b, req) :
          Becomes([g.arena EXCEPT !.kept = Append(@, g.object), !.floor = mark(g.arena)], g)
  BY DEF alloca
<1> HIDE DEF b
<1>4. /\ g.arena \in Activation /\ g.object \in Stretch
      /\ g.arena.kind = b.kind /\ g.arena.floor = b.floor /\ g.arena.marks = b.marks
      /\ g.arena.arrays = b.arrays /\ g.arena.frames = b.frames /\ g.arena.kept = b.kept
  BY <1>2, GivenTyped
<1> DEFINE new == Append(b.kept, g.object)
           low == mark(g.arena)
           c == [g.arena EXCEPT !.kept = new, !.floor = low]
<1>5. b.kept \in Seq(Stretch) /\ low \in Position
  BY <1>2, <1>4 DEF Activation, mark, Position
<1>6. new \in Seq(Stretch)
  BY <1>4, <1>5
<1>7. Becomes(c, g)
  BY <1>3, <1>4
<1> HIDE DEF new, low
<1>8. /\ c \in Activation /\ c.kept = new /\ c.floor = low /\ Moves(g, c)
      /\ c.kind = g.arena.kind /\ c.marks = g.arena.marks
      /\ c.arrays = g.arena.arrays /\ c.frames = g.arena.frames
  BY <1>4, <1>5, <1>6 DEF Activation, Moves
<1> HIDE DEF c
<1>9. calls' = <<c>> \o Tail(calls) /\ spare' = g.spare
  BY <1>7 DEF Becomes
<1> QED BY <1>1, <1>4, <1>8, <1>9 DEF b, new, low

-----------------------------------------------------------------------------
(* Chunks: nothing is assumed of what the objects are.                     *)
Chunked == TypeOK /\ Settling /\ Once

LEMMA Prepended ==
    ASSUME NEW S, NEW s \in Seq(S), NEW c \in S
    PROVE  /\ <<c>> \o s \in Seq(S) /\ Len(<<c>> \o s) = Len(s) + 1 /\ (<<c>> \o s)[1] = c
           /\ DOMAIN (<<c>> \o s) = 1 .. Len(s) + 1 /\ Len(s) \in Nat
           /\ \A i \in 1 .. Len(s) + 1 : i # 1 => i - 1 \in DOMAIN s /\ (<<c>> \o s)[i] = s[i - 1]
OBVIOUS

(* The innermost call goes on as another, the others as they were.         *)
LEMMA Replaced ==
    ASSUME TypeOK, calls # <<>>, NEW c \in Activation, calls' = <<c>> \o Tail(calls)
    PROVE  /\ calls' \in Seq(Activation) /\ DOMAIN calls' = DOMAIN calls /\ calls'[1] = c
           /\ \A i \in DOMAIN calls : i # 1 => calls'[i] = calls[i]
<1>1. calls \in Seq(Activation)
  BY DEF TypeOK
<1>2. /\ Tail(calls) \in Seq(Activation) /\ Len(Tail(calls)) = Len(calls) - 1
      /\ Len(calls) \in Nat \ {0} /\ DOMAIN calls = 1 .. Len(calls)
      /\ \A i \in 1 .. Len(calls) - 1 : Tail(calls)[i] = calls[i + 1]
  BY <1>1, TailOf
<1> DEFINE rest == Tail(calls)
<1> HIDE DEF rest
<1>3. /\ <<c>> \o rest \in Seq(Activation) /\ (<<c>> \o rest)[1] = c
      /\ DOMAIN (<<c>> \o rest) = 1 .. Len(rest) + 1
      /\ \A i \in 1 .. Len(rest) + 1 : i # 1 => (<<c>> \o rest)[i] = rest[i - 1]
  <2>1. rest \in Seq(Activation)
    BY <1>2 DEF rest
  <2> QED BY <2>1, Prepended
<1>4. calls' = <<c>> \o rest
  BY DEF rest
<1>5. DOMAIN calls' = DOMAIN calls
  BY <1>2, <1>3, <1>4 DEF rest
<1>6. \A i \in DOMAIN calls : i # 1 => calls'[i] = calls[i]
  <2> SUFFICES ASSUME NEW i \in DOMAIN calls, i # 1
               PROVE  calls'[i] = calls[i]
    OBVIOUS
  <2>1. i - 1 \in 1 .. Len(calls) - 1 /\ i \in 1 .. Len(rest) + 1 /\ (i - 1) + 1 = i
    BY <1>2 DEF rest
  <2>2. rest[i - 1] = calls[(i - 1) + 1]
    BY <1>2, <2>1 DEF rest
  <2> QED BY <1>3, <1>4, <2>1, <2>2
<1> QED BY <1>3, <1>4, <1>5, <1>6

LEMMA ChunkedTaken ==
    ASSUME Chunked, calls # <<>>, NEW a \in Activation, Settled(a), a.chunks = calls[1].chunks,
           NEW req \in Requests, NEW g \in alloc(a, req), NEW c \in Activation, Moves(g, c),
           calls' = <<c>> \o Tail(calls), spare' = g.spare
    PROVE  Chunked'
<1> USE DEF Chunked
<1>1. spare \in Seq(Seq(Space))
  BY DEF TypeOK
<1>2. PICK new \in NewChunks, cs \in Seq(Space), cu \in Nat, tp \in Nat :
              Placed(a, req, g, cs, cu, tp) /\ Whence(a, new, g, cs)
  BY <1>1, Gives
<1>3. g.object.upto \in Nat /\ g.arena = Moved(a, cs, cu, g.object.upto) /\ cu < Len(cs)
  BY <1>2 DEF Placed, Stretch
<1>4. c.chunks = cs /\ c.cur = cu
  BY <1>3, Retyped DEF Moves
<1>5. Once'
  BY <1>2, <1>4, OnceTaken
<1>6. spare' \in Seq(Seq(Space))
  <2>1. spare' = spare \/ (spare # <<>> /\ spare' = Tail(spare))
    BY <1>2 DEF Whence
  <2> QED BY <1>1, <2>1, TailOf
<1>7. /\ calls' \in Seq(Activation) /\ DOMAIN calls' = DOMAIN calls /\ calls'[1] = c
      /\ \A i \in DOMAIN calls : i # 1 => calls'[i] = calls[i]
  BY Replaced
<1>8. Settled(c)
  BY <1>3, <1>4 DEF Settled
<1>9. Settling'
  BY <1>7, <1>8 DEF Settling, Settled
<1> QED BY <1>5, <1>6, <1>7, <1>9 DEF TypeOK

LEMMA ChunkedStays ==
    ASSUME Chunked, calls # <<>>, NEW c \in Activation, Settled(c), c.chunks = calls[1].chunks,
           calls' = <<c>> \o Tail(calls), spare' = spare
    PROVE  Chunked'
<1> USE DEF Chunked
<1>1. /\ calls' \in Seq(Activation) /\ DOMAIN calls' = DOMAIN calls /\ calls'[1] = c
      /\ \A i \in DOMAIN calls : i # 1 => calls'[i] = calls[i]
  BY Replaced
<1>2. \A i \in DOMAIN calls : calls'[i].chunks = calls[i].chunks
  BY <1>1
<1>3. Once'
  <2>1. ASSUME NEW i \in DOMAIN calls', NEW j \in DOMAIN calls',
               NEW k \in DOMAIN calls'[i].chunks, NEW l \in DOMAIN calls'[j].chunks,
               calls'[i].chunks[k].id = calls'[j].chunks[l].id
        PROVE  i = j /\ k = l
    <3>1. /\ i \in DOMAIN calls /\ calls'[i].chunks = calls[i].chunks
          /\ j \in DOMAIN calls /\ calls'[j].chunks = calls[j].chunks
      BY <1>1, <1>2
    <3> QED BY <2>1, <3>1 DEF Once
  <2>2. ASSUME NEW i \in DOMAIN calls', NEW j \in DOMAIN spare',
               NEW k \in DOMAIN calls'[i].chunks, NEW l \in DOMAIN spare'[j]
        PROVE  calls'[i].chunks[k].id # spare'[j][l].id
    <3>1. i \in DOMAIN calls /\ calls'[i].chunks = calls[i].chunks
      BY <1>1, <1>2
    <3> QED BY <3>1 DEF Once
  <2>3. \A i, j \in DOMAIN spare' : \A k \in DOMAIN spare'[i], l \in DOMAIN spare'[j] :
            spare'[i][k].id = spare'[j][l].id => i = j /\ k = l
    BY DEF Once
  <2> QED BY <2>1, <2>2, <2>3 DEF Once
<1>4. Settling'
  BY <1>1 DEF Settling, Settled
<1> QED BY <1>1, <1>3, <1>4 DEF TypeOK

LEMMA ChunkedCall ==
    ASSUME Chunked, NEW kind \in {"cfg", "blocks"}, Call(kind)
    PROVE  Chunked'
<1> USE DEF Chunked
<1> DEFINE c == [kind |-> kind, chunks |-> <<>>, cur |-> 0, top |-> 0, floor |-> <<0, 0>>,
                 marks |-> [s \in Slots |-> NoMark], arrays |-> [s \in Slots |-> NoArray],
                 frames |-> <<>>, kept |-> <<>>]
<1>1. calls' = <<c>> \o calls /\ spare' = spare
  BY DEF Call
<1>2. c \in Activation
  BY DEF Activation, Position
<1>3. c.chunks = <<>> /\ c.cur = 0 /\ c.top = 0
  OBVIOUS
<1>4. DOMAIN c.chunks = {}
  BY <1>3
<1> HIDE DEF c
<1>5. calls \in Seq(Activation)
  BY DEF TypeOK
<1>6. /\ calls' \in Seq(Activation) /\ calls'[1] = c /\ DOMAIN calls' = 1 .. Len(calls) + 1
      /\ Len(calls) \in Nat
      /\ \A i \in 1 .. Len(calls) + 1 : i # 1 => i - 1 \in DOMAIN calls /\ calls'[i] = calls[i - 1]
  BY <1>1, <1>2, <1>5, Prepended
<1>7. Settling'
  <2> SUFFICES ASSUME NEW i \in DOMAIN calls'
               PROVE  Settled(calls'[i])
    BY DEF Settling, Settled
  <2>1. CASE i = 1
    BY <1>3, <1>6, <2>1 DEF Settled
  <2>2. CASE i # 1
    BY <1>6, <2>2 DEF Settling
  <2> QED BY <2>1, <2>2
<1>8. ASSUME NEW i \in DOMAIN calls', NEW j \in DOMAIN calls',
             NEW k \in DOMAIN calls'[i].chunks, NEW l \in DOMAIN calls'[j].chunks,
             calls'[i].chunks[k].id = calls'[j].chunks[l].id
      PROVE  i = j /\ k = l
  <2>1. i # 1 /\ j # 1
    BY <1>4, <1>6
  <2>2. i - 1 = j - 1 /\ k = l
    BY <1>6, <1>8, <2>1 DEF Once
  <2> QED BY <1>6, <2>2
<1>9. ASSUME NEW i \in DOMAIN calls', NEW j \in DOMAIN spare',
             NEW k \in DOMAIN calls'[i].chunks, NEW l \in DOMAIN spare'[j]
      PROVE  calls'[i].chunks[k].id # spare'[j][l].id
  <2>1. i # 1
    BY <1>4, <1>6
  <2> QED BY <1>1, <1>6, <2>1 DEF Once
<1>10. Once'
  BY <1>1, <1>8, <1>9 DEF Once
<1> QED BY <1>1, <1>6, <1>7, <1>10 DEF TypeOK

LEMMA ChunkedReturn ==
    ASSUME Chunked, Return
    PROVE  Chunked'
<1> USE DEF Chunked
<1>1. calls # <<>> /\ calls' = Tail(calls) /\ calls \in Seq(Activation) /\ spare \in Seq(Seq(Space))
  BY DEF Return, TypeOK
<1>2. /\ calls' \in Seq(Activation) /\ 1 \in DOMAIN calls /\ Len(calls) \in Nat \ {0}
      /\ DOMAIN calls = 1 .. Len(calls) /\ DOMAIN calls' = 1 .. Len(calls) - 1
      /\ \A i \in 1 .. Len(calls) - 1 : i + 1 \in DOMAIN calls /\ calls'[i] = calls[i + 1]
  BY <1>1, TailOf
<1>3. calls[1] \in Activation /\ calls[1].chunks \in Seq(Space)
  <2>1. calls[1] \in Activation
    BY <1>1, <1>2
  <2> QED BY <2>1 DEF Activation
<1>4. Settling'
  BY <1>2 DEF Settling, Settled
<1>5. ASSUME NEW i \in DOMAIN calls', NEW j \in DOMAIN calls',
             NEW k \in DOMAIN calls'[i].chunks, NEW l \in DOMAIN calls'[j].chunks,
             calls'[i].chunks[k].id = calls'[j].chunks[l].id
      PROVE  i = j /\ k = l
  <2>1. i + 1 = j + 1 /\ k = l
    BY <1>2, <1>5 DEF Once
  <2> QED BY <1>2, <2>1
<1>6. CASE spare' = spare
  <2>1. Once'
    BY <1>2, <1>5, <1>6 DEF Once
  <2> QED BY <1>1, <1>2, <1>4, <1>6, <2>1 DEF TypeOK
<1>7. CASE spare' = <<calls[1].chunks>> \o spare
  <2>1. /\ spare' \in Seq(Seq(Space)) /\ spare'[1] = calls[1].chunks
        /\ DOMAIN spare' = 1 .. Len(spare) + 1 /\ Len(spare) \in Nat
        /\ \A i \in 1 .. Len(spare) + 1 : i # 1 => i - 1 \in DOMAIN spare /\ spare'[i] = spare[i - 1]
    BY <1>1, <1>3, <1>7, Prepended
  <2>2. ASSUME NEW i \in DOMAIN spare', NEW j \in DOMAIN spare',
               NEW k \in DOMAIN spare'[i], NEW l \in DOMAIN spare'[j],
               spare'[i][k].id = spare'[j][l].id
        PROVE  i = j /\ k = l
    <3>1. CASE i = 1 /\ j = 1
      <4>1. calls[1].chunks[k].id = calls[1].chunks[l].id
        BY <2>1, <2>2, <3>1
      <4>2. k \in DOMAIN calls[1].chunks /\ l \in DOMAIN calls[1].chunks
        BY <2>1, <3>1
      <4>3. k = l
        BY <1>2, <4>1, <4>2 DEF Once
      <4> QED BY <3>1, <4>3
    <3>2. ASSUME NEW m \in DOMAIN spare', NEW k2 \in DOMAIN spare'[1], NEW l2 \in DOMAIN spare'[m], m # 1
          PROVE  spare'[1][k2].id # spare'[m][l2].id
      <4>1. m - 1 \in DOMAIN spare /\ spare'[m] = spare[m - 1]
        BY <2>1, <3>2
      <4>2. k2 \in DOMAIN calls[1].chunks /\ l2 \in DOMAIN spare[m - 1]
        BY <2>1, <4>1
      <4>3. calls[1].chunks[k2].id # spare[m - 1][l2].id
        BY <1>2, <4>1, <4>2 DEF Once
      <4> QED BY <2>1, <4>1, <4>3
    <3>3. CASE (i = 1) # (j = 1)
      BY <2>2, <3>2, <3>3
    <3>4. CASE i # 1 /\ j # 1
      <4>1. /\ i - 1 \in DOMAIN spare /\ spare'[i] = spare[i - 1]
            /\ j - 1 \in DOMAIN spare /\ spare'[j] = spare[j - 1]
        BY <2>1, <3>4
      <4>2. i - 1 = j - 1 /\ k = l
        BY <2>2, <4>1 DEF Once
      <4>3. i \in Nat /\ j \in Nat
        BY <2>1
      <4> QED BY <4>2, <4>3
    <3> QED BY <3>1, <3>2, <3>3, <3>4
  <2>3. ASSUME NEW i \in DOMAIN calls', NEW j \in DOMAIN spare',
               NEW k \in DOMAIN calls'[i].chunks, NEW l \in DOMAIN spare'[j]
        PROVE  calls'[i].chunks[k].id # spare'[j][l].id
    <3>1. i + 1 \in DOMAIN calls /\ calls'[i] = calls[i + 1] /\ i + 1 # 1
      BY <1>2
    <3>2. CASE j = 1
      <4>1. calls[i + 1].chunks[k].id # calls[1].chunks[l].id
        <5>1. k \in DOMAIN calls[i + 1].chunks /\ l \in DOMAIN calls[1].chunks
          BY <2>1, <3>1, <3>2
        <5> QED BY <1>2, <3>1, <5>1 DEF Once
      <4> QED BY <2>1, <3>1, <3>2, <4>1
    <3>3. CASE j # 1
      BY <2>1, <3>1, <3>3 DEF Once
    <3> QED BY <3>2, <3>3
  <2>4. Once'
    BY <1>5, <2>2, <2>3 DEF Once
  <2> QED BY <1>2, <1>4, <2>1, <2>4 DEF TypeOK
<1> QED BY <1>6, <1>7 DEF Return


LEMMA Element ==
    ASSUME NEW S, NEW s \in Seq(S), NEW i \in DOMAIN s
    PROVE  s[i] \in S /\ i \in Nat
OBVIOUS

(* The end of a block: what is given back is down to the frame's mark.     *)
LEMMA Leaves ==
    ASSUME TypeOK, Settling, Leave
    PROVE  LET b == calls[1]
           IN  \E f \in Activation, c \in Activation :
                  /\ calls # <<>> /\ b.frames # <<>> /\ b.frames[1].mark \in Position
                  /\ Settled(f) /\ mark(f) = mark(b) /\ f.marks = b.marks
                  /\ f.kind = b.kind /\ f.chunks = b.chunks /\ f.floor = b.floor
                  /\ f.arrays = b.arrays /\ f.kept = b.kept /\ f.frames = Tail(b.frames)
                  /\ c = release(f, b.frames[1].mark)
                  /\ calls' = <<c>> \o Tail(calls) /\ spare' = spare
<1> DEFINE b == calls[1]
           f == [b EXCEPT !.frames = Tail(b.frames)]
<1>1. /\ calls # <<>> /\ b.frames # <<>> /\ spare' = spare
      /\ calls' = <<release(f, Head(b.frames).mark)>> \o Tail(calls)
  BY DEF Leave
<1>2. b \in Activation /\ Settled(b)
  BY <1>1, Innermost
<1>3. b.frames \in Seq([mark : Position, array : Stretch])
  BY <1>2 DEF Activation
<1>4. /\ Tail(b.frames) \in Seq([mark : Position, array : Stretch])
      /\ Head(b.frames) = b.frames[1] /\ 1 \in DOMAIN b.frames
  BY <1>1, <1>3, TailOf
<1>5. b.frames[1].mark \in Position
  <2> HIDE DEF b, f
  <2>1. b.frames[1] \in [mark : Position, array : Stretch]
    BY <1>3, <1>4, Element
  <2> QED BY <2>1
<1>6. /\ f \in Activation /\ Settled(f) /\ mark(f) = mark(b) /\ f.marks = b.marks
      /\ f.kind = b.kind /\ f.chunks = b.chunks /\ f.floor = b.floor
      /\ f.arrays = b.arrays /\ f.kept = b.kept /\ f.frames = Tail(b.frames)
  <2> HIDE DEF b
  <2> DEFINE rest == Tail(b.frames)
  <2>1. rest \in Seq([mark : Position, array : Stretch])
    BY <1>4
  <2> HIDE DEF rest
  <2>2. /\ [b EXCEPT !.frames = rest] \in Activation /\ Settled([b EXCEPT !.frames = rest])
        /\ mark([b EXCEPT !.frames = rest]) = mark(b)
    BY <1>2, <2>1 DEF Activation, Settled, mark
  <2> QED BY <1>2, <2>2 DEF Activation, rest
<1> DEFINE c == release(f, b.frames[1].mark)
<1> HIDE DEF f
<1>7. c \in Activation
  BY <1>5, <1>6, Released
<1> QED BY <1>1, <1>4, <1>5, <1>6, <1>7

LEMMA ChunkedStep ==
    ASSUME Chunked, [Next]_vars
    PROVE  Chunked'
<1>1. ASSUME NEW kind \in {"cfg", "blocks"}, Call(kind)
      PROVE  Chunked'
  BY <1>1, ChunkedCall
<1>2. ASSUME Return
      PROVE  Chunked'
  BY <1>2, ChunkedReturn
<1>3. ASSUME Leave
      PROVE  Chunked'
  <2> TypeOK /\ Settling
    BY DEF Chunked
  <2>1. PICK f \in Activation, c \in Activation :
          /\ calls # <<>> /\ calls[1].frames # <<>> /\ calls[1].frames[1].mark \in Position
          /\ Settled(f) /\ f.chunks = calls[1].chunks
          /\ c = release(f, calls[1].frames[1].mark)
          /\ calls' = <<c>> \o Tail(calls) /\ spare' = spare
    BY <1>3, Leaves
  <2>2. Settled(c) /\ c.chunks = calls[1].chunks
    <3>1. Settled(c) /\ Alike(f, c)
      BY <2>1, Released
    <3> QED BY <2>1, <3>1 DEF Alike
  <2> QED BY <2>1, <2>2, ChunkedStays
<1>4. ASSUME NEW req \in Requests, Enter(req)
      PROVE  Chunked'
  <2> TypeOK /\ Settling
    BY DEF Chunked
  <2>1. PICK g \in alloc(calls[1], req), c \in Activation :
          /\ calls # <<>> /\ calls' = <<c>> \o Tail(calls) /\ spare' = g.spare /\ Moves(g, c)
    BY <1>4, Enters
  <2>2. calls[1] \in Activation /\ Settled(calls[1])
    BY <2>1, Innermost
  <2> QED BY <2>1, <2>2, ChunkedTaken
<1>5. ASSUME NEW req \in Requests, alloca(req)
      PROVE  Chunked'
  <2> TypeOK /\ Settling
    BY DEF Chunked
  <2>1. PICK g \in alloc(calls[1], req), c \in Activation :
          /\ calls # <<>> /\ calls' = <<c>> \o Tail(calls) /\ spare' = g.spare /\ Moves(g, c)
    BY <1>5, Allocas
  <2>2. calls[1] \in Activation /\ Settled(calls[1])
    BY <2>1, Innermost
  <2> QED BY <2>1, <2>2, ChunkedTaken
<1>6. ASSUME NEW req \in Requests, NEW s \in Slots, Declare(s, req)
      PROVE  Chunked'
  <2> TypeOK /\ Settling
    BY DEF Chunked
  <2> DEFINE b == redefine(calls[1], s)
  <2>1. PICK g \in alloc(b, req), c \in Activation :
          /\ calls # <<>> /\ calls' = <<c>> \o Tail(calls) /\ spare' = g.spare /\ Moves(g, c)
    BY <1>6, Declares
  <2>2. calls[1] \in Activation /\ Settled(calls[1])
    BY <2>1, Innermost
  <2>3. b \in Activation /\ Settled(b) /\ Alike(calls[1], b)
    BY <2>2, Redefined
  <2>4. b.chunks = calls[1].chunks
    BY <2>3 DEF Alike
  <2> HIDE DEF b
  <2> QED BY <2>1, <2>3, <2>4, ChunkedTaken
<1>7. ASSUME UNCHANGED vars
      PROVE  Chunked'
  BY <1>7 DEF vars, Chunked, TypeOK, Settling, Settled, Once
<1> QED BY <1>1, <1>2, <1>3, <1>4, <1>5, <1>6, <1>7 DEF Next

LEMMA Listed ==
    ASSUME NEW S, NEW n \in Nat, NEW f \in [1 .. n -> S]
    PROVE  f \in Seq(S) /\ Len(f) = n
OBVIOUS

LEMMA Widened ==
    ASSUME NEW S, NEW T, S \subseteq T, NEW s \in Seq(S)
    PROVE  s \in Seq(T)
OBVIOUS

LEMMA Joined ==
    ASSUME NEW S, NEW s \in Seq(S), NEW t \in Seq(S)
    PROVE  /\ DOMAIN (s \o t) = 1 .. Len(s) + Len(t)
           /\ \A i \in DOMAIN (s \o t) : (s \o t)[i] = IF i <= Len(s) THEN s[i] ELSE t[i - Len(s)]
OBVIOUS

(* One list after the other, the calls' and then the spare ones.           *)
LEMMA OneList ==
    ASSUME TypeOK, Once
    PROVE  ChunksOnce
<1> DEFINE kept  == [i \in DOMAIN spare |-> [chunks |-> spare[i]]]
           lists == calls \o kept
           n == Len(calls)
<1>1. calls \in Seq(Activation) /\ spare \in Seq(Seq(Space))
  BY DEF TypeOK
<1>2. n \in Nat /\ Len(spare) \in Nat /\ DOMAIN calls = 1 .. n /\ DOMAIN spare = 1 .. Len(spare)
  BY <1>1
<1>3. kept \in Seq([chunks : Seq(Space)]) /\ Len(kept) = Len(spare) /\ DOMAIN kept = DOMAIN spare
  <2>1. kept \in [1 .. Len(spare) -> [chunks : Seq(Space)]]
    BY <1>1, <1>2
  <2> HIDE DEF kept
  <2> DEFINE m == Len(spare)
  <2>2. m \in Nat /\ kept \in [1 .. m -> [chunks : Seq(Space)]]
    BY <1>2, <2>1
  <2>3. DOMAIN kept = 1 .. m
    BY <2>2
  <2> HIDE DEF m
  <2>4. kept \in Seq([chunks : Seq(Space)]) /\ Len(kept) = m
    BY <2>2, Listed
  <2> QED BY <1>2, <2>3, <2>4 DEF m
<1>4. /\ DOMAIN lists = 1 .. n + Len(spare)
      /\ \A i \in DOMAIN lists : lists[i] = IF i <= n THEN calls[i] ELSE kept[i - n]
  <2> DEFINE S == Activation \cup [chunks : Seq(Space)]
  <2> HIDE DEF kept
  <2>1. calls \in Seq(S) /\ kept \in Seq(S)
    BY <1>1, <1>3, Widened
  <2> HIDE DEF S
  <2> QED BY <1>3, <2>1, Joined
<1>5. \A i \in DOMAIN lists :
          lists[i].chunks = IF i <= n THEN calls[i].chunks ELSE spare[i - n]
  <2> SUFFICES ASSUME NEW i \in DOMAIN lists
               PROVE  lists[i].chunks = IF i <= n THEN calls[i].chunks ELSE spare[i - n]
    OBVIOUS
  <2>0. \A m \in DOMAIN spare : kept[m].chunks = spare[m]
    OBVIOUS
  <2> HIDE DEF lists, n, kept
  <2>1. CASE i <= n
    BY <1>4, <2>1
  <2>2. CASE ~(i <= n)
    <3>1. i - n \in DOMAIN spare
      BY <1>2, <1>4, <2>2
    <3> QED BY <1>4, <2>0, <2>2, <3>1
  <2> QED BY <2>1, <2>2
<1> HIDE DEF lists, kept, n
<1>6. ASSUME NEW i \in DOMAIN lists, NEW j \in DOMAIN lists,
             NEW k \in DOMAIN lists[i].chunks, NEW l \in DOMAIN lists[j].chunks,
             lists[i].chunks[k].id = lists[j].chunks[l].id
      PROVE  i = j /\ k = l
  <2>1. CASE i <= n /\ j <= n
    <3>1. i \in DOMAIN calls /\ j \in DOMAIN calls
      BY <1>2, <1>4, <2>1
    <3> QED BY <1>5, <1>6, <2>1, <3>1 DEF Once
  <2>2. CASE ~(i <= n) /\ ~(j <= n)
    <3>1. i - n \in DOMAIN spare /\ j - n \in DOMAIN spare /\ i \in Int /\ j \in Int
      BY <1>2, <1>4, <2>2
    <3>2. i - n = j - n /\ k = l
      BY <1>5, <1>6, <2>2, <3>1 DEF Once
    <3> QED BY <1>2, <3>1, <3>2
  <2>3. CASE i <= n /\ ~(j <= n)
    <3>1. i \in DOMAIN calls /\ j - n \in DOMAIN spare
      BY <1>2, <1>4, <2>3
    <3> QED BY <1>5, <1>6, <2>3, <3>1 DEF Once
  <2>4. CASE ~(i <= n) /\ j <= n
    <3>1. i - n \in DOMAIN spare /\ j \in DOMAIN calls
      BY <1>2, <1>4, <2>4
    <3> QED BY <1>5, <1>6, <2>4, <3>1 DEF Once
  <2> QED BY <2>1, <2>2, <2>3, <2>4
<1> QED BY <1>6 DEF ChunksOnce, lists, kept

(* A chunk is in the list of one call, or in one spare list, and there     *)
(* once: `bytes` takes a spare list out when it hands it to an arena, and  *)
(* the drop of an arena gives its list away.                               *)
THEOREM ListsAreApart == Spec => []ChunksOnce
<1>1. Init => Chunked
  BY DEF Init, Chunked, TypeOK, Settling, Once
<1>2. Chunked /\ [Next]_vars => Chunked'
  BY ChunkedStep
<1>3. Chunked => ChunksOnce
  BY OneList DEF Chunked
<1> QED BY <1>1, <1>2, <1>3, PTL DEF Spec


-----------------------------------------------------------------------------
(* Order: while no array is empty, what is alive keeps its place.          *)
NonEmpty == \A req \in Requests : req.bytes # 0

Distinct(c) == \A k, l \in DOMAIN c.chunks : c.chunks[k].id = c.chunks[l].id => k = l

LEMMA Positions ==
    ASSUME NEW p \in Int \X Int, NEW q \in Int \X Int, NEW r \in Int \X Int
    PROVE  /\ ~Below(p, p)
           /\ Below(p, q) => ~Below(q, p)
           /\ ~Below(p, q) /\ ~Below(q, r) => ~Below(p, r)
           /\ Below(p, q) /\ ~Below(r, q) => Below(p, r)
           /\ ~Below(q, p) /\ Below(q, r) => Below(p, r)
BY DEF Below

LEMMA Marks ==
    ASSUME NEW c \in Activation
    PROVE  /\ mark(c) \in Int \X Int /\ c.floor \in Int \X Int /\ mark(c) \in Position
           /\ c.floor \in Position
           /\ \A s \in Slots : c.marks[s] \in Int \X Int
           /\ \A s \in Slots : c.marks[s] # NoMark => c.marks[s] \in Position
           /\ \A k \in DOMAIN c.frames : /\ c.frames[k].mark \in Int \X Int
                                         /\ c.frames[k].mark \in Position
           /\ \A p \in Position : p # NoMark /\ p \in Int \X Int
<1>1. \A p \in Position : p # NoMark /\ p \in Int \X Int
  BY DEF Position, NoMark
<1>2. NoMark \in Int \X Int
  BY DEF NoMark
<1>3. mark(c) \in Position /\ c.floor \in Position
  BY DEF Activation, mark, Position
<1>4. \A s \in Slots : c.marks[s] \in Position \cup {NoMark}
  BY DEF Activation
<1>5. \A k \in DOMAIN c.frames : c.frames[k].mark \in Position
  <2>1. c.frames \in Seq([mark : Position, array : Stretch])
    BY DEF Activation
  <2>2. \A k \in DOMAIN c.frames : c.frames[k] \in [mark : Position, array : Stretch]
    BY <2>1, Element
  <2> QED BY <2>2
<1> QED BY <1>1, <1>2, <1>3, <1>4, <1>5

(* Where an object ends, it also ends further up, and it does in an arena  *)
(* that has the chunks up to there.                                        *)
LEMMA EndsHigher ==
    ASSUME NEW a \in Activation, NEW o \in Stretch, NEW p \in Position, NEW q \in Position,
           Ends(a, o, p), ~Below(q, p)
    PROVE  Ends(a, o, q)
<1>1. PICK k \in DOMAIN a.chunks : /\ a.chunks[k].id = o.chunk
                                   /\ o.upto <= a.chunks[k].size
                                   /\ ~Below(p, <<k - 1, o.upto>>)
  BY DEF Ends
<1>2. k \in Nat /\ o.upto \in Nat
  BY DEF Activation, Stretch
<1>3. ~Below(q, <<k - 1, o.upto>>)
  <2>1. <<k - 1, o.upto>> \in Int \X Int /\ p \in Int \X Int /\ q \in Int \X Int
    BY <1>2 DEF Position
  <2> QED BY <1>1, <2>1, Positions
<1> QED BY <1>1, <1>3 DEF Ends

LEMMA EndsStill ==
    ASSUME NEW a \in Activation, NEW o \in Stretch, NEW p \in Position, NEW c \in Activation,
           Ends(a, o, p), ~Below(mark(a), p),
           \A k \in DOMAIN a.chunks :
              k <= a.cur + 1 => k \in DOMAIN c.chunks /\ c.chunks[k] = a.chunks[k]
    PROVE  Ends(c, o, p)
<1>1. PICK k \in DOMAIN a.chunks : /\ a.chunks[k].id = o.chunk
                                   /\ o.upto <= a.chunks[k].size
                                   /\ ~Below(p, <<k - 1, o.upto>>)
  BY DEF Ends
<1>2. k \in Nat /\ o.upto \in Nat /\ a.cur \in Nat /\ a.top \in Nat
  BY DEF Activation, Stretch
<1>3. k <= a.cur + 1
  BY <1>1, <1>2 DEF Below, mark, Position
<1> QED BY <1>1, <1>3 DEF Ends

LEMMA EndsAlike ==
    ASSUME NEW b, NEW c, c.chunks = b.chunks
    PROVE  \A q, p : Ends(c, q, p) <=> Ends(b, q, p)
BY DEF Ends

(* An object that is given lies above all that ends at the position.       *)
Above(b, o, c) ==
    /\ Below(mark(b), mark(c)) /\ Ends(c, o, mark(c))
    /\ \A q \in Stretch, p \in Position : Ends(b, q, p) /\ ~Below(mark(b), p) => Ends(c, q, p)
    /\ \A q \in Stretch : Ends(b, q, mark(b)) => Apart(q, o) /\ Apart(o, q)

LEMMA GivenAbove ==
    ASSUME NonEmpty, NEW a \in Activation, NEW req \in Requests, NEW g, NEW cs, NEW cu, NEW tp,
           Placed(a, req, g, cs, cu, tp), NEW c \in Activation, Moves(g, c), Distinct(c)
    PROVE  g.object \in Stretch /\ Above(a, g.object, c)
<1>1. /\ g.object \in Stretch /\ g.object.from \in Nat /\ g.object.upto \in Nat
      /\ cu \in Nat /\ tp \in Nat /\ cs \in Seq(Space)
      /\ g.object.chunk = cs[cu + 1].id /\ tp <= g.object.from
      /\ g.object.upto = g.object.from + req.bytes
      /\ cu < Len(cs) /\ g.object.upto <= cs[cu + 1].size
      /\ ~Below(<<cu, tp>>, mark(a))
      /\ \A k \in DOMAIN a.chunks : k <= a.cur + 1 => k \in DOMAIN cs /\ cs[k] = a.chunks[k]
  BY DEF Placed, Stretch
<1>2. req.bytes \in Nat \ {0}
  BY SizesAssumption DEF Request, NonEmpty
<1>3. c.chunks = cs /\ c.cur = cu /\ c.top = g.object.upto
  <2>1. g.arena = Moved(a, cs, cu, g.object.upto)
    BY DEF Placed
  <2>2. PICK e \in Nat : e = g.object.upto
    BY <1>1
  <2>3. PICK b : b = g.arena
    OBVIOUS
  <2>4. b = Moved(a, cs, cu, e)
    BY <2>1, <2>2, <2>3
  <2>5. b.chunks = cs /\ b.cur = cu /\ b.top = e
    BY <2>4 DEF Activation, Moved
  <2> QED BY <2>2, <2>3, <2>5 DEF Moves
<1>4. mark(c) = <<cu, g.object.upto>> /\ mark(a) = <<a.cur, a.top>> /\ a.cur \in Nat /\ a.top \in Nat
  BY <1>3 DEF mark, Activation
<1>5. Below(mark(a), mark(c))
  BY <1>1, <1>2, <1>4 DEF Below
<1>6. cu + 1 \in DOMAIN c.chunks /\ (cu + 1) - 1 = cu
  BY <1>1, <1>3
<1>7. Ends(c, g.object, mark(c))
  <2>1. ~Below(<<cu, g.object.upto>>, <<cu, g.object.upto>>)
    BY <1>1 DEF Below
  <2> QED BY <1>1, <1>3, <1>4, <1>6, <2>1 DEF Ends
<1>8. \A o \in Stretch, p \in Position : Ends(a, o, p) /\ ~Below(mark(a), p) => Ends(c, o, p)
  BY <1>1, <1>3, EndsStill
<1>9. \A o \in Stretch : Ends(a, o, mark(a)) => Apart(o, g.object) /\ Apart(g.object, o)
  <2> SUFFICES ASSUME NEW o \in Stretch, Ends(a, o, mark(a))
               PROVE  Apart(o, g.object) /\ Apart(g.object, o)
    OBVIOUS
  <2>1. PICK k \in DOMAIN a.chunks : /\ a.chunks[k].id = o.chunk
                                     /\ ~Below(mark(a), <<k - 1, o.upto>>)
    BY DEF Ends
  <2>2. k \in Nat /\ o.upto \in Nat
    BY DEF Activation, Stretch
  <2>3. k <= a.cur + 1
    BY <1>4, <2>1, <2>2 DEF Below
  <2>4. k \in DOMAIN c.chunks /\ c.chunks[k].id = o.chunk
    BY <1>1, <1>3, <2>1, <2>3
  <2>5. CASE k = cu + 1
    <3>1. o.upto <= g.object.from
      BY <1>1, <1>4, <2>1, <2>2, <2>5 DEF Below
    <3> QED BY <3>1 DEF Apart
  <2>6. CASE k # cu + 1
    <3>1. o.chunk # g.object.chunk
      BY <1>1, <1>3, <1>6, <2>4, <2>6 DEF Distinct
    <3> QED BY <3>1 DEF Apart
  <2> QED BY <2>5, <2>6
<1> QED BY <1>1, <1>5, <1>7, <1>8, <1>9 DEF Above


(* What is alive in a call that goes on was alive in it before, under the  *)
(* same name but for the frames, whose numbers count from the innermost.   *)
Shifted(x, n) == <<x[1], IF x[1] = "frame" THEN x[2] + n ELSE x[2], x[3]>>

LEMMA IsAlive ==
    ASSUME NEW c, NEW x
    PROVE  x \in LiveIn(c) <=>
              \/ \E s \in Slots : c.arrays[s] # NoArray /\ x = <<"array", s, c.arrays[s]>>
              \/ \E k \in DOMAIN c.frames : x = <<"frame", k, c.frames[k].array>>
              \/ \E k \in DOMAIN c.kept : x = <<"kept", k, c.kept[k]>>
BY DEF LiveIn

LEMMA Fields ==
    ASSUME NEW c \in Activation
    PROVE  /\ \A s \in Slots : c.arrays[s] # NoArray => c.arrays[s] \in Stretch
           /\ \A k \in DOMAIN c.frames : c.frames[k].array \in Stretch /\ k \in Nat
           /\ \A k \in DOMAIN c.kept : c.kept[k] \in Stretch /\ k \in Nat
<1>1. \A s \in Slots : c.arrays[s] # NoArray => c.arrays[s] \in Stretch
  BY DEF Activation
<1>2. \A k \in DOMAIN c.frames : c.frames[k].array \in Stretch /\ k \in Nat
  <2>1. c.frames \in Seq([mark : Position, array : Stretch])
    BY DEF Activation
  <2>2. \A k \in DOMAIN c.frames : c.frames[k] \in [mark : Position, array : Stretch] /\ k \in Nat
    BY <2>1, Element
  <2> QED BY <2>2
<1>3. \A k \in DOMAIN c.kept : c.kept[k] \in Stretch /\ k \in Nat
  <2>1. c.kept \in Seq(Stretch)
    BY DEF Activation
  <2>2. \A k \in DOMAIN c.kept : c.kept[k] \in Stretch /\ k \in Nat
    BY <2>1, Element
  <2> QED BY <2>2
<1> QED BY <1>1, <1>2, <1>3

LEMMA LiveTyped ==
    ASSUME NEW c \in Activation, NEW x \in LiveIn(c)
    PROVE  x = <<x[1], x[2], x[3]>> /\ x[2] \in Int /\ x[3] \in Stretch
<1>1. CASE \E s \in Slots : c.arrays[s] # NoArray /\ x = <<"array", s, c.arrays[s]>>
  BY <1>1, Fields, ScopesNest
<1>2. CASE \E k \in DOMAIN c.frames : x = <<"frame", k, c.frames[k].array>>
  BY <1>2, Fields
<1>3. CASE \E k \in DOMAIN c.kept : x = <<"kept", k, c.kept[k]>>
  BY <1>3, Fields
<1> QED BY <1>1, <1>2, <1>3, IsAlive

LEMMA StillApart ==
    ASSUME NEW a, Separate(a), NEW c \in Activation, NEW n \in Int,
           NEW x \in LiveIn(c), NEW y \in LiveIn(c),
           Shifted(x, n) \in LiveIn(a), Shifted(y, n) \in LiveIn(a)
    PROVE  x = y \/ Apart(x[3], y[3])
<1>1. /\ x = <<x[1], x[2], x[3]>> /\ x[2] \in Int
      /\ y = <<y[1], y[2], y[3]>> /\ y[2] \in Int
  BY LiveTyped
<1>2. Shifted(x, n)[3] = x[3] /\ Shifted(y, n)[3] = y[3]
  BY DEF Shifted
<1>3. Shifted(x, n) = Shifted(y, n) \/ Apart(x[3], y[3])
  BY <1>2 DEF Separate
<1>4. ASSUME Shifted(x, n) = Shifted(y, n)
      PROVE  x = y
  <2>1. x[1] = y[1] /\ x[3] = y[3]
    BY <1>4 DEF Shifted
  <2>2. (IF x[1] = "frame" THEN x[2] + n ELSE x[2]) = (IF y[1] = "frame" THEN y[2] + n ELSE y[2])
    BY <1>4 DEF Shifted
  <2>3. x[2] = y[2]
    <3>1. CASE x[1] = "frame"
      <4>1. x[2] + n = y[2] + n
        BY <2>1, <2>2, <3>1
      <4>2. PICK p \in Int, q \in Int : p = x[2] /\ q = y[2]
        BY <1>1
      <4>3. p + n = q + n
        BY <4>1, <4>2
      <4>4. p = q
        BY <4>3
      <4> QED BY <4>2, <4>4
    <3>2. CASE x[1] # "frame"
      BY <2>1, <2>2, <3>2
    <3> QED BY <3>1, <3>2
  <2> QED BY <1>1, <2>1, <2>3
<1> QED BY <1>3, <1>4

(* A call a goes on as c with one more object o: what was alive and is,    *)
(* ended at the position of b, from where the object was given.            *)
GoesOn(a, b, c, o, new, n) ==
    \A x \in LiveIn(c) : \/ x = new /\ x[3] = o
                         \/ Shifted(x, n) \in LiveIn(a) /\ Ends(b, x[3], mark(b))

LEMMA StillOrderly ==
    ASSUME NEW a, Separate(a), NEW b \in Activation, NEW c \in Activation, NEW n \in Int,
           NEW o \in Stretch, Above(b, o, c), NEW new, GoesOn(a, b, c, o, new, n)
    PROVE  InPlace(c) /\ Separate(c)
<1> USE DEF GoesOn
<1>1. /\ mark(b) \in Position /\ mark(c) \in Position
      /\ ~Below(mark(b), mark(b)) /\ ~Below(mark(c), mark(b))
  <2>1. /\ mark(b) \in Int \X Int /\ mark(c) \in Int \X Int
        /\ mark(b) \in Position /\ mark(c) \in Position
    BY Marks
  <2>2. Below(mark(b), mark(c))
    BY DEF Above
  <2> QED BY <2>1, <2>2, Positions
<1>2. InPlace(c)
  <2> SUFFICES ASSUME NEW x \in LiveIn(c)
               PROVE  Ends(c, x[3], mark(c))
    BY DEF InPlace
  <2>1. CASE x[3] = o
    BY <2>1 DEF Above
  <2>2. CASE Ends(b, x[3], mark(b))
    <3>1. x[3] \in Stretch
      BY LiveTyped
    <3>2. Ends(c, x[3], mark(b))
      BY <1>1, <2>2, <3>1 DEF Above
    <3> QED BY <1>1, <3>1, <3>2, EndsHigher
  <2> QED BY <2>1, <2>2
<1>3. Separate(c)
  <2> SUFFICES ASSUME NEW x \in LiveIn(c), NEW y \in LiveIn(c), x # y
               PROVE  Apart(x[3], y[3])
    BY DEF Separate
  <2>1. x[3] \in Stretch /\ y[3] \in Stretch
    BY LiveTyped
  <2>2. CASE x = new /\ x[3] = o
    <3>1. Ends(b, y[3], mark(b))
      BY <2>2
    <3> QED BY <2>1, <2>2, <3>1 DEF Above
  <2>3. CASE y = new /\ y[3] = o
    <3>1. Ends(b, x[3], mark(b))
      BY <2>3
    <3> QED BY <2>1, <2>3, <3>1 DEF Above
  <2>4. CASE Shifted(x, n) \in LiveIn(a) /\ Shifted(y, n) \in LiveIn(a)
    BY <2>4, StillApart
  <2> QED BY <2>2, <2>3, <2>4
<1> QED BY <1>2, <1>3


LEMMA AboveFacts ==
    ASSUME NEW b \in Activation, NEW c \in Activation, NEW o, Above(b, o, c)
    PROVE  /\ Below(mark(b), mark(c))
           /\ \A p \in Int \X Int : ~Below(mark(b), p) => ~Below(mark(c), p) /\ Below(p, mark(c))
           /\ \A p \in Int \X Int : Below(p, mark(b)) => Below(p, mark(c))
           /\ \A q \in Stretch, p \in Position : Ends(b, q, p) /\ ~Below(mark(b), p) => Ends(c, q, p)
<1>1. mark(b) \in Int \X Int /\ mark(c) \in Int \X Int
  BY Marks
<1>2. Below(mark(b), mark(c))
  BY DEF Above
<1>3. ~Below(mark(c), mark(b))
  BY <1>1, <1>2, Positions
<1>4. ASSUME NEW p \in Int \X Int, ~Below(mark(b), p)
      PROVE  ~Below(mark(c), p) /\ Below(p, mark(c))
  BY <1>1, <1>2, <1>3, <1>4, Positions
<1>5. ASSUME NEW p \in Int \X Int, Below(p, mark(b))
      PROVE  Below(p, mark(c))
  BY <1>1, <1>3, <1>5, Positions
<1> QED BY <1>2, <1>4, <1>5 DEF Above

(* `alloca`: what it gives lies above the others, below the new floor.     *)
LEMMA OrderlyAlloca ==
    ASSUME NEW b \in Activation, Orderly(b), NEW c \in Activation, NEW o \in Stretch, Above(b, o, c),
           c.kind = b.kind, c.floor = mark(c), c.marks = b.marks,
           c.arrays = b.arrays, c.frames = b.frames, c.kept = Append(b.kept, o)
    PROVE  Orderly(c)
<1> DEFINE new == <<"kept", Len(b.kept) + 1, o>>
<1>1. /\ b.kept \in Seq(Stretch) /\ Len(b.kept) \in Nat
      /\ DOMAIN c.kept = 1 .. Len(b.kept) + 1 /\ DOMAIN b.kept = 1 .. Len(b.kept)
      /\ c.kept[Len(b.kept) + 1] = o
      /\ \A k \in DOMAIN b.kept : c.kept[k] = b.kept[k]
  <2> DEFINE l == b.kept
  <2>1. l \in Seq(Stretch)
    BY DEF Activation
  <2> HIDE DEF l
  <2>2. /\ Len(l) \in Nat /\ DOMAIN Append(l, o) = 1 .. Len(l) + 1 /\ DOMAIN l = 1 .. Len(l)
        /\ Append(l, o)[Len(l) + 1] = o
        /\ \A k \in DOMAIN l : Append(l, o)[k] = l[k]
    BY <2>1
  <2> QED BY <2>1, <2>2 DEF l
<1>2. \A x \in LiveIn(c) : \/ x = new /\ x[3] = o
                           \/ Shifted(x, 0) \in LiveIn(b) /\ Ends(b, x[3], mark(b))
  <2> SUFFICES ASSUME NEW x \in LiveIn(c)
               PROVE  \/ x = new /\ x[3] = o
                      \/ x \in LiveIn(b) /\ Shifted(x, 0) = x
    BY DEF Orderly, InPlace
  <2>1. Shifted(x, 0) = x
    BY LiveTyped DEF Shifted
  <2>2. CASE \E s \in Slots : c.arrays[s] # NoArray /\ x = <<"array", s, c.arrays[s]>>
    BY <2>1, <2>2, IsAlive
  <2>3. CASE \E k \in DOMAIN c.frames : x = <<"frame", k, c.frames[k].array>>
    BY <2>1, <2>3, IsAlive
  <2>4. CASE \E k \in DOMAIN c.kept : x = <<"kept", k, c.kept[k]>>
    <3>1. PICK k \in DOMAIN c.kept : x = <<"kept", k, c.kept[k]>>
      BY <2>4
    <3>2. CASE k = Len(b.kept) + 1
      BY <1>1, <3>1, <3>2
    <3>3. CASE k # Len(b.kept) + 1
      <4>1. k \in DOMAIN b.kept /\ c.kept[k] = b.kept[k]
        BY <1>1, <3>3
      <4> QED BY <2>1, <3>1, <4>1, IsAlive
    <3> QED BY <3>2, <3>3
  <2> QED BY <2>2, <2>3, <2>4, IsAlive
<1>3. InPlace(c) /\ Separate(c)
  <2> HIDE DEF new
  <2>1. GoesOn(b, b, c, o, new, 0) /\ Separate(b)
    BY <1>2 DEF GoesOn, Orderly
  <2> QED BY <2>1, StillOrderly
<1>4. Floored(c)
  <2>1. ~Below(mark(c), mark(c))
    BY Marks, Positions
  <2>2. ASSUME NEW k \in DOMAIN c.kept
        PROVE  Ends(c, c.kept[k], mark(c))
    <3>1. <<"kept", k, c.kept[k]>> \in LiveIn(c)
      BY IsAlive
    <3> QED BY <1>3, <3>1 DEF InPlace
  <2> QED BY <2>1, <2>2 DEF Floored
<1>5. Sorted(c)
  <2> SUFFICES ASSUME c.kind = "cfg"
               PROVE  Sorted(c)
    BY DEF Sorted
  <2>1. c.frames = <<>>
    BY DEF Orderly, Sorted
  <2>2. ASSUME NEW s \in Slots, c.marks[s] # NoMark
        PROVE  /\ Below(c.marks[s], mark(c))
               /\ \A t \in Scope(s) : c.marks[t] # NoMark /\ Below(c.marks[t], c.marks[s])
    <3>1. /\ Below(b.marks[s], mark(b))
          /\ \A t \in Scope(s) : b.marks[t] # NoMark /\ Below(b.marks[t], b.marks[s])
      BY <2>2 DEF Orderly, Sorted
    <3> QED BY <3>1, AboveFacts, Marks
  <2>3. ASSUME NEW t \in Slots, c.arrays[t] # NoArray
        PROVE  /\ c.marks[t] # NoMark
               /\ \A u \in Slots : Below(c.marks[t], c.marks[u]) => Ends(c, c.arrays[t], c.marks[u])
    <3>1. /\ b.marks[t] # NoMark
          /\ \A u \in Slots : Below(b.marks[t], b.marks[u]) => Ends(b, b.arrays[t], b.marks[u])
      BY <2>3 DEF Orderly, Sorted
    <3>2. ASSUME NEW u \in Slots, Below(b.marks[t], b.marks[u])
          PROVE  Ends(c, b.arrays[t], b.marks[u])
      <4>1. b.marks[u] \in Position /\ b.marks[u] # NoMark
        <5>1. b.marks[u] # NoMark
          BY <3>1, <3>2, Marks DEF Below, NoMark, Position
        <5> QED BY <5>1, Marks
      <4>2. ~Below(mark(b), b.marks[u])
        <5>1. Below(b.marks[u], mark(b))
          BY <4>1 DEF Orderly, Sorted
        <5> QED BY <5>1, Marks, Positions
      <4>3. b.arrays[t] \in Stretch
        BY <2>3, Fields
      <4> QED BY <3>1, <3>2, <4>1, <4>2, <4>3, AboveFacts
    <3> QED BY <3>1, <3>2
  <2> QED BY <2>1, <2>2, <2>3 DEF Sorted
<1>6. Stacked(c)
  <2> SUFFICES ASSUME c.kind = "blocks"
               PROVE  Stacked(c)
    BY DEF Stacked
  <2>1. \A s \in Slots : c.arrays[s] = NoArray
    BY DEF Orderly, Stacked
  <2>2. \A i \in DOMAIN c.frames : ~Below(mark(b), b.frames[i].mark) /\ ~Below(mark(c), c.frames[i].mark)
    BY AboveFacts, Marks DEF Orderly, Stacked
  <2>3. ASSUME NEW i \in DOMAIN c.frames, NEW j \in DOMAIN c.frames, i < j
        PROVE  /\ ~Below(c.frames[i].mark, c.frames[j].mark)
               /\ Ends(c, c.frames[j].array, c.frames[i].mark)
    <3>1. /\ ~Below(b.frames[i].mark, b.frames[j].mark)
          /\ Ends(b, b.frames[j].array, b.frames[i].mark)
      BY <2>3 DEF Orderly, Stacked
    <3>2. b.frames[j].array \in Stretch /\ b.frames[i].mark \in Position
      BY Fields, Marks
    <3> QED BY <2>2, <3>1, <3>2, AboveFacts
  <2> QED BY <2>1, <2>2, <2>3 DEF Stacked
<1> QED BY <1>3, <1>4, <1>5, <1>6 DEF Orderly


(* `Enter`: the frames of the blocks around it are further out.            *)
LEMMA OrderlyEnter ==
    ASSUME NEW b \in Activation, Orderly(b), NEW c \in Activation, NEW o \in Stretch, Above(b, o, c),
           b.kind = "blocks", c.kind = b.kind, c.floor = b.floor, c.marks = b.marks,
           c.arrays = b.arrays, c.kept = b.kept,
           c.frames = <<[mark |-> mark(b), array |-> o]>> \o b.frames
    PROVE  Orderly(c)
<1> DEFINE new == <<"frame", 1, o>>
<1>1. /\ DOMAIN c.frames = 1 .. Len(b.frames) + 1 /\ Len(b.frames) \in Nat
      /\ c.frames[1].mark = mark(b) /\ c.frames[1].array = o
      /\ \A k \in DOMAIN c.frames :
            k # 1 => k - 1 \in DOMAIN b.frames /\ c.frames[k] = b.frames[k - 1]
  <2> DEFINE Frame == [mark : Position, array : Stretch]
             l == b.frames
             f == [mark |-> mark(b), array |-> o]
  <2>1. l \in Seq(Frame) /\ f \in Frame
    BY Marks DEF Activation
  <2>2. f.mark = mark(b) /\ f.array = o
    OBVIOUS
  <2> HIDE DEF l, f, Frame
  <2>3. /\ Len(l) \in Nat /\ (<<f>> \o l)[1] = f
        /\ DOMAIN (<<f>> \o l) = 1 .. Len(l) + 1
        /\ \A i \in 1 .. Len(l) + 1 : i # 1 => i - 1 \in DOMAIN l /\ (<<f>> \o l)[i] = l[i - 1]
    BY <2>1, Prepended
  <2>4. c.frames = <<f>> \o l
    BY DEF f, l
  <2> QED BY <2>2, <2>3, <2>4 DEF l
<1>2. \A x \in LiveIn(c) : \/ x = new /\ x[3] = o
                           \/ Shifted(x, -1) \in LiveIn(b) /\ Ends(b, x[3], mark(b))
  <2> SUFFICES ASSUME NEW x \in LiveIn(c)
               PROVE  \/ x = new /\ x[3] = o
                      \/ Shifted(x, -1) \in LiveIn(b)
    <3>1. \A x : Shifted(x, -1)[3] = x[3]
      BY DEF Shifted
    <3> QED BY <3>1 DEF Orderly, InPlace
  <2>1. CASE \E s \in Slots : c.arrays[s] # NoArray /\ x = <<"array", s, c.arrays[s]>>
    <3>1. Shifted(x, -1) = x
      BY <2>1 DEF Shifted
    <3> QED BY <2>1, <3>1, IsAlive
  <2>2. CASE \E k \in DOMAIN c.frames : x = <<"frame", k, c.frames[k].array>>
    <3>1. PICK k \in DOMAIN c.frames : x = <<"frame", k, c.frames[k].array>>
      BY <2>2
    <3>2. CASE k = 1
      BY <1>1, <3>1, <3>2
    <3>3. CASE k # 1
      <4>1. k - 1 \in DOMAIN b.frames /\ c.frames[k] = b.frames[k - 1] /\ k \in Nat
        BY <1>1, <3>3
      <4>2. k + (-1) = k - 1
        BY <4>1
      <4>3. Shifted(x, -1) = <<"frame", k - 1, b.frames[k - 1].array>>
        BY <3>1, <4>1, <4>2 DEF Shifted
      <4> QED BY <4>1, <4>3, IsAlive
    <3> QED BY <3>2, <3>3
  <2>3. CASE \E k \in DOMAIN c.kept : x = <<"kept", k, c.kept[k]>>
    <3>1. Shifted(x, -1) = x
      BY <2>3 DEF Shifted
    <3> QED BY <2>3, <3>1, IsAlive
  <2> QED BY <2>1, <2>2, <2>3, IsAlive
<1>3. InPlace(c) /\ Separate(c)
  <2> HIDE DEF new
  <2>1. PICK n \in Int : n = -1
    OBVIOUS
  <2>2. GoesOn(b, b, c, o, new, n) /\ Separate(b)
    BY <1>2, <2>1 DEF GoesOn, Orderly
  <2> QED BY <2>2, StillOrderly
<1>4. Floored(c)
  <2>1. ~Below(mark(b), b.floor) /\ \A k \in DOMAIN b.kept : Ends(b, b.kept[k], b.floor)
    BY DEF Orderly, Floored
  <2> QED BY <2>1, AboveFacts, Marks, Fields DEF Floored
<1>5. Sorted(c)
  BY DEF Sorted
<1>6. Stacked(c)
  <2>1. \A s \in Slots : c.arrays[s] = NoArray
    BY DEF Orderly, Stacked
  <2>2. \A i \in DOMAIN c.frames : ~Below(mark(b), c.frames[i].mark)
    <3> SUFFICES ASSUME NEW i \in DOMAIN c.frames
                 PROVE  ~Below(mark(b), c.frames[i].mark)
      OBVIOUS
    <3>1. CASE i = 1
      BY <1>1, <3>1, Marks, Positions
    <3>2. CASE i # 1
      BY <1>1, <3>2 DEF Orderly, Stacked
    <3> QED BY <3>1, <3>2
  <2>3. \A i \in DOMAIN c.frames : ~Below(mark(c), c.frames[i].mark)
    BY <2>2, AboveFacts, Marks
  <2>4. ASSUME NEW i \in DOMAIN c.frames, NEW j \in DOMAIN c.frames, i < j
        PROVE  /\ ~Below(c.frames[i].mark, c.frames[j].mark)
               /\ Ends(c, c.frames[j].array, c.frames[i].mark)
    <3>0. /\ c.frames[j].array \in Stretch /\ c.frames[i].mark \in Position
          /\ mark(b) \in Position
      BY Fields, Marks
    <3>1. i \in Nat /\ j \in Nat /\ i # 0 /\ j # 1 /\ j - 1 \in DOMAIN b.frames /\ c.frames[j] = b.frames[j - 1]
      BY <1>1, <2>4
    <3>2. CASE i = 1
      <4>1. Ends(b, c.frames[j].array, mark(b))
        <5>1. <<"frame", j - 1, b.frames[j - 1].array>> \in LiveIn(b)
          BY <3>1, IsAlive
        <5> QED BY <3>1, <5>1 DEF Orderly, InPlace
      <4> QED BY <1>1, <2>2, <3>0, <3>2, <4>1, AboveFacts
    <3>3. CASE i # 1
      <4>1. i - 1 \in DOMAIN b.frames /\ c.frames[i] = b.frames[i - 1] /\ i - 1 < j - 1
        BY <1>1, <2>4, <3>1, <3>3
      <4>2. /\ ~Below(c.frames[i].mark, c.frames[j].mark)
            /\ Ends(b, c.frames[j].array, c.frames[i].mark)
        BY <3>1, <4>1 DEF Orderly, Stacked
      <4> QED BY <2>2, <3>0, <4>2, AboveFacts
    <3> QED BY <3>2, <3>3
  <2> QED BY <2>1, <2>3, <2>4 DEF Stacked
<1> QED BY <1>3, <1>4, <1>5, <1>6 DEF Orderly

(* The end of a block: what stays alive ends below where the position      *)
(* goes down to.                                                           *)
LEMMA OrderlyLeave ==
    ASSUME NEW b \in Activation, Orderly(b), b.frames # <<>>, NEW f \in Activation, NEW c \in Activation,
           Settled(f), mark(f) = mark(b), f.kind = b.kind, f.chunks = b.chunks, f.floor = b.floor,
           f.arrays = b.arrays, f.kept = b.kept, f.frames = Tail(b.frames),
           c = release(f, b.frames[1].mark)
    PROVE  Orderly(c)
<1> DEFINE m == b.frames[1].mark
<1>1. /\ Len(b.frames) \in Nat \ {0} /\ 1 \in DOMAIN b.frames
      /\ DOMAIN f.frames = 1 .. Len(b.frames) - 1
      /\ \A i \in DOMAIN f.frames : i + 1 \in DOMAIN b.frames /\ f.frames[i] = b.frames[i + 1]
  <2>1. b.frames \in Seq([mark : Position, array : Stretch])
    BY DEF Activation
  <2> QED BY <2>1, TailOf
<1>2. m \in Position
  BY <1>1, Marks
<1> HIDE DEF m
<1>3. /\ Alike(f, c) /\ ~Below(mark(f), mark(c))
      /\ \A p \in Position : ~Below(mark(f), p) /\ (~Below(m, p) \/ ~Below(f.floor, p))
                                => ~Below(mark(c), p)
  BY <1>2, Released DEF m
<1>4. /\ c.kind = b.kind /\ c.chunks = b.chunks /\ c.floor = b.floor
      /\ c.arrays = b.arrays /\ c.kept = b.kept /\ c.frames = f.frames
  BY <1>3 DEF Alike
<1>5. b.kind = "blocks"
  <2>1. b.kind \in {"cfg", "blocks"}
    BY DEF Activation
  <2> QED BY <2>1 DEF Orderly, Sorted
<1>6. \A q, p : Ends(c, q, p) <=> Ends(b, q, p)
  BY <1>4, EndsAlike
<1>7. ~Below(mark(b), m) /\ ~Below(mark(b), b.floor)
  BY <1>1, <1>5 DEF Orderly, Stacked, Floored, m
<1>8. ~Below(mark(c), m) /\ ~Below(mark(c), b.floor)
  <2>1. ~Below(m, m) /\ ~Below(b.floor, b.floor) /\ b.floor \in Position
    BY <1>2, Marks, Positions
  <2> QED BY <1>2, <1>3, <1>7, <2>1
<1>9. \A i \in DOMAIN c.frames :
          /\ Ends(b, c.frames[i].array, m) /\ ~Below(m, c.frames[i].mark)
          /\ i \in Nat /\ i + 1 \in DOMAIN b.frames /\ c.frames[i] = b.frames[i + 1]
  <2> SUFFICES ASSUME NEW i \in DOMAIN c.frames
               PROVE  /\ Ends(b, c.frames[i].array, m) /\ ~Below(m, c.frames[i].mark)
                      /\ i \in Nat /\ i + 1 \in DOMAIN b.frames /\ c.frames[i] = b.frames[i + 1]
    OBVIOUS
  <2>1. /\ i \in Nat /\ 1 < i + 1 /\ i + 1 \in DOMAIN b.frames /\ c.frames[i] = b.frames[i + 1]
    BY <1>1, <1>4
  <2> QED BY <1>1, <1>5, <2>1 DEF Orderly, Stacked, m
<1>10. \A x \in LiveIn(c) : Shifted(x, 1) \in LiveIn(b) /\ Ends(c, x[3], mark(c))
  <2> SUFFICES ASSUME NEW x \in LiveIn(c)
               PROVE  Shifted(x, 1) \in LiveIn(b) /\ Ends(c, x[3], mark(c))
    OBVIOUS
  <2>0. x[3] \in Stretch /\ mark(c) \in Position
    BY LiveTyped, Marks, <1>3, Released, <1>2
  <2>1. CASE \E s \in Slots : c.arrays[s] # NoArray /\ x = <<"array", s, c.arrays[s]>>
    BY <1>4, <1>5, <2>1 DEF Orderly, Stacked
  <2>2. CASE \E k \in DOMAIN c.frames : x = <<"frame", k, c.frames[k].array>>
    <3>1. PICK k \in DOMAIN c.frames : x = <<"frame", k, c.frames[k].array>>
      BY <2>2
    <3>2. Shifted(x, 1) = <<"frame", k + 1, b.frames[k + 1].array>>
      BY <1>9, <3>1 DEF Shifted
    <3>3. Ends(c, x[3], m)
      BY <1>6, <1>9, <3>1
    <3> QED BY <1>2, <1>8, <1>9, <2>0, <3>2, <3>3, IsAlive, EndsHigher
  <2>3. CASE \E k \in DOMAIN c.kept : x = <<"kept", k, c.kept[k]>>
    <3>1. PICK k \in DOMAIN c.kept : x = <<"kept", k, c.kept[k]>>
      BY <2>3
    <3>2. Shifted(x, 1) = x /\ x \in LiveIn(b)
      BY <1>4, <3>1, IsAlive DEF Shifted
    <3>3. Ends(c, x[3], b.floor)
      BY <1>4, <1>6, <3>1 DEF Orderly, Floored
    <3> QED BY <1>8, <2>0, <3>2, <3>3, Marks, EndsHigher
  <2> QED BY <2>1, <2>2, <2>3, IsAlive
<1>11. InPlace(c)
  BY <1>10 DEF InPlace
<1>12. Separate(c)
  BY <1>10, StillApart DEF Separate, Orderly
<1>13. Floored(c)
  BY <1>4, <1>6, <1>8 DEF Floored, Orderly
<1>14. Sorted(c)
  BY <1>4, <1>5 DEF Sorted
<1>15. Stacked(c)
  <2>1. \A s \in Slots : c.arrays[s] = NoArray
    BY <1>4, <1>5 DEF Orderly, Stacked
  <2>2. \A i \in DOMAIN c.frames : ~Below(mark(c), c.frames[i].mark)
    BY <1>2, <1>8, <1>9, Marks, Positions
  <2>3. ASSUME NEW i \in DOMAIN c.frames, NEW j \in DOMAIN c.frames, i < j
        PROVE  /\ ~Below(c.frames[i].mark, c.frames[j].mark)
               /\ Ends(c, c.frames[j].array, c.frames[i].mark)
    <3>1. i + 1 < j + 1 /\ i + 1 \in DOMAIN b.frames /\ j + 1 \in DOMAIN b.frames
      BY <1>9, <2>3
    <3> QED BY <1>5, <1>6, <1>9, <3>1 DEF Orderly, Stacked
  <2> QED BY <2>1, <2>2, <2>3 DEF Stacked
<1> QED BY <1>11, <1>12, <1>13, <1>14, <1>15 DEF Orderly


(* An array is not in scope where it is declared.                          *)
LEMMA NotItsOwn ==
    ASSUME NEW s \in Slots
    PROVE  s \notin Scope(s)
<1> DEFINE S == {u \in Slots : u < s}
<1>1. S \in SUBSET Slots /\ s \in Nat /\ s \notin S
  BY ScopesNest
<1>2. ASSUME NEW u \in S \cup {s}
      PROVE  Within[u] \in S \cup {NoSlot}
  <2>1. u \in Slots /\ u \in Nat /\ u <= s
    BY ScopesNest
  <2>2. Within[u] < u /\ Within[u] \in Slots \cup {NoSlot}
    BY <2>1, ScopesNest
  <2>3. CASE Within[u] \in Slots
    <3>1. Within[u] \in Nat
      BY <2>3, ScopesNest
    <3> QED BY <1>1, <2>1, <2>2, <2>3, <3>1
  <2> QED BY <2>2, <2>3
<1> HIDE DEF S
<1> QED BY <1>1, <1>2 DEF Scope

(* `Declare`: the arrays in scope lie below the declaration's old mark,    *)
(* which its own array and all that came after it lie above.               *)
LEMMA OrderlyDeclare ==
    ASSUME NEW a \in Activation, Settled(a), Orderly(a), a.kind = "cfg", NEW s \in Slots,
           \A t \in Scope(s) : a.arrays[t] # NoArray,
           NEW b, b = redefine(a, s), NEW c \in Activation, NEW o \in Stretch, Above(b, o, c),
           c.kind = b.kind, c.floor = b.floor, c.marks = b.marks,
           c.frames = b.frames, c.kept = b.kept,
           c.arrays = ArraysAt(b, s, o)
    PROVE  Orderly(c)
<1> DEFINE m == a.marks[s]
           new == <<"array", s, o>>
<1>1. /\ b \in Activation /\ Alike(a, b) /\ b.marks[s] = mark(b)
      /\ \A t \in Slots \ {s} :
            \/ b.marks[t] = NoMark
            \/ b.marks[t] = a.marks[t] /\ (m # NoMark => Below(a.marks[t], m))
      /\ \A t \in Slots \ {s} : m = NoMark \/ Below(a.marks[t], m) => b.marks[t] = a.marks[t]
      /\ m = NoMark => mark(b) = mark(a)
      /\ m # NoMark =>
            /\ ~Below(mark(a), mark(b))
            /\ \A p \in Position :
                  ~Below(mark(a), p) /\ (~Below(m, p) \/ ~Below(a.floor, p)) => ~Below(mark(b), p)
            /\ ~Below(mark(a), m) => ~Below(mark(b), m)
  BY Redefined
<1>0. c.arrays = [t \in Slots |-> IF t = s THEN o
                                  ELSE IF t \in Scope(s) THEN b.arrays[t] ELSE NoArray]
  BY DEF ArraysAt
<1>2. /\ c.kind = "cfg" /\ c.floor = a.floor /\ c.frames = a.frames /\ c.kept = a.kept
      /\ b.arrays = a.arrays /\ b.chunks = a.chunks
  BY <1>1 DEF Alike
<1>3. \A q, p : Ends(b, q, p) <=> Ends(a, q, p)
  BY <1>2, EndsAlike
<1>4. /\ a.frames = <<>>
      /\ \A u \in Slots : a.marks[u] # NoMark =>
            /\ Below(a.marks[u], mark(a))
            /\ \A t \in Scope(u) : a.marks[t] # NoMark /\ Below(a.marks[t], a.marks[u])
      /\ \A t \in Slots : a.arrays[t] # NoArray =>
            /\ a.marks[t] # NoMark
            /\ \A u \in Slots : Below(a.marks[t], a.marks[u]) => Ends(a, a.arrays[t], a.marks[u])
  BY DEF Orderly, Sorted
<1>5. /\ \A t \in Slots : a.marks[t] \in Int \X Int /\ (a.marks[t] # NoMark => a.marks[t] \in Position)
      /\ mark(a) \in Int \X Int /\ mark(b) \in Int \X Int /\ mark(b) \in Position
      /\ mark(a) \in Position /\ a.floor \in Position /\ a.floor \in Int \X Int
      /\ \A t \in Slots : a.arrays[t] # NoArray => a.arrays[t] \in Stretch
  BY <1>1, Marks, Fields
<1> HIDE DEF new
<1>6. /\ ~Below(mark(b), a.floor)
      /\ m # NoMark => ~Below(mark(b), m)
  <2>1. ~Below(mark(a), a.floor) /\ ~Below(a.floor, a.floor)
    BY <1>5, Positions DEF Orderly, Floored
  <2>2. m # NoMark => ~Below(mark(a), m)
    BY <1>4, <1>5, Positions
  <2> QED BY <1>1, <1>5, <2>1, <2>2
<1> HIDE DEF m
<1>7. \A u \in Slots \ {s} : b.marks[u] # NoMark =>
          b.marks[u] = a.marks[u] /\ Below(b.marks[u], mark(b)) /\ ~Below(mark(b), b.marks[u])
  <2> SUFFICES ASSUME NEW u \in Slots \ {s}, b.marks[u] # NoMark
               PROVE  /\ b.marks[u] = a.marks[u] /\ Below(b.marks[u], mark(b))
                      /\ ~Below(mark(b), b.marks[u])
    OBVIOUS
  <2>1. b.marks[u] = a.marks[u] /\ (m # NoMark => Below(a.marks[u], m))
    BY <1>1
  <2>2. m \in Int \X Int
    BY <1>5 DEF m
  <2>3. Below(b.marks[u], mark(b))
    <3>1. CASE m = NoMark
      BY <1>1, <1>4, <2>1, <3>1
    <3>2. CASE m # NoMark
      BY <1>5, <1>6, <2>1, <2>2, <3>2, Positions
    <3> QED BY <3>1, <3>2
  <2> QED BY <1>5, <2>1, <2>3, Positions
<1>8. \A t \in Scope(s) :
          /\ t \in Slots /\ t # s /\ b.marks[t] = a.marks[t] /\ b.marks[t] # NoMark
          /\ a.arrays[t] \in Stretch /\ Ends(b, a.arrays[t], mark(b))
  <2> SUFFICES ASSUME NEW t \in Scope(s)
               PROVE  /\ t \in Slots /\ t # s /\ b.marks[t] = a.marks[t] /\ b.marks[t] # NoMark
                      /\ a.arrays[t] \in Stretch /\ Ends(b, a.arrays[t], mark(b))
    OBVIOUS
  <2>1. t \in Slots /\ t # s
    BY NotItsOwn DEF Scope
  <2>2. a.arrays[t] \in Stretch /\ a.marks[t] # NoMark
    BY <1>4, <1>5, <2>1
  <2>3. CASE m = NoMark
    <3>1. <<"array", t, a.arrays[t]>> \in LiveIn(a)
      BY <2>1, IsAlive
    <3>2. Ends(a, a.arrays[t], mark(a))
      BY <3>1 DEF Orderly, InPlace
    <3> QED BY <1>1, <1>3, <2>1, <2>2, <2>3, <3>2
  <2>4. CASE m # NoMark
    <3>1. Below(a.marks[t], m)
      BY <1>4, <2>4 DEF m
    <3>2. Ends(a, a.arrays[t], m)
      BY <1>4, <2>1, <3>1 DEF m
    <3>3. m \in Position
      BY <1>5, <2>4 DEF m
    <3>4. Ends(a, a.arrays[t], mark(b))
      BY <1>5, <1>6, <2>2, <2>4, <3>2, <3>3, EndsHigher
    <3> QED BY <1>1, <1>3, <2>1, <2>2, <2>4, <3>1, <3>4
  <2> QED BY <2>3, <2>4
<1>9. \A k \in DOMAIN c.kept : Ends(b, c.kept[k], mark(b)) /\ Ends(b, c.kept[k], c.floor)
  <2> SUFFICES ASSUME NEW k \in DOMAIN c.kept
               PROVE  Ends(b, c.kept[k], mark(b)) /\ Ends(b, c.kept[k], c.floor)
    OBVIOUS
  <2>1. Ends(a, a.kept[k], a.floor) /\ a.kept[k] \in Stretch
    BY <1>2, Fields DEF Orderly, Floored
  <2>2. Ends(a, a.kept[k], mark(b))
    BY <1>5, <1>6, <2>1, EndsHigher
  <2> QED BY <1>2, <1>3, <2>1, <2>2
<1>10. GoesOn(a, b, c, o, new, 0)
  <2> SUFFICES ASSUME NEW x \in LiveIn(c)
               PROVE  \/ x = new /\ x[3] = o
                      \/ Shifted(x, 0) \in LiveIn(a) /\ Ends(b, x[3], mark(b))
    BY DEF GoesOn
  <2>1. Shifted(x, 0) = x
    BY LiveTyped DEF Shifted
  <2>2. CASE \E t \in Slots : c.arrays[t] # NoArray /\ x = <<"array", t, c.arrays[t]>>
    <3>1. PICK t \in Slots : c.arrays[t] # NoArray /\ x = <<"array", t, c.arrays[t]>>
      BY <2>2
    <3>2. CASE t = s
      BY <1>0, <3>1, <3>2 DEF new
    <3>3. CASE t # s
      <4>1. t \in Scope(s) /\ c.arrays[t] = a.arrays[t]
        BY <1>0, <1>2, <3>1, <3>3
      <4> QED BY <1>8, <2>1, <3>1, <4>1, IsAlive
    <3> QED BY <3>2, <3>3
  <2>3. CASE \E k \in DOMAIN c.frames : x = <<"frame", k, c.frames[k].array>>
    BY <1>2, <1>4, <2>3
  <2>4. CASE \E k \in DOMAIN c.kept : x = <<"kept", k, c.kept[k]>>
    BY <1>2, <1>9, <2>1, <2>4, IsAlive
  <2> QED BY <2>2, <2>3, <2>4, IsAlive
<1>11. InPlace(c) /\ Separate(c)
  <2>1. Separate(a)
    BY DEF Orderly
  <2> QED BY <1>1, <1>10, <2>1, StillOrderly
<1>12. Floored(c)
  <2>1. ~Below(mark(c), c.floor)
    BY <1>1, <1>2, <1>5, <1>6, AboveFacts
  <2>2. \A k \in DOMAIN c.kept : Ends(c, c.kept[k], c.floor)
    BY <1>1, <1>2, <1>5, <1>6, <1>9, Fields, AboveFacts
  <2> QED BY <2>1, <2>2 DEF Floored
<1>13. ASSUME NEW u \in Slots, c.marks[u] # NoMark
       PROVE  /\ Below(c.marks[u], mark(c))
              /\ \A t \in Scope(u) : c.marks[t] # NoMark /\ Below(c.marks[t], c.marks[u])
  <2>1. CASE u = s
    <3>1. Below(c.marks[u], mark(c))
      BY <1>1, <2>1, AboveFacts
    <3>2. \A t \in Scope(s) : c.marks[t] # NoMark /\ Below(c.marks[t], mark(b))
      BY <1>7, <1>8
    <3> QED BY <1>1, <2>1, <3>1, <3>2
  <2>2. CASE u # s
    <3>1. b.marks[u] = a.marks[u] /\ Below(b.marks[u], mark(b)) /\ a.marks[u] # NoMark
      BY <1>7, <1>13, <2>2
    <3>2. Below(c.marks[u], mark(c))
      BY <1>1, <1>5, <3>1, AboveFacts
    <3>3. ASSUME NEW t \in Scope(u)
          PROVE  c.marks[t] # NoMark /\ Below(c.marks[t], c.marks[u])
      <4>1. t \in Slots /\ a.marks[t] # NoMark /\ Below(a.marks[t], a.marks[u])
        BY <1>4, <3>1 DEF Scope
      <4>2. m # NoMark => Below(a.marks[u], m)
        BY <1>1, <1>13, <2>2
      <4>3. t # s
        <5> SUFFICES ASSUME t = s
                     PROVE  FALSE
          OBVIOUS
        <5>1. m # NoMark /\ Below(m, a.marks[u])
          BY <4>1 DEF m
        <5>2. m \in Int \X Int
          BY <1>5 DEF m
        <5> QED BY <1>5, <4>2, <5>1, <5>2, Positions
      <4>4. m = NoMark \/ Below(a.marks[t], m)
        <5> SUFFICES ASSUME m # NoMark
                     PROVE  Below(a.marks[t], m)
          OBVIOUS
        <5>1. Below(a.marks[u], m) /\ m \in Int \X Int
          BY <1>5, <4>2 DEF m
        <5>2. ~Below(m, a.marks[u])
          BY <1>5, <5>1, Positions
        <5> QED BY <1>5, <4>1, <5>1, <5>2, Positions
      <4>5. b.marks[t] = a.marks[t]
        BY <1>1, <4>1, <4>3, <4>4
      <4> QED BY <3>1, <4>1, <4>5
    <3> QED BY <3>2, <3>3
  <2> QED BY <2>1, <2>2
<1>14. ASSUME NEW t \in Slots, c.arrays[t] # NoArray
       PROVE  /\ c.marks[t] # NoMark
              /\ \A u \in Slots : Below(c.marks[t], c.marks[u]) => Ends(c, c.arrays[t], c.marks[u])
  <2>1. CASE t = s
    <3>1. c.marks[s] = mark(b) /\ c.marks[s] # NoMark
      BY <1>1, <1>5, Marks
    <3>2. ASSUME NEW u \in Slots, Below(c.marks[s], c.marks[u])
          PROVE  FALSE
      <4>1. CASE u = s
        BY <1>5, <3>1, <3>2, <4>1, Positions
      <4>2. CASE u # s /\ c.marks[u] # NoMark
        BY <1>7, <3>1, <3>2, <4>2
      <4>3. CASE c.marks[u] = NoMark
        BY <1>5, <3>1, <3>2, <4>3 DEF Below, NoMark, Position
      <4> QED BY <4>1, <4>2, <4>3
    <3> QED BY <2>1, <3>1, <3>2
  <2>2. CASE t # s
    <3>1. t \in Scope(s) /\ c.arrays[t] = a.arrays[t]
      BY <1>0, <1>2, <1>14, <2>2
    <3>2. /\ c.marks[t] = a.marks[t] /\ c.marks[t] # NoMark /\ a.arrays[t] \in Stretch
          /\ Ends(b, a.arrays[t], mark(b)) /\ a.arrays[t] # NoArray
      BY <1>8, <3>1
    <3>3. ASSUME NEW u \in Slots, Below(c.marks[t], c.marks[u])
          PROVE  Ends(c, c.arrays[t], c.marks[u])
      <4>1. CASE u = s
        <5>1. ~Below(mark(b), mark(b))
          BY <1>5, Positions
        <5> QED BY <1>1, <1>5, <3>1, <3>2, <4>1, <5>1, AboveFacts
      <4>2. CASE u # s /\ c.marks[u] # NoMark
        <5>1. b.marks[u] = a.marks[u] /\ ~Below(mark(b), b.marks[u]) /\ a.marks[u] \in Position
          BY <1>5, <1>7, <4>2
        <5>2. Ends(a, a.arrays[t], a.marks[u])
          BY <1>4, <3>2, <3>3, <5>1
        <5> QED BY <1>1, <1>3, <3>1, <3>2, <5>1, <5>2, AboveFacts
      <4>3. CASE c.marks[u] = NoMark
        BY <1>5, <3>2, <3>3, <4>3 DEF Below, NoMark, Position
      <4> QED BY <4>1, <4>2, <4>3
    <3> QED BY <3>2, <3>3
  <2> QED BY <2>1, <2>2
<1>15. Sorted(c)
  BY <1>2, <1>4, <1>13, <1>14 DEF Sorted
<1>16. Stacked(c)
  BY <1>2 DEF Stacked
<1> QED BY <1>11, <1>12, <1>15, <1>16 DEF Orderly


Lively == Chunked /\ Order

LEMMA OrderReplaced ==
    ASSUME Lively, calls # <<>>, NEW c \in Activation, Orderly(c), calls' = <<c>> \o Tail(calls)
    PROVE  Order'
<1>1. /\ DOMAIN calls' = DOMAIN calls /\ calls'[1] = c
      /\ \A i \in DOMAIN calls : i # 1 => calls'[i] = calls[i]
  BY Replaced DEF Lively, Chunked
<1>2. \A i \in DOMAIN calls' : Orderly(calls'[i])
  <2> SUFFICES ASSUME NEW i \in DOMAIN calls'
               PROVE  Orderly(calls'[i])
    OBVIOUS
  <2>1. CASE i = 1
    BY <1>1, <2>1
  <2>2. CASE i # 1
    BY <1>1, <2>2 DEF Lively, Order
  <2> QED BY <2>1, <2>2
<1> QED BY <1>2 DEF Order

(* What a step that gives an object leaves above the position it found.    *)
LEMMA AboveGiven ==
    ASSUME Lively, Chunked', NonEmpty, calls # <<>>, NEW b \in Activation, Settled(b),
           NEW req \in Requests, NEW g \in alloc(b, req), NEW c \in Activation, Moves(g, c),
           calls' = <<c>> \o Tail(calls)
    PROVE  g.object \in Stretch /\ Above(b, g.object, c)
<1>1. PICK new \in NewChunks, cs \in Seq(Space), cu \in Nat, tp \in Nat :
          Placed(b, req, g, cs, cu, tp)
  BY Gives DEF Lively, Chunked, TypeOK
<1>2. calls'[1] = c /\ 1 \in DOMAIN calls'
  <2>1. calls \in Seq(Activation) /\ TypeOK
    BY DEF Lively, Chunked, TypeOK
  <2>2. 1 \in DOMAIN calls
    BY <2>1, TailOf
  <2> QED BY <2>1, <2>2, Replaced
<1>3. Distinct(c)
  BY <1>2 DEF Chunked, Once, Distinct
<1> QED BY <1>1, <1>3, GivenAbove

LEMMA OrderStep ==
    ASSUME NonEmpty, Lively, [Next]_vars
    PROVE  Lively'
<1>0. TypeOK /\ Settling /\ Order /\ Chunked
  BY DEF Lively, Chunked
<1>1. Chunked'
  BY <1>0, ChunkedStep
<1>2. calls # <<>> => calls[1] \in Activation /\ Settled(calls[1]) /\ Orderly(calls[1])
  BY <1>0, Innermost DEF Order
<1>3. ASSUME NEW kind \in {"cfg", "blocks"}, Call(kind)
      PROVE  Order'
  <2> DEFINE c == [kind |-> kind, chunks |-> <<>>, cur |-> 0, top |-> 0, floor |-> <<0, 0>>,
                   marks |-> [s \in Slots |-> NoMark], arrays |-> [s \in Slots |-> NoArray],
                   frames |-> <<>>, kept |-> <<>>]
  <2>1. calls' = <<c>> \o calls /\ calls \in Seq(Activation)
    BY <1>0, <1>3 DEF Call, TypeOK
  <2>2. c \in Activation
    BY DEF Activation, Position
  <2>3. /\ c.floor = <<0, 0>> /\ mark(c) = <<0, 0>> /\ c.frames = <<>> /\ c.kept = <<>>
        /\ \A s \in Slots : c.marks[s] = NoMark /\ c.arrays[s] = NoArray
    BY DEF mark
  <2> HIDE DEF c
  <2>4. \A x : x \notin LiveIn(c)
    BY <2>3, IsAlive
  <2>5. Orderly(c)
    BY <2>3, <2>4 DEF Orderly, InPlace, Separate, Floored, Sorted, Stacked, Below
  <2>6. /\ calls'[1] = c /\ DOMAIN calls' = 1 .. Len(calls) + 1
        /\ \A i \in 1 .. Len(calls) + 1 : i # 1 => i - 1 \in DOMAIN calls /\ calls'[i] = calls[i - 1]
    BY <2>1, <2>2, Prepended
  <2>7. \A i \in DOMAIN calls' : Orderly(calls'[i])
    <3> SUFFICES ASSUME NEW i \in DOMAIN calls'
                 PROVE  Orderly(calls'[i])
      OBVIOUS
    <3>1. CASE i = 1
      BY <2>5, <2>6, <3>1
    <3>2. CASE i # 1
      BY <1>0, <2>6, <3>2 DEF Order
    <3> QED BY <3>1, <3>2
  <2> QED BY <2>7 DEF Order
<1>4. ASSUME Return
      PROVE  Order'
  <2>1. calls # <<>> /\ calls' = Tail(calls) /\ calls \in Seq(Activation)
    BY <1>0, <1>4 DEF Return, TypeOK
  <2>2. \A i \in DOMAIN calls' : i + 1 \in DOMAIN calls /\ calls'[i] = calls[i + 1]
    BY <2>1, TailOf
  <2>3. \A i \in DOMAIN calls' : Orderly(calls'[i])
    BY <1>0, <2>2 DEF Order
  <2> QED BY <2>3 DEF Order
<1>5. ASSUME Leave
      PROVE  Order'
  <2>1. PICK f \in Activation, c \in Activation :
          /\ calls # <<>> /\ calls[1].frames # <<>>
          /\ Settled(f) /\ mark(f) = mark(calls[1])
          /\ f.kind = calls[1].kind /\ f.chunks = calls[1].chunks /\ f.floor = calls[1].floor
          /\ f.arrays = calls[1].arrays /\ f.kept = calls[1].kept
          /\ f.frames = Tail(calls[1].frames)
          /\ c = release(f, calls[1].frames[1].mark)
          /\ calls' = <<c>> \o Tail(calls)
    BY <1>0, <1>5, Leaves
  <2>2. Orderly(c)
    BY <1>2, <2>1, OrderlyLeave
  <2> QED BY <2>1, <2>2, OrderReplaced
<1>6. ASSUME NEW req \in Requests, Enter(req)
      PROVE  Order'
  <2> DEFINE b == calls[1]
  <2>1. PICK g \in alloc(b, req), c \in Activation :
          /\ calls # <<>> /\ b.kind = "blocks" /\ calls' = <<c>> \o Tail(calls) /\ Moves(g, c)
          /\ c.kind = b.kind /\ c.floor = b.floor /\ c.marks = b.marks
          /\ c.arrays = b.arrays /\ c.kept = b.kept
          /\ c.frames = <<[mark |-> mark(b), array |-> g.object]>> \o b.frames
    BY <1>0, <1>6, Enters
  <2>2. b \in Activation /\ Settled(b) /\ Orderly(b)
    BY <1>2, <2>1
  <2> HIDE DEF b
  <2>3. g.object \in Stretch /\ Above(b, g.object, c)
    BY <1>1, <2>1, <2>2, AboveGiven
  <2>4. Orderly(c)
    BY <2>1, <2>2, <2>3, OrderlyEnter
  <2> QED BY <2>1, <2>4, OrderReplaced
<1>7. ASSUME NEW req \in Requests, alloca(req)
      PROVE  Order'
  <2> DEFINE b == calls[1]
  <2>1. PICK g \in alloc(b, req), c \in Activation :
          /\ calls # <<>> /\ calls' = <<c>> \o Tail(calls) /\ Moves(g, c)
          /\ c.kind = b.kind /\ c.floor = mark(g.arena) /\ c.marks = b.marks
          /\ c.arrays = b.arrays /\ c.frames = b.frames
          /\ c.kept = Append(b.kept, g.object)
    BY <1>0, <1>7, Allocas
  <2>2. b \in Activation /\ Settled(b) /\ Orderly(b)
    BY <1>2, <2>1
  <2> HIDE DEF b
  <2>3. g.object \in Stretch /\ Above(b, g.object, c)
    BY <1>1, <2>1, <2>2, AboveGiven
  <2>4. c.floor = mark(c)
    BY <2>1 DEF Moves, mark
  <2>5. Orderly(c)
    BY <2>1, <2>2, <2>3, <2>4, OrderlyAlloca
  <2> QED BY <2>1, <2>5, OrderReplaced
<1>8. ASSUME NEW req \in Requests, NEW s \in Slots, Declare(s, req)
      PROVE  Order'
  <2> DEFINE b == redefine(calls[1], s)
  <2>1. PICK g \in alloc(b, req), c \in Activation :
          /\ calls # <<>> /\ calls[1].kind = "cfg"
          /\ \A t \in Scope(s) : calls[1].arrays[t] # NoArray
          /\ calls' = <<c>> \o Tail(calls) /\ Moves(g, c)
          /\ c.kind = b.kind /\ c.floor = b.floor /\ c.marks = b.marks
          /\ c.frames = b.frames /\ c.kept = b.kept
          /\ c.arrays = ArraysAt(b, s, g.object)
    BY <1>0, <1>8, Declares
  <2>2. calls[1] \in Activation /\ Settled(calls[1]) /\ Orderly(calls[1])
    BY <1>2, <2>1
  <2>3. b \in Activation /\ Settled(b) /\ b = redefine(calls[1], s)
    BY <2>2, Redefined
  <2> HIDE DEF b
  <2>4. g.object \in Stretch /\ Above(b, g.object, c)
    BY <1>1, <2>1, <2>3, AboveGiven
  <2>5. Orderly(c)
    BY <2>1, <2>2, <2>3, <2>4, OrderlyDeclare
  <2> QED BY <2>1, <2>5, OrderReplaced
<1>9. ASSUME UNCHANGED vars
      PROVE  Order'
  <2>1. calls' = calls
    BY <1>9 DEF vars
  <2>2. \A i \in DOMAIN calls' : Orderly(calls'[i])
    BY <1>0, <2>1 DEF Order
  <2> QED BY <2>2 DEF Order
<1> QED BY <1>1, <1>3, <1>4, <1>5, <1>6, <1>7, <1>8, <1>9 DEF Next, Lively

LEMMA OrderStarts == Init => Lively
BY DEF Init, Lively, Chunked, TypeOK, Settling, Once, Order

(* Two calls share no chunk, and one call's objects are apart.             *)
LEMMA OrderSuffices ==
    ASSUME Lively
    PROVE  LiveInPlace /\ LiveApart
<1>1. ASSUME NEW i \in DOMAIN calls, NEW x \in LiveIn(calls[i])
      PROVE  Ends(calls[i], x[3], mark(calls[i]))
  BY DEF Lively, Order, Orderly, InPlace
<1>2. LiveInPlace
  BY <1>1 DEF LiveInPlace, Ends
<1>3. LiveApart
  <2>1. ASSUME NEW i \in DOMAIN calls, NEW j \in DOMAIN calls,
               NEW x \in LiveIn(calls[i]), NEW y \in LiveIn(calls[j]), <<i, x>> # <<j, y>>
        PROVE  Apart(x[3], y[3])
    <3>1. CASE i = j
      BY <2>1, <3>1 DEF Lively, Order, Orderly, Separate
    <3>2. CASE i # j
      <4>1. PICK k \in DOMAIN calls[i].chunks : calls[i].chunks[k].id = x[3].chunk
        BY <1>1 DEF Ends
      <4>2. PICK l \in DOMAIN calls[j].chunks : calls[j].chunks[l].id = y[3].chunk
        BY <1>1 DEF Ends
      <4>3. calls[i].chunks[k].id # calls[j].chunks[l].id
        BY <3>2 DEF Lively, Chunked, Once
      <4> QED BY <4>1, <4>2, <4>3 DEF Apart
    <3> QED BY <3>1, <3>2
  <2>2. ASSUME NEW u \in Live, NEW v \in Live, u # v
        PROVE  Apart(u[2][3], v[2][3])
    <3>1. PICK i \in DOMAIN calls : \E x \in LiveIn(calls[i]) : u = <<i, x>>
      BY DEF Live
    <3>2. PICK x \in LiveIn(calls[i]) : u = <<i, x>>
      BY <3>1
    <3>3. PICK j \in DOMAIN calls : \E y \in LiveIn(calls[j]) : v = <<j, y>>
      BY DEF Live
    <3>4. PICK y \in LiveIn(calls[j]) : v = <<j, y>>
      BY <3>3
    <3>5. Apart(x[3], y[3])
      BY <2>1, <2>2, <3>2, <3>4
    <3> QED BY <3>2, <3>4, <3>5
  <2> QED BY <2>2 DEF LiveApart
<1> QED BY <1>2, <1>3


(* What is live lies where its call's position has passed, in a chunk the  *)
(* call holds: what a release, or the end of a call, drops holds nothing   *)
(* that is alive.                                                          *)
THEOREM LiveStaysInPlace ==
    ASSUME NonEmpty
    PROVE  Spec => []LiveInPlace
<1>1. Init => Lively
  BY OrderStarts
<1>2. Lively /\ [Next]_vars => Lively'
  BY OrderStep
<1>3. Lively => LiveInPlace
  BY OrderSuffices
<1> QED BY <1>1, <1>2, <1>3, PTL DEF Spec

(* No two live objects share a byte, of one call or of two, however often  *)
(* a graph reaches its declarations again and whatever each block and each *)
(* call gives back.                                                        *)
THEOREM LiveStaysApart ==
    ASSUME NonEmpty
    PROVE  Spec => []LiveApart
<1>1. Init => Lively
  BY OrderStarts
<1>2. Lively /\ [Next]_vars => Lively'
  BY OrderStep
<1>3. Lively => LiveApart
  BY OrderSuffices
<1> QED BY <1>1, <1>2, <1>3, PTL DEF Spec

-----------------------------------------------------------------------------
(* Room: what a graph's declarations hold of a chunk.                      *)
LEMMA MostIsMost ==
    /\ Most \in Nat
    /\ \A req \in Requests : req.bytes + req.align - 1 <= Most
<1> DEFINE S == {r.bytes + r.align - 1 : r \in Requests}
<1>1. PICK r \in Requests : \A q \in Requests : q.bytes + q.align <= r.bytes + r.align
  BY SizesAssumption
<1>2. \A q \in Requests : q.bytes \in Nat /\ q.align \in Nat \ {0}
  BY SizesAssumption DEF Request
<1> DEFINE m == r.bytes + r.align - 1
<1>3. m \in S /\ m \in Nat
  BY <1>2
<1>4. \A x \in S : x \in Nat /\ x <= m
  BY <1>1, <1>2
<1>5. Most = Greatest(S)
  BY DEF Most
<1> HIDE DEF S, m
<1>6. Greatest(S) \in S /\ \A y \in S : y <= Greatest(S)
  BY <1>3, <1>4 DEF Greatest
<1>7. \A q \in Requests : q.bytes + q.align - 1 \in S
  BY DEF S
<1> QED BY <1>4, <1>5, <1>6, <1>7

LEMMA Counted ==
    ASSUME NEW S \in SUBSET Slots
    PROVE  /\ Cardinality(S) \in Nat
           /\ \A s \in Slots \ S : Cardinality(S \cup {s}) = Cardinality(S) + 1
<1>1. IsFiniteSet(S)
  BY ScopesNest, FS_Subset
<1> QED BY <1>1, FS_CardinalityType, FS_AddElement

LEMMA OneMoreOf ==
    ASSUME NEW m \in Nat, NEW n \in Nat
    PROVE  m * (n + 1) = m * n + m /\ m * n \in Nat
OBVIOUS

(* How far an object takes the position up within a chunk.                 *)
LEMMA GivenRoom ==
    ASSUME NEW a \in Activation, NEW req \in Requests, NEW g, NEW cs, NEW cu, NEW tp,
           Placed(a, req, g, cs, cu, tp), NEW c \in Activation, Moves(g, c), c.cur = 0
    PROVE  a.cur = 0 /\ c.top <= a.top + Most
<1>1. /\ g.object.from \in Nat /\ g.object.upto \in Nat
      /\ cu \in Nat /\ tp \in Nat
      /\ tp <= g.object.from /\ g.object.from <= tp + req.align - 1
      /\ g.object.upto = g.object.from + req.bytes
      /\ ~Below(<<cu, tp>>, mark(a)) /\ (tp = 0 \/ (tp = a.top /\ cu = a.cur))
  BY DEF Placed, Stretch
<1>2. c.cur = cu /\ c.top = g.object.upto
  <2>1. g.arena = Moved(a, cs, cu, g.object.upto)
    BY DEF Placed
  <2>2. PICK e \in Nat : e = g.object.upto
    BY <1>1
  <2>3. PICK b : b = g.arena
    OBVIOUS
  <2>4. b = Moved(a, cs, cu, e)
    BY <2>1, <2>2, <2>3
  <2>5. b.cur = cu /\ b.top = e
    BY <2>4 DEF Activation, Moved
  <2> QED BY <2>2, <2>3, <2>5 DEF Moves
<1>3. req.bytes \in Nat /\ req.align \in Nat \ {0} /\ req.bytes + req.align - 1 <= Most /\ Most \in Nat
  BY MostIsMost, SizesAssumption DEF Request
<1>4. a.cur \in Nat /\ a.top \in Nat
  BY DEF Activation
<1>5. a.cur = 0
  BY <1>1, <1>2, <1>4 DEF Below, mark
<1> QED BY <1>1, <1>2, <1>3, <1>4, <1>5

(* `Declare`: what the declaration's array took before is given back.      *)
LEMMA PackedDeclare ==
    ASSUME NEW a \in Activation, Settled(a), Orderly(a), Packed(a), a.kind = "cfg", NEW s \in Slots,
           NEW b, b = redefine(a, s), NEW c \in Activation, Below(mark(b), mark(c)),
           c.kind = b.kind, c.floor = b.floor, c.marks = b.marks, c.kept = b.kept,
           c.cur = 0 => b.cur = 0 /\ c.top <= b.top + Most
    PROVE  Packed(c)
<1> DEFINE m == a.marks[s]
<1>1. /\ b \in Activation /\ Alike(a, b) /\ b.marks[s] = mark(b)
      /\ \A t \in Slots \ {s} :
            \/ b.marks[t] = NoMark
            \/ b.marks[t] = a.marks[t] /\ (m # NoMark => Below(a.marks[t], m))
      /\ \A t \in Slots \ {s} : m = NoMark \/ Below(a.marks[t], m) => b.marks[t] = a.marks[t]
      /\ m = NoMark => mark(b) = mark(a)
      /\ m # NoMark => (~Below(mark(a), m) /\ ~Below(m, a.floor) => mark(b) = m)
  BY Redefined
<1> SUFFICES ASSUME c.kept = <<>>
             PROVE  Packed(c)
  BY DEF Packed
<1>2. /\ a.kept = <<>> /\ c.floor = a.floor /\ a.floor = <<0, 0>>
      /\ \A u \in Slots : a.marks[u] # NoMark /\ a.marks[u][1] = 0 =>
            a.marks[u][2] <= Most * Cardinality(Under(a, a.marks[u]))
      /\ a.cur = 0 => a.top <= Most * Cardinality(Under(a, mark(a)))
  BY <1>1 DEF Alike, Packed
<1>3. /\ \A t \in Slots : a.marks[t] \in Int \X Int /\ (a.marks[t] # NoMark => a.marks[t] \in Position)
      /\ mark(a) \in Int \X Int /\ mark(b) \in Int \X Int /\ mark(b) \in Position
      /\ mark(c) \in Int \X Int
      /\ mark(a) = <<a.cur, a.top>> /\ mark(b) = <<b.cur, b.top>>
      /\ b.cur \in Nat /\ b.top \in Nat /\ c.top \in Nat /\ mark(b) # NoMark
  <2>1. b.cur \in Nat /\ b.top \in Nat /\ c.top \in Nat
    BY <1>1 DEF Activation
  <2> QED BY <1>1, <2>1, Marks DEF mark
<1>4. \A u \in Slots : a.marks[u] # NoMark => Below(a.marks[u], mark(a))
  BY DEF Orderly, Sorted
<1>5. m # NoMark => mark(b) = m
  <2> SUFFICES ASSUME m # NoMark
               PROVE  mark(b) = m
    OBVIOUS
  <2>1. m \in Position
    BY <1>3
  <2>2. ~Below(mark(a), m)
    BY <1>3, <1>4, Positions
  <2>3. ~Below(m, a.floor)
    BY <1>2, <2>1 DEF Below, Position
  <2> QED BY <1>1, <2>2, <2>3
<1> DEFINE back == mark(b)
<1>6. m # NoMark => m = back
  BY <1>5
<1>7. /\ c.marks[s] = back /\ back \in Int \X Int /\ back # NoMark
      /\ \A t \in Slots \ {s} : c.marks[t] # NoMark => c.marks[t] = a.marks[t] /\ Below(a.marks[t], back)
      /\ \A t \in Slots \ {s} : m = NoMark \/ Below(a.marks[t], back) => c.marks[t] = a.marks[t]
  <2>1. ASSUME NEW t \in Slots \ {s}, c.marks[t] # NoMark
        PROVE  c.marks[t] = a.marks[t] /\ Below(a.marks[t], back)
    <3>1. c.marks[t] = a.marks[t] /\ (m # NoMark => Below(a.marks[t], m))
      BY <1>1, <2>1
    <3>2. m = NoMark => Below(a.marks[t], back)
      BY <1>1, <1>4, <2>1, <3>1
    <3> QED BY <1>5, <3>1, <3>2
  <2>2. \A t \in Slots \ {s} : m = NoMark \/ Below(a.marks[t], back) => c.marks[t] = a.marks[t]
    BY <1>1, <1>5
  <2> QED BY <1>1, <1>3, <2>1, <2>2
<1> HIDE DEF back
<1>8. \A p \in Int \X Int : ~Below(back, p) => Under(c, p) = Under(a, p)
  <2> SUFFICES ASSUME NEW p \in Int \X Int, ~Below(back, p), NEW t \in Slots
               PROVE  /\ c.marks[t] # NoMark /\ Below(c.marks[t], p)
                         => a.marks[t] # NoMark /\ Below(a.marks[t], p)
                      /\ a.marks[t] # NoMark /\ Below(a.marks[t], p)
                         => c.marks[t] # NoMark /\ Below(c.marks[t], p)
    BY DEF Under
  <2>1. ASSUME c.marks[t] # NoMark, Below(c.marks[t], p)
        PROVE  a.marks[t] # NoMark /\ Below(a.marks[t], p)
    BY <1>7, <2>1
  <2>2. ASSUME a.marks[t] # NoMark, Below(a.marks[t], p)
        PROVE  c.marks[t] # NoMark /\ Below(c.marks[t], p)
    <3>1. Below(a.marks[t], back)
      BY <1>3, <1>7, <2>2, Positions
    <3>2. t # s
      BY <1>6, <1>7, <2>2, <3>1, Positions
    <3> QED BY <1>7, <2>2, <3>1, <3>2
  <2> QED BY <2>1, <2>2
<1>9. back[1] = 0 => back[2] <= Most * Cardinality(Under(c, back))
  <2>1. Under(c, back) = Under(a, back)
    BY <1>7, <1>8, Positions
  <2>2. CASE m = NoMark
    BY <1>1, <1>2, <1>3, <2>1, <2>2 DEF back
  <2>3. CASE m # NoMark
    BY <1>2, <1>6, <2>1, <2>3
  <2> QED BY <2>2, <2>3
<1>10. ASSUME NEW u \in Slots, c.marks[u] # NoMark, c.marks[u][1] = 0
       PROVE  c.marks[u][2] <= Most * Cardinality(Under(c, c.marks[u]))
  <2>1. CASE u = s
    BY <1>7, <1>9, <1>10, <2>1
  <2>2. CASE u # s
    <3>1. c.marks[u] = a.marks[u] /\ Below(a.marks[u], back)
      BY <1>7, <1>10, <2>2
    <3>2. ~Below(back, a.marks[u])
      BY <1>3, <1>7, <3>1, Positions
    <3>3. Under(c, a.marks[u]) = Under(a, a.marks[u])
      BY <1>3, <1>8, <3>2
    <3> QED BY <1>2, <1>10, <3>1, <3>3
  <2> QED BY <2>1, <2>2
<1>11. Under(c, mark(c)) = Under(c, back) \cup {s} /\ s \notin Under(c, back)
  <2>1. s \notin Under(c, back)
    BY <1>7, Positions DEF Under
  <2>2. ASSUME NEW t \in Slots \ {s}, c.marks[t] # NoMark
        PROVE  Below(c.marks[t], back) /\ Below(c.marks[t], mark(c))
    <3>1. c.marks[t] \in Int \X Int /\ Below(c.marks[t], back)
      BY <1>3, <1>7, <2>2
    <3>2. Below(back, mark(c))
      BY DEF back
    <3>3. ~Below(mark(c), back)
      BY <1>3, <1>7, <3>2, Positions
    <3> QED BY <1>3, <1>7, <3>1, <3>3, Positions
  <2>3. Below(c.marks[s], mark(c)) /\ c.marks[s] # NoMark
    BY <1>7 DEF back
  <2> QED BY <2>1, <2>2, <2>3 DEF Under
<1>12. c.cur = 0 => c.top <= Most * Cardinality(Under(c, mark(c)))
  <2> SUFFICES ASSUME c.cur = 0
               PROVE  c.top <= Most * Cardinality(Under(c, mark(c)))
    OBVIOUS
  <2>1. PICK S \in SUBSET Slots : S = Under(c, back)
    BY DEF Under
  <2>2. PICK n \in Nat : n = Cardinality(S)
    BY Counted
  <2>3. Cardinality(Under(c, mark(c))) = n + 1
    <3>1. s \in Slots \ S /\ Under(c, mark(c)) = S \cup {s}
      BY <1>11, <2>1
    <3> QED BY <2>2, <3>1, Counted
  <2>4. b.top <= Most * n /\ c.top <= b.top + Most
    BY <1>3, <1>9, <2>1, <2>2 DEF back
  <2>5. c.top <= Most * n + Most
    BY <1>3, <2>4, OneMoreOf, MostIsMost
  <2> QED BY <2>3, <2>5, OneMoreOf, MostIsMost
<1> QED BY <1>2, <1>10, <1>12 DEF Packed


Sparing == Lively /\ Packing

LEMMA PackingReplaced ==
    ASSUME Sparing, calls # <<>>, NEW c \in Activation, Packed(c), calls' = <<c>> \o Tail(calls)
    PROVE  Packing'
<1>1. /\ DOMAIN calls' = DOMAIN calls /\ calls'[1] = c
      /\ \A i \in DOMAIN calls : i # 1 => calls'[i] = calls[i]
  BY Replaced DEF Sparing, Lively, Chunked
<1>2. \A i \in DOMAIN calls' : Packed(calls'[i])
  <2> SUFFICES ASSUME NEW i \in DOMAIN calls'
               PROVE  Packed(calls'[i])
    OBVIOUS
  <2>1. CASE i = 1
    BY <1>1, <2>1
  <2>2. CASE i # 1
    BY <1>1, <2>2 DEF Sparing, Packing
  <2> QED BY <2>1, <2>2
<1> QED BY <1>2 DEF Packing

LEMMA Lengthened ==
    ASSUME NEW S, NEW s \in Seq(S), NEW x \in S
    PROVE  Append(s, x) # <<>>
<1>1. Len(Append(s, x)) = Len(s) + 1 /\ Len(s) \in Nat
  OBVIOUS
<1>2. Len(<<>>) = 0
  OBVIOUS
<1> QED BY <1>1, <1>2

LEMMA PackingStep ==
    ASSUME NonEmpty, Sparing, [Next]_vars
    PROVE  Sparing'
<1>0. Lively /\ TypeOK /\ Settling /\ Order /\ Chunked /\ Packing
  BY DEF Sparing, Lively, Chunked
<1>1. Lively'
  BY <1>0, OrderStep
<1>2. calls # <<>> => /\ calls[1] \in Activation /\ Settled(calls[1])
                      /\ Orderly(calls[1]) /\ Packed(calls[1])
  BY <1>0, Innermost DEF Order, Packing
<1>3. ASSUME NEW kind \in {"cfg", "blocks"}, Call(kind)
      PROVE  Packing'
  <2> DEFINE c == [kind |-> kind, chunks |-> <<>>, cur |-> 0, top |-> 0, floor |-> <<0, 0>>,
                   marks |-> [s \in Slots |-> NoMark], arrays |-> [s \in Slots |-> NoArray],
                   frames |-> <<>>, kept |-> <<>>]
  <2>1. calls' = <<c>> \o calls /\ calls \in Seq(Activation)
    BY <1>0, <1>3 DEF Call, TypeOK
  <2>2. c \in Activation
    BY DEF Activation, Position
  <2>3. c.floor = <<0, 0>> /\ c.top = 0 /\ \A s \in Slots : c.marks[s] = NoMark
    OBVIOUS
  <2> HIDE DEF c
  <2>4. Packed(c)
    <3>1. PICK n \in Nat : n = Cardinality(Under(c, mark(c)))
      BY Counted DEF Under
    <3>2. 0 <= Most * n
      BY MostIsMost, OneMoreOf
    <3> QED BY <2>3, <3>1, <3>2 DEF Packed
  <2>5. /\ calls'[1] = c /\ DOMAIN calls' = 1 .. Len(calls) + 1
        /\ \A i \in 1 .. Len(calls) + 1 : i # 1 => i - 1 \in DOMAIN calls /\ calls'[i] = calls[i - 1]
    BY <2>1, <2>2, Prepended
  <2>6. \A i \in DOMAIN calls' : Packed(calls'[i])
    <3> SUFFICES ASSUME NEW i \in DOMAIN calls'
                 PROVE  Packed(calls'[i])
      OBVIOUS
    <3>1. CASE i = 1
      BY <2>4, <2>5, <3>1
    <3>2. CASE i # 1
      BY <1>0, <2>5, <3>2 DEF Packing
    <3> QED BY <3>1, <3>2
  <2> QED BY <2>6 DEF Packing
<1>4. ASSUME Return
      PROVE  Packing'
  <2>1. calls # <<>> /\ calls' = Tail(calls) /\ calls \in Seq(Activation)
    BY <1>0, <1>4 DEF Return, TypeOK
  <2>2. \A i \in DOMAIN calls' : i + 1 \in DOMAIN calls /\ calls'[i] = calls[i + 1]
    BY <2>1, TailOf
  <2>3. \A i \in DOMAIN calls' : Packed(calls'[i])
    BY <1>0, <2>2 DEF Packing
  <2> QED BY <2>3 DEF Packing
<1>5. ASSUME Leave
      PROVE  Packing'
  <2>1. PICK f \in Activation, c \in Activation :
          /\ calls # <<>> /\ calls[1].frames # <<>> /\ calls[1].frames[1].mark \in Position
          /\ Settled(f) /\ f.kind = calls[1].kind
          /\ c = release(f, calls[1].frames[1].mark)
          /\ calls' = <<c>> \o Tail(calls)
    BY <1>0, <1>5, Leaves
  <2>2. calls[1].kind # "cfg"
    BY <1>2, <2>1 DEF Orderly, Sorted
  <2>3. Alike(f, c)
    BY <2>1, Released
  <2>4. Packed(c)
    BY <2>1, <2>2, <2>3 DEF Packed, Alike
  <2> QED BY <2>1, <2>4, PackingReplaced
<1>6. ASSUME NEW req \in Requests, Enter(req)
      PROVE  Packing'
  <2>1. PICK g \in alloc(calls[1], req), c \in Activation :
          /\ calls # <<>> /\ calls[1].kind = "blocks"
          /\ calls' = <<c>> \o Tail(calls) /\ c.kind = calls[1].kind
    BY <1>0, <1>6, Enters
  <2>2. Packed(c)
    BY <2>1 DEF Packed
  <2> QED BY <2>1, <2>2, PackingReplaced
<1>7. ASSUME NEW req \in Requests, alloca(req)
      PROVE  Packing'
  <2>1. PICK g \in alloc(calls[1], req), c \in Activation :
          /\ calls # <<>> /\ calls' = <<c>> \o Tail(calls)
          /\ c.kept = Append(calls[1].kept, g.object)
    BY <1>0, <1>7, Allocas
  <2>2. c.kept # <<>>
    <3>1. calls[1].kept \in Seq(Stretch)
      BY <1>2, <2>1 DEF Activation
    <3>2. g.object \in Stretch
      BY <1>0, <1>2, <2>1, GivenTyped DEF TypeOK
    <3> QED BY <2>1, <3>1, <3>2, Lengthened
  <2>3. Packed(c)
    BY <2>2 DEF Packed
  <2> QED BY <2>1, <2>3, PackingReplaced
<1>8. ASSUME NEW req \in Requests, NEW s \in Slots, Declare(s, req)
      PROVE  Packing'
  <2> DEFINE b == redefine(calls[1], s)
  <2>1. PICK g \in alloc(b, req), c \in Activation :
          /\ calls # <<>> /\ calls[1].kind = "cfg"
          /\ calls' = <<c>> \o Tail(calls) /\ Moves(g, c)
          /\ c.kind = b.kind /\ c.floor = b.floor /\ c.marks = b.marks /\ c.kept = b.kept
    BY <1>0, <1>8, Declares
  <2>2. calls[1] \in Activation /\ Settled(calls[1]) /\ Orderly(calls[1]) /\ Packed(calls[1])
    BY <1>2, <2>1
  <2>3. b \in Activation /\ Settled(b) /\ b = redefine(calls[1], s)
    BY <2>2, Redefined
  <2> HIDE DEF b
  <2>4. Below(mark(b), mark(c))
    <3>1. Chunked'
      BY <1>1 DEF Lively
    <3> QED BY <1>0, <2>1, <2>3, <3>1, AboveGiven DEF Above
  <2>5. c.cur = 0 => b.cur = 0 /\ c.top <= b.top + Most
    <3>1. PICK new \in NewChunks, cs \in Seq(Space), cu \in Nat, tp \in Nat :
              Placed(b, req, g, cs, cu, tp)
      BY <1>0, <2>3, Gives DEF TypeOK
    <3> QED BY <2>1, <2>3, <3>1, GivenRoom
  <2>6. Packed(c)
    BY <2>1, <2>2, <2>3, <2>4, <2>5, PackedDeclare
  <2> QED BY <2>1, <2>6, PackingReplaced
<1>9. ASSUME UNCHANGED vars
      PROVE  Packing'
  <2>1. calls' = calls
    BY <1>9 DEF vars
  <2>2. \A i \in DOMAIN calls' : Packed(calls'[i])
    BY <1>0, <2>1 DEF Packing
  <2> QED BY <2>2 DEF Packing
<1> QED BY <1>1, <1>3, <1>4, <1>5, <1>6, <1>7, <1>8, <1>9 DEF Next, Sparing

LEMMA PackingStarts == Init => Sparing
BY OrderStarts DEF Init, Sparing, Packing

LEMMA PackingSuffices ==
    ASSUME Sparing
    PROVE  Bounded
<1> SUFFICES ASSUME NEW i \in DOMAIN calls, calls[i].kind = "cfg", calls[i].kept = <<>>,
                    calls[i].cur = 0
             PROVE  calls[i].top <= Most * Cardinality({s \in Slots : calls[i].marks[s] # NoMark})
  BY DEF Bounded, Most
<1>1. Orderly(calls[i]) /\ Packed(calls[i])
  BY DEF Sparing, Lively, Order, Packing
<1>2. Under(calls[i], mark(calls[i])) = {s \in Slots : calls[i].marks[s] # NoMark}
  BY <1>1 DEF Orderly, Sorted, Under
<1> QED BY <1>1, <1>2 DEF Packed

(* A graph that reaches its declarations again and again, in any order,    *)
(* takes no more of its first chunk than a room for each declaration that  *)
(* holds an array: a loop around one does not grow the arena.              *)
THEOREM LoopsDoNotGrow ==
    ASSUME NonEmpty
    PROVE  Spec => []Bounded
<1>1. Init => Sparing
  BY PackingStarts
<1>2. Sparing /\ [Next]_vars => Sparing'
  BY PackingStep
<1>3. Sparing => Bounded
  BY PackingSuffices
<1> QED BY <1>1, <1>2, <1>3, PTL DEF Spec
=============================================================================
