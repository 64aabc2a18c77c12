------------------------------ MODULE VlaArena ------------------------------
(***************************************************************************)
(* The bump arena that variable length arrays and `alloca` are emulated    *)
(* with: the items `arena_items` of crates/cinrs-core/src/codegen.rs emits *)
(* into a unit, used by nested calls of one thread.                        *)
(*                                                                         *)
(* A call is lowered with its blocks, each array a frame that the end of   *)
(* its block drops, or as a graph ("cfg"), where a jump may reach a        *)
(* declaration again and nothing tells that a block was left.              *)
(***************************************************************************)
EXTENDS Integers, Sequences, FiniteSets

CONSTANTS Slots,        \* the array declarations of a function, in its order
          Within,       \* the innermost array in whose scope each one stands
          Requests,     \* the sizes and alignments asked for
          Bases,        \* what the allocator may make of a chunk's address
          Chunks,       \* what tells the allocator's chunks apart
          MinChunk,     \* the least chunk (4096 bytes)
          MaxSpare,     \* the lists of chunks a thread keeps (64)
          MaxChunk, MaxCalls, MaxLive    \* bounds of the model

NoSlot == -1

ASSUME ScopesNest ==
    /\ Slots \subseteq Nat /\ IsFiniteSet(Slots)
    /\ Within \in [Slots -> Slots \cup {NoSlot}]
    /\ \A s \in Slots : Within[s] < s

Request == [bytes : Nat, align : Nat \ {0}]

ASSUME SizesAssumption ==
    /\ Requests \subseteq Request
    /\ \E r \in Requests : \A q \in Requests : q.bytes + q.align <= r.bytes + r.align
    /\ Chunks \subseteq Nat /\ Bases \subseteq Nat
    /\ MinChunk \in Nat /\ MaxSpare \in Nat /\ MaxChunk \in Nat

VARIABLES calls,        \* the calls in progress, the innermost first
          spare         \* __CINRS_VLA_SPARE, the last list kept first

vars == <<calls, spare>>

NoMark == <<-1, 0>>
NoArray == [chunk |-> -1, from |-> 0, upto |-> 0]

-----------------------------------------------------------------------------
(* The arena.                                                              *)

(* Positions, a chunk and an offset in it, are compared as tuples.         *)
Below(p, q) == p[1] < q[1] \/ (p[1] = q[1] /\ p[2] < q[2])
mark(a) == <<a.cur, a.top>>

Chunk(a) == a.chunks[a.cur + 1]

(* Where the next object starts: padded by address.                        *)
Start(a, req) == a.top + ((-(Chunk(a).base + a.top)) % req.align)

Fits(a, req) == a.cur < Len(a.chunks) /\ Start(a, req) + req.bytes <= Chunk(a).size

Greatest(S) == CHOOSE x \in S : \A y \in S : y <= x

(* `grow`: on to the next chunk if it is large enough, and otherwise to a  *)
(* new one in the place of all that follow.                                *)
grow(a, req, new) ==
    LET next == IF a.chunks = <<>> THEN 0 ELSE a.cur + 1
        need == req.bytes + req.align
        fits == next < Len(a.chunks) /\ a.chunks[next + 1].size >= need
        last == IF a.chunks = <<>> THEN 0 ELSE a.chunks[Len(a.chunks)].size
        size == Greatest({need, 2 * last, MinChunk})
        cut  == SubSeq(a.chunks, 1, next)
    IN  [a EXCEPT !.chunks = IF fits THEN @
                             ELSE Append(cut, [id |-> new.id, base |-> new.base, size |-> size]),
                  !.cur = next, !.top = 0]

(* A faulty bytes: the list that is taken stays spare.                     *)
Roomy_shared(a, req, new) ==
    LET taken == [a EXCEPT !.chunks = Head(spare)]
        from  == IF a.chunks = <<>> /\ spare # <<>> THEN taken ELSE a
    IN  [arena |-> IF Fits(from, req) THEN from ELSE grow(from, req, new), spare |-> spare]

(* `bytes` up to the bump: the arena with room for the request, and the    *)
(* lists that are still spare.                                             *)
Roomy(a, req, new) ==
    LET taken == [a EXCEPT !.chunks = Head(spare)]
    IN  IF Fits(a, req) THEN [arena |-> a, spare |-> spare]
        ELSE IF a.chunks = <<>> /\ spare # <<>>
             THEN [arena |-> IF Fits(taken, req) THEN taken ELSE grow(taken, req, new),
                   spare |-> Tail(spare)]
             ELSE [arena |-> grow(a, req, new), spare |-> spare]

Object(a, req) ==
    [chunk |-> Chunk(a).id, from |-> Start(a, req), upto |-> Start(a, req) + req.bytes]
Bump(a, req) == [a EXCEPT !.top = Start(a, req) + req.bytes]

(* A faulty release: it gives back what alloca took as well.               *)
release_kept(a, to) == IF Below(to, mark(a)) THEN [a EXCEPT !.cur = to[1], !.top = to[2]] ELSE a

release(a, to) ==
    LET down == IF Below(a.floor, to) THEN to ELSE a.floor
    IN  IF Below(down, mark(a)) THEN [a EXCEPT !.cur = down[1], !.top = down[2]] ELSE a

(* A faulty redefine: nothing is given back.                               *)
redefine_keeps(a, s) == [a EXCEPT !.marks[s] = mark(a)]

(* `redefine`: a declaration of a graph is reached; what it took before,   *)
(* and all that was taken since, is given back and forgotten.              *)
redefine(a, s) ==
    LET mine  == a.marks[s]
        since == {t \in Slots : a.marks[t] # NoMark /\ ~Below(a.marks[t], mine)}
        back  == IF mine = NoMark THEN a
                 ELSE release([a EXCEPT !.marks =
                                  [t \in Slots |-> IF t \in since THEN NoMark ELSE @[t]]], mine)
    IN  [back EXCEPT !.marks[s] = mark(back)]

-----------------------------------------------------------------------------
(* The calls.                                                              *)

(* Lists of chunks: one per call, and the spare ones.                      *)
Lists == {calls[i].chunks : i \in DOMAIN calls} \cup {spare[i] : i \in DOMAIN spare}
Used == UNION {{l[k].id : k \in DOMAIN l} : l \in Lists}

(* A chunk the allocator may give.                                         *)
NewChunks ==
    LET free == Chunks \ Used
    IN  {[id |-> CHOOSE n \in free : TRUE, base |-> b] : b \in {x \in Bases : free # {}}}

Init == calls = <<>> /\ spare = <<>>

Call(kind) ==
    /\ Len(calls) < MaxCalls
    /\ calls' = <<[kind |-> kind, chunks |-> <<>>, cur |-> 0, top |-> 0, floor |-> <<0, 0>>,
                   marks |-> [s \in Slots |-> NoMark], arrays |-> [s \in Slots |-> NoArray],
                   frames |-> <<>>, kept |-> <<>>]>> \o calls
    /\ UNCHANGED spare

(* The arena is dropped, and leaves its chunks to the next call.           *)
Return ==
    /\ calls # <<>>
    /\ calls' = Tail(calls)
    /\ spare' = IF calls[1].chunks # <<>> /\ Len(spare) < MaxSpare
                THEN <<calls[1].chunks>> \o spare ELSE spare

(* The objects of a call whose lifetime has not ended.                     *)
LiveIn(c) ==
    {<<"array", s, c.arrays[s]>> : s \in {t \in Slots : c.arrays[t] # NoArray}}
        \cup {<<"frame", k, c.frames[k].array>> : k \in DOMAIN c.frames}
        \cup {<<"kept", k, c.kept[k]>> : k \in DOMAIN c.kept}
Live == UNION {{<<i, x>> : x \in LiveIn(calls[i])} : i \in DOMAIN calls}

(* `alloc`: an arena with one more object, wherever a new chunk may lie.   *)
alloc(a, req) ==
    {[arena |-> Bump(r.arena, req), object |-> Object(r.arena, req), spare |-> r.spare] :
        r \in {room \in {Roomy(a, req, new) : new \in NewChunks} :
                   Chunk(room.arena).size <= MaxChunk}}

(* The innermost call, which has been given an object, goes on as c.       *)
Becomes(c, given) ==
    /\ calls' = <<c>> \o Tail(calls)
    /\ spare' = given.spare
    /\ Cardinality(Live') <= MaxLive

(* What is in scope where an array is declared: what is in each set that   *)
(* holds what it stands in, and what those stand in.                       *)
Scope(s) ==
    {t \in Slots : \A S \in SUBSET Slots :
        (\A u \in S \cup {s} : Within[u] \in S \cup {NoSlot}) => t \in S}

(* A graph reaches a declaration, from wherever it was: what is not in     *)
(* scope there has ended.                                                  *)
Declare(s, req) ==
    /\ calls # <<>> /\ calls[1].kind = "cfg"
    /\ \A t \in Scope(s) : calls[1].arrays[t] # NoArray
    /\ \E given \in alloc(redefine(calls[1], s), req) :
           Becomes([given.arena EXCEPT !.arrays = [t \in Slots |->
                        IF t = s THEN given.object ELSE IF t \in Scope(s) THEN @[t] ELSE NoArray]],
                   given)

(* A block declares an array: its frame is the mark before it.             *)
Enter(req) ==
    /\ calls # <<>> /\ calls[1].kind = "blocks"
    /\ \E given \in alloc(calls[1], req) :
           Becomes([given.arena EXCEPT !.frames =
                        <<[mark |-> mark(calls[1]), array |-> given.object]>> \o @], given)

(* The end of the block drops the frame.                                   *)
Leave ==
    /\ calls # <<>> /\ calls[1].frames # <<>>
    /\ LET a == calls[1]
       IN  calls' = <<release([a EXCEPT !.frames = Tail(@)], Head(a.frames).mark)>> \o Tail(calls)
    /\ UNCHANGED spare

(* A faulty alloca: the floor is where its memory starts.                  *)
alloca_low(req) ==
    /\ calls # <<>>
    /\ \E given \in alloc(calls[1], req) :
           Becomes([given.arena EXCEPT !.kept = Append(@, given.object),
                                       !.floor = mark(calls[1])], given)

alloca(req) ==
    /\ calls # <<>>
    /\ \E given \in alloc(calls[1], req) :
           Becomes([given.arena EXCEPT !.kept = Append(@, given.object),
                                       !.floor = mark(given.arena)], given)

Next ==
    \/ \E kind \in {"cfg", "blocks"} : Call(kind)
    \/ Return \/ Leave
    \/ \E req \in Requests : Enter(req) \/ alloca(req) \/ \E s \in Slots : Declare(s, req)

Spec == Init /\ [][Next]_vars

-----------------------------------------------------------------------------
(* What is promised.                                                       *)

Apart(o, p) ==
    o.chunk # p.chunk \/ o.upto <= p.from \/ p.upto <= o.from \/ o.from = o.upto \/ p.from = p.upto

(* C17 6.2.4: an object keeps its storage for its lifetime, an alloca's    *)
(* being its call.  No two live objects, of one call or of two, share a    *)
(* byte.                                                                   *)
LiveApart ==
    \A x, y \in Live : x = y \/ Apart(x[2][3], y[2][3])

(* "The chunks dropped are above the position, where nothing is live": a   *)
(* live object lies in a chunk its own call holds, below the position.     *)
LiveInPlace ==
    \A i \in DOMAIN calls : \A x \in LiveIn(calls[i]) :
        \E k \in DOMAIN calls[i].chunks :
            /\ calls[i].chunks[k].id = x[3].chunk
            /\ x[3].upto <= calls[i].chunks[k].size
            /\ ~Below(mark(calls[i]), <<k - 1, x[3].upto>>)

(* A chunk is in one list, of a call or spare, and there once.             *)
ChunksOnce ==
    LET lists == calls \o [i \in DOMAIN spare |-> [chunks |-> spare[i]]]
    IN  \A i, j \in DOMAIN lists :
            \A k \in DOMAIN lists[i].chunks, l \in DOMAIN lists[j].chunks :
                lists[i].chunks[k].id = lists[j].chunks[l].id => i = j /\ k = l

(* A declaration that is reached again and again takes no more and more:   *)
(* while a graph has made no alloca, each declaration that has a mark      *)
(* holds one array's room at most, and the others none.                    *)
Bounded ==
    LET most == Greatest({r.bytes + r.align - 1 : r \in Requests})
        Marked(c) == {s \in Slots : c.marks[s] # NoMark}
    IN  \A i \in DOMAIN calls :
            calls[i].kind = "cfg" /\ calls[i].kept = <<>> /\ calls[i].cur = 0
                => calls[i].top <= most * Cardinality(Marked(calls[i]))
=============================================================================
