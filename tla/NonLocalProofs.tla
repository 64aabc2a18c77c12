--------------------------- MODULE NonLocalProofs ---------------------------
(***************************************************************************)
(* What the registries of `setjmp` frames name, and where a `longjmp` that *)
(* is not refused goes, for any number of threads, stacks, units, buffers, *)
(* frames and serial numbers.                                              *)
(*                                                                         *)
(* The list is a chain: each frame links to the newest of those that are   *)
(* older than it.  That says what is on it without counting steps, and     *)
(* each operation keeps it: a frame pushed is newer than all there are,    *)
(* and one taken out hands its link to the one that named it.              *)
(***************************************************************************)
EXTENDS NonLocalJump, WellFoundedInduction, TLAPS

-----------------------------------------------------------------------------
(* Chains of addresses.                                                    *)

Newest(a, S, serial) ==
    IF S = {} THEN a = Null
    ELSE a \in S /\ \A x \in S : serial[x] <= serial[a]
Older(a, S, serial) == {x \in S : serial[x] < serial[a]}

(* `L` is linked by `prev` from `h` on, by serial numbers that all differ. *)
Chain(h, L, serial, prev) ==
    /\ L \subseteq Addr
    /\ \A x \in L : serial[x] \in Nat /\ prev[x] \in Addr \cup {Null}
    /\ \A x, y \in L : serial[x] = serial[y] => x = y
    /\ Newest(h, L, serial)
    /\ \A x \in L : Newest(prev[x], Older(x, L, serial), serial)

LEMMA NullIsNoAddr == Null \notin Addr
  BY DEF Null, Addr

(* A set of addresses that has one has an oldest.                          *)
LEMMA Oldest ==
  ASSUME NEW L, L # {}, NEW serial, \A x \in L : serial[x] \in Nat
  PROVE  \E x \in L : \A y \in L : serial[x] <= serial[y]
<1> DEFINE T == {serial[x] : x \in L}
<1>1. T \subseteq Nat /\ T # {}
  OBVIOUS
<1>2. \A i, j \in Nat : i < j => <<i, j>> \in OpToRel(<, Nat)
  BY DEF OpToRel
<1>3. \E n \in T : \A m \in T : ~(<<m, n>> \in OpToRel(<, Nat))
  BY <1>1, NatLessThanWellFounded, WFMin
<1>4. PICK n \in T : \A m \in T : ~(m < n)
  BY <1>1, <1>2, <1>3
<1>5. PICK x \in L : n = serial[x]
  BY <1>4
<1>6. ASSUME NEW y \in L PROVE serial[x] <= serial[y]
  <2>1. serial[y] \in T /\ serial[x] \in Nat /\ serial[y] \in Nat
    OBVIOUS
  <2>2. ~(serial[y] < serial[x])
    BY <1>4, <1>5, <2>1
  <2> HIDE DEF T
  <2> QED
    BY <2>1, <2>2
<1> QED
  BY <1>6

(* What is linked from a chain's head is on the chain.                     *)
LEMMA ChainIsClosed ==
  ASSUME NEW h, NEW L, NEW serial, NEW prev, Chain(h, L, serial, prev)
  PROVE  h \in L \cup {Null} /\ \A x \in L : prev[x] \in L \cup {Null}
  BY DEF Chain, Newest, Older

(* All of a chain is linked from its head.  Were `m` not, there would be   *)
(* an oldest frame on the way that is newer, and it would link to `m` or   *)
(* to one between them.                                                    *)
LEMMA ChainIsReached ==
  ASSUME NEW h, NEW L, NEW serial, NEW prev, Chain(h, L, serial, prev),
         NEW S, h \in S, \A x \in S \cap L : prev[x] \in S
  PROVE  L \subseteq S
<1>1. SUFFICES ASSUME NEW m \in L, m \notin S PROVE FALSE
  OBVIOUS
<1> DEFINE Later == {x \in L \cap S : serial[x] > serial[m]}
<1>2. h \in Later
  BY <1>1 DEF Chain, Newest
<1>3. PICK x \in Later : \A y \in Later : serial[x] <= serial[y]
  BY <1>2, Oldest DEF Chain
<1>4. m \in Older(x, L, serial)
  BY <1>1, <1>3 DEF Older
<1>5. prev[x] \in L /\ serial[prev[x]] < serial[x] /\ serial[m] <= serial[prev[x]]
  BY <1>3, <1>4 DEF Chain, Newest, Older
<1>6. prev[x] \in S /\ prev[x] # m
  BY <1>1, <1>3
<1>7. serial[prev[x]] # serial[m]
  BY <1>1, <1>5, <1>6 DEF Chain
<1>8. prev[x] \in Later
  BY <1>1, <1>5, <1>6, <1>7 DEF Chain
<1> QED
  BY <1>3, <1>5, <1>8 DEF Chain

(* Only the links and numbers of its own frames matter to a chain.         *)
LEMMA ChainIsItsOwn ==
  ASSUME NEW h, NEW L, NEW serial, NEW prev, Chain(h, L, serial, prev),
         NEW serial2, NEW prev2,
         \A x \in L : serial2[x] = serial[x] /\ prev2[x] = prev[x]
  PROVE  Chain(h, L, serial2, prev2)
<1>1. \A x \in L : Older(x, L, serial2) = Older(x, L, serial)
  BY DEF Older
<1>2. Newest(h, L, serial2)
  BY DEF Chain, Newest
<1>3. \A x \in L : Newest(prev2[x], Older(x, L, serial2), serial2)
  BY <1>1 DEF Chain, Newest, Older
<1> QED
  BY <1>2, <1>3 DEF Chain

(* `save` puts a frame before all the others.                              *)
LEMMA ChainGrows ==
  ASSUME NEW h, NEW L, NEW serial, NEW prev, Chain(h, L, serial, prev),
         NEW a \in Addr, a \notin L, NEW serial2, NEW prev2,
         \A x \in L : serial2[x] = serial[x] /\ prev2[x] = prev[x],
         serial2[a] \in Nat, \A x \in L : serial[x] < serial2[a], prev2[a] = h
  PROVE  Chain(a, L \cup {a}, serial2, prev2)
<1> DEFINE K == L \cup {a}
<1>1. Newest(a, K, serial2)
  BY DEF Chain, Newest
<1>2. Chain(h, L, serial2, prev2)
  BY ChainIsItsOwn
<1>3. Older(a, K, serial2) = L
  BY DEF Older
<1>4. \A x \in L : Older(x, K, serial2) = Older(x, L, serial2)
  BY DEF Older, Chain
<1>5. \A x \in K : Newest(prev2[x], Older(x, K, serial2), serial2)
  BY <1>2, <1>3, <1>4 DEF Chain
<1>6. \A x \in K : serial2[x] \in Nat /\ prev2[x] \in Addr \cup {Null}
  BY <1>2, ChainIsClosed DEF Chain
<1>7. \A x, y \in K : serial2[x] = serial2[y] => x = y
  BY <1>2 DEF Chain
<1> QED
  BY <1>1, <1>2, <1>5, <1>6, <1>7 DEF Chain

(* `drop` of the newest frame.                                             *)
LEMMA ChainLosesHead ==
  ASSUME NEW h, NEW L, NEW serial, NEW prev, Chain(h, L, serial, prev), h \in L
  PROVE  Chain(prev[h], L \ {h}, serial, prev)
<1> DEFINE K == L \ {h}
<1>1. \A x \in K : Older(x, K, serial) = Older(x, L, serial)
  BY DEF Older, Chain, Newest
<1>2. Older(h, L, serial) = K
  BY DEF Older, Chain, Newest
<1>3. Newest(prev[h], K, serial)
  BY <1>2 DEF Chain
<1> QED
  BY <1>1, <1>3 DEF Chain

(* `drop` of another: the frame that linked to it takes its link over.     *)
LEMMA ChainLosesOther ==
  ASSUME NEW h, NEW L, NEW serial, NEW prev, Chain(h, L, serial, prev),
         NEW a \in L, a # h, NEW serial2, NEW prev2,
         \A x \in L \ {a} : serial2[x] = serial[x] /\
             prev2[x] = IF prev[x] = a THEN prev[a] ELSE prev[x]
  PROVE  Chain(h, L \ {a}, serial2, prev2)
<1> DEFINE K == L \ {a}
<1>1. Newest(h, K, serial2)
  BY DEF Chain, Newest
<1>2. ASSUME NEW x \in K
      PROVE  Newest(prev2[x], Older(x, K, serial2), serial2)
  <2>1. Older(x, K, serial2) = Older(x, L, serial) \ {a}
    BY DEF Older
  <2>2. \A y \in K : serial2[y] = serial[y]
    OBVIOUS
  <2>3. Newest(prev[x], Older(x, L, serial), serial)
    BY DEF Chain
  <2>4. CASE prev[x] # a
    <3>1. prev2[x] = prev[x]
      BY <2>4
    <3>2. CASE Older(x, L, serial) = {}
      BY <2>1, <2>3, <3>1, <3>2 DEF Newest
    <3>3. CASE Older(x, L, serial) # {}
      BY <2>1, <2>2, <2>3, <2>4, <3>1, <3>3 DEF Newest, Older
    <3> QED
      BY <3>2, <3>3
  <2>5. CASE prev[x] = a
    <3>1. prev2[x] = prev[a] /\ a \in Addr
      BY <2>5 DEF Chain
    <3>2. a \in Older(x, L, serial) /\ \A y \in Older(x, L, serial) : serial[y] <= serial[a]
      BY <2>3, <2>5, <3>1, NullIsNoAddr DEF Newest
    <3>3. Older(x, L, serial) \ {a} = Older(a, L, serial)
      <4>1. \A y \in Older(a, L, serial) : y \in Older(x, L, serial) \ {a}
        BY <3>2 DEF Older, Chain
      <4>2. \A y \in Older(x, L, serial) \ {a} : y \in L /\ serial[y] <= serial[a] /\ serial[y] # serial[a]
        BY <3>2 DEF Older, Chain
      <4>3. \A y \in Older(x, L, serial) \ {a} : y \in Older(a, L, serial)
        BY <4>2 DEF Older, Chain
      <4> QED
        BY <4>1, <4>3
    <3>4. Newest(prev[a], Older(a, L, serial), serial)
      BY DEF Chain
    <3>5. Older(a, L, serial) \subseteq K
      BY DEF Older, Chain
    <3> QED
      BY <2>1, <2>2, <3>1, <3>3, <3>4, <3>5 DEF Newest
  <2> QED
    BY <2>4, <2>5
<1>3. \A x \in K : prev2[x] \in Addr \cup {Null}
  BY DEF Chain
<1> QED
  BY <1>1, <1>2, <1>3 DEF Chain

-----------------------------------------------------------------------------
(* The stacks.                                                             *)

Frame == [kind : Kind, unit : Unit, serial : Nat, prev : Addr \cup {Null}, saved : SUBSET Buf]
Frames == [Stack -> Seq(Frame)]

TypeOK ==
    /\ frames \in Frames /\ \A s \in Stack : Len(frames[s]) <= MaxDepth
    /\ owner \in [Stack -> SUBSET Thread] /\ had \in [Stack -> SUBSET Thread]
    /\ thread \in [Thread -> {"new", "runs", "ended"}]
    /\ on \in [Thread -> Stack]
    /\ head \in [Thread -> [Unit -> Addr \cup {Null}]]
    /\ count \in [Thread -> [Unit -> Nat]]
    /\ buf \in [Buf -> [addr : Addr \cup {Null}, serial : Nat, unit : Unit]]
    /\ unwind \in [Thread -> [addr : Addr \cup {Null}, serial : Nat]]
    /\ stop \in {"no", "unfilled", "inactive", "blocked", "elsewhere", "lost"}

(* A stack has frames only while a thread has it, and that one runs.       *)
Owned ==
    /\ \A s \in Stack : owner[s] # {} => \E t \in Thread : owner[s] = {t} /\ thread[t] = "runs"
    /\ \A s \in Stack : owner[s] \subseteq had[s]
    /\ \A s \in Stack : owner[s] = {} => frames[s] = <<>>
    /\ \A t \in Thread : thread[t] = "runs" => owner[on[t]] = {t}
    /\ \A t \in Thread : unwind[t] # NoJump => thread[t] = "runs"

LEMMA Places ==
  /\ \A a \in Addr : /\ a[1] \in Stack /\ a[2] \in 1 .. MaxDepth /\ a[2] \in Nat
                     /\ a = <<a[1], a[2]>> /\ a # Null
  /\ \A s \in Stack, d \in 1 .. MaxDepth : <<s, d>> \in Addr
  BY JumpBounds DEF Addr, Null

LEMMA IsSeq ==
  ASSUME NEW S, NEW n \in Nat, NEW f \in [1 .. n -> S]
  PROVE  f \in Seq(S) /\ Len(f) = n /\ DOMAIN f = 1 .. n
  OBVIOUS

LEMMA HasElements ==
  ASSUME NEW S, NEW q \in Seq(S)
  PROVE  /\ DOMAIN q = 1 .. Len(q) /\ Len(q) \in Nat
         /\ \A i \in DOMAIN q : q[i] \in S
         /\ q # <<>> => Len(q) >= 1 /\ Len(q) \in DOMAIN q
         /\ q = <<>> => DOMAIN q = {}
  OBVIOUS

LEMMA IsShortened ==
  ASSUME NEW S, NEW q \in Seq(S), q # <<>>
  PROVE  /\ SubSeq(q, 1, Len(q) - 1) \in Seq(S)
         /\ DOMAIN SubSeq(q, 1, Len(q) - 1) = DOMAIN q \ {Len(q)}
         /\ Len(SubSeq(q, 1, Len(q) - 1)) = Len(q) - 1
         /\ \A i \in DOMAIN q \ {Len(q)} : SubSeq(q, 1, Len(q) - 1)[i] = q[i]
<1> DEFINE p == SubSeq(q, 1, Len(q) - 1)
<1>1. Len(q) \in Nat /\ Len(q) >= 1 /\ Len(q) - 1 \in Nat /\ DOMAIN q = 1 .. Len(q)
  OBVIOUS
<1>2. p \in Seq(S) /\ Len(p) = Len(q) - 1
  BY <1>1
<1>3. \A i \in 1 .. Len(q) - 1 : p[i] = q[i]
  BY <1>1
<1>4. DOMAIN p = 1 .. Len(q) - 1
  BY <1>2
<1>5. (1 .. Len(q)) \ {Len(q)} = 1 .. Len(q) - 1
  BY <1>1
<1> HIDE DEF p
<1>6. DOMAIN p = DOMAIN q \ {Len(q)} /\ \A i \in DOMAIN q \ {Len(q)} : p[i] = q[i]
  BY <1>1, <1>3, <1>4, <1>5
<1> QED
  BY <1>2, <1>6 DEF p

LEMMA IsAppended ==
  ASSUME NEW S, NEW q \in Seq(S), NEW x \in S
  PROVE  /\ Append(q, x) \in Seq(S) /\ Len(Append(q, x)) = Len(q) + 1
         /\ DOMAIN Append(q, x) = DOMAIN q \cup {Len(q) + 1}
         /\ Len(q) + 1 \notin DOMAIN q
         /\ \A i \in DOMAIN q : Append(q, x)[i] = q[i]
         /\ Append(q, x)[Len(q) + 1] = x
  OBVIOUS

(* A standing frame is a frame, and the newest of a stack stands.          *)
LEMMA Stands ==
  ASSUME TypeOK
  PROVE  /\ \A a \in Addr : Standing(a) <=> a[2] \in DOMAIN frames[a[1]]
         /\ \A a \in Addr : Standing(a) => Node(a) \in Frame
         /\ \A s \in Stack : frames[s] # <<>> =>
                /\ Top(s) \in Addr /\ Standing(Top(s)) /\ Node(Top(s)) \in Frame
                /\ Top(s)[1] = s /\ Top(s)[2] = Len(frames[s])
<1>1. \A s \in Stack : frames[s] \in Seq(Frame) /\ Len(frames[s]) <= MaxDepth
  BY DEF TypeOK, Frames
<1>2. \A s \in Stack : /\ DOMAIN frames[s] = 1 .. Len(frames[s]) /\ Len(frames[s]) \in Nat
                       /\ \A i \in DOMAIN frames[s] : frames[s][i] \in Frame
                       /\ frames[s] # <<>> => Len(frames[s]) >= 1 /\ Len(frames[s]) \in DOMAIN frames[s]
  BY <1>1, HasElements
<1>3. \A a \in Addr : Standing(a) <=> a[2] \in DOMAIN frames[a[1]]
  BY Places DEF Standing
<1>4. \A a \in Addr : Standing(a) => Node(a) \in Frame
  BY <1>2, <1>3, Places DEF Node
<1>5. ASSUME NEW s \in Stack, frames[s] # <<>>
      PROVE  /\ Top(s) \in Addr /\ Standing(Top(s)) /\ Node(Top(s)) \in Frame
             /\ Top(s)[1] = s /\ Top(s)[2] = Len(frames[s])
  <2>1. Top(s)[1] = s /\ Top(s)[2] = Len(frames[s])
    BY DEF Top
  <2>2. Top(s) \in Addr
    BY <1>1, <1>2, <1>5, Places, JumpBounds DEF Top
  <2> QED
    BY <1>2, <1>3, <1>4, <1>5, <2>1, <2>2
<1> QED
  BY <1>3, <1>4, <1>5

LEMMA PoppedStacks ==
  ASSUME NEW fs \in Frames, NEW s \in Stack, fs[s] # <<>>
  PROVE  /\ Popped(fs, s) \in Frames
         /\ \A r \in Stack \ {s} : Popped(fs, s)[r] = fs[r]
         /\ DOMAIN Popped(fs, s)[s] = DOMAIN fs[s] \ {Len(fs[s])}
         /\ Len(Popped(fs, s)[s]) = Len(fs[s]) - 1
         /\ \A d \in DOMAIN fs[s] \ {Len(fs[s])} : Popped(fs, s)[s][d] = fs[s][d]
<1> DEFINE short == SubSeq(fs[s], 1, Len(fs[s]) - 1)
<1>1. Popped(fs, s) = [fs EXCEPT ![s] = short]
  BY DEF Popped
<1>2. fs[s] \in Seq(Frame)
  BY DEF Frames
<1>3. /\ short \in Seq(Frame) /\ DOMAIN short = DOMAIN fs[s] \ {Len(fs[s])}
      /\ Len(short) = Len(fs[s]) - 1
      /\ \A d \in DOMAIN fs[s] \ {Len(fs[s])} : short[d] = fs[s][d]
  BY <1>2, IsShortened
<1> HIDE DEF short
<1> QED
  BY <1>1, <1>3 DEF Frames

(* `prev` of the frames of a list that link to a frame, set past it.       *)
LEMMA UnlinkedStacks ==
  ASSUME TypeOK, NEW a \in Addr, Standing(a), NEW list
  PROVE  /\ unlinked(a, list) \in Frames
         /\ \A s \in Stack : /\ DOMAIN unlinked(a, list)[s] = DOMAIN frames[s]
                             /\ Len(unlinked(a, list)[s]) = Len(frames[s])
         /\ \A x \in Addr : x[2] \in DOMAIN frames[x[1]] =>
                unlinked(a, list)[x[1]][x[2]] =
                    IF x \in list /\ Node(x).prev = a
                    THEN [Node(x) EXCEPT !.prev = Node(a).prev] ELSE Node(x)
<1> DEFINE fs == unlinked(a, list)
<1>1. Node(a) \in Frame
  BY Stands
<1>2. ASSUME NEW s \in Stack
      PROVE  fs[s] \in Seq(Frame) /\ DOMAIN fs[s] = DOMAIN frames[s] /\ Len(fs[s]) = Len(frames[s])
  <2>1. /\ frames[s] \in Seq(Frame) /\ DOMAIN frames[s] = 1 .. Len(frames[s])
        /\ Len(frames[s]) \in Nat /\ \A d \in DOMAIN frames[s] : frames[s][d] \in Frame
    BY HasElements DEF TypeOK, Frames
  <2>2. fs[s] = [d \in DOMAIN frames[s] |->
                   IF <<s, d>> \in list /\ frames[s][d].prev = a
                   THEN [frames[s][d] EXCEPT !.prev = Node(a).prev] ELSE frames[s][d]]
    BY DEF unlinked
  <2>3. fs[s] \in [1 .. Len(frames[s]) -> Frame]
    BY <1>1, <2>1, <2>2 DEF Frame
  <2> HIDE DEF fs
  <2> QED
    BY <2>1, <2>3, IsSeq
<1>3. fs \in Frames
  BY <1>2 DEF Frames, unlinked
<1>4. ASSUME NEW x \in Addr, x[2] \in DOMAIN frames[x[1]]
      PROVE  fs[x[1]][x[2]] = IF x \in list /\ Node(x).prev = a
                              THEN [Node(x) EXCEPT !.prev = Node(a).prev] ELSE Node(x)
  BY <1>4, Places DEF unlinked, Node
<1> QED
  BY <1>2, <1>3, <1>4

(* The frames that no longer hold a buffer.                                *)
LEMMA ForgottenStacks ==
  ASSUME TypeOK, NEW b \in Buf
  PROVE  /\ Forget(b) \in Frames
         /\ \A s \in Stack : /\ DOMAIN Forget(b)[s] = DOMAIN frames[s]
                             /\ Len(Forget(b)[s]) = Len(frames[s])
         /\ \A x \in Addr : x[2] \in DOMAIN frames[x[1]] =>
                Forget(b)[x[1]][x[2]] = [Node(x) EXCEPT !.saved = @ \ {b}]
<1> DEFINE fs == Forget(b)
<1>1. ASSUME NEW f \in Frame PROVE [f EXCEPT !.saved = @ \ {b}] \in Frame
  <2>1. f.saved \ {b} \in SUBSET Buf
    BY DEF Frame
  <2> QED
    BY <2>1 DEF Frame
<1>2. ASSUME NEW s \in Stack
      PROVE  fs[s] \in Seq(Frame) /\ DOMAIN fs[s] = DOMAIN frames[s] /\ Len(fs[s]) = Len(frames[s])
  <2>1. /\ frames[s] \in Seq(Frame) /\ DOMAIN frames[s] = 1 .. Len(frames[s])
        /\ Len(frames[s]) \in Nat /\ \A d \in DOMAIN frames[s] : frames[s][d] \in Frame
    BY HasElements DEF TypeOK, Frames
  <2>2. fs[s] = [d \in DOMAIN frames[s] |-> [frames[s][d] EXCEPT !.saved = @ \ {b}]]
    BY DEF Forget
  <2>3. fs[s] \in [1 .. Len(frames[s]) -> Frame]
    BY <1>1, <2>1, <2>2
  <2> HIDE DEF fs
  <2> QED
    BY <2>1, <2>3, IsSeq
<1>3. fs \in Frames
  BY <1>2 DEF Frames, Forget
<1>4. ASSUME NEW x \in Addr, x[2] \in DOMAIN frames[x[1]]
      PROVE  fs[x[1]][x[2]] = [Node(x) EXCEPT !.saved = @ \ {b}]
  BY <1>4, Places DEF Forget, Node
<1> QED
  BY <1>2, <1>3, <1>4

(* What `drop` does: the newest frame of the stack is gone, and what was   *)
(* linked to it is linked past it.                                         *)
Passes(t, a, x) ==
    /\ Node(a).kind = "sj" /\ Node(a).serial # 0 /\ head[t][Node(a).unit] # a
    /\ x \in Linked(head[t][Node(a).unit]) /\ Node(x).prev = a

LEMMA Dropped ==
  ASSUME TypeOK, NEW t \in Thread, NEW s \in Stack, frames[s] # <<>>, Drop(t, s)
  PROVE  /\ frames' \in Frames
         /\ \A r \in Stack : Len(frames'[r]) <= Len(frames[r])
         /\ \A r \in Stack : frames[r] = <<>> => frames'[r] = <<>>
         /\ \A x \in Addr : x[2] \in DOMAIN frames'[x[1]] <=>
                                x[2] \in DOMAIN frames[x[1]] /\ x # Top(s)
         /\ \A x \in Addr : x[2] \in DOMAIN frames'[x[1]] =>
                frames'[x[1]][x[2]] =
                    IF Passes(t, Top(s), x)
                    THEN [Node(x) EXCEPT !.prev = Node(Top(s)).prev] ELSE Node(x)
<1> DEFINE a == Top(s)
           u == Node(a).unit
           fs == unlinked(a, Linked(head[t][u]))
<1>1. a \in Addr /\ Standing(a) /\ Node(a) \in Frame /\ a[1] = s /\ a[2] = Len(frames[s])
  BY Stands
<1>2. PICK gs \in Frames :
        /\ frames' = Popped(gs, s)
        /\ \A r \in Stack : DOMAIN gs[r] = DOMAIN frames[r] /\ Len(gs[r]) = Len(frames[r])
        /\ \A x \in Addr : x[2] \in DOMAIN frames[x[1]] =>
               gs[x[1]][x[2]] = IF Passes(t, a, x)
                                THEN [Node(x) EXCEPT !.prev = Node(a).prev] ELSE Node(x)
  <2>1. CASE Node(a).kind # "sj" \/ Node(a).serial = 0
    <3>1. frames' = Popped(frames, s) /\ frames \in Frames
      BY <2>1 DEF Drop, TypeOK
    <3>2. \A x \in Addr : ~Passes(t, a, x) /\ frames[x[1]][x[2]] = Node(x)
      BY <2>1 DEF Passes, Node
    <3> QED
      BY <3>1, <3>2
  <2>2. CASE ~(Node(a).kind # "sj" \/ Node(a).serial = 0) /\ head[t][u] = a
    <3>1. frames' = Popped(frames, s) /\ frames \in Frames
      BY <2>2 DEF Drop, TypeOK
    <3>2. \A x \in Addr : ~Passes(t, a, x) /\ frames[x[1]][x[2]] = Node(x)
      BY <2>2 DEF Passes, Node
    <3> QED
      BY <3>1, <3>2
  <2>3. CASE ~(Node(a).kind # "sj" \/ Node(a).serial = 0) /\ head[t][u] # a
    <3>1. frames' = Popped(fs, s)
      BY <2>3 DEF Drop
    <3>2. \A x : Passes(t, a, x) <=> x \in Linked(head[t][u]) /\ Node(x).prev = a
      BY <2>3 DEF Passes
    <3>3. /\ fs \in Frames
          /\ \A r \in Stack : DOMAIN fs[r] = DOMAIN frames[r] /\ Len(fs[r]) = Len(frames[r])
          /\ \A x \in Addr : x[2] \in DOMAIN frames[x[1]] =>
                fs[x[1]][x[2]] = IF x \in Linked(head[t][u]) /\ Node(x).prev = a
                                 THEN [Node(x) EXCEPT !.prev = Node(a).prev] ELSE Node(x)
      BY <1>1, UnlinkedStacks
    <3> HIDE DEF fs, a, u
    <3> QED
      BY <3>1, <3>2, <3>3
  <2> QED
    BY <2>1, <2>2, <2>3
<1>3. gs[s] # <<>>
  <2>1. frames[s] \in Seq(Frame) /\ gs[s] \in Seq(Frame)
    BY <1>2 DEF TypeOK, Frames
  <2>2. Len(frames[s]) >= 1 /\ Len(gs[s]) = Len(frames[s])
    BY <1>2, <2>1, HasElements
  <2> QED
    BY <2>1, <2>2
<1>4. /\ frames' \in Frames
      /\ \A r \in Stack \ {s} : frames'[r] = gs[r]
      /\ DOMAIN frames'[s] = DOMAIN frames[s] \ {Len(frames[s])}
      /\ Len(frames'[s]) = Len(frames[s]) - 1
      /\ \A d \in DOMAIN frames[s] \ {Len(frames[s])} : frames'[s][d] = gs[s][d]
  BY <1>2, <1>3, PoppedStacks
<1>5. ASSUME NEW r \in Stack
      PROVE  /\ Len(frames'[r]) <= Len(frames[r])
             /\ frames[r] = <<>> => frames'[r] = <<>>
  <2>1. /\ frames[r] \in Seq(Frame) /\ gs[r] \in Seq(Frame) /\ Len(frames[r]) \in Nat
        /\ Len(gs[r]) = Len(frames[r])
    BY <1>2, HasElements DEF TypeOK, Frames
  <2>2. CASE r = s
    BY <1>4, <2>1, <2>2
  <2>3. CASE r # s
    BY <1>4, <2>1, <2>3
  <2> QED
    BY <2>2, <2>3
<1>6. ASSUME NEW x \in Addr
      PROVE  x[2] \in DOMAIN frames'[x[1]] <=> x[2] \in DOMAIN frames[x[1]] /\ x # a
  <2>1. x[1] = s => (x = a <=> x[2] = Len(frames[s]))
    BY <1>1, Places
  <2>2. x[1] # s => x # a /\ x[1] \in Stack
    BY <1>1, Places
  <2> HIDE DEF a
  <2> QED
    BY <1>2, <1>4, <2>1, <2>2
<1>7. ASSUME NEW x \in Addr, x[2] \in DOMAIN frames'[x[1]]
      PROVE  frames'[x[1]][x[2]] = gs[x[1]][x[2]] /\ x[2] \in DOMAIN frames[x[1]]
  <2>1. x[1] \in Stack
    BY Places
  <2> HIDE DEF a
  <2> QED
    BY <1>4, <1>6, <1>7, <2>1
<1> HIDE DEF a
<1>8. \A x \in Addr : x[2] \in DOMAIN frames'[x[1]] =>
          frames'[x[1]][x[2]] = IF Passes(t, a, x)
                                THEN [Node(x) EXCEPT !.prev = Node(a).prev] ELSE Node(x)
  BY <1>2, <1>7
<1> QED
  BY <1>4, <1>5, <1>6, <1>8 DEF a

(* What a call does: a frame more, without a serial number.                *)
LEMMA Called ==
  ASSUME TypeOK, NEW t \in Thread, Call(t)
  PROVE  /\ on[t] \in Stack /\ frames' \in Frames
         /\ \A r \in Stack \ {on[t]} : frames'[r] = frames[r]
         /\ Len(frames'[on[t]]) = Len(frames[on[t]]) + 1 /\ Len(frames'[on[t]]) <= MaxDepth
         /\ DOMAIN frames'[on[t]] = DOMAIN frames[on[t]] \cup {Len(frames[on[t]]) + 1}
         /\ Len(frames[on[t]]) + 1 \notin DOMAIN frames[on[t]]
         /\ \A d \in DOMAIN frames[on[t]] : frames'[on[t]][d] = frames[on[t]][d]
         /\ frames'[on[t]][Len(frames[on[t]]) + 1].serial = 0
<1>1. on[t] \in Stack
  BY DEF TypeOK
<1>2. (CHOOSE x \in Unit : TRUE) \in Unit
  BY JumpBounds
<1>3. PICK k \in Kind, u \in Unit :
        frames' = [frames EXCEPT ![on[t]] =
            Append(@, [kind |-> k, unit |-> u, serial |-> 0, prev |-> Null, saved |-> {}])]
  BY <1>2 DEF Call
<1> DEFINE n == [kind |-> k, unit |-> u, serial |-> 0, prev |-> Null, saved |-> {}]
           q == Append(frames[on[t]], n)
<1>4. n \in Frame
  BY DEF Frame
<1>5. frames' = [frames EXCEPT ![on[t]] = q]
  BY <1>3
<1> HIDE DEF n
<1>6. frames[on[t]] \in Seq(Frame) /\ Len(frames[on[t]]) \in Nat
  BY <1>1, HasElements DEF TypeOK, Frames
<1>7. /\ q \in Seq(Frame) /\ Len(q) = Len(frames[on[t]]) + 1
      /\ DOMAIN q = DOMAIN frames[on[t]] \cup {Len(frames[on[t]]) + 1}
      /\ Len(frames[on[t]]) + 1 \notin DOMAIN frames[on[t]]
      /\ \A d \in DOMAIN frames[on[t]] : q[d] = frames[on[t]][d]
      /\ q[Len(frames[on[t]]) + 1] = n
  BY <1>4, <1>6, IsAppended
<1>8. Len(frames[on[t]]) + 1 <= MaxDepth
  BY <1>6, JumpBounds DEF Call
<1> HIDE DEF q
<1>9. frames' \in Frames /\ frames'[on[t]] = q /\ \A r \in Stack \ {on[t]} : frames'[r] = frames[r]
  BY <1>1, <1>5, <1>7 DEF TypeOK, Frames
<1>10. n.serial = 0
  BY DEF n
<1> QED
  BY <1>1, <1>7, <1>8, <1>9, <1>10

(* What `save` does: it fills a buffer in, and the first one in a call     *)
(* gives the frame a number and a place on the list.                       *)
Fresh(t) == Node(Top(on[t])).serial = 0
Unit_of(t) == Node(Top(on[t])).unit
Serial(t) == IF Fresh(t) THEN count[t][Unit_of(t)] + 1 ELSE Node(Top(on[t])).serial
Link(t) == IF Fresh(t) THEN head[t][Unit_of(t)] ELSE Node(Top(on[t])).prev
Filled(t, b) ==
    [Node(Top(on[t])) EXCEPT !.serial = Serial(t), !.prev = Link(t), !.saved = @ \cup {b}]

LEMMA Saved ==
  ASSUME TypeOK, NEW t \in Thread, SetJmp(t)
  PROVE  /\ Serial(t) \in Nat /\ Serial(t) # 0 /\ Link(t) \in Addr \cup {Null}
         /\ \E b \in Buf :
              /\ buf' = [buf EXCEPT ![b] = [addr |-> Top(on[t]), serial |-> Serial(t), unit |-> Unit_of(t)]]
              /\ frames' \in Frames
              /\ \A s \in Stack : DOMAIN frames'[s] = DOMAIN frames[s] /\ Len(frames'[s]) = Len(frames[s])
              /\ \A x \in Addr : x[2] \in DOMAIN frames[x[1]] =>
                    frames'[x[1]][x[2]] = IF x = Top(on[t]) THEN Filled(t, b)
                                          ELSE [Node(x) EXCEPT !.saved = @ \ {b}]
<1> DEFINE s == on[t]
           a == Top(s)
           f == Node(a)
<1>1. s \in Stack /\ frames[s] # <<>> /\ f.kind = "sj"
  BY DEF SetJmp, TypeOK
<1>2. a \in Addr /\ Standing(a) /\ f \in Frame /\ a[1] = s /\ a[2] = Len(frames[s])
  BY <1>1, Stands
<1>3. f.unit \in Unit /\ f.serial \in Nat /\ f.prev \in Addr \cup {Null} /\ f.saved \subseteq Buf
  BY <1>2 DEF Frame
<1>4. count[t][f.unit] \in Nat /\ head[t][f.unit] \in Addr \cup {Null}
  BY <1>3 DEF TypeOK
<1>5. Serial(t) \in Nat /\ Serial(t) # 0 /\ Link(t) \in Addr \cup {Null}
  BY <1>3, <1>4 DEF Serial, Link, Fresh, Unit_of
<1>6. PICK b \in Buf :
        /\ frames' = [Forget(b) EXCEPT ![s][a[2]] =
                [f EXCEPT !.serial = Serial(t),
                          !.prev = IF f.serial = 0 THEN head[t][f.unit] ELSE @,
                          !.saved = @ \cup {b}]]
        /\ buf' = [buf EXCEPT ![b] = [addr |-> a, serial |-> Serial(t), unit |-> f.unit]]
  BY DEF SetJmp, Serial, Fresh, Unit_of
<1>7. [f EXCEPT !.serial = Serial(t),
                !.prev = IF f.serial = 0 THEN head[t][f.unit] ELSE @,
                !.saved = @ \cup {b}] = Filled(t, b)
  BY DEF Filled, Link, Fresh, Unit_of
<1>8. Filled(t, b) \in Frame
  BY <1>2, <1>3, <1>5 DEF Filled, Frame
<1>9. frames' = [Forget(b) EXCEPT ![s][a[2]] = Filled(t, b)]
  BY <1>6, <1>7
<1> DEFINE gs == Forget(b)
           q == [gs[s] EXCEPT ![a[2]] = Filled(t, b)]
<1>10. /\ gs \in Frames
       /\ \A r \in Stack : DOMAIN gs[r] = DOMAIN frames[r] /\ Len(gs[r]) = Len(frames[r])
       /\ \A x \in Addr : x[2] \in DOMAIN frames[x[1]] =>
              gs[x[1]][x[2]] = [Node(x) EXCEPT !.saved = @ \ {b}]
  BY ForgottenStacks
<1>11. gs[s] \in Seq(Frame) /\ DOMAIN gs[s] = 1 .. Len(gs[s]) /\ Len(gs[s]) \in Nat
  BY <1>1, <1>10, HasElements DEF Frames
<1>12. a[2] \in DOMAIN gs[s]
  BY <1>1, <1>2, <1>10, Stands
<1> HIDE DEF gs, f
<1>13. q \in [1 .. Len(gs[s]) -> Frame]
  <2>1. gs[s] \in [1 .. Len(gs[s]) -> Frame]
    BY <1>11, HasElements
  <2> QED
    BY <1>8, <2>1
<1>14. q \in Seq(Frame) /\ Len(q) = Len(gs[s]) /\ DOMAIN q = DOMAIN gs[s]
  BY <1>11, <1>13, IsSeq
<1>15. q[a[2]] = Filled(t, b) /\ \A d \in DOMAIN gs[s] \ {a[2]} : q[d] = gs[s][d]
  BY <1>12
<1>16. frames' = [gs EXCEPT ![s] = q]
  BY <1>9 DEF gs
<1> HIDE DEF q
<1>17. frames' \in Frames /\ frames'[s] = q /\ \A r \in Stack \ {s} : frames'[r] = gs[r]
  BY <1>1, <1>10, <1>14, <1>16 DEF Frames
<1>18. \A r \in Stack : DOMAIN frames'[r] = DOMAIN frames[r] /\ Len(frames'[r]) = Len(frames[r])
  BY <1>1, <1>10, <1>14, <1>17
<1>19. ASSUME NEW x \in Addr, x[2] \in DOMAIN frames[x[1]]
       PROVE  frames'[x[1]][x[2]] = IF x = a THEN Filled(t, b) ELSE [Node(x) EXCEPT !.saved = @ \ {b}]
  <2>1. CASE x = a
    BY <1>2, <1>15, <1>17, <2>1
  <2>2. CASE x # a
    <3>1. x[1] \in Stack /\ (x[1] = s => x[2] # a[2])
      BY <1>2, <2>2, Places
    <3>2. frames'[x[1]][x[2]] = gs[x[1]][x[2]]
      BY <1>10, <1>15, <1>17, <1>19, <3>1
    <3> QED
      BY <1>10, <1>19, <2>2, <3>2
  <2> QED
    BY <2>1, <2>2
<1> QED
  BY <1>5, <1>6, <1>17, <1>18, <1>19 DEF Unit_of, f

-----------------------------------------------------------------------------
(* What every state is like.                                               *)

LEMMA InitTyped == Init => TypeOK /\ Owned
<1> SUFFICES ASSUME Init PROVE TypeOK /\ Owned
  OBVIOUS
<1>1. frames \in Frames /\ \A s \in Stack : frames[s] = <<>> /\ Len(frames[s]) <= MaxDepth
  BY JumpBounds DEF Init, Frames
<1>2. (CHOOSE s \in Stack : TRUE) \in Stack /\ (CHOOSE u \in Unit : TRUE) \in Unit
  BY JumpBounds
<1>3. NoJump \in [addr : Addr \cup {Null}, serial : Nat]
  BY DEF NoJump
<1>4. TypeOK
  BY <1>1, <1>2, <1>3 DEF Init, TypeOK
<1>5. Owned
  BY <1>1 DEF Init, Owned
<1> QED
  BY <1>4, <1>5

Put(f, x, y, v) == [f EXCEPT ![x][y] = v]
LEMMA PutWithin ==
  ASSUME NEW S, NEW T, NEW V, NEW f \in [S -> [T -> V]], NEW x \in S, NEW y \in T, NEW v \in V
  PROVE  /\ Put(f, x, y, v) \in [S -> [T -> V]]
         /\ \A i \in S, j \in T : Put(f, x, y, v)[i][j] = IF i = x /\ j = y THEN v ELSE f[i][j]
  BY DEF Put

LEMMA DropTyped ==
  ASSUME TypeOK, NEW t \in Thread, NEW s \in Stack, frames[s] # <<>>, Drop(t, s)
  PROVE  /\ frames' \in Frames /\ \A r \in Stack : Len(frames'[r]) <= MaxDepth
         /\ head' \in [Thread -> [Unit -> Addr \cup {Null}]]
<1>1. Node(Top(s)) \in Frame
  BY Stands
<1>2. frames' \in Frames /\ \A r \in Stack : Len(frames'[r]) <= Len(frames[r])
  BY Dropped
<1>3. \A r \in Stack : frames'[r] \in Seq(Frame) /\ frames[r] \in Seq(Frame) /\ Len(frames[r]) <= MaxDepth
  BY <1>2 DEF TypeOK, Frames
<1>4. \A r \in Stack : Len(frames'[r]) \in Nat /\ Len(frames[r]) \in Nat
  BY <1>3, HasElements
<1>5. \A r \in Stack : Len(frames'[r]) <= MaxDepth
  BY <1>2, <1>3, <1>4, JumpBounds
<1>6. Node(Top(s)).prev \in Addr \cup {Null} /\ Node(Top(s)).unit \in Unit
  BY <1>1 DEF Frame
<1>7. head' = head \/ head' = Put(head, t, Node(Top(s)).unit, Node(Top(s)).prev)
  BY DEF Drop, Put
<1>8. head' \in [Thread -> [Unit -> Addr \cup {Null}]]
  <2>1. head \in [Thread -> [Unit -> Addr \cup {Null}]]
    BY DEF TypeOK
  <2>2. Put(head, t, Node(Top(s)).unit, Node(Top(s)).prev) \in [Thread -> [Unit -> Addr \cup {Null}]]
    BY <1>6, <2>1, PutWithin
  <2> QED
    BY <1>7, <2>1, <2>2
<1> QED
  BY <1>2, <1>5, <1>8

LEMMA StepTyped == TypeOK /\ [Next]_vars => TypeOK'
<1> SUFFICES ASSUME TypeOK, [Next]_vars PROVE TypeOK'
  OBVIOUS
<1>1. CASE UNCHANGED vars
  BY <1>1 DEF vars, TypeOK
<1>2. ASSUME NEW t \in Thread, StartThread(t) PROVE TypeOK'
  BY <1>2 DEF StartThread, Take, Free, TypeOK
<1>3. ASSUME NEW t \in Thread, EndThread(t) PROVE TypeOK'
  BY <1>3 DEF EndThread, TypeOK
<1>4. ASSUME NEW t \in Thread, NewCoroutine(t) PROVE TypeOK'
  BY <1>4 DEF NewCoroutine, Take, Free, TypeOK
<1>5. ASSUME NEW t \in Thread, Switch(t) PROVE TypeOK'
  BY <1>5 DEF Switch, TypeOK
<1>6. ASSUME NEW t \in Thread, FreeCoroutine(t) PROVE TypeOK'
  <2>1. PICK s \in Stack : /\ owner' = [owner EXCEPT ![s] = {}]
                           /\ frames' = [frames EXCEPT ![s] = <<>>]
    BY <1>6 DEF FreeCoroutine
  <2>2. <<>> \in Seq(Frame) /\ Len(<<>>) <= MaxDepth
    BY JumpBounds
  <2>3. frames' \in Frames /\ \A r \in Stack : Len(frames'[r]) <= MaxDepth
    BY <2>1, <2>2 DEF TypeOK, Frames
  <2> QED
    BY <1>6, <2>1, <2>3 DEF FreeCoroutine, TypeOK
<1>7. ASSUME NEW t \in Thread, Call(t) PROVE TypeOK'
  <2>1. frames' \in Frames /\ \A r \in Stack : frames'[r] = frames[r] \/ Len(frames'[r]) <= MaxDepth
    BY <1>7, Called
  <2>2. \A r \in Stack : Len(frames'[r]) <= MaxDepth
    BY <2>1 DEF TypeOK
  <2> QED
    BY <1>7, <2>1, <2>2 DEF Call, threads, TypeOK
<1>8. ASSUME NEW t \in Thread, Return(t) PROVE TypeOK'
  <2>1. on[t] \in Stack
    BY DEF TypeOK
  <2>2. /\ frames' \in Frames /\ \A r \in Stack : Len(frames'[r]) <= MaxDepth
        /\ head' \in [Thread -> [Unit -> Addr \cup {Null}]]
    BY <1>8, <2>1, DropTyped DEF Return
  <2> QED
    BY <1>8, <2>2 DEF Return, threads, TypeOK
<1>9. ASSUME NEW t \in Thread, SetJmp(t) PROVE TypeOK'
  <2>1. on[t] \in Stack /\ frames[on[t]] # <<>>
    BY <1>9 DEF TypeOK, SetJmp
  <2>2. Top(on[t]) \in Addr /\ Node(Top(on[t])).unit \in Unit
    BY <2>1, Stands DEF Frame
  <2>3. Serial(t) \in Nat
    BY <1>9, Saved
  <2>4. frames' \in Frames /\ \A r \in Stack : Len(frames'[r]) = Len(frames[r])
    BY <1>9, Saved
  <2>5. PICK b \in Buf :
          buf' = [buf EXCEPT ![b] = [addr |-> Top(on[t]), serial |-> Serial(t), unit |-> Unit_of(t)]]
    BY <1>9, Saved
  <2>6. buf' \in [Buf -> [addr : Addr \cup {Null}, serial : Nat, unit : Unit]]
    BY <2>2, <2>3, <2>5 DEF TypeOK, Unit_of
  <2>7. count' = count \/ count' = Put(count, t, Node(Top(on[t])).unit, Serial(t))
    BY <1>9 DEF SetJmp, Serial, Fresh, Unit_of, Put
  <2>8. head' = head \/ head' = Put(head, t, Node(Top(on[t])).unit, Top(on[t]))
    BY <1>9 DEF SetJmp, Put
  <2>9. count' \in [Thread -> [Unit -> Nat]] /\ head' \in [Thread -> [Unit -> Addr \cup {Null}]]
    <3>1. /\ head \in [Thread -> [Unit -> Addr \cup {Null}]]
          /\ count \in [Thread -> [Unit -> Nat]]
      BY DEF TypeOK
    <3>2. Put(count, t, Node(Top(on[t])).unit, Serial(t)) \in [Thread -> [Unit -> Nat]]
      BY <2>2, <2>3, <3>1 DEF Put
    <3>3. Put(head, t, Node(Top(on[t])).unit, Top(on[t])) \in [Thread -> [Unit -> Addr \cup {Null}]]
      BY <2>2, <3>1 DEF Put
    <3> QED
      BY <2>7, <2>8, <3>1, <3>2, <3>3
  <2> QED
    BY <1>9, <2>4, <2>6, <2>9 DEF SetJmp, threads, TypeOK
<1>10. ASSUME NEW t \in Thread, Unwind(t) PROVE TypeOK'
  <2>1. on[t] \in Stack /\ frames[on[t]] # <<>>
    BY <1>10 DEF TypeOK, Unwind
  <2>2. NoJump \in [addr : Addr \cup {Null}, serial : Nat]
    BY DEF NoJump
  <2>3. CASE Drop(t, on[t]) /\ UNCHANGED unwind
    <3>1. /\ frames' \in Frames /\ \A r \in Stack : Len(frames'[r]) <= MaxDepth
          /\ head' \in [Thread -> [Unit -> Addr \cup {Null}]]
      BY <2>1, <2>3, DropTyped
    <3> QED
      BY <1>10, <2>3, <3>1 DEF Unwind, threads, TypeOK
  <2>4. CASE unwind' = [unwind EXCEPT ![t] = NoJump] /\ UNCHANGED <<frames, head>>
    BY <1>10, <2>2, <2>4 DEF Unwind, threads, TypeOK
  <2> QED
    BY <1>10, <2>3, <2>4 DEF Unwind
<1>11. ASSUME NEW t \in Thread, Lost(t) PROVE TypeOK'
  BY <1>11 DEF Lost, threads, TypeOK
<1>12. ASSUME NEW t \in Thread, NEW b \in Buf, LongJmp(t, b) PROVE TypeOK'
  <2>1. refusal(t, b) \in {"no", "unfilled", "inactive", "blocked", "elsewhere", "lost"}
    BY DEF refusal, reach
  <2>2. buf[b].addr \in Addr \cup {Null} /\ buf[b].serial \in Nat
    BY DEF TypeOK
  <2>3. [addr |-> buf[b].addr, serial |-> buf[b].serial] \in [addr : Addr \cup {Null}, serial : Nat]
    BY <2>2
  <2>4. /\ unwind' \in [Thread -> [addr : Addr \cup {Null}, serial : Nat]]
        /\ stop' \in {"no", "unfilled", "inactive", "blocked", "elsewhere", "lost"}
    BY <1>12, <2>1, <2>3 DEF LongJmp, TypeOK
  <2> QED
    BY <1>12, <2>4 DEF LongJmp, threads, TypeOK
<1> QED
  BY <1>1, <1>2, <1>3, <1>4, <1>5, <1>6, <1>7, <1>8, <1>9, <1>10, <1>11, <1>12 DEF Next

(* A step of a thread's own leaves the stacks no thread has empty.         *)
LEMMA OwnStep ==
  ASSUME TypeOK, Owned, NEW t \in Thread, thread[t] = "runs", UNCHANGED threads,
         \A s \in Stack \ {on[t]} : frames[s] = <<>> => frames'[s] = <<>>,
         \A r \in Thread : unwind'[r] # NoJump => r = t \/ unwind[r] # NoJump
  PROVE  Owned'
<1>1. on[t] \in Stack /\ owner[on[t]] = {t}
  BY DEF Owned, TypeOK
<1>2. \A s \in Stack : owner'[s] = {} => frames'[s] = <<>>
  BY <1>1 DEF Owned, threads
<1>3. \A r \in Thread : unwind'[r] # NoJump => thread'[r] = "runs"
  BY DEF Owned, threads
<1> QED
  BY <1>2, <1>3 DEF Owned, threads

LEMMA StepOwned == TypeOK /\ Owned /\ [Next]_vars => Owned'
<1> SUFFICES ASSUME TypeOK, Owned, [Next]_vars PROVE Owned'
  OBVIOUS
<1>1. CASE UNCHANGED vars
  BY <1>1 DEF vars, Owned
<1>2. ASSUME NEW t \in Thread, StartThread(t) PROVE Owned'
  <2>1. PICK s \in Stack : owner[s] = {} /\ Take(t, s)
    BY <1>2 DEF StartThread, Free
  <2>2. /\ owner' = [owner EXCEPT ![s] = {t}] /\ on' = [on EXCEPT ![t] = s]
        /\ had' = [had EXCEPT ![s] = @ \cup {t}]
        /\ thread[t] = "new" /\ thread' = [thread EXCEPT ![t] = "runs"]
        /\ UNCHANGED <<frames, unwind>>
    BY <1>2, <2>1 DEF StartThread, Take
  <2>3. \A r \in Thread : thread[r] = "runs" => owner[on[r]] = {r} /\ on[r] # s /\ r # t /\ on[r] \in Stack
    BY <2>1, <2>2 DEF Owned, TypeOK
  <2>4. \A r \in Thread : thread'[r] = "runs" => owner'[on'[r]] = {r}
    BY <2>2, <2>3 DEF TypeOK
  <2>5. \A r \in Stack : owner'[r] # {} => \E q \in Thread : owner'[r] = {q} /\ thread'[q] = "runs"
    <3> SUFFICES ASSUME NEW r \in Stack, owner'[r] # {}
                 PROVE  \E q \in Thread : owner'[r] = {q} /\ thread'[q] = "runs"
      OBVIOUS
    <3>1. CASE r = s
      BY <2>2, <3>1 DEF TypeOK
    <3>2. CASE r # s
      <4>1. owner'[r] = owner[r]
        BY <2>2, <3>2 DEF TypeOK
      <4>2. PICK q \in Thread : owner[r] = {q} /\ thread[q] = "runs"
        BY <4>1 DEF Owned
      <4>3. thread'[q] = "runs"
        BY <2>2, <4>2 DEF TypeOK
      <4> QED
        BY <4>1, <4>2, <4>3
    <3> QED
      BY <3>1, <3>2
  <2>6. \A r \in Stack : owner'[r] \subseteq had'[r]
    BY <2>2 DEF Owned, TypeOK
  <2>7. \A r \in Stack : owner'[r] = {} => frames'[r] = <<>>
    BY <2>2 DEF Owned, TypeOK
  <2>8. \A r \in Thread : unwind'[r] # NoJump => thread'[r] = "runs"
    BY <2>2 DEF Owned, TypeOK
  <2> QED
    BY <2>4, <2>5, <2>6, <2>7, <2>8 DEF Owned
<1>3. ASSUME NEW t \in Thread, EndThread(t) PROVE Owned'
  <2>1. /\ thread[t] = "runs" /\ unwind[t] = NoJump
        /\ \A s \in Stack : owner[s] = {t} => frames[s] = <<>>
        /\ owner' = [s \in Stack |-> owner[s] \ {t}]
        /\ thread' = [thread EXCEPT ![t] = "ended"]
        /\ UNCHANGED <<frames, had, on, unwind>>
    BY <1>3 DEF EndThread, Running
  <2>2. ASSUME NEW s \in Stack
        PROVE  /\ owner'[s] # {} =>
                    /\ owner'[s] = owner[s]
                    /\ \E q \in Thread : owner'[s] = {q} /\ thread'[q] = "runs"
               /\ owner'[s] = {} => frames'[s] = <<>>
               /\ owner'[s] \subseteq had'[s]
    <3>1. CASE owner[s] = {}
      BY <2>1, <3>1 DEF Owned
    <3>2. CASE owner[s] # {}
      <4>1. PICK q \in Thread : owner[s] = {q} /\ thread[q] = "runs"
        BY <3>2 DEF Owned
      <4>2. CASE q = t
        BY <2>1, <4>1, <4>2
      <4>3. CASE q # t
        <5>1. owner'[s] = owner[s] /\ owner[s] # {} /\ thread'[q] = "runs"
          BY <2>1, <4>1, <4>3 DEF TypeOK
        <5>2. owner[s] \subseteq had'[s]
          BY <2>1 DEF Owned
        <5> QED
          BY <4>1, <5>1, <5>2
      <4> QED
        BY <4>2, <4>3
    <3> QED
      BY <3>1, <3>2
  <2>3. ASSUME NEW r \in Thread, thread'[r] = "runs" PROVE owner'[on'[r]] = {r}
    <3>1. r # t /\ thread[r] = "runs" /\ on[r] \in Stack
      BY <2>1, <2>3 DEF TypeOK
    <3> QED
      BY <2>1, <3>1 DEF Owned
  <2>4. \A r \in Thread : unwind'[r] # NoJump => thread'[r] = "runs"
    BY <2>1 DEF Owned, TypeOK
  <2> QED
    BY <2>2, <2>3, <2>4 DEF Owned
<1>4. ASSUME NEW t \in Thread, NewCoroutine(t) PROVE Owned'
  <2>1. PICK s \in Stack : owner[s] = {} /\ Take(t, s)
    BY <1>4 DEF NewCoroutine, Free
  <2>2. /\ owner' = [owner EXCEPT ![s] = {t}] /\ on' = [on EXCEPT ![t] = s]
        /\ had' = [had EXCEPT ![s] = @ \cup {t}]
        /\ thread[t] = "runs" /\ UNCHANGED <<frames, unwind, thread>>
    BY <1>4, <2>1 DEF NewCoroutine, Take, Running
  <2>3. \A r \in Thread : thread[r] = "runs" => owner[on[r]] = {r} /\ on[r] # s /\ on[r] \in Stack
    BY <2>1 DEF Owned, TypeOK
  <2>4. \A r \in Thread : thread'[r] = "runs" => owner'[on'[r]] = {r}
    BY <2>2, <2>3 DEF TypeOK
  <2>5. \A r \in Stack : owner'[r] # {} => \E q \in Thread : owner'[r] = {q} /\ thread'[q] = "runs"
    <3> SUFFICES ASSUME NEW r \in Stack, owner'[r] # {}
                 PROVE  \E q \in Thread : owner'[r] = {q} /\ thread'[q] = "runs"
      OBVIOUS
    <3>1. CASE r = s
      BY <2>2, <3>1 DEF TypeOK
    <3>2. CASE r # s
      <4>1. owner'[r] = owner[r]
        BY <2>2, <3>2 DEF TypeOK
      <4> QED
        BY <2>2, <4>1 DEF Owned
    <3> QED
      BY <3>1, <3>2
  <2>6. \A r \in Stack : owner'[r] \subseteq had'[r]
    BY <2>2 DEF Owned, TypeOK
  <2>7. \A r \in Stack : owner'[r] = {} => frames'[r] = <<>>
    BY <2>2 DEF Owned, TypeOK
  <2> QED
    BY <2>2, <2>4, <2>5, <2>6, <2>7 DEF Owned
<1>5. ASSUME NEW t \in Thread, Switch(t) PROVE Owned'
  BY <1>5 DEF Switch, Owned, TypeOK
<1>6. ASSUME NEW t \in Thread, FreeCoroutine(t) PROVE Owned'
  <2>1. PICK s \in Stack \ {on[t]} : /\ owner[s] = {t}
                                     /\ owner' = [owner EXCEPT ![s] = {}]
                                     /\ frames' = [frames EXCEPT ![s] = <<>>]
                                     /\ UNCHANGED <<had, thread, on, unwind>>
    BY <1>6 DEF FreeCoroutine
  <2>2. \A r \in Thread : thread[r] = "runs" => owner[on[r]] = {r} /\ on[r] # s /\ on[r] \in Stack
    <3>1. \A r \in Thread : thread[r] = "runs" => owner[on[r]] = {r} /\ on[r] \in Stack
      BY DEF Owned, TypeOK
    <3>2. \A r \in Thread : thread[r] = "runs" => on[r] # s
      BY <2>1, <3>1
    <3> QED
      BY <3>1, <3>2
  <2>3. \A r \in Thread : thread'[r] = "runs" => owner'[on'[r]] = {r}
    BY <2>1, <2>2 DEF TypeOK
  <2>4. \A r \in Stack : owner'[r] = {} => frames'[r] = <<>>
    BY <2>1 DEF Owned, TypeOK, Frames
  <2>5. \A r \in Stack : owner'[r] = owner[r] \/ owner'[r] = {}
    BY <2>1 DEF TypeOK
  <2> QED
    BY <2>1, <2>3, <2>4, <2>5 DEF Owned
<1>7. ASSUME NEW t \in Thread, Call(t) PROVE Owned'
  <2>1. \A r \in Stack \ {on[t]} : frames'[r] = frames[r]
    BY <1>7, Called
  <2> QED
    BY <1>7, <2>1, OwnStep DEF Call, Running
<1>8. ASSUME NEW t \in Thread, Return(t) PROVE Owned'
  <2>1. \A r \in Stack : frames[r] = <<>> => frames'[r] = <<>>
    BY <1>8, Dropped DEF Return, TypeOK
  <2> QED
    BY <1>8, <2>1, OwnStep DEF Return, Running
<1>9. ASSUME NEW t \in Thread, SetJmp(t) PROVE Owned'
  <2>1. frames' \in Frames /\ \A r \in Stack : Len(frames'[r]) = Len(frames[r])
    BY <1>9, Saved
  <2>2. \A r \in Stack : frames[r] = <<>> => frames'[r] = <<>>
    <3> SUFFICES ASSUME NEW r \in Stack, frames[r] = <<>> PROVE frames'[r] = <<>>
      OBVIOUS
    <3>1. frames'[r] \in Seq(Frame) /\ Len(frames'[r]) = 0
      BY <2>1 DEF Frames
    <3> QED
      BY <3>1
  <2> QED
    BY <1>9, <2>2, OwnStep DEF SetJmp, Running
<1>10. ASSUME NEW t \in Thread, Unwind(t) PROVE Owned'
  <2>1. thread[t] = "runs" /\ on[t] \in Stack /\ frames[on[t]] # <<>> /\ UNCHANGED threads
    BY <1>10 DEF Unwind, Owned, TypeOK
  <2>2. CASE Drop(t, on[t]) /\ UNCHANGED unwind
    <3>1. \A r \in Stack : frames[r] = <<>> => frames'[r] = <<>>
      BY <2>1, <2>2, Dropped
    <3> QED
      BY <2>1, <2>2, <3>1, OwnStep
  <2>3. CASE unwind' = [unwind EXCEPT ![t] = NoJump] /\ UNCHANGED <<frames, head>>
    <3>1. \A r \in Thread : unwind'[r] # NoJump => unwind[r] # NoJump
      BY <2>3 DEF TypeOK
    <3> QED
      BY <2>1, <2>3, <3>1, OwnStep
  <2> QED
    BY <1>10, <2>2, <2>3 DEF Unwind
<1>11. ASSUME NEW t \in Thread, Lost(t) PROVE Owned'
  BY <1>11, OwnStep DEF Lost, Owned
<1>12. ASSUME NEW t \in Thread, NEW b \in Buf, LongJmp(t, b) PROVE Owned'
  <2>1. \A r \in Thread : unwind'[r] # NoJump => r = t \/ unwind[r] # NoJump
    BY <1>12 DEF LongJmp, TypeOK
  <2> QED
    BY <1>12, <2>1, OwnStep DEF LongJmp, Running
<1> QED
  BY <1>1, <1>2, <1>3, <1>4, <1>5, <1>6, <1>7, <1>8, <1>9, <1>10, <1>11, <1>12 DEF Next

-----------------------------------------------------------------------------
(* The registries.                                                         *)

SerialOf == [a \in Addr |-> IF Standing(a) THEN Node(a).serial ELSE 0]
PrevOf == [a \in Addr |-> IF Standing(a) THEN Node(a).prev ELSE Null]

(* The live frames of a unit on a thread are a chain, and the next number  *)
(* is later than all of theirs.                                            *)
Registry(t, u) ==
    /\ Chain(head[t][u], Live(t, u), SerialOf, PrevOf)
    /\ \A a \in Live(t, u) : SerialOf[a] <= count[t][u]
Registries == \A t \in Thread, u \in Unit : Registry(t, u)

LEMMA LiveFrames ==
  ASSUME TypeOK, NEW t \in Thread, NEW u \in Unit
  PROVE  \A x \in Live(t, u) :
           /\ x \in Addr /\ owner[x[1]] = {t} /\ x[2] \in DOMAIN frames[x[1]]
           /\ Standing(x) /\ Node(x) \in Frame /\ Node(x).unit = u
           /\ SerialOf[x] = Node(x).serial /\ PrevOf[x] = Node(x).prev
  BY Stands DEF Live, SerialOf, PrevOf

(* What the list holds: from the registry, and without counting its links. *)
LEMMA LinkedIsLive ==
  ASSUME TypeOK, NEW t \in Thread, NEW u \in Unit, Registry(t, u)
  PROVE  Linked(head[t][u]) = Live(t, u)
<1> DEFINE h == head[t][u]
           L == Live(t, u)
<1>1. Chain(h, L, SerialOf, PrevOf)
  BY DEF Registry
<1>2. \A x \in L : x \in Addr /\ Standing(x) /\ PrevOf[x] = Node(x).prev
  BY LiveFrames
<1>3. h \in L \cup {Null} /\ \A x \in L : PrevOf[x] \in L \cup {Null}
  BY <1>1, ChainIsClosed
<1>4. ~Standing(Null)
  BY DEF Standing
<1> HIDE DEF L, h
<1>5. ASSUME NEW x \in Linked(h) PROVE x \in L
  <2>1. L \cup {Null} \in SUBSET (Addr \cup {Null})
    BY <1>2
  <2>2. Follows(L \cup {Null})
    BY <1>2, <1>3, <1>4 DEF Follows
  <2>3. x \in Addr /\ x \in L \cup {Null}
    BY <1>3, <2>1, <2>2 DEF Linked
  <2> QED
    BY <2>3, NullIsNoAddr
<1>6. ASSUME NEW x \in L, NEW S \in SUBSET (Addr \cup {Null}), h \in S, Follows(S)
      PROVE  x \in S
  <2>1. \A y \in S \cap L : PrevOf[y] \in S
    BY <1>2, <1>6 DEF Follows
  <2>2. L \subseteq S
    BY <1>1, <1>6, <2>1, ChainIsReached
  <2> QED
    BY <2>2
<1>7. \A x \in L : x \in Linked(h)
  BY <1>2, <1>6 DEF Linked
<1> QED
  BY <1>5, <1>7 DEF h, L

(* A registry whose frames a step neither takes, adds nor relinks.         *)
LEMMA RegistryUnmoved ==
  ASSUME TypeOK, TypeOK', NEW t \in Thread, NEW u \in Unit, Registry(t, u),
         head'[t][u] = head[t][u], count'[t][u] = count[t][u],
         \A x \in Addr : x \in Live(t, u)' => x \in Live(t, u),
         \A x \in Live(t, u) : /\ x \in Live(t, u)'
                               /\ frames'[x[1]][x[2]].serial = Node(x).serial
                               /\ frames'[x[1]][x[2]].prev = Node(x).prev
  PROVE  Registry(t, u)'
<1>1. Live(t, u)' = Live(t, u)
  BY DEF Live
<1>2. \A x \in Live(t, u) : SerialOf'[x] = SerialOf[x] /\ PrevOf'[x] = PrevOf[x]
  <2>1. \A x \in Live(t, u) : x \in Addr /\ Standing(x)'
    BY DEF Live
  <2> QED
    BY <2>1, LiveFrames DEF SerialOf, PrevOf, Node
<1>3. Chain(head'[t][u], Live(t, u), SerialOf', PrevOf')
  BY <1>2, ChainIsItsOwn DEF Registry
<1> QED
  BY <1>1, <1>2, <1>3 DEF Registry

(* Steps that call nothing and return from nothing.                        *)
LEMMA FramesStay ==
  ASSUME TypeOK, TypeOK', Registries, UNCHANGED <<frames, head, count>>,
         \A s \in Stack : frames[s] # <<>> => owner'[s] = owner[s]
  PROVE  Registries'
<1> SUFFICES ASSUME NEW t \in Thread, NEW u \in Unit PROVE Registry(t, u)'
  BY DEF Registries
<1>1. \A x \in Addr : Standing(x)' <=> Standing(x)
  BY DEF Standing
<1>2. \A x \in Addr : Node(x)' = Node(x)
  BY DEF Node
<1>3. \A x \in Addr : Standing(x) => owner'[x[1]] = owner[x[1]]
  <2> SUFFICES ASSUME NEW x \in Addr, Standing(x) PROVE frames[x[1]] # <<>> /\ x[1] \in Stack
    OBVIOUS
  <2>1. x[2] \in DOMAIN frames[x[1]] /\ x[1] \in Stack /\ frames[x[1]] \in Seq(Frame)
    BY Places, Stands DEF TypeOK, Frames
  <2> QED
    BY <2>1, HasElements
<1>4. \A x \in Addr : x \in Live(t, u)' <=> x \in Live(t, u)
  BY <1>1, <1>2, <1>3 DEF Live
<1>5. Registry(t, u) /\ \A x \in Live(t, u) : x \in Addr
  BY DEF Registries, Live
<1> QED
  BY <1>2, <1>4, <1>5, RegistryUnmoved DEF Node

LEMMA CallRegisters ==
  ASSUME TypeOK, TypeOK', Registries, NEW t \in Thread, Call(t)
  PROVE  Registries'
<1> SUFFICES ASSUME NEW r \in Thread, NEW v \in Unit PROVE Registry(r, v)'
  BY DEF Registries
<1> DEFINE s == on[t]
           d == Len(frames[s]) + 1
<1>1. /\ s \in Stack /\ frames' \in Frames
      /\ \A q \in Stack \ {s} : frames'[q] = frames[q]
      /\ DOMAIN frames'[s] = DOMAIN frames[s] \cup {d} /\ d \notin DOMAIN frames[s]
      /\ \A i \in DOMAIN frames[s] : frames'[s][i] = frames[s][i]
      /\ frames'[s][d].serial = 0
  BY Called
<1>2. UNCHANGED <<owner, head, count>>
  BY DEF Call, threads
<1> HIDE DEF s, d
<1>3. ASSUME NEW x \in Addr
      PROVE  /\ Standing(x) => Standing(x)' /\ Node(x)' = Node(x)
             /\ Standing(x)' /\ ~Standing(x) => Node(x)'.serial = 0
  BY <1>1, Places DEF Standing, Node
<1>4. \A x \in Addr : x \in Live(r, v)' <=> x \in Live(r, v)
  <2> SUFFICES ASSUME NEW x \in Addr PROVE x \in Live(r, v)' <=> x \in Live(r, v)
    OBVIOUS
  <2>1. CASE Standing(x)
    BY <1>2, <1>3, <2>1 DEF Live
  <2>2. CASE ~Standing(x)
    BY <1>2, <1>3, <2>2 DEF Live
  <2> QED
    BY <2>1, <2>2
<1>5. Registry(r, v) /\ \A x \in Live(r, v) : x \in Addr /\ Standing(x)
  BY DEF Registries, Live
<1> QED
  BY <1>2, <1>3, <1>4, <1>5, RegistryUnmoved DEF Node

(* `save`: the first in a call pushes its frame.                           *)
LEMMA SaveRegisters ==
  ASSUME TypeOK, TypeOK', Owned, Registries, NEW t \in Thread, SetJmp(t)
  PROVE  Registries'
<1> SUFFICES ASSUME NEW r \in Thread, NEW v \in Unit PROVE Registry(r, v)'
  BY DEF Registries
<1>1. /\ on[t] \in Stack /\ frames[on[t]] # <<>> /\ owner[on[t]] = {t}
      /\ UNCHANGED owner
  BY DEF SetJmp, Running, Owned, TypeOK, threads
<1>a. PICK a \in Addr : a = Top(on[t])
  BY <1>1, Stands
<1>u. PICK u \in Unit : u = Unit_of(t)
  BY <1>1, Stands DEF Unit_of, Frame
<1>2. /\ Standing(a) /\ Node(a) \in Frame /\ a[1] = on[t] /\ a[2] \in DOMAIN frames[a[1]]
      /\ u = Node(a).unit /\ Node(a).kind = "sj"
  BY <1>1, <1>a, <1>u, Stands DEF Unit_of, SetJmp
<1>3. PICK b \in Buf :
        /\ \A s \in Stack : DOMAIN frames'[s] = DOMAIN frames[s]
        /\ \A x \in Addr : x[2] \in DOMAIN frames[x[1]] =>
               frames'[x[1]][x[2]] = IF x = a THEN Filled(t, b) ELSE [Node(x) EXCEPT !.saved = @ \ {b}]
  BY <1>a, Saved
<1>4. \A x \in Addr : Standing(x)' <=> Standing(x)
  BY <1>3, Places DEF Standing
<1>5. \A x \in Addr : Standing(x) => x[2] \in DOMAIN frames[x[1]] /\ Node(x)' = frames'[x[1]][x[2]] /\ Node(x) \in Frame
  BY Stands DEF Node
<1>6. ASSUME NEW x \in Addr, Standing(x), x # a
      PROVE  /\ Node(x)'.kind = Node(x).kind /\ Node(x)'.unit = Node(x).unit
             /\ Node(x)'.serial = Node(x).serial /\ Node(x)'.prev = Node(x).prev
  <2>1. Node(x)' = [Node(x) EXCEPT !.saved = @ \ {b}]
    BY <1>3, <1>5, <1>6
  <2> QED
    BY <1>5, <1>6, <2>1 DEF Frame
<1>7. /\ Node(a)'.kind = "sj" /\ Node(a)'.unit = u
      /\ Node(a)'.serial = Serial(t) /\ Node(a)'.prev = Link(t)
  <2>1. Node(a)' = Filled(t, b)
    BY <1>2, <1>3, <1>5
  <2>2. Filled(t, b) = [Node(a) EXCEPT !.serial = Serial(t), !.prev = Link(t), !.saved = @ \cup {b}]
    BY <1>a DEF Filled
  <2> QED
    BY <1>2, <2>1, <2>2 DEF Frame
<1>8. Serial(t) \in Nat /\ Serial(t) # 0
  BY Saved
<1>9. Registry(r, v) /\ \A x \in Live(r, v) : x \in Addr /\ Standing(x)
  BY DEF Registries, Live
<1>10. a \in Live(r, v)' <=> r = t /\ v = u
  BY <1>1, <1>2, <1>4, <1>7, <1>8 DEF Live
<1>11. \A x \in Addr \ {a} : x \in Live(r, v)' <=> x \in Live(r, v)
  BY <1>1, <1>4, <1>6 DEF Live
<1>12. a \in Live(r, v) => r = t /\ v = u /\ ~Fresh(t)
  BY <1>1, <1>2, <1>a DEF Live, Fresh
<1>13. ~Fresh(t) => a \in Live(t, u) /\ Serial(t) = Node(a).serial /\ Link(t) = Node(a).prev
                    /\ UNCHANGED <<count, head>>
  <2>1. ~Fresh(t) => UNCHANGED <<count, head>>
    BY DEF SetJmp, Fresh
  <2> QED
    BY <1>1, <1>2, <1>a, <2>1 DEF Live, Fresh, Serial, Link
<1>14. Fresh(t) => /\ head' = Put(head, t, u, a) /\ count' = Put(count, t, u, Serial(t))
                   /\ Serial(t) = count[t][u] + 1 /\ Link(t) = head[t][u]
  BY <1>a, <1>u DEF SetJmp, Fresh, Serial, Link, Unit_of, Put
<1>15. /\ head \in [Thread -> [Unit -> Addr \cup {Null}]] /\ count \in [Thread -> [Unit -> Nat]]
  BY DEF TypeOK
<1>16. ASSUME Fresh(t)
       PROVE  /\ head'[r][v] = IF r = t /\ v = u THEN a ELSE head[r][v]
              /\ count'[r][v] = IF r = t /\ v = u THEN Serial(t) ELSE count[r][v]
  BY <1>2, <1>8, <1>14, <1>15, <1>16 DEF Put
<1>17. CASE ~(r = t /\ v = u) \/ ~Fresh(t)
  <2>1. head'[r][v] = head[r][v] /\ count'[r][v] = count[r][v]
    BY <1>13, <1>16, <1>17
  <2>2. \A x \in Addr : x \in Live(r, v)' <=> x \in Live(r, v)
    BY <1>10, <1>11, <1>12, <1>13, <1>17
  <2>3. \A x \in Live(r, v) : Node(x)'.serial = Node(x).serial /\ Node(x)'.prev = Node(x).prev
    BY <1>6, <1>7, <1>9, <1>12, <1>13
  <2> QED
    BY <1>9, <2>1, <2>2, <2>3, RegistryUnmoved DEF Node
<1>18. CASE r = t /\ v = u /\ Fresh(t)
  <2> DEFINE L == Live(t, u)
  <2>1. Chain(head[t][u], L, SerialOf, PrevOf) /\ \A x \in L : SerialOf[x] <= count[t][u]
    BY <1>9, <1>18 DEF Registry
  <2>2. a \notin L /\ Live(t, u)' = L \cup {a}
    <3>1. a \notin L
      BY <1>12, <1>18
    <3>2. Live(t, u)' \subseteq Addr /\ L \subseteq Addr
      BY DEF Live
    <3> HIDE DEF L
    <3>3. \A x \in Addr : x \in Live(t, u)' <=> x \in L \cup {a}
      BY <1>2, <1>10, <1>11, <1>18, <3>1 DEF L
    <3> QED
      BY <1>2, <3>1, <3>2, <3>3
  <2>3. \A x \in L : SerialOf'[x] = SerialOf[x] /\ PrevOf'[x] = PrevOf[x]
    <3>1. \A x \in L : x \in Addr /\ Standing(x) /\ Standing(x)' /\ x # a
      BY <1>4, <1>9, <1>18, <2>2
    <3> HIDE DEF L
    <3> QED
      BY <1>6, <3>1 DEF SerialOf, PrevOf
  <2>4. SerialOf'[a] = Serial(t) /\ PrevOf'[a] = head[t][u]
    BY <1>2, <1>4, <1>7, <1>14, <1>18 DEF SerialOf, PrevOf
  <2>5. count[t][u] \in Nat /\ Serial(t) = count[t][u] + 1
    BY <1>2, <1>14, <1>15, <1>18
  <2>6. \A x \in L : SerialOf[x] \in Nat
    BY <2>1 DEF Chain
  <2> HIDE DEF L
  <2>7. \A x \in L : SerialOf[x] < SerialOf'[a] /\ SerialOf'[x] <= Serial(t)
    BY <2>1, <2>3, <2>4, <2>5, <2>6
  <2>8. SerialOf'[a] \in Nat
    BY <1>8, <2>4
  <2>9. Chain(a, L \cup {a}, SerialOf', PrevOf')
    BY <1>2, <2>1, <2>2, <2>3, <2>4, <2>7, <2>8, ChainGrows
  <2>10. head'[t][u] = a /\ count'[t][u] = Serial(t)
    BY <1>16, <1>18
  <2>11. \A x \in L \cup {a} : SerialOf'[x] <= count'[t][u]
    BY <1>8, <2>4, <2>7, <2>10
  <2> QED
    BY <1>18, <2>2, <2>9, <2>10, <2>11 DEF Registry
<1> QED
  BY <1>17, <1>18

(* `drop`: a frame that may be anywhere on the list is taken off it.       *)
LEMMA DropRegisters ==
  ASSUME TypeOK, TypeOK', Registries, NEW t \in Thread, NEW s \in Stack,
         owner[s] = {t}, frames[s] # <<>>, Drop(t, s), UNCHANGED <<owner, count>>
  PROVE  Registries'
<1> SUFFICES ASSUME NEW r \in Thread, NEW v \in Unit PROVE Registry(r, v)'
  BY DEF Registries
<1>1. PICK a \in Addr : a = Top(s)
  BY Stands
<1>2. /\ Standing(a) /\ Node(a) \in Frame /\ a[1] = s /\ a[2] \in DOMAIN frames[a[1]]
  BY <1>1, Stands
<1>3. PICK u \in Unit : u = Node(a).unit
  BY <1>2 DEF Frame
<1>4. /\ \A x \in Addr : x[2] \in DOMAIN frames'[x[1]] <=> x[2] \in DOMAIN frames[x[1]] /\ x # a
      /\ \A x \in Addr : x[2] \in DOMAIN frames'[x[1]] =>
             frames'[x[1]][x[2]] = IF Passes(t, a, x)
                                   THEN [Node(x) EXCEPT !.prev = Node(a).prev] ELSE Node(x)
  BY <1>1, Dropped
<1>5. \A x \in Addr : Standing(x)' <=> Standing(x) /\ x # a
  BY <1>4, Places DEF Standing
<1>6. ASSUME NEW x \in Addr, Standing(x)'
      PROVE  /\ Node(x)'.kind = Node(x).kind /\ Node(x)'.unit = Node(x).unit
             /\ Node(x)'.serial = Node(x).serial
             /\ Node(x)'.prev = IF Passes(t, a, x) THEN Node(a).prev ELSE Node(x).prev
  <2>1. x[2] \in DOMAIN frames'[x[1]] /\ Node(x)' = frames'[x[1]][x[2]]
    BY <1>6, Places DEF Standing, Node
  <2>2. Node(x) \in Frame
    BY <1>5, <1>6, Stands
  <2>3. Node(x)' = IF Passes(t, a, x) THEN [Node(x) EXCEPT !.prev = Node(a).prev] ELSE Node(x)
    BY <1>4, <2>1
  <2> QED
    BY <2>2, <2>3 DEF Frame
<1>7. \A x \in Addr : x \in Live(r, v)' <=> x \in Live(r, v) /\ x # a
  BY <1>5, <1>6 DEF Live
<1>8. Registry(r, v) /\ Registry(t, u) /\ Linked(head[t][u]) = Live(t, u)
  BY LinkedIsLive DEF Registries
<1>9. \A x \in Addr : Passes(t, a, x) <=> /\ a \in Live(t, u) /\ head[t][u] # a
                                          /\ x \in Live(t, u) /\ Node(x).prev = a
  BY <1>2, <1>3, <1>8 DEF Passes, Live
<1>10. \A x \in Live(r, v) : x \in Addr /\ Standing(x)
  BY DEF Live
<1>11. a \in Live(r, v) => r = t /\ v = u
  BY <1>2, <1>3 DEF Live
<1>12. a \in Live(t, u) <=> ~(Node(a).kind # "sj" \/ Node(a).serial = 0)
  BY <1>2, <1>3 DEF Live
<1>13. head' = IF a \in Live(t, u) /\ head[t][u] = a THEN Put(head, t, u, Node(a).prev) ELSE head
  BY <1>1, <1>3, <1>12 DEF Drop, Put
<1>14. head \in [Thread -> [Unit -> Addr \cup {Null}]]
  BY DEF TypeOK
<1>15. Node(a).prev \in Addr \cup {Null}
  BY <1>2 DEF Frame
<1>16. head'[r][v] = IF a \in Live(t, u) /\ head[t][u] = a /\ r = t /\ v = u
                     THEN Node(a).prev ELSE head[r][v]
  BY <1>13, <1>14, <1>15 DEF Put
<1>17. CASE a \notin Live(t, u) \/ ~(r = t /\ v = u)
  <2>1. a \notin Live(r, v) /\ head'[r][v] = head[r][v]
    BY <1>11, <1>16, <1>17
  <2>2. \A x \in Live(r, v) : ~Passes(t, a, x)
    <3>1. \A x \in Live(r, v) : x \in Live(t, u) => r = t /\ v = u
      BY DEF Live
    <3> QED
      BY <1>9, <1>10, <1>17, <3>1
  <2>3. \A x \in Live(r, v) : Node(x)'.serial = Node(x).serial /\ Node(x)'.prev = Node(x).prev
    BY <1>5, <1>6, <1>10, <2>1, <2>2
  <2> QED
    BY <1>7, <1>8, <1>10, <2>1, <2>3, RegistryUnmoved DEF Node
<1>18. CASE a \in Live(t, u) /\ r = t /\ v = u
  <2> DEFINE L == Live(t, u)
             h == head[t][u]
  <2>1. Chain(h, L, SerialOf, PrevOf) /\ \A x \in L : SerialOf[x] <= count[t][u]
    BY <1>8 DEF Registry
  <2>2. Live(t, u)' = L \ {a}
    <3>1. Live(t, u)' \subseteq Addr /\ L \subseteq Addr
      BY DEF Live
    <3> QED
      BY <1>7, <1>18, <3>1
  <2>3. \A x \in L : SerialOf[x] = Node(x).serial /\ PrevOf[x] = Node(x).prev
    BY LiveFrames
  <2>4. \A x \in L \ {a} : /\ SerialOf'[x] = SerialOf[x]
                           /\ PrevOf'[x] = IF Passes(t, a, x) THEN PrevOf[a] ELSE PrevOf[x]
    <3>1. \A x \in L \ {a} : x \in Addr /\ Standing(x)'
      BY <1>5, <1>10, <1>18
    <3>2. \A x \in L \ {a} : SerialOf'[x] = Node(x)'.serial /\ PrevOf'[x] = Node(x)'.prev
      BY <3>1 DEF SerialOf, PrevOf
    <3> HIDE DEF L
    <3> QED
      BY <1>6, <1>18, <2>3, <3>1, <3>2 DEF L
  <2>5. CASE h = a
    <3>1. Chain(PrevOf[a], L \ {a}, SerialOf, PrevOf)
      BY <1>18, <2>1, <2>5, ChainLosesHead
    <3>2. \A x \in L \ {a} : SerialOf'[x] = SerialOf[x] /\ PrevOf'[x] = PrevOf[x]
      BY <1>9, <1>10, <1>18, <2>4, <2>5
    <3>3. Chain(PrevOf[a], L \ {a}, SerialOf', PrevOf')
      BY <3>1, <3>2, ChainIsItsOwn
    <3>4. head'[t][u] = PrevOf[a]
      BY <1>16, <1>18, <2>3, <2>5
    <3>5. \A x \in L \ {a} : SerialOf'[x] <= count'[t][u]
      BY <2>1, <3>2
    <3> QED
      BY <1>18, <2>2, <3>3, <3>4, <3>5 DEF Registry
  <2>6. CASE h # a
    <3>1. \A x \in L \ {a} : SerialOf'[x] = SerialOf[x] /\
              PrevOf'[x] = IF PrevOf[x] = a THEN PrevOf[a] ELSE PrevOf[x]
      BY <1>9, <1>10, <1>18, <2>3, <2>4, <2>6
    <3>2. Chain(h, L \ {a}, SerialOf', PrevOf')
      BY <1>18, <2>1, <2>6, <3>1, ChainLosesOther
    <3>3. head'[t][u] = h
      BY <1>16, <1>18, <2>6
    <3>4. \A x \in L \ {a} : SerialOf'[x] <= count'[t][u]
      BY <2>1, <3>1
    <3> QED
      BY <1>18, <2>2, <3>2, <3>3, <3>4 DEF Registry
  <2> QED
    BY <2>5, <2>6
<1> QED
  BY <1>17, <1>18

LEMMA InitRegisters == Init => Registries
<1> SUFFICES ASSUME Init, NEW t \in Thread, NEW u \in Unit PROVE Registry(t, u)
  BY DEF Registries
<1>1. Live(t, u) = {} /\ head[t][u] = Null
  <2>1. \A a \in Addr : owner[a[1]] = {}
    BY Places DEF Init
  <2> QED
    BY <2>1 DEF Init, Live
<1>2. Chain(Null, {}, SerialOf, PrevOf)
  BY DEF Chain, Newest
<1> QED
  BY <1>1, <1>2 DEF Registry

(* Coroutines are freed when they have returned.                           *)
LEMMA StepRegisters ==
  ~Abandons /\ TypeOK /\ TypeOK' /\ Owned /\ Registries /\ [Next]_vars => Registries'
<1> SUFFICES ASSUME ~Abandons, TypeOK, TypeOK', Owned, Registries, [Next]_vars PROVE Registries'
  OBVIOUS
<1>1. CASE UNCHANGED vars
  BY <1>1, FramesStay DEF vars
<1>2. ASSUME NEW t \in Thread, StartThread(t) \/ NewCoroutine(t) PROVE Registries'
  <2>1. PICK s \in Stack : owner[s] = {} /\ owner' = [owner EXCEPT ![s] = {t}]
    BY <1>2 DEF StartThread, NewCoroutine, Free, Take
  <2>2. \A r \in Stack : frames[r] # <<>> => owner'[r] = owner[r]
    BY <2>1 DEF Owned, TypeOK
  <2> QED
    BY <1>2, <2>2, FramesStay DEF StartThread, NewCoroutine
<1>3. ASSUME NEW t \in Thread, EndThread(t) PROVE Registries'
  <2>1. \A s \in Stack : frames[s] # <<>> => owner'[s] = owner[s]
    <3> SUFFICES ASSUME NEW s \in Stack, frames[s] # <<>> PROVE owner'[s] = owner[s]
      OBVIOUS
    <3>1. PICK q \in Thread : owner[s] = {q}
      BY DEF Owned
    <3>2. owner[s] # {t} /\ owner'[s] = owner[s] \ {t}
      BY <1>3 DEF EndThread
    <3> QED
      BY <3>1, <3>2
  <2> QED
    BY <1>3, <2>1, FramesStay DEF EndThread
<1>4. ASSUME NEW t \in Thread, FreeCoroutine(t) PROVE Registries'
  <2>1. PICK s \in Stack : /\ frames[s] = <<>> /\ owner' = [owner EXCEPT ![s] = {}]
                           /\ frames' = [frames EXCEPT ![s] = <<>>]
    BY <1>4 DEF FreeCoroutine
  <2>2. frames' = frames
    BY <2>1 DEF TypeOK, Frames
  <2>3. \A r \in Stack : frames[r] # <<>> => owner'[r] = owner[r]
    BY <2>1 DEF TypeOK
  <2> QED
    BY <1>4, <2>2, <2>3, FramesStay DEF FreeCoroutine
<1>5. ASSUME NEW t \in Thread, Switch(t) \/ Lost(t) \/ \E b \in Buf : LongJmp(t, b) PROVE Registries'
  BY <1>5, FramesStay DEF Switch, Lost, LongJmp, threads
<1>6. ASSUME NEW t \in Thread, Call(t) PROVE Registries'
  BY <1>6, CallRegisters
<1>7. ASSUME NEW t \in Thread, SetJmp(t) PROVE Registries'
  BY <1>7, SaveRegisters
<1>8. ASSUME NEW t \in Thread, Return(t) \/ Unwind(t) PROVE Registries'
  <2>1. thread[t] = "runs" /\ on[t] \in Stack /\ frames[on[t]] # <<>> /\ UNCHANGED <<owner, count>>
    BY <1>8 DEF Return, Unwind, Running, Owned, TypeOK, threads
  <2>2. owner[on[t]] = {t}
    BY <2>1 DEF Owned
  <2>3. CASE Drop(t, on[t])
    BY <2>1, <2>2, <2>3, DropRegisters
  <2>4. CASE UNCHANGED <<frames, head>>
    BY <2>1, <2>4, FramesStay
  <2> QED
    BY <1>8, <2>3, <2>4 DEF Return, Unwind
<1> QED
  BY <1>1, <1>2, <1>3, <1>4, <1>5, <1>6, <1>7, <1>8 DEF Next

(* The stacks, their threads and the values of the variables.              *)
THEOREM StacksAreOwned == Spec => [](TypeOK /\ Owned)
<1>1. TypeOK /\ Owned /\ [Next]_vars => (TypeOK /\ Owned)'
  BY StepTyped, StepOwned
<1> QED
  BY InitTyped, <1>1, PTL DEF Spec

(* A thread's list of live frames names every frame it may be jumped to,   *)
(* and none that is gone or another's (`drop` and `save`, codegen.rs:3671- *)
(* 3762), in whatever order the frames of its stacks are left.             *)
THEOREM RegistryNamesTheLive ==
  ASSUME ~Abandons
  PROVE  Spec => []RegistryIsLive
<1> DEFINE IInv == TypeOK /\ Owned /\ Registries
<1>1. Init => IInv
  BY InitTyped, InitRegisters
<1>2. IInv /\ [Next]_vars => IInv'
  BY StepTyped, StepOwned, StepRegisters
<1>3. IInv => RegistryIsLive
  BY LinkedIsLive DEF RegistryIsLive, Registries
<1> QED
  BY <1>1, <1>2, <1>3, PTL DEF Spec

-----------------------------------------------------------------------------
(* The buffers.                                                            *)

(* A buffer's number was given out by a thread that has had the stack its  *)
(* frame was on, and a frame there with that number holds the buffer.      *)
Holds(b) ==
    LET a == buf[b].addr
    IN  /\ a \in Addr
        /\ \E t \in had[a[1]] : buf[b].serial <= count[t][buf[b].unit]
        /\ Standing(a) /\ Node(a).unit = buf[b].unit /\ Node(a).serial = buf[b].serial
              => b \in Node(a).saved
Buffers == \A b \in Buf : buf[b].serial # 0 => Holds(b)

(* Without reuse, a stack is always the same thread's.                     *)
StacksAreKept == \A s \in Stack : \A t, r \in had[s] : t = r

LEMMA StepKeeps == ~Reuses /\ TypeOK /\ StacksAreKept /\ [Next]_vars => StacksAreKept'
<1> SUFFICES ASSUME ~Reuses, TypeOK, StacksAreKept, [Next]_vars PROVE StacksAreKept'
  OBVIOUS
<1>1. CASE had' = had
  BY <1>1 DEF StacksAreKept
<1>2. ASSUME NEW t \in Thread, NEW s \in Free(t), Take(t, s) PROVE StacksAreKept'
  <2>1. had' = [had EXCEPT ![s] = @ \cup {t}] /\ had[s] \subseteq {t} /\ s \in Stack
    BY <1>2 DEF Take, Free
  <2> QED
    BY <2>1 DEF StacksAreKept, TypeOK
<1>3. had' = had \/ \E t \in Thread : \E s \in Free(t) : Take(t, s)
  <2>1. CASE UNCHANGED vars
    BY <2>1 DEF vars
  <2>2. ASSUME NEW t \in Thread, StartThread(t) \/ NewCoroutine(t)
        PROVE  \E s \in Free(t) : Take(t, s)
    BY <2>2 DEF StartThread, NewCoroutine
  <2>3. ASSUME NEW t \in Thread, EndThread(t) \/ FreeCoroutine(t) PROVE had' = had
    BY <2>3 DEF EndThread, FreeCoroutine
  <2>4. ASSUME NEW t \in Thread, Switch(t) \/ Call(t) \/ Return(t) \/ SetJmp(t) \/ Unwind(t) \/ Lost(t)
        PROVE  had' = had
    BY <2>4 DEF Switch, Call, Return, SetJmp, Unwind, Lost, threads
  <2>5. ASSUME NEW t \in Thread, NEW b \in Buf, LongJmp(t, b) PROVE had' = had
    BY <2>5 DEF LongJmp, threads
  <2> QED
    BY <2>1, <2>2, <2>3, <2>4, <2>5 DEF Next
<1> QED
  BY <1>1, <1>2, <1>3

(* Steps that fill no buffer in: a frame that is there afterwards, with a  *)
(* number, was there before, and holds what it held.                       *)
LEMMA BuffersStay ==
  ASSUME TypeOK, Buffers, UNCHANGED <<buf, count>>, \A s \in Stack : had[s] \subseteq had'[s],
         \A x \in Addr : x[2] \in DOMAIN frames'[x[1]] /\ frames'[x[1]][x[2]].serial # 0 =>
             /\ x[2] \in DOMAIN frames[x[1]]
             /\ frames'[x[1]][x[2]].unit = Node(x).unit
             /\ frames'[x[1]][x[2]].serial = Node(x).serial
             /\ frames'[x[1]][x[2]].saved = Node(x).saved
  PROVE  Buffers'
<1> SUFFICES ASSUME NEW b \in Buf, buf[b].serial # 0 PROVE Holds(b)'
  BY DEF Buffers
<1> DEFINE a == buf[b].addr
<1>1. Holds(b)
  BY DEF Buffers
<1>2. a \in Addr /\ a[1] \in Stack
  BY <1>1, Places DEF Holds
<1>3. \E t \in had'[a[1]] : buf[b].serial <= count[t][buf[b].unit]
  BY <1>1, <1>2 DEF Holds
<1>4. ASSUME a[2] \in DOMAIN frames'[a[1]], frames'[a[1]][a[2]].unit = buf[b].unit,
             frames'[a[1]][a[2]].serial = buf[b].serial
      PROVE  b \in frames'[a[1]][a[2]].saved
  <2>1. /\ a[2] \in DOMAIN frames[a[1]]
        /\ frames'[a[1]][a[2]].unit = Node(a).unit
        /\ frames'[a[1]][a[2]].serial = Node(a).serial
        /\ frames'[a[1]][a[2]].saved = Node(a).saved
    BY <1>2, <1>4
  <2>2. Standing(a)
    BY <1>2, <2>1, Stands
  <2> QED
    BY <1>1, <1>4, <2>1, <2>2 DEF Holds
<1>5. /\ buf'[b] = buf[b] /\ count' = count
  OBVIOUS
<1> QED
  BY <1>2, <1>3, <1>4, <1>5 DEF Holds, Standing, Node

(* `save`: a new number is later than that of any buffer of the thread, so *)
(* the frame at an address is not mistaken for the one that was there.     *)
LEMMA SaveFills ==
  ASSUME TypeOK, Owned, Registries, StacksAreKept, Buffers, NEW t \in Thread, SetJmp(t)
  PROVE  Buffers'
<1>1. /\ on[t] \in Stack /\ frames[on[t]] # <<>> /\ owner[on[t]] = {t} /\ t \in had[on[t]]
      /\ UNCHANGED had
  BY DEF SetJmp, Running, Owned, TypeOK, threads
<1>2. PICK a \in Addr : a = Top(on[t])
  BY <1>1, Stands
<1>3. PICK u \in Unit : u = Unit_of(t)
  BY <1>1, Stands DEF Unit_of, Frame
<1>4. /\ Standing(a) /\ Node(a) \in Frame /\ a[1] = on[t] /\ a[2] \in DOMAIN frames[a[1]]
      /\ u = Node(a).unit /\ Node(a).kind = "sj"
  BY <1>1, <1>2, <1>3, Stands DEF Unit_of, SetJmp
<1>5. PICK b \in Buf :
        /\ buf' = [buf EXCEPT ![b] = [addr |-> a, serial |-> Serial(t), unit |-> u]]
        /\ \A s \in Stack : DOMAIN frames'[s] = DOMAIN frames[s]
        /\ \A x \in Addr : x[2] \in DOMAIN frames[x[1]] =>
               frames'[x[1]][x[2]] = IF x = a THEN Filled(t, b) ELSE [Node(x) EXCEPT !.saved = @ \ {b}]
  BY <1>2, <1>3, Saved
<1>6. \A x \in Addr : Standing(x)' <=> Standing(x)
  BY <1>5, Places DEF Standing
<1>7. \A x \in Addr : Standing(x) => x[2] \in DOMAIN frames[x[1]] /\ Node(x)' = frames'[x[1]][x[2]] /\ Node(x) \in Frame
  BY Stands DEF Node
<1>8. ASSUME NEW x \in Addr, Standing(x), x # a
      PROVE  /\ Node(x)'.unit = Node(x).unit /\ Node(x)'.serial = Node(x).serial
             /\ Node(x)'.saved = Node(x).saved \ {b}
  <2>1. Node(x)' = [Node(x) EXCEPT !.saved = @ \ {b}]
    BY <1>5, <1>7, <1>8
  <2> QED
    BY <1>7, <1>8, <2>1 DEF Frame
<1>9. /\ Node(a)'.unit = u /\ Node(a)'.serial = Serial(t)
      /\ Node(a)'.saved = Node(a).saved \cup {b}
  <2>1. Node(a)' = Filled(t, b)
    BY <1>4, <1>5, <1>7
  <2>2. Filled(t, b) = [Node(a) EXCEPT !.serial = Serial(t), !.prev = Link(t), !.saved = @ \cup {b}]
    BY <1>2 DEF Filled
  <2> QED
    BY <1>4, <2>1, <2>2 DEF Frame
<1>10. /\ count \in [Thread -> [Unit -> Nat]] /\ had \in [Stack -> SUBSET Thread]
       /\ buf \in [Buf -> [addr : Addr \cup {Null}, serial : Nat, unit : Unit]]
  BY DEF TypeOK
<1>11. Serial(t) \in Nat /\ Serial(t) # 0
  BY Saved
<1>12. /\ Fresh(t) => count' = Put(count, t, u, Serial(t)) /\ Serial(t) = count[t][u] + 1
       /\ ~Fresh(t) => count' = count /\ Serial(t) = Node(a).serial
  BY <1>2, <1>3 DEF SetJmp, Fresh, Serial, Unit_of, Put
<1>13. ~Fresh(t) => Serial(t) <= count[t][u]
  <2>1. ~Fresh(t) => a \in Live(t, u) /\ Node(a).serial = SerialOf[a]
    BY <1>1, <1>2, <1>4 DEF Fresh, Live, SerialOf
  <2> QED
    BY <1>12, <2>1 DEF Registries, Registry
<1>14. \A r \in Thread, v \in Unit :
          count'[r][v] = IF Fresh(t) /\ r = t /\ v = u THEN Serial(t) ELSE count[r][v]
  BY <1>10, <1>11, <1>12 DEF Put
<1>15. count[t][u] \in Nat /\ count'[t][u] = IF Fresh(t) THEN Serial(t) ELSE count[t][u]
  BY <1>10, <1>14
<1>16. SUFFICES ASSUME NEW c \in Buf, buf'[c].serial # 0 PROVE Holds(c)'
  BY DEF Buffers
<1>17. CASE c = b
  <2>1. buf'[c].addr = a /\ buf'[c].serial = Serial(t) /\ buf'[c].unit = u
    BY <1>5, <1>10, <1>17
  <2>2. Serial(t) <= count'[t][u]
    BY <1>11, <1>13, <1>15
  <2>3. b \in Node(a)'.saved
    BY <1>9
  <2> QED
    BY <1>1, <1>4, <1>17, <2>1, <2>2, <2>3 DEF Holds, Node
<1>18. CASE c # b
  <2>1. buf'[c] = buf[c] /\ Holds(c)
    BY <1>5, <1>10, <1>16, <1>18 DEF Buffers
  <2>2. PICK y \in Addr : y = buf[c].addr
    BY <2>1 DEF Holds
  <2>3. PICK n \in Nat : n = buf[c].serial
    BY <1>10
  <2>4. PICK v \in Unit : v = buf[c].unit
    BY <1>10
  <2>5. PICK r \in had[y[1]] : n <= count[r][v]
    BY <2>1, <2>2, <2>3, <2>4 DEF Holds
  <2>6. r \in Thread /\ y[1] \in Stack
    BY <1>10, <2>5, Places
  <2>7. count[r][v] \in Nat /\ count[r][v] <= count'[r][v]
    BY <1>10, <1>11, <1>12, <1>14, <2>6
  <2>8. n <= count'[r][v] /\ r \in had'[y[1]]
    <3>1. count'[r][v] \in Nat
      BY <1>10, <1>11, <1>14, <2>6
    <3> QED
      BY <1>1, <2>5, <2>7, <3>1
  <2>9. ASSUME Standing(y), Node(y)'.unit = v, Node(y)'.serial = n PROVE c \in Node(y)'.saved
    <3>1. Node(y).unit = v /\ Node(y).serial = n => c \in Node(y).saved
      BY <2>1, <2>2, <2>3, <2>4, <2>9 DEF Holds
    <3>2. CASE y # a
      BY <1>8, <1>18, <2>9, <3>1, <3>2
    <3>3. CASE y = a /\ ~Fresh(t)
      BY <1>4, <1>9, <1>12, <2>9, <3>1, <3>3
    <3>4. CASE y = a /\ Fresh(t)
      <4>1. r = t /\ v = u /\ n = Serial(t)
        BY <1>1, <1>4, <1>9, <2>5, <2>9, <3>4 DEF StacksAreKept
      <4> QED
        BY <1>12, <1>15, <2>5, <3>4, <4>1
    <3> QED
      BY <3>2, <3>3, <3>4
  <2> QED
    BY <1>6, <2>1, <2>2, <2>3, <2>4, <2>8, <2>9 DEF Holds, Node
<1> QED
  BY <1>17, <1>18

LEMMA StepBuffers ==
  TypeOK /\ Owned /\ Registries /\ StacksAreKept /\ Buffers /\ [Next]_vars => Buffers'
<1> SUFFICES ASSUME TypeOK, Owned, Registries, StacksAreKept, Buffers, [Next]_vars PROVE Buffers'
  OBVIOUS
<1>1. CASE UNCHANGED <<frames, buf, count>> /\ \A s \in Stack : had[s] \subseteq had'[s]
  <2>1. \A x \in Addr : x[2] \in DOMAIN frames[x[1]] => frames'[x[1]][x[2]] = Node(x)
    BY <1>1 DEF Node
  <2> QED
    BY <1>1, <2>1, BuffersStay
<1>2. CASE UNCHANGED vars
  BY <1>1, <1>2 DEF vars
<1>3. ASSUME NEW t \in Thread, StartThread(t) \/ NewCoroutine(t) PROVE Buffers'
  <2>1. PICK s : had' = [had EXCEPT ![s] = @ \cup {t}]
    BY <1>3 DEF StartThread, NewCoroutine, Take
  <2>2. \A r \in Stack : had[r] \subseteq had'[r]
    BY <2>1 DEF TypeOK
  <2> QED
    BY <1>1, <1>3, <2>2 DEF StartThread, NewCoroutine
<1>4. ASSUME NEW t \in Thread, EndThread(t) \/ Switch(t) \/ Lost(t) \/ \E b \in Buf : LongJmp(t, b)
      PROVE  Buffers'
  BY <1>1, <1>4 DEF EndThread, Switch, Lost, LongJmp, threads
<1>5. ASSUME NEW t \in Thread, FreeCoroutine(t) PROVE Buffers'
  <2>1. PICK s \in Stack : frames' = [frames EXCEPT ![s] = <<>>]
    BY <1>5 DEF FreeCoroutine
  <2>2. \A x \in Addr : x[2] \in DOMAIN frames'[x[1]] =>
            x[2] \in DOMAIN frames[x[1]] /\ frames'[x[1]][x[2]] = Node(x)
    BY <2>1, Places DEF Node, TypeOK, Frames
  <2>3. UNCHANGED <<buf, count, had>>
    BY <1>5 DEF FreeCoroutine
  <2> QED
    BY <2>2, <2>3, BuffersStay
<1>6. ASSUME NEW t \in Thread, Call(t) PROVE Buffers'
  <2> DEFINE s == on[t]
             d == Len(frames[s]) + 1
  <2>1. /\ s \in Stack
        /\ \A q \in Stack \ {s} : frames'[q] = frames[q]
        /\ DOMAIN frames'[s] = DOMAIN frames[s] \cup {d}
        /\ \A i \in DOMAIN frames[s] : frames'[s][i] = frames[s][i]
        /\ frames'[s][d].serial = 0
    BY <1>6, Called
  <2> HIDE DEF s, d
  <2>2. \A x \in Addr : x[2] \in DOMAIN frames'[x[1]] /\ frames'[x[1]][x[2]].serial # 0 =>
            x[2] \in DOMAIN frames[x[1]] /\ frames'[x[1]][x[2]] = Node(x)
    BY <2>1, Places DEF Node
  <2>3. UNCHANGED <<buf, count, had>>
    BY <1>6 DEF Call, threads
  <2> QED
    BY <2>2, <2>3, BuffersStay
<1>7. ASSUME NEW t \in Thread, SetJmp(t) PROVE Buffers'
  BY <1>7, SaveFills
<1>8. ASSUME NEW t \in Thread, Return(t) \/ Unwind(t) PROVE Buffers'
  <2>1. on[t] \in Stack /\ frames[on[t]] # <<>> /\ UNCHANGED <<buf, count, had>>
    BY <1>8 DEF Return, Unwind, TypeOK, threads
  <2>2. CASE Drop(t, on[t])
    <3>1. PICK a \in Addr : a = Top(on[t])
      BY <2>1, Stands
    <3>2. /\ \A x \in Addr : x[2] \in DOMAIN frames'[x[1]] <=> x[2] \in DOMAIN frames[x[1]] /\ x # a
          /\ \A x \in Addr : x[2] \in DOMAIN frames'[x[1]] =>
                 frames'[x[1]][x[2]] = IF Passes(t, a, x)
                                       THEN [Node(x) EXCEPT !.prev = Node(a).prev] ELSE Node(x)
      BY <2>1, <2>2, <3>1, Dropped
    <3>3. \A x \in Addr : x[2] \in DOMAIN frames'[x[1]] =>
              /\ x[2] \in DOMAIN frames[x[1]]
              /\ frames'[x[1]][x[2]].unit = Node(x).unit
              /\ frames'[x[1]][x[2]].serial = Node(x).serial
              /\ frames'[x[1]][x[2]].saved = Node(x).saved
      <4> SUFFICES ASSUME NEW x \in Addr, x[2] \in DOMAIN frames'[x[1]]
                   PROVE  /\ x[2] \in DOMAIN frames[x[1]]
                          /\ frames'[x[1]][x[2]].unit = Node(x).unit
                          /\ frames'[x[1]][x[2]].serial = Node(x).serial
                          /\ frames'[x[1]][x[2]].saved = Node(x).saved
        OBVIOUS
      <4>1. x[2] \in DOMAIN frames[x[1]] /\ Node(x) \in Frame
        BY <3>2, Stands
      <4> QED
        BY <3>2, <4>1 DEF Frame
    <3> QED
      BY <2>1, <3>3, BuffersStay
  <2>3. CASE UNCHANGED <<frames, head>>
    BY <1>1, <2>1, <2>3
  <2> QED
    BY <1>8, <2>2, <2>3 DEF Return, Unwind
<1> QED
  BY <1>2, <1>3, <1>4, <1>5, <1>6, <1>7, <1>8 DEF Next

(* A `longjmp` that is not refused goes to the activation whose `setjmp`   *)
(* filled its buffer in (`land` and the checks of `__cinrs_longjmp`,       *)
(* codegen.rs:3988-4040), never to another that has its address or its     *)
(* number.                                                                 *)
THEOREM JumpsAreMeant ==
  ASSUME ~Abandons, ~Reuses
  PROVE  Spec => JumpsToItsSetJmp
<1> DEFINE IInv == TypeOK /\ Owned /\ Registries /\ StacksAreKept /\ Buffers
           Jumps == \A t \in Thread, b \in Buf :
                LongJmp(t, b) /\ unwind'[t] # NoJump =>
                    LET a == unwind'[t].addr IN Standing(a) /\ b \in Node(a).saved
<1>1. Init => IInv
  <2>1. Init => StacksAreKept /\ Buffers
    BY DEF Init, StacksAreKept, Buffers
  <2> QED
    BY <2>1, InitTyped, InitRegisters
<1>2. IInv /\ [Next]_vars => IInv'
  BY StepTyped, StepOwned, StepRegisters, StepKeeps, StepBuffers
<1>3. IInv => Jumps
  <2> SUFFICES ASSUME IInv, NEW t \in Thread, NEW b \in Buf, LongJmp(t, b), unwind'[t] # NoJump
               PROVE  Standing(unwind'[t].addr) /\ b \in Node(unwind'[t].addr).saved
    OBVIOUS
  <2>1. refusal(t, b) = "no"
    BY DEF LongJmp, Running
  <2>2. buf[b].serial # 0 /\ is_live(t, buf[b].unit, buf[b].addr, buf[b].serial)
    BY <2>1 DEF refusal
  <2>3. unwind'[t].addr = buf[b].addr
    BY <2>1 DEF LongJmp, TypeOK
  <2>4. buf[b].unit \in Unit
    BY DEF TypeOK
  <2>5. buf[b].addr \in Live(t, buf[b].unit)
    BY <2>2, <2>4, LinkedIsLive DEF is_live, Registries
  <2>6. Node(buf[b].addr).unit = buf[b].unit /\ Standing(buf[b].addr)
    BY <2>5 DEF Live
  <2>7. Node(buf[b].addr).serial = buf[b].serial
    BY <2>2 DEF is_live
  <2>8. b \in Node(buf[b].addr).saved
    BY <2>2, <2>6, <2>7 DEF Buffers, Holds
  <2>9. Node(unwind'[t].addr) = Node(buf[b].addr)
    BY <2>3
  <2> QED
    BY <2>3, <2>6, <2>8, <2>9
<1>4. IInv /\ [Next]_vars => [Jumps]_vars
  BY <1>3
<1> QED
  BY <1>1, <1>2, <1>4, PTL DEF Spec, JumpsToItsSetJmp

-----------------------------------------------------------------------------
(* The unwinds.                                                            *)

(* An unwind that was walked first has its frame ahead of it on the stack, *)
(* and nothing before it that an unwind cannot leave.                      *)
Aimed(t) ==
    walks /\ unwind[t] # NoJump =>
        LET a == unwind[t].addr
        IN  /\ a \in Addr /\ a[1] = on[t] /\ Standing(a)
            /\ Node(a).kind = "sj" /\ Node(a).serial = unwind[t].serial
            /\ \A d \in DOMAIN frames[on[t]] : d > a[2] => frames[on[t]][d].kind # "blocked"
Aims == \A t \in Thread : Aimed(t)

(* What is safety in `JumpsLand`: only a lost unwind could not go on.      *)
WalkedJumpsArrive == walks => stop # "lost"

(* What another thread does is nothing to an unwind.                       *)
LEMMA AimStays ==
  ASSUME TypeOK, NEW t \in Thread, Aimed(t), on'[t] = on[t], unwind'[t] = unwind[t], walks' = walks,
         DOMAIN frames'[on[t]] = DOMAIN frames[on[t]],
         \A d \in DOMAIN frames[on[t]] :
             /\ frames'[on[t]][d].kind = frames[on[t]][d].kind
             /\ frames'[on[t]][d].serial = frames[on[t]][d].serial
  PROVE  Aimed(t)'
<1> SUFFICES ASSUME walks, unwind[t] # NoJump PROVE Aimed(t)'
  BY DEF Aimed
<1>1. PICK a \in Addr : a = unwind[t].addr
  BY DEF Aimed
<1>2. /\ a[1] = on[t] /\ Standing(a)
      /\ Node(a).kind = "sj" /\ Node(a).serial = unwind[t].serial
      /\ \A d \in DOMAIN frames[on[t]] : d > a[2] => frames[on[t]][d].kind # "blocked"
  BY <1>1 DEF Aimed
<1>3. a[2] \in DOMAIN frames[on[t]]
  BY <1>2, Stands
<1>4. Standing(a)'
  BY <1>2, <1>3, Places DEF Standing
<1>5. Node(a)'.kind = "sj" /\ Node(a)'.serial = unwind[t].serial
  BY <1>2, <1>3 DEF Node
<1>6. \A d \in DOMAIN frames'[on[t]] : d > a[2] => frames'[on[t]][d].kind # "blocked"
  BY <1>2
<1> QED
  BY <1>1, <1>2, <1>4, <1>5, <1>6 DEF Aimed

(* The same frames are on a stack, whatever they link to and hold.         *)
SameStack(s) ==
    /\ DOMAIN frames'[s] = DOMAIN frames[s]
    /\ \A d \in DOMAIN frames[s] : /\ frames'[s][d].kind = frames[s][d].kind
                                   /\ frames'[s][d].serial = frames[s][d].serial

LEMMA DropElsewhere ==
  ASSUME TypeOK, NEW t \in Thread, NEW s \in Stack, frames[s] # <<>>, Drop(t, s)
  PROVE  /\ \A r \in Stack \ {s} : SameStack(r)
         /\ DOMAIN frames'[s] = DOMAIN frames[s] \ {Len(frames[s])}
         /\ \A d \in DOMAIN frames'[s] : /\ frames'[s][d].kind = frames[s][d].kind
                                         /\ frames'[s][d].serial = frames[s][d].serial
<1>1. PICK a \in Addr : a = Top(s)
  BY Stands
<1>2. a[1] = s /\ a[2] = Len(frames[s]) /\ a = <<s, Len(frames[s])>>
  BY <1>1, Stands, Places
<1>3. /\ frames' \in Frames /\ \A r \in Stack : Len(frames'[r]) <= Len(frames[r])
      /\ \A x \in Addr : x[2] \in DOMAIN frames'[x[1]] <=> x[2] \in DOMAIN frames[x[1]] /\ x # a
      /\ \A x \in Addr : x[2] \in DOMAIN frames'[x[1]] =>
             frames'[x[1]][x[2]] = IF Passes(t, a, x)
                                   THEN [Node(x) EXCEPT !.prev = Node(a).prev] ELSE Node(x)
  BY <1>1, Dropped
<1>4. \A r \in Stack : DOMAIN frames[r] \subseteq 1 .. MaxDepth /\ DOMAIN frames'[r] \subseteq 1 .. MaxDepth
  <2> SUFFICES ASSUME NEW r \in Stack
               PROVE  DOMAIN frames[r] \subseteq 1 .. MaxDepth /\ DOMAIN frames'[r] \subseteq 1 .. MaxDepth
    OBVIOUS
  <2>1. /\ frames[r] \in Seq(Frame) /\ frames'[r] \in Seq(Frame)
        /\ Len(frames[r]) <= MaxDepth /\ Len(frames'[r]) <= Len(frames[r])
    BY <1>3 DEF TypeOK, Frames
  <2>2. /\ DOMAIN frames[r] = 1 .. Len(frames[r]) /\ DOMAIN frames'[r] = 1 .. Len(frames'[r])
        /\ Len(frames[r]) \in Nat /\ Len(frames'[r]) \in Nat
    BY <2>1, HasElements
  <2> QED
    BY <2>1, <2>2, JumpBounds
<1>5. ASSUME NEW r \in Stack, NEW d \in 1 .. MaxDepth
      PROVE  /\ d \in DOMAIN frames'[r] <=> d \in DOMAIN frames[r] /\ ~(r = s /\ d = Len(frames[s]))
             /\ d \in DOMAIN frames'[r] => /\ frames'[r][d].kind = frames[r][d].kind
                                           /\ frames'[r][d].serial = frames[r][d].serial
  <2>1. PICK x \in Addr : x = <<r, d>>
    BY Places
  <2>2. x[1] = r /\ x[2] = d /\ Node(x) = frames[r][d]
    BY <2>1 DEF Node
  <2>3. x = a <=> r = s /\ d = Len(frames[s])
    BY <1>2, <2>1
  <2>4. d \in DOMAIN frames'[r] <=> d \in DOMAIN frames[r] /\ x # a
    BY <1>3, <2>2
  <2>5. ASSUME d \in DOMAIN frames'[r]
        PROVE  frames'[r][d].kind = frames[r][d].kind /\ frames'[r][d].serial = frames[r][d].serial
    <3>1. Standing(x)
      BY <2>2, <2>4, <2>5, Stands
    <3>2. Node(x) \in Frame
      BY <3>1, Stands
    <3>3. frames'[r][d] = IF Passes(t, a, x) THEN [Node(x) EXCEPT !.prev = Node(a).prev] ELSE Node(x)
      BY <1>3, <2>2, <2>5
    <3> QED
      BY <2>2, <3>2, <3>3 DEF Frame
  <2> QED
    BY <2>3, <2>4, <2>5
<1>6. \A r \in Stack \ {s} : SameStack(r)
  BY <1>4, <1>5 DEF SameStack
<1>7. DOMAIN frames'[s] = DOMAIN frames[s] \ {Len(frames[s])}
  BY <1>4, <1>5
<1> QED
  BY <1>4, <1>5, <1>6, <1>7

(* A thread's step leaves the other threads' stacks as they are.           *)
LEMMA ElsewhereStays ==
  ASSUME TypeOK, Owned, NEW r \in Thread, NEW s \in Stack, owner[s] # {r}, owner[s] # {},
         \/ StartThread(r) \/ EndThread(r) \/ NewCoroutine(r) \/ Switch(r) \/ FreeCoroutine(r)
         \/ Call(r) \/ Return(r) \/ SetJmp(r) \/ Unwind(r) \/ Lost(r)
         \/ \E b \in Buf : LongJmp(r, b)
  PROVE  SameStack(s)
<1>1. CASE UNCHANGED frames
  BY <1>1 DEF SameStack
<1>2. thread[r] = "runs" => on[r] # s /\ on[r] \in Stack
  BY DEF Owned, TypeOK
<1>3. CASE FreeCoroutine(r)
  <2>1. frames'[s] = frames[s]
    BY <1>3 DEF FreeCoroutine, TypeOK, Frames
  <2> QED
    BY <2>1 DEF SameStack
<1>4. CASE Call(r)
  <2>1. frames'[s] = frames[s]
    BY <1>2, <1>4, Called DEF Call, Running
  <2> QED
    BY <2>1 DEF SameStack
<1>5. CASE (Return(r) \/ Unwind(r)) /\ Drop(r, on[r])
  <2>1. thread[r] = "runs" /\ frames[on[r]] # <<>>
    BY <1>5 DEF Return, Unwind, Running, Owned
  <2> QED
    BY <1>2, <1>5, <2>1, DropElsewhere
<1>6. CASE SetJmp(r)
  <2>1. thread[r] = "runs" /\ frames[on[r]] # <<>>
    BY <1>6 DEF SetJmp, Running
  <2>2. PICK a \in Addr : a = Top(on[r]) /\ a[1] # s
    BY <1>2, <2>1, Stands
  <2>3. PICK b \in Buf :
          /\ \A q \in Stack : DOMAIN frames'[q] = DOMAIN frames[q]
          /\ \A x \in Addr : x[2] \in DOMAIN frames[x[1]] =>
                 frames'[x[1]][x[2]] = IF x = a THEN Filled(r, b) ELSE [Node(x) EXCEPT !.saved = @ \ {b}]
    BY <1>6, <2>2, Saved
  <2>4. ASSUME NEW d \in DOMAIN frames[s]
        PROVE  frames'[s][d].kind = frames[s][d].kind /\ frames'[s][d].serial = frames[s][d].serial
    <3>1. /\ frames[s] \in Seq(Frame) /\ Len(frames[s]) <= MaxDepth /\ Len(frames[s]) \in Nat
          /\ DOMAIN frames[s] = 1 .. Len(frames[s])
      BY HasElements DEF TypeOK, Frames
    <3>2. d \in 1 .. MaxDepth
      BY <3>1, JumpBounds
    <3>3. PICK x \in Addr : x = <<s, d>>
      BY <3>2, Places
    <3>4. x[1] = s /\ x[2] = d /\ Node(x) = frames[s][d]
      BY <3>3 DEF Node
    <3>5. frames'[s][d] = [Node(x) EXCEPT !.saved = @ \ {b}]
      BY <2>2, <2>3, <3>4
    <3>6. Node(x) \in Frame
      BY <3>4, Stands
    <3> QED
      BY <3>4, <3>5, <3>6 DEF Frame
  <2> QED
    BY <2>3, <2>4 DEF SameStack
<1>7. \/ UNCHANGED frames \/ FreeCoroutine(r) \/ Call(r) \/ SetJmp(r)
      \/ (Return(r) \/ Unwind(r)) /\ Drop(r, on[r])
  BY DEF StartThread, EndThread, NewCoroutine, Switch, Lost, LongJmp, Return, Unwind
<1> QED
  BY <1>1, <1>3, <1>4, <1>5, <1>6, <1>7

(* `longjmp` checks that its frame is live, and walks to it.               *)
LEMMA JumpAims ==
  ASSUME TypeOK, Registries, NEW t \in Thread, NEW b \in Buf, LongJmp(t, b)
  PROVE  Aimed(t)'
<1> SUFFICES ASSUME walks, unwind'[t] # NoJump PROVE Aimed(t)'
  BY DEF Aimed, LongJmp, threads
<1>1. refusal(t, b) = "no" /\ UNCHANGED <<frames, on, walks>>
  BY DEF LongJmp, Running, threads
<1>2. /\ buf[b].serial # 0 /\ is_live(t, buf[b].unit, buf[b].addr, buf[b].serial)
      /\ reach(t, buf[b].addr) = "no"
  BY <1>1 DEF refusal
<1>3. unwind'[t].addr = buf[b].addr /\ unwind'[t].serial = buf[b].serial
  BY <1>1 DEF LongJmp, TypeOK
<1>4. buf[b].unit \in Unit
  BY DEF TypeOK
<1>5. buf[b].addr \in Live(t, buf[b].unit)
  BY <1>2, <1>4, LinkedIsLive DEF is_live, Registries
<1>6. PICK a \in Addr : a = buf[b].addr
  BY <1>5 DEF Live
<1>7. Standing(a) /\ Node(a).kind = "sj" /\ Node(a).serial = buf[b].serial
  BY <1>2, <1>5, <1>6 DEF Live, is_live
<1>8. Hard(t, a) = {} /\ a[1] = on[t]
  BY <1>2, <1>6 DEF reach
<1>9. \A d \in DOMAIN frames[on[t]] : d > a[2] => frames[on[t]][d].kind # "blocked"
  BY <1>8 DEF Hard
<1> QED
  BY <1>1, <1>3, <1>6, <1>7, <1>8, <1>9 DEF Aimed, Standing, Node

(* The frames of an unwind are dropped down to the one that is meant.      *)
LEMMA UnwindAims ==
  ASSUME TypeOK, TypeOK', Aims, NEW t \in Thread, Unwind(t)
  PROVE  Aimed(t)'
<1> SUFFICES ASSUME walks', unwind'[t] # NoJump PROVE Aimed(t)'
  BY DEF Aimed
<1>1. on[t] \in Stack /\ frames[on[t]] # <<>> /\ UNCHANGED <<on, walks>> /\ unwind[t] # NoJump
  BY DEF Unwind, threads, TypeOK
<1>2. unwind' # [unwind EXCEPT ![t] = NoJump]
  BY DEF TypeOK
<1>3. Drop(t, on[t]) /\ UNCHANGED unwind
  BY <1>2 DEF Unwind
<1>4. Aimed(t)
  BY DEF Aims
<1>5. PICK a \in Addr : a = unwind[t].addr
  BY <1>1, <1>4 DEF Aimed
<1>6. /\ a[1] = on[t] /\ Standing(a)
      /\ Node(a).kind = "sj" /\ Node(a).serial = unwind[t].serial
      /\ \A d \in DOMAIN frames[on[t]] : d > a[2] => frames[on[t]][d].kind # "blocked"
  BY <1>1, <1>4, <1>5 DEF Aimed
<1>7. a # Top(on[t])
  <2>1. unwind[t] \in [addr : Addr \cup {Null}, serial : Nat]
    BY DEF TypeOK
  <2>2. unwind[t] = [addr |-> a, serial |-> Node(a).serial]
    BY <1>5, <1>6, <2>1
  <2> QED
    BY <1>2, <1>6, <2>2 DEF Unwind
<1>8. Top(on[t])[1] = on[t] /\ Top(on[t])[2] = Len(frames[on[t]]) /\ Top(on[t]) \in Addr
  BY <1>1, Stands
<1>9. a[2] \in DOMAIN frames[on[t]] /\ a[2] # Len(frames[on[t]])
  BY <1>6, <1>7, <1>8, Stands, Places
<1>10. /\ DOMAIN frames'[on[t]] = DOMAIN frames[on[t]] \ {Len(frames[on[t]])}
       /\ \A d \in DOMAIN frames'[on[t]] : /\ frames'[on[t]][d].kind = frames[on[t]][d].kind
                                           /\ frames'[on[t]][d].serial = frames[on[t]][d].serial
  BY <1>1, <1>3, DropElsewhere
<1>11. a[2] \in DOMAIN frames'[on[t]]
  BY <1>9, <1>10
<1>12. Standing(a)'
  BY <1>1, <1>6, <1>11, Places DEF Standing
<1>13. Node(a)'.kind = "sj" /\ Node(a)'.serial = unwind[t].serial
  BY <1>6, <1>10, <1>11 DEF Node
<1>14. \A d \in DOMAIN frames'[on[t]] : d > a[2] => frames'[on[t]][d].kind # "blocked"
  BY <1>6, <1>10
<1> QED
  BY <1>1, <1>3, <1>5, <1>6, <1>12, <1>13, <1>14 DEF Aimed

LEMMA StepAims ==
  TypeOK /\ TypeOK' /\ Owned /\ Registries /\ Aims /\ [Next]_vars => Aims'
<1> SUFFICES ASSUME TypeOK, TypeOK', Owned, Registries, Aims, [Next]_vars,
                    NEW t \in Thread
             PROVE  Aimed(t)'
  BY DEF Aims
<1>1. Aimed(t)
  BY DEF Aims
<1>2. CASE UNCHANGED vars
  <2>1. UNCHANGED <<on, unwind, walks, frames>>
    BY <1>2 DEF vars
  <2> QED
    BY <1>1, <2>1, AimStays
<1>3. ASSUME NEW r \in Thread,
             \/ StartThread(r) \/ EndThread(r) \/ NewCoroutine(r) \/ Switch(r) \/ FreeCoroutine(r)
             \/ Call(r) \/ Return(r) \/ SetJmp(r) \/ Unwind(r) \/ Lost(r)
             \/ \E b \in Buf : LongJmp(r, b)
      PROVE  Aimed(t)'
  <2>1. CASE r # t /\ unwind[t] = NoJump
    <3>1. unwind'[t] = unwind[t]
      BY <1>3, <2>1 DEF StartThread, EndThread, NewCoroutine, Switch, FreeCoroutine, Call, Return,
                        SetJmp, Unwind, Lost, LongJmp, TypeOK
    <3> QED
      BY <2>1, <3>1 DEF Aimed
  <2>2. CASE r # t /\ unwind[t] # NoJump
    <3>1. owner[on[t]] = {t} /\ on[t] \in Stack
      BY <2>2 DEF Owned, TypeOK
    <3>2. SameStack(on[t])
      BY <1>3, <2>2, <3>1, ElsewhereStays
    <3>3. unwind'[t] = unwind[t]
      BY <1>3, <2>2 DEF StartThread, EndThread, NewCoroutine, Switch, FreeCoroutine, Call, Return,
                        SetJmp, Unwind, Lost, LongJmp, TypeOK
    <3>4. on'[t] = on[t] /\ walks' = walks
      BY <1>3, <2>2 DEF StartThread, EndThread, NewCoroutine, Switch, FreeCoroutine, Call, Return,
                        SetJmp, Unwind, Lost, LongJmp, Take, threads, TypeOK
    <3> QED
      BY <1>1, <3>2, <3>3, <3>4, AimStays DEF SameStack
  <2>3. CASE r = t /\ Unwind(t)
    BY <2>3, UnwindAims
  <2>4. CASE r = t /\ \E b \in Buf : LongJmp(t, b)
    BY <2>4, JumpAims
  <2>5. CASE r = t /\ Lost(t)
    <3>1. UNCHANGED <<on, unwind, walks, frames>>
      BY <2>5 DEF Lost, threads
    <3> QED
      BY <1>1, <3>1, AimStays
  <2>6. CASE r = t /\ ~Unwind(t) /\ ~Lost(t) /\ ~\E b \in Buf : LongJmp(t, b)
    <3>1. unwind' = unwind
      BY <1>3, <2>6 DEF StartThread, EndThread, NewCoroutine, Switch, FreeCoroutine, Call, Return, SetJmp
    <3>2. Running(t) \/ thread[t] = "new"
      BY <1>3, <2>6 DEF StartThread, EndThread, NewCoroutine, Switch, FreeCoroutine, Call, Return, SetJmp
    <3>3. unwind[t] = NoJump
      BY <3>2 DEF Running, Owned
    <3> QED
      BY <3>1, <3>3 DEF Aimed
  <2> QED
    BY <1>3, <2>1, <2>2, <2>3, <2>4, <2>5, <2>6
<1> QED
  BY <1>2, <1>3 DEF Next

(* In a build that walks the stack before it jumps (`__cinrs_reach`,       *)
(* codegen.rs:3960-3987), no unwind comes to a frame it cannot leave or to *)
(* the end of its stack, whatever the other threads do meanwhile.          *)
THEOREM WalkedJumpsAreNotLost ==
  ASSUME ~Abandons
  PROVE  Spec => []WalkedJumpsArrive
<1> DEFINE IInv == TypeOK /\ Owned /\ Registries /\ Aims /\ WalkedJumpsArrive
<1>1. Init => IInv
  <2>1. Init => Aims /\ WalkedJumpsArrive
    BY DEF Init, Aims, Aimed, WalkedJumpsArrive
  <2> QED
    BY <2>1, InitTyped, InitRegisters
<1>2. IInv /\ [Next]_vars => WalkedJumpsArrive'
  <2> SUFFICES ASSUME IInv, [Next]_vars PROVE WalkedJumpsArrive'
    OBVIOUS
  <2>1. ASSUME NEW t \in Thread, walks PROVE ~Lost(t)
    <3> SUFFICES ASSUME Lost(t) PROVE FALSE
      OBVIOUS
    <3>1. unwind[t] # NoJump /\ Aimed(t) /\ on[t] \in Stack
      BY DEF Lost, Aims, TypeOK
    <3>2. PICK a \in Addr :
            /\ a[1] = on[t] /\ Standing(a) /\ Node(a).kind = "sj"
            /\ \A d \in DOMAIN frames[on[t]] : d > a[2] => frames[on[t]][d].kind # "blocked"
      BY <2>1, <3>1 DEF Aimed
    <3>3. /\ a[2] \in DOMAIN frames[on[t]] /\ frames[on[t]] \in Seq(Frame)
          /\ Node(a) = frames[on[t]][a[2]]
      BY <3>1, <3>2, Stands DEF TypeOK, Frames, Node
    <3>4. /\ frames[on[t]] # <<>> /\ Len(frames[on[t]]) \in DOMAIN frames[on[t]]
          /\ a[2] <= Len(frames[on[t]]) /\ a[2] \in Nat /\ Len(frames[on[t]]) \in Nat
      BY <3>3, HasElements
    <3>5. frames[on[t]][Len(frames[on[t]])].kind # "blocked"
      BY <3>2, <3>3, <3>4
    <3> QED
      BY <3>4, <3>5 DEF Lost, Top, Node
  <2>2. walks' = walks
    BY DEF Next, vars, threads, StartThread, EndThread, NewCoroutine, Switch, FreeCoroutine, Call,
           Return, SetJmp, Unwind, Lost, LongJmp
  <2>3. ASSUME NEW t \in Thread, NEW b \in Buf PROVE refusal(t, b) # "lost"
    BY DEF refusal, reach
  <2>4. walks => stop' = stop \/ stop' # "lost"
    BY <2>1, <2>3 DEF Next, vars, StartThread, EndThread, NewCoroutine, Switch, FreeCoroutine, Call,
                      Return, SetJmp, Unwind, LongJmp
  <2> QED
    BY <2>2, <2>4 DEF WalkedJumpsArrive
<1>3. IInv /\ [Next]_vars => IInv'
  BY <1>2, StepTyped, StepOwned, StepRegisters, StepAims
<1> QED
  BY <1>1, <1>3, PTL DEF Spec
=============================================================================
