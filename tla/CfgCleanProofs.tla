--------------------------- MODULE CfgCleanProofs ---------------------------
(***************************************************************************)
(* That the clean-up passes of cfg.rs keep the program, and number what    *)
(* they leave as the relooper expects, for any graph of any number of      *)
(* blocks.                                                                 *)
(*                                                                         *)
(* What happens first when control comes to a block is where it settles:   *)
(* the end of the way it takes along empty jumps, if there is one.  Of N   *)
(* blocks, N jumps pass one twice, so that `Along` has taken the whole way.*)
(*   - `thread_jumps` moves targets along their ways: all settle as before.*)
(*   - `merge_chains` keeps a set L of blocks in use, closed under the     *)
(*     edges, in which a block with a count of one has one way in.  Only   *)
(*     the edge that is taken away came to the block that is taken in, and *)
(*     what is first there is what is next in the chain.                   *)
(*   - `renumber` walks a tree: the stack is a path of it, and the order   *)
(*     holds what is done, the last first.  A block comes after what is    *)
(*     above it, its targets after it unless they are above it, and between*)
(*     a block and one above it are only blocks below that one.  In the    *)
(*     end the numbers map the new graph to the old one edge by edge.      *)
(***************************************************************************)
EXTENDS CfgClean, FiniteSetTheorems, SequenceTheorems, NaturalsInduction, TLAPS

-----------------------------------------------------------------------------
LEMMA Least ==
    ASSUME NEW S \in SUBSET Nat, S # {}
    PROVE  \E n \in S : \A m \in S : n <= m
<1>1. \A i, j \in Nat : i < j => <<i, j>> \in OpToRel(<, Nat)
  BY DEF OpToRel
<1>2. \E n \in S : \A m \in S : ~(<<m, n>> \in OpToRel(<, Nat))
  BY NatLessThanWellFounded, WFMin
<1>3. PICK n \in S : \A m \in S : ~(<<m, n>> \in OpToRel(<, Nat))
  BY <1>2
<1>4. \A m \in S : ~(m < n)
  BY <1>1, <1>3
<1> QED
  BY <1>4

-----------------------------------------------------------------------------
(* Graphs.                                                                 *)

(* A graph on the blocks of B: what every pass leaves.                     *)
GraphOn(B, g) ==
    /\ B \in SUBSET Nat /\ IsFiniteSet(B) /\ Cardinality(B) <= N
    /\ DOMAIN g = B
    /\ \A b \in B :
           /\ g[b].jump \in BOOLEAN
           /\ g[b].to \in Seq(B)
           /\ g[b].jump => Len(g[b].to) = 1

LEMMA OnwardType ==
    ASSUME NEW B, NEW g, GraphOn(B, g), NEW b \in B
    PROVE  Onward(g, b) \in B
BY DEF GraphOn, Onward, Skips

(* A walk of any length can be written down.                               *)
Walk(g, b, n, f) == f[0] = b /\ \A i \in 1 .. n : f[i] = Onward(g, f[i - 1])

LEMMA WalkExists ==
    ASSUME NEW B, NEW g, GraphOn(B, g), NEW b \in B, NEW n \in Nat
    PROVE  \E f \in [0 .. n -> B] : Walk(g, b, n, f)
<1> DEFINE Short == {k \in Nat : ~ \E f \in [0 .. k -> B] : Walk(g, b, k, f)}
<1> SUFFICES ASSUME Short # {} PROVE FALSE
  OBVIOUS
<1>1. PICK k \in Short : \A m \in Short : k <= m
  BY Least
<1>2. k # 0
  <2>1. [i \in 0 .. 0 |-> b] \in [0 .. 0 -> B] /\ Walk(g, b, 0, [i \in 0 .. 0 |-> b])
    BY DEF Walk
  <2> QED
    BY <2>1
<1>3. k - 1 \in Nat /\ k - 1 \notin Short
  BY <1>1, <1>2
<1>4. PICK f \in [0 .. k - 1 -> B] : Walk(g, b, k - 1, f)
  BY <1>3
<1> DEFINE h == [i \in 0 .. k |-> IF i = k THEN Onward(g, f[k - 1]) ELSE f[i]]
<1>5. h \in [0 .. k -> B]
  <2>1. Onward(g, f[k - 1]) \in B
    BY <1>3, <1>4, OnwardType
  <2> QED
    BY <1>3, <2>1
<1>6. Walk(g, b, k, h)
  <2>1. h[0] = b
    BY <1>2, <1>3, <1>4 DEF Walk
  <2>2. ASSUME NEW i \in 1 .. k PROVE h[i] = Onward(g, h[i - 1])
    <3>1. h[i - 1] = f[i - 1]
      BY <1>3
    <3>2. CASE i = k
      BY <3>1, <3>2, <1>3
    <3>3. CASE i # k
      <4>1. i \in 1 .. k - 1 /\ h[i] = f[i]
        BY <3>3, <1>3
      <4> QED
        BY <4>1, <3>1, <1>4 DEF Walk
    <3> QED
      BY <3>2, <3>3
  <2> QED
    BY <2>1, <2>2 DEF Walk
<1> QED
  BY <1>5, <1>6

LEMMA AlongIs ==
    ASSUME NEW B, NEW g, GraphOn(B, g), NEW b \in B
    PROVE  Along(g, b) \in [0 .. N -> B] /\ Walk(g, b, N, Along(g, b))
<1>1. PICK f \in [0 .. N -> B] : Walk(g, b, N, f)
  BY WalkExists, BlocksAssumption
<1> DEFINE Is(at) == at = [n \in 0 .. N |-> IF n = 0 THEN b ELSE Onward(g, at[n - 1])]
<1>2. Is(f)
  BY <1>1, BlocksAssumption DEF Walk
<1>3. Along(g, b) = CHOOSE at : Is(at)
  BY DEF Along
<1>4. Is(Along(g, b))
  BY <1>2, <1>3
<1> DEFINE a == Along(g, b)
<1>5. DOMAIN a = 0 .. N /\ Walk(g, b, N, a)
  BY <1>4, BlocksAssumption DEF Walk
<1>6. \A n \in 0 .. N : a[n] \in B
  <2> DEFINE Out == {n \in 0 .. N : a[n] \notin B}
  <2> SUFFICES ASSUME Out # {} PROVE FALSE
    OBVIOUS
  <2>1. Out \in SUBSET Nat
    BY BlocksAssumption
  <2>2. PICK n \in Out : \A m \in Out : n <= m
    BY <2>1, Least
  <2>3. n # 0 /\ n - 1 \in 0 .. N /\ n - 1 \notin Out
    BY <2>2, <1>5, BlocksAssumption DEF Walk
  <2>4. a[n] = Onward(g, a[n - 1]) /\ a[n - 1] \in B
    BY <2>2, <2>3, <1>5, BlocksAssumption DEF Walk
  <2> QED
    BY <2>2, <2>4, OnwardType
<1>7. a = [n \in 0 .. N |-> a[n]]
  BY <1>4, <1>5
<1> QED
  BY <1>5, <1>6, <1>7

(* The blocks a walk passes: the least set with b that no empty jump       *)
(* leaves.                                                                 *)
Way(g, b) == {Along(g, b)[n] : n \in 0 .. N}
Shut(g, S) == \A x \in S : Onward(g, x) \in S

LEMMA WayLeast ==
    ASSUME NEW B, NEW g, GraphOn(B, g), NEW b \in B, NEW S, Shut(g, S), b \in S
    PROVE  Way(g, b) \subseteq S
<1> DEFINE a == Along(g, b)
<1>1. a \in [0 .. N -> B] /\ Walk(g, b, N, a)
  BY AlongIs
<1> DEFINE Out == {n \in 0 .. N : a[n] \notin S}
<1> SUFFICES ASSUME Out # {} PROVE FALSE
  BY DEF Way
<1>2. Out \in SUBSET Nat
  BY BlocksAssumption
<1> HIDE DEF a
<1>3. PICK n \in Out : \A m \in Out : n <= m
  BY <1>2, Least
<1>4. n # 0 /\ n - 1 \in 0 .. N /\ n - 1 \notin Out
  BY <1>1, <1>3, BlocksAssumption DEF Walk
<1>5. a[n] = Onward(g, a[n - 1]) /\ a[n - 1] \in S
  BY <1>1, <1>3, <1>4, BlocksAssumption DEF Walk
<1> QED
  BY <1>3, <1>5 DEF Shut

(* There are N blocks, and N jumps pass one twice.                         *)
LEMMA WayShut ==
    ASSUME NEW B, NEW g, GraphOn(B, g), NEW b \in B
    PROVE  Way(g, b) \subseteq B /\ b \in Way(g, b) /\ Shut(g, Way(g, b))
<1> DEFINE a == Along(g, b)
<1>1. a \in [0 .. N -> B] /\ Walk(g, b, N, a) /\ N \in Nat
  BY AlongIs, BlocksAssumption
<1>2. Way(g, b) = {a[n] : n \in 0 .. N}
  BY DEF Way
<1> HIDE DEF a
<1>3. \E i, j \in 0 .. N : i # j /\ a[i] = a[j]
  <2>1. IsFiniteSet(0 .. N) /\ Cardinality(0 .. N) = N + 1
    BY <1>1, FS_Interval
  <2>2. IsFiniteSet(B) /\ Cardinality(B) \in Nat /\ Cardinality(B) < N + 1
    BY <1>1, FS_CardinalityType DEF GraphOn
  <2> QED
    BY <1>1, <2>1, <2>2, FS_PigeonHole
<1>4. PICK i \in 0 .. N, j \in 0 .. N : i < j /\ a[i] = a[j]
  BY <1>1, <1>3
<1> DEFINE S == {a[m] : m \in 0 .. j - 1}
<1>5. Shut(g, S)
  <2> SUFFICES ASSUME NEW m \in 0 .. j - 1 PROVE Onward(g, a[m]) \in S
    BY DEF Shut
  <2>1. m + 1 \in 1 .. N /\ Onward(g, a[m]) = a[m + 1]
    BY <1>1, <1>4 DEF Walk
  <2>2. CASE m = j - 1
    BY <1>4, <2>1, <2>2
  <2>3. CASE m # j - 1
    BY <1>4, <2>1, <2>3
  <2> QED
    BY <2>2, <2>3
<1>6. b \in S /\ S \subseteq Way(g, b)
  BY <1>1, <1>2, <1>4 DEF Walk
<1>7. Way(g, b) = S
  BY <1>5, <1>6, WayLeast
<1> QED
  BY <1>1, <1>2, <1>5, <1>6, <1>7

LEMMA WayOn ==
    ASSUME NEW B, NEW g, GraphOn(B, g), NEW b \in B, NEW x \in Way(g, b)
    PROVE  x \in B /\ Way(g, x) \subseteq Way(g, b)
BY WayShut, WayLeast

(* Where it ends, if it does.                                              *)
LEMMA SettlesAt ==
    ASSUME NEW B, NEW g, GraphOn(B, g), NEW b \in B, NEW c \in Way(g, b), ~Skips(g, c)
    PROVE  Settles(g, b) = c
<1> DEFINE a == Along(g, b)
<1>1. a \in [0 .. N -> B] /\ Walk(g, b, N, a) /\ N \in Nat
  BY AlongIs, BlocksAssumption
<1>2. Settles(g, b) = IF Skips(g, a[N]) THEN NoBlock ELSE a[N]
  BY DEF Settles
<1>3. PICK k \in 0 .. N : a[k] = c
  BY DEF Way
<1> HIDE DEF a
<1> DEFINE Off == {n \in k .. N : a[n] # c}
<1>4. CASE Off = {}
  BY <1>1, <1>2, <1>3, <1>4
<1>5. CASE Off # {}
  <2>1. Off \in SUBSET Nat
    BY <1>1
  <2>2. PICK n \in Off : \A m \in Off : n <= m
    BY <1>5, <2>1, Least
  <2>3. n # k /\ n - 1 \in k .. N /\ n - 1 \notin Off /\ n \in 1 .. N
    BY <1>1, <1>3, <2>2
  <2>4. a[n] = Onward(g, c)
    BY <1>1, <2>3 DEF Walk
  <2> QED
    BY <2>2, <2>4 DEF Onward
<1> QED
  BY <1>4, <1>5

LEMMA SettlesNowhere ==
    ASSUME NEW B, NEW g, GraphOn(B, g), NEW b \in B, \A c \in Way(g, b) : Skips(g, c)
    PROVE  Settles(g, b) = NoBlock
BY BlocksAssumption DEF Settles, Way

LEMMA SettlesOnward ==
    ASSUME NEW B, NEW g, GraphOn(B, g), NEW b \in B
    PROVE  Settles(g, b) = Settles(g, Onward(g, b))
<1> DEFINE d == Onward(g, b)
<1>1. d \in B /\ d \in Way(g, b) /\ Way(g, d) \subseteq Way(g, b)
  BY OnwardType, WayShut, WayOn DEF Shut
<1>2. Way(g, b) \subseteq {b} \cup Way(g, d)
  <2>1. Shut(g, {b} \cup Way(g, d))
    BY <1>1, WayShut DEF Shut
  <2> QED
    BY <2>1, WayLeast
<1> HIDE DEF d
<1>3. CASE \E c \in Way(g, d) : ~Skips(g, c)
  BY <1>1, <1>3, SettlesAt DEF d
<1>4. CASE \A c \in Way(g, d) : Skips(g, c)
  <2>1. CASE Skips(g, b)
    BY <1>1, <1>2, <1>4, <2>1, SettlesNowhere DEF d
  <2>2. CASE ~Skips(g, b)
    BY <2>2, <1>1, <1>4, WayShut DEF Onward, d
  <2> QED
    BY <2>1, <2>2
<1> QED
  BY <1>3, <1>4 DEF d

LEMMA SettlesHere ==
    ASSUME NEW B, NEW g, GraphOn(B, g), NEW b \in B, ~Skips(g, b)
    PROVE  Settles(g, b) = b
BY WayShut, SettlesAt

LEMMA SettlesCases ==
    ASSUME NEW B, NEW g, GraphOn(B, g), NEW b \in B
    PROVE  \/ Settles(g, b) \in Way(g, b) /\ ~Skips(g, Settles(g, b))
           \/ Settles(g, b) = NoBlock /\ \A c \in Way(g, b) : Skips(g, c)
BY SettlesAt, SettlesNowhere

-----------------------------------------------------------------------------
(* `thread_jumps`.                                                         *)

LEMMA ResolveStops ==
    ASSUME NEW b \in Ids, GraphOn(Ids, blocks)
    PROVE  /\ Resolve(b) \in Way(blocks, b)
           /\ Settles(blocks, b) # NoBlock => Resolve(b) = Settles(blocks, b)
<1> DEFINE a == Along(blocks, b)
           Way1 == Way(blocks, b)
<1>1. a \in [0 .. N -> Ids] /\ Walk(blocks, b, N, a) /\ N \in Nat
  BY AlongIs, BlocksAssumption
<1>2. Way1 = {a[n] : n \in 0 .. N}
  BY DEF Way
<1> DEFINE Stop(n) == Stops(blocks, a, n)
           Halts == {n \in 0 .. N : Stop(n)}
<1>3. Resolve(b) = a[CHOOSE n \in 0 .. N : Stop(n) /\ \A m \in 0 .. n - 1 : ~Stop(m)]
  BY DEF Resolve
<1> HIDE DEF a
<1>4. Halts # {}
  <2>1. IsFiniteSet(0 .. N) /\ Cardinality(0 .. N) = N + 1
    BY <1>1, FS_Interval
  <2>2. IsFiniteSet(Ids) /\ Cardinality(Ids) \in Nat /\ Cardinality(Ids) < N + 1
    BY <1>1, FS_CardinalityType DEF GraphOn
  <2>3. \E i, j \in 0 .. N : i # j /\ a[i] = a[j]
    BY <1>1, <2>1, <2>2, FS_PigeonHole
  <2>4. PICK i \in 0 .. N, j \in 0 .. N : i < j /\ a[i] = a[j]
    BY <1>1, <2>3
  <2>5. Stop(j)
    BY <1>1, <2>4 DEF Stops
  <2> QED
    BY <2>5
<1>5. PICK n \in Halts : \A m \in Halts : n <= m
  <2>1. Halts \in SUBSET Nat
    BY <1>1
  <2> HIDE DEF Halts
  <2> QED
    BY <1>4, <2>1, Least
<1>6. n \in 0 .. N /\ Stop(n) /\ \A m \in 0 .. n - 1 : ~Stop(m)
  BY <1>1, <1>5
<1> DEFINE Picked(k) == k \in 0 .. N /\ Stop(k) /\ \A m \in 0 .. k - 1 : ~Stop(m)
<1>7. PICK k : Picked(k) /\ Resolve(b) = a[k]
  BY <1>3, <1>6
<1>8. Resolve(b) \in Way1
  BY <1>2, <1>7
<1>9. ASSUME Settles(blocks, b) # NoBlock PROVE Resolve(b) = Settles(blocks, b)
  <2>1. CASE ~Skips(blocks, a[k])
    BY <1>7, <1>8, <2>1, SettlesAt
  <2>2. CASE Skips(blocks, a[k])
    <3> DEFINE S == {a[m] : m \in 0 .. k - 1}
    <3>1. k \in 0 .. N /\ \A m \in 0 .. k - 1 : Skips(blocks, a[m])
      BY <1>1, <1>7 DEF Stops
    <3>2. PICK j \in 0 .. k - 1 : a[j] = a[k]
      BY <1>1, <1>7, <2>2 DEF Stops
    <3>3. Shut(blocks, S)
      <4> SUFFICES ASSUME NEW m \in 0 .. k - 1 PROVE Onward(blocks, a[m]) \in S
        BY DEF Shut
      <4>1. m + 1 \in 1 .. N /\ Onward(blocks, a[m]) = a[m + 1]
        BY <1>1, <3>1 DEF Walk
      <4>2. CASE m = k - 1
        BY <3>1, <3>2, <4>1, <4>2
      <4>3. CASE m # k - 1
        BY <3>1, <4>1, <4>3
      <4> QED
        BY <4>2, <4>3
    <3>4. b \in S
      BY <1>1, <3>1, <3>2 DEF Walk
    <3>5. Way1 \subseteq S
      BY <3>3, <3>4, WayLeast
    <3> QED
      BY <1>9, <3>1, <3>5, SettlesNowhere
  <2> QED
    BY <2>1, <2>2
<1> QED
  BY <1>8, <1>9

(* Threading re-points every edge at what control comes to through it, so  *)
(* no block settles elsewhere.                                             *)
LEMMA ThreadingSettles ==
    ASSUME NEW B, NEW g, NEW h, GraphOn(B, g), GraphOn(B, h),
           NEW r, \A x \in B : r[x] \in Way(g, x),
           \A x \in B : Settles(g, x) # NoBlock => r[x] = Settles(g, x),
           \A x \in B : Skips(h, x) <=> Skips(g, x),
           \A x \in B : Skips(g, x) => h[x].to[1] = r[g[x].to[1]],
           NEW b \in B
    PROVE  Settles(h, b) = Settles(g, b)
<1>0. \A x \in B : Skips(g, x) => g[x].to[1] = Onward(g, x) /\ h[x].to[1] = Onward(h, x)
  BY DEF Onward
<1>1. CASE \A c \in Way(g, b) : Skips(g, c)
  <2>1. Shut(h, Way(g, b))
    <3> SUFFICES ASSUME NEW x \in Way(g, b) PROVE Onward(h, x) \in Way(g, b)
      BY DEF Shut
    <3>1. x \in B /\ Skips(g, x) /\ Onward(g, x) \in Way(g, b)
      BY <1>1, WayShut DEF Shut
    <3>2. Onward(h, x) = r[Onward(g, x)] /\ Onward(g, x) \in B
      BY <1>0, <3>1, OnwardType
    <3>3. Onward(h, x) \in Way(g, Onward(g, x))
      BY <3>2
    <3> QED
      BY <3>1, <3>3, WayOn
  <2>2. Way(h, b) \subseteq Way(g, b)
    BY <2>1, WayShut, WayLeast
  <2>3. \A c \in Way(h, b) : Skips(h, c)
    BY <1>1, <2>2, WayShut
  <2> QED
    BY <1>1, <2>3, SettlesNowhere
<1>2. CASE ~Skips(g, b)
  BY <1>2, SettlesHere
<1>3. CASE Skips(g, b) /\ Settles(g, b) # NoBlock
  <2> DEFINE d == Onward(g, b)
  <2>1. d \in B /\ Settles(g, d) = Settles(g, b)
    BY OnwardType, SettlesOnward
  <2>2. Onward(h, b) = r[d]
    BY <1>0, <1>3
  <2> HIDE DEF d
  <2>3. r[d] = Settles(g, b) /\ r[d] \in B /\ ~Skips(g, r[d])
    BY <1>3, <2>1, SettlesCases, WayShut
  <2>4. Settles(h, r[d]) = r[d]
    BY <2>3, SettlesHere
  <2> QED
    BY <2>2, <2>3, <2>4, SettlesOnward
<1>4. NoBlock \notin B /\ \A x \in Way(g, b) : x \in B
  <2>1. NoBlock \notin B
    BY DEF GraphOn, NoBlock
  <2> QED
    BY <2>1, WayShut
<1>5. Settles(g, b) = NoBlock => \A c \in Way(g, b) : Skips(g, c)
  <2>1. \/ Settles(g, b) \in Way(g, b) /\ ~Skips(g, Settles(g, b))
        \/ Settles(g, b) = NoBlock /\ \A c \in Way(g, b) : Skips(g, c)
    BY SettlesCases
  <2> QED
    BY <1>4, <2>1
<1>6. CASE Skips(g, b) /\ Settles(g, b) = NoBlock
  BY <1>1, <1>5, <1>6
<1> QED
  BY <1>2, <1>3, <1>6

-----------------------------------------------------------------------------
(* `merge_chains`.                                                         *)

LEMMA FirstAt ==
    ASSUME NEW B, NEW g, GraphOn(B, g), NEW b \in B, NEW c \in Way(g, b), ~Skips(g, c)
    PROVE  First(g, b) = IF g[c].stmts # <<>> THEN Head(g[c].stmts) ELSE g[c].who
<1>1. Settles(g, b) = c /\ c \in B
  BY SettlesAt, WayShut
<1>2. c # NoBlock
  BY <1>1 DEF GraphOn, NoBlock
<1> QED
  BY <1>1, <1>2 DEF First

LEMMA FirstNowhere ==
    ASSUME NEW B, NEW g, GraphOn(B, g), NEW b \in B, \A c \in Way(g, b) : Skips(g, c)
    PROVE  First(g, b) = NoBlock
BY SettlesNowhere DEF First

LEMMA Chained ==
    ASSUME NEW V, NEW s \in Seq(V), NEW r \in Seq(V)
    PROVE  /\ s \o r = <<>> <=> s = <<>> /\ r = <<>>
           /\ s = <<>> => s \o r = r
           /\ s # <<>> => Head(s \o r) = Head(s)
<1>1. s \o r \in Seq(V) /\ Len(s \o r) = Len(s) + Len(r)
  OBVIOUS
<1>2. s = <<>> => s \o r = r
  OBVIOUS
<1>3. s # <<>> => s \o r # <<>> /\ Head(s \o r) = Head(s)
  BY <1>1
<1> QED
  BY <1>2, <1>3

(* The block b takes t in, which no other block of L leads to.             *)
Merged(g, h, b, t) ==
    /\ h[b].stmts = g[b].stmts \o g[t].stmts
    /\ h[b].jump = g[t].jump /\ h[b].who = g[t].who /\ h[b].to = g[t].to
OnlyInto(g, L, b, t) == \A u \in L : \A k \in DOMAIN g[u].to : g[u].to[k] = t => u = b

LEMMA JumpLeads ==
    ASSUME NEW B, NEW g, GraphOn(B, g), NEW y \in B, g[y].jump
    PROVE  1 \in DOMAIN g[y].to /\ DOMAIN g[y].to = {1}
<1>1. g[y].to \in Seq(B) /\ Len(g[y].to) = 1
  BY DEF GraphOn
<1> QED
  BY <1>1

LEMMA MergingOnward ==
    ASSUME NEW B, NEW g, NEW h, GraphOn(B, g), GraphOn(B, h),
           NEW L \in SUBSET B, Closed(g, L), NEW b \in L, NEW t \in L, b # t,
           g[b].jump, g[b].to[1] = t, OnlyInto(g, L, b, t),
           \A x \in L : x # b /\ x # t => h[x] = g[x],
           g[b].stmts \in Seq(B), g[t].stmts \in Seq(B), Merged(g, h, b, t)
    PROVE  /\ \A y \in L : Onward(g, y) \in L
           /\ \A y \in L \ {b, t} : /\ Skips(h, y) <=> Skips(g, y)
                                    /\ Onward(h, y) = Onward(g, y)
                                    /\ Onward(g, y) # t
           /\ Skips(h, b) <=> Skips(g, b) /\ Skips(g, t)
           /\ Skips(g, b) <=> g[b].stmts = <<>>
           /\ Onward(g, b) = IF Skips(g, b) THEN t ELSE b
           /\ Onward(h, b) = IF Skips(h, b) THEN Onward(g, t) ELSE b
           /\ Skips(g, t) => Onward(g, t) # t
<1>1. \A y \in L : Skips(g, y) => 1 \in DOMAIN g[y].to
  BY JumpLeads DEF Skips
<1>2. \A y \in L : Onward(g, y) \in L
  BY <1>1 DEF Closed, Onward
<1>3. ASSUME NEW y \in L \ {b, t}
      PROVE  /\ Skips(h, y) <=> Skips(g, y)
             /\ Onward(h, y) = Onward(g, y)
             /\ Onward(g, y) # t
  BY <1>1 DEF Onward, Skips, OnlyInto
<1>4. g[b].stmts \o g[t].stmts = <<>> <=> g[b].stmts = <<>> /\ g[t].stmts = <<>>
  BY Chained
<1>5. Skips(h, b) <=> Skips(g, b) /\ Skips(g, t)
  BY <1>4 DEF Skips, Merged
<1>6. Skips(g, b) <=> g[b].stmts = <<>>
  BY DEF Skips
<1>7. Onward(g, b) = IF Skips(g, b) THEN t ELSE b
  BY DEF Onward
<1>8. Onward(h, b) = IF Skips(h, b) THEN Onward(g, t) ELSE b
  BY <1>5 DEF Onward, Merged
<1>9. Skips(g, t) => Onward(g, t) # t
  BY <1>1 DEF Onward, OnlyInto
<1> QED
  BY <1>2, <1>3, <1>5, <1>6, <1>7, <1>8, <1>9

LEMMA MergingKeepsFirst ==
    ASSUME NEW B, NEW g, NEW h, GraphOn(B, g), GraphOn(B, h),
           NEW L \in SUBSET B, Closed(g, L), NEW b \in L, NEW t \in L, b # t,
           g[b].jump, g[b].to[1] = t, OnlyInto(g, L, b, t),
           \A x \in L : x # b /\ x # t => h[x] = g[x],
           g[b].stmts \in Seq(B), g[t].stmts \in Seq(B), Merged(g, h, b, t),
           NEW x \in L \ {t}
    PROVE  First(h, x) = First(g, x)
<1>1. /\ \A y \in L : Onward(g, y) \in L
      /\ \A y \in L \ {b, t} : /\ Skips(h, y) <=> Skips(g, y)
                               /\ Onward(h, y) = Onward(g, y)
                               /\ Onward(g, y) # t
      /\ Skips(h, b) <=> Skips(g, b) /\ Skips(g, t)
      /\ Skips(g, b) <=> g[b].stmts = <<>>
      /\ Onward(g, b) = IF Skips(g, b) THEN t ELSE b
      /\ Onward(h, b) = IF Skips(h, b) THEN Onward(g, t) ELSE b
      /\ Skips(g, t) => Onward(g, t) # t
  BY MergingOnward
<1>2. x \in B /\ Way(g, x) \subseteq L
  BY <1>1, WayLeast DEF Shut
<1>3. x \in Way(g, x) /\ Shut(g, Way(g, x)) /\ x \in Way(h, x) /\ Shut(h, Way(h, x))
  BY <1>2, WayShut
<1>4. Way(h, x) \subseteq Way(g, x) \ {t}
  <2>1. Shut(h, Way(g, x) \ {t})
    <3> SUFFICES ASSUME NEW y \in Way(g, x) \ {t} PROVE Onward(h, y) \in Way(g, x) \ {t}
      BY DEF Shut
    <3>1. Onward(g, y) \in Way(g, x) /\ y \in L
      BY <1>2, <1>3 DEF Shut
    <3>2. CASE y # b
      BY <1>1, <3>1, <3>2
    <3>3. CASE y = b /\ Skips(h, b)
      <4>1. t \in Way(g, x)
        BY <1>1, <3>1, <3>3
      <4>2. Onward(g, t) \in Way(g, x)
        BY <1>3, <4>1 DEF Shut
      <4> QED
        BY <1>1, <3>3, <4>2
    <3>4. CASE y = b /\ ~Skips(h, b)
      BY <1>1, <3>4
    <3> QED
      BY <3>2, <3>3, <3>4
  <2> QED
    BY <1>2, <1>3, <2>1, WayLeast
<1> DEFINE T == Way(h, x) \cup {y \in {t} : b \in Way(h, x) /\ Skips(g, b)}
<1>5. Way(g, x) \subseteq T
  <2>1. Shut(g, T)
    <3> SUFFICES ASSUME NEW y \in T PROVE Onward(g, y) \in T
      BY DEF Shut
    <3>1. CASE y \in Way(h, x) /\ y # b
      <4>1. y \in L \ {b, t} /\ Onward(h, y) \in Way(h, x)
        BY <1>2, <1>3, <1>4, <3>1 DEF Shut
      <4> QED
        BY <1>1, <4>1
    <3>2. CASE y \in Way(h, x) /\ y = b
      BY <1>1, <3>2
    <3>3. CASE y = t /\ b \in Way(h, x) /\ Skips(g, b)
      <4>1. Onward(h, b) \in Way(h, x)
        BY <1>3, <3>3 DEF Shut
      <4>2. ~Skips(g, t) => Onward(g, t) = t
        BY DEF Onward
      <4> QED
        BY <1>1, <3>3, <4>1, <4>2
    <3> QED
      BY <3>1, <3>2, <3>3
  <2> QED
    BY <1>2, <1>3, <2>1, WayLeast
<1>6. CASE \A c \in Way(g, x) : Skips(g, c)
  <2>1. ASSUME NEW c \in Way(h, x) PROVE Skips(h, c)
    <3>1. c \in Way(g, x) /\ c # t /\ c \in L /\ Skips(g, c)
      BY <1>2, <1>4, <1>6
    <3>2. CASE c # b
      BY <1>1, <3>1, <3>2
    <3>3. CASE c = b
      <4>1. t \in Way(g, x)
        BY <1>1, <1>3, <3>1, <3>3 DEF Shut
      <4> QED
        BY <1>1, <1>6, <3>1, <3>3, <4>1
    <3> QED
      BY <3>2, <3>3
  <2> QED
    BY <1>2, <1>6, <2>1, FirstNowhere
<1>7. ASSUME NEW c \in Way(g, x), ~Skips(g, c)
      PROVE  First(h, x) = First(g, x)
  <2>1. First(g, x) = IF g[c].stmts # <<>> THEN Head(g[c].stmts) ELSE g[c].who
    BY <1>2, <1>7, FirstAt
  <2>2. c \in L
    BY <1>2
  <2>3. CASE c # t /\ c # b
    <3>1. c \in Way(h, x) /\ ~Skips(h, c) /\ h[c] = g[c]
      BY <1>1, <1>5, <1>7, <2>2, <2>3
    <3> QED
      BY <1>2, <2>1, <3>1, FirstAt
  <2>4. CASE c = b
    <3>1. b \in Way(h, x) /\ ~Skips(h, b) /\ g[b].stmts # <<>>
      BY <1>1, <1>5, <1>7, <2>4
    <3>2. h[b].stmts # <<>> /\ Head(h[b].stmts) = Head(g[b].stmts)
      <4>1. /\ g[b].stmts \o g[t].stmts # <<>>
            /\ Head(g[b].stmts \o g[t].stmts) = Head(g[b].stmts)
        BY <3>1, Chained
      <4> QED
        BY <4>1 DEF Merged
    <3>3. First(h, x) = Head(h[b].stmts)
      BY <1>2, <3>1, <3>2, FirstAt
    <3> QED
      BY <2>1, <2>4, <3>1, <3>2, <3>3
  <2>5. CASE c = t
    <3>1. b \in Way(h, x) /\ ~Skips(h, b) /\ g[b].stmts = <<>>
      BY <1>1, <1>4, <1>5, <1>7, <2>5
    <3>2. h[b].stmts = g[t].stmts /\ h[b].who = g[t].who
      BY <3>1, Chained DEF Merged
    <3>3. First(h, x) = IF h[b].stmts # <<>> THEN Head(h[b].stmts) ELSE h[b].who
      BY <1>2, <3>1, FirstAt
    <3> QED
      BY <2>1, <2>5, <3>2, <3>3
  <2> QED
    BY <2>3, <2>4, <2>5
<1> QED
  BY <1>6, <1>7

(* What SameRuns says of one block.                                        *)
Same(o, g, b) == SameStatements(o, g, b) /\ SameJump(o, g, b) /\ SameChoice(o, g, b)

LEMMA FirstOnward ==
    ASSUME NEW B, NEW g, GraphOn(B, g), NEW b \in B
    PROVE  First(g, b) = First(g, Onward(g, b))
BY SettlesOnward DEF First

(* Where a block leads does not matter beyond what happens first there.    *)
LEMMA SameElsewhere ==
    ASSUME NEW B, NEW o, NEW g, NEW h, GraphOn(B, o), GraphOn(B, g), NEW y \in B,
           g[y].who \in B \cup {NoBlock}, h[y] = g[y],
           \A k \in DOMAIN g[y].to : First(h, g[y].to[k]) = First(g, g[y].to[k]),
           Same(o, g, y)
    PROVE  Same(o, h, y)
<1>1. SameStatements(o, h, y)
  BY DEF Same, SameStatements
<1>2. SameJump(o, h, y)
  <2>1. g[y].jump => 1 \in DOMAIN g[y].to
    BY DEF GraphOn
  <2> QED
    BY <2>1 DEF Same, SameJump
<1>3. SameChoice(o, h, y)
  <2>1. ASSUME ~g[y].jump
        PROVE  DOMAIN o[g[y].who].to = DOMAIN g[y].to
    <3>1. g[y].who \in B /\ Len(o[g[y].who].to) = Len(g[y].to)
      BY <2>1 DEF Same, SameChoice
    <3> QED
      BY <3>1 DEF GraphOn
  <2> QED
    BY <2>1 DEF Same, SameChoice
<1> QED
  BY <1>1, <1>2, <1>3 DEF Same

LEMMA ChainedAt ==
    ASSUME NEW V, NEW s \in Seq(V), NEW r \in Seq(V)
    PROVE  /\ s \o r \in Seq(V) /\ Len(s \o r) = Len(s) + Len(r)
           /\ Len(s) \in Nat /\ Len(r) \in Nat
           /\ \A i \in 1 .. Len(s) : (s \o r)[i] = s[i]
           /\ \A i \in 1 .. Len(r) : (s \o r)[Len(s) + i] = r[i]
           /\ s = <<>> <=> Len(s) = 0
           /\ r = <<>> <=> Len(r) = 0
OBVIOUS

LEMMA MergingKeepsMerged ==
    ASSUME NEW B, NEW o, NEW g, NEW h, GraphOn(B, o), GraphOn(B, g),
           NEW b \in B, NEW t \in B, g[b].jump, g[b].to[1] = t,
           g[b].stmts \in Seq(B), g[t].stmts \in Seq(B), Merged(g, h, b, t),
           g[t].who \in B \cup {NoBlock},
           \A k \in DOMAIN g[t].to : First(h, g[t].to[k]) = First(g, g[t].to[k]),
           Same(o, g, b), Same(o, g, t)
    PROVE  Same(o, h, b)
<1> DEFINE s == g[b].stmts
           r == g[t].stmts
<1>1. h[b].stmts = s \o r /\ h[b].jump = g[t].jump /\ h[b].who = g[t].who /\ h[b].to = g[t].to
  BY DEF Merged
<1>2. /\ s \o r \in Seq(B) /\ Len(s \o r) = Len(s) + Len(r)
      /\ Len(s) \in Nat /\ Len(r) \in Nat
      /\ \A i \in 1 .. Len(s) : (s \o r)[i] = s[i]
      /\ \A i \in 1 .. Len(r) : (s \o r)[Len(s) + i] = r[i]
      /\ s = <<>> <=> Len(s) = 0
      /\ r = <<>> <=> Len(r) = 0
  BY ChainedAt
<1>3. s # <<>> => o[s[Len(s)]].jump /\ Follows(o, s[Len(s)]) = First(g, t)
  BY DEF Same, SameJump
<1>4. ~Skips(g, t) => First(g, t) = IF r # <<>> THEN Head(r) ELSE g[t].who
  BY WayShut, FirstAt
<1>5. r # <<>> => ~Skips(g, t) /\ Head(r) = r[1]
  BY DEF Skips
<1>6. \A i \in 1 .. Len(s) - 1 : o[s[i]].jump /\ Follows(o, s[i]) = s[i + 1]
  BY DEF Same, SameStatements
<1>7. \A i \in 1 .. Len(r) - 1 : o[r[i]].jump /\ Follows(o, r[i]) = r[i + 1]
  BY DEF Same, SameStatements
<1>8. SameJump(o, g, t) /\ SameChoice(o, g, t)
  BY DEF Same
<1>9. ASSUME ~g[t].jump PROVE ~Skips(g, t) /\ DOMAIN o[g[t].who].to = DOMAIN g[t].to
  <2>1. g[t].who \in B /\ Len(o[g[t].who].to) = Len(g[t].to)
    BY <1>8, <1>9 DEF SameChoice
  <2> QED
    BY <1>9, <2>1 DEF GraphOn, Skips
<1>10. g[t].jump => 1 \in DOMAIN g[t].to
  BY DEF GraphOn
<1>11. g[t].jump /\ r = <<>> => First(g, t) = First(g, g[t].to[1])
  BY FirstOnward DEF Onward, Skips
<1> DEFINE q == s \o r
<1>12. q = <<>> <=> s = <<>> /\ r = <<>>
  BY <1>2
<1>13. q # <<>> => q[Len(q)] = IF r = <<>> THEN s[Len(s)] ELSE r[Len(r)]
  <2>1. CASE r = <<>>
    BY <1>2, <2>1
  <2>2. CASE r # <<>>
    <3>1. Len(r) \in 1 .. Len(r) /\ Len(q) = Len(s) + Len(r)
      BY <1>2, <2>2
    <3> QED
      BY <1>2, <2>2, <3>1
  <2> QED
    BY <2>1, <2>2
<1> HIDE DEF s, r
<1>14. SameStatements(o, h, b)
  <2> SUFFICES ASSUME NEW i \in 1 .. Len(q) - 1
               PROVE  o[q[i]].jump /\ Follows(o, q[i]) = q[i + 1]
    BY <1>1 DEF SameStatements
  <2>1. CASE i < Len(s)
    <3>1. i \in 1 .. Len(s) - 1 /\ i \in 1 .. Len(s) /\ i + 1 \in 1 .. Len(s)
      BY <1>2, <2>1
    <3> QED
      BY <1>2, <1>6, <3>1
  <2>2. CASE i = Len(s)
    <3>1. i \in 1 .. Len(s) /\ 1 \in 1 .. Len(r)
      BY <1>2, <2>2
    <3>2. q[i] = s[Len(s)] /\ q[i + 1] = r[1] /\ s # <<>> /\ r # <<>>
      BY <1>2, <2>2, <3>1
    <3> HIDE DEF q
    <3> QED
      BY <1>3, <1>4, <1>5, <3>2
  <2>3. CASE i > Len(s)
    <3> DEFINE j == i - Len(s)
    <3>1. j \in 1 .. Len(r) - 1 /\ j \in 1 .. Len(r) /\ j + 1 \in 1 .. Len(r)
      BY <1>2, <2>3
    <3>2. i = Len(s) + j /\ i + 1 = Len(s) + (j + 1)
      BY <1>2
    <3> HIDE DEF j
    <3>3. q[i] = r[j] /\ q[i + 1] = r[j + 1]
      BY <1>2, <3>1, <3>2
    <3> HIDE DEF q
    <3> QED
      BY <1>7, <3>1, <3>3
  <2> QED
    BY <1>2, <2>1, <2>2, <2>3
<1> HIDE DEF q
<1>15. SameJump(o, h, b)
  <2> SUFFICES ASSUME g[t].jump, q # <<>>
               PROVE  /\ o[q[Len(q)]].jump
                      /\ Follows(o, q[Len(q)]) = First(h, g[t].to[1])
    BY <1>1 DEF SameJump, q
  <2>1. First(h, g[t].to[1]) = First(g, g[t].to[1])
    BY <1>10
  <2>2. CASE r = <<>>
    BY <1>3, <1>11, <1>12, <1>13, <2>1, <2>2
  <2>3. CASE r # <<>>
    BY <1>8, <1>13, <2>1, <2>3 DEF SameJump, r
  <2> QED
    BY <2>2, <2>3
<1>16. SameChoice(o, h, b)
  <2> SUFFICES ASSUME ~g[t].jump PROVE SameChoice(o, h, b)
    BY <1>1 DEF SameChoice
  <2> DEFINE w == g[t].who
             v == IF r = <<>> THEN w ELSE r[Len(r)]
             u == IF q = <<>> THEN w ELSE q[Len(q)]
  <2>1. /\ w # NoBlock
        /\ v # w => o[v].jump /\ Follows(o, v) = w
        /\ ~o[w].jump
        /\ (o[w].stmts = <<>>) <=> (r = <<>> \/ v # w)
        /\ Len(g[t].to) = Len(o[w].to)
        /\ \A k \in DOMAIN o[w].to : First(g, g[t].to[k]) = Settles(o, o[w].to[k])
    BY <1>8 DEF SameChoice, r
  <2>2. \A k \in DOMAIN o[w].to : First(h, g[t].to[k]) = Settles(o, o[w].to[k])
    BY <1>9, <2>1
  <2>3. /\ u # w => o[u].jump /\ Follows(o, u) = w
        /\ (o[w].stmts = <<>>) <=> (q = <<>> \/ u # w)
    <3>1. CASE r # <<>>
      BY <1>12, <1>13, <2>1, <3>1
    <3>2. CASE r = <<>> /\ s = <<>>
      BY <1>12, <2>1, <3>2
    <3>3. CASE r = <<>> /\ s # <<>>
      <4>1. u = s[Len(s)] /\ o[u].jump /\ Follows(o, u) = w
        BY <1>3, <1>4, <1>9, <1>12, <1>13, <3>3
      <4> QED
        BY <1>12, <2>1, <3>3, <4>1
    <3> QED
      BY <3>1, <3>2, <3>3
  <2>4. h[b].stmts = q /\ h[b].who = w /\ h[b].to = g[t].to
    BY <1>1 DEF q
  <2> QED
    BY <2>1, <2>2, <2>3, <2>4 DEF SameChoice
<1> QED
  BY <1>14, <1>15, <1>16 DEF Same

-----------------------------------------------------------------------------
(* Reachable blocks.                                                       *)

LEMMA ReachableIs ==
    ASSUME NEW B, NEW g, GraphOn(B, g), NEW e \in B
    PROVE  /\ Reachable(g, e) \subseteq B /\ e \in Reachable(g, e)
           /\ Closed(g, Reachable(g, e))
           /\ \A S \in SUBSET B : e \in S /\ Closed(g, S) => Reachable(g, e) \subseteq S
<1>1. DOMAIN g = B /\ \A u \in B : \A k \in DOMAIN g[u].to : g[u].to[k] \in B
  BY DEF GraphOn
<1> QED
  BY <1>1 DEF Reachable, Closed

LEMMA SettlesAlong ==
    ASSUME NEW B, NEW g, GraphOn(B, g), NEW b \in B, NEW x \in Way(g, b)
    PROVE  Settles(g, x) = Settles(g, b)
<1> DEFINE S == {y \in Way(g, b) : Settles(g, y) = Settles(g, b)}
<1>1. Way(g, b) \subseteq B /\ b \in Way(g, b) /\ Shut(g, Way(g, b))
  BY WayShut
<1>2. Shut(g, S)
  <2> SUFFICES ASSUME NEW y \in S PROVE Onward(g, y) \in S
    BY DEF Shut
  <2>1. y \in B /\ Onward(g, y) \in Way(g, b)
    BY <1>1 DEF Shut
  <2> QED
    BY <2>1, SettlesOnward
<1>3. Way(g, b) \subseteq S
  BY <1>1, <1>2, WayLeast
<1> QED
  BY <1>3

-----------------------------------------------------------------------------
(* The states.                                                             *)

GoodGraph(g) ==
    /\ g = [b \in Ids |-> g[b]]
    /\ \A b \in Ids :
           /\ g[b] \in [stmts : Seq(Ids), jump : BOOLEAN, who : Ids \cup {NoBlock}, to : Seq(Ids)]
           /\ g[b].jump => Len(g[b].to) = 1

TypeOK ==
    /\ orig \in Lowered /\ start \in Ids
    /\ phase \in {"thread", "count", "merge", "number", "done"}
    /\ phase = "thread" => blocks = orig /\ entry = start
    /\ phase # "done" => GoodGraph(blocks)
    /\ phase = "done" => \E n \in 1 .. N : GraphOn(0 .. n - 1, blocks)
    /\ entry \in Ids
    /\ preds \in [Ids -> Nat] /\ todo \in SUBSET Ids
    /\ stack \in Seq([id : Ids, next : Nat]) /\ visited \in SUBSET Ids /\ order \in Seq(Ids)

LEMMA IdsFinite == Ids \in SUBSET Nat /\ IsFiniteSet(Ids) /\ Cardinality(Ids) = N
<1>1. N - 1 \in Int /\ 0 \in Int
  BY BlocksAssumption
<1>2. IsFiniteSet(0 .. N - 1) /\ Cardinality(0 .. N - 1) = IF 0 > N - 1 THEN 0 ELSE N - 1 - 0 + 1
  BY <1>1, FS_Interval
<1> QED
  BY <1>2, BlocksAssumption DEF Ids

LEMMA GoodIsGraph ==
    ASSUME NEW g, GoodGraph(g)
    PROVE  GraphOn(Ids, g)
<1>1. DOMAIN g = Ids
  BY DEF GoodGraph
<1>2. Cardinality(Ids) <= N
  BY IdsFinite, BlocksAssumption
<1> QED
  BY <1>1, <1>2, IdsFinite DEF GoodGraph, GraphOn

LEMMA LoweredGood ==
    ASSUME NEW g \in Lowered
    PROVE  GoodGraph(g)
<1>1. g = [b \in Ids |-> g[b]]
  BY LoweredAssumption
<1>2. ASSUME NEW b \in Ids
      PROVE  /\ g[b] \in [stmts : Seq(Ids), jump : BOOLEAN, who : Ids \cup {NoBlock}, to : Seq(Ids)]
             /\ g[b].jump => Len(g[b].to) = 1
  <2>1. /\ g[b] \in [stmts : {<<>>, <<b>>}, jump : BOOLEAN, who : {NoBlock, b}, to : Seq(Ids)]
        /\ g[b].jump => Len(g[b].to) = 1
    BY LoweredAssumption
  <2>2. <<>> \in Seq(Ids) /\ <<b>> \in Seq(Ids)
    OBVIOUS
  <2>3. {<<>>, <<b>>} \subseteq Seq(Ids) /\ {NoBlock, b} \subseteq Ids \cup {NoBlock}
    BY <2>2
  <2> QED
    BY <2>1, <2>3
<1> QED
  BY <1>1, <1>2 DEF GoodGraph

(* As lowered, a block that settles somewhere does first what that block   *)
(* goes by.                                                                *)
LEMMA LoweredBlock ==
    ASSUME NEW g \in Lowered, NEW b \in Ids
    PROVE  /\ g[b].stmts = <<>> \/ g[b].stmts = <<b>>
           /\ g[b].jump \in BOOLEAN
           /\ ~g[b].jump => g[b].who = b
           /\ g[b].jump => 1 \in DOMAIN g[b].to
           /\ b # NoBlock /\ Len(g[b].stmts) \in {0, 1}
<1>1. /\ g[b] \in [stmts : {<<>>, <<b>>}, jump : BOOLEAN, who : {NoBlock, b}, to : Seq(Ids)]
      /\ g[b].jump => Len(g[b].to) = 1
      /\ g[b].jump <=> g[b].who = NoBlock
  BY LoweredAssumption
<1>2. b # NoBlock
  BY BlocksAssumption DEF Ids, NoBlock
<1> QED
  BY <1>1, <1>2

LEMMA LoweredFirst ==
    ASSUME NEW g \in Lowered, NEW h, NEW b \in Ids, Settles(h, b) = Settles(g, b),
           \A c \in Ids : h[c].stmts = g[c].stmts /\ h[c].who = g[c].who
    PROVE  First(h, b) = Settles(g, b)
<1>1. GraphOn(Ids, g)
  BY LoweredGood, GoodIsGraph
<1> DEFINE c == Settles(g, b)
<1>2. CASE c = NoBlock
  BY <1>2 DEF First
<1>3. CASE c # NoBlock
  <2>1. c \in Way(g, b) /\ ~Skips(g, c)
    BY <1>1, <1>3, SettlesCases
  <2>2. c \in Ids
    BY <1>1, <2>1, WayShut
  <2> HIDE DEF c
  <2>3. g[c].stmts = <<c>> \/ (g[c].stmts = <<>> /\ g[c].who = c)
    BY <2>1, <2>2, LoweredBlock DEF Skips
  <2>4. First(h, b) = IF g[c].stmts # <<>> THEN Head(g[c].stmts) ELSE g[c].who
    BY <1>3, <2>2 DEF First, c
  <2>5. First(h, b) = c
    BY <2>3, <2>4
  <2> QED
    BY <2>5 DEF c
<1> QED
  BY <1>2, <1>3

LEMMA LoweredSame ==
    ASSUME NEW g \in Lowered, NEW h, GraphOn(Ids, h), NEW b \in Ids,
           h[b].stmts = g[b].stmts, h[b].jump = g[b].jump, h[b].who = g[b].who,
           DOMAIN h[b].to = DOMAIN g[b].to,
           \A k \in DOMAIN g[b].to : First(h, h[b].to[k]) = Settles(g, g[b].to[k])
    PROVE  Same(g, h, b)
<1>0. GraphOn(Ids, g)
  BY LoweredGood, GoodIsGraph
<1>1. /\ g[b].stmts = <<>> \/ g[b].stmts = <<b>>
      /\ ~g[b].jump => g[b].who = b
      /\ g[b].jump => 1 \in DOMAIN g[b].to
      /\ b # NoBlock /\ Len(g[b].stmts) \in {0, 1}
  BY LoweredBlock
<1>2. SameStatements(g, h, b)
  <2>1. \A n \in {0, 1} : 1 .. n - 1 = {}
    OBVIOUS
  <2>2. h[b].stmts = g[b].stmts /\ 1 .. Len(g[b].stmts) - 1 = {}
    BY <1>1, <2>1
  <2> QED
    BY <2>2 DEF SameStatements
<1>3. SameJump(g, h, b)
  <2> SUFFICES ASSUME g[b].jump, g[b].stmts # <<>>
               PROVE  LET s == g[b].stmts[Len(g[b].stmts)]
                      IN  g[s].jump /\ Follows(g, s) = First(h, h[b].to[1])
    BY DEF SameJump
  <2>1. g[b].stmts[Len(g[b].stmts)] = b
    BY <1>1
  <2> QED
    BY <1>1, <2>1 DEF Follows
<1>4. SameChoice(g, h, b)
  <2> SUFFICES ASSUME ~g[b].jump PROVE SameChoice(g, h, b)
    BY DEF SameChoice
  <2>1. g[b].stmts # <<>> => g[b].stmts[Len(g[b].stmts)] = b
    BY <1>1
  <2>2. Len(h[b].to) = Len(g[b].to)
    <3>1. h[b].to \in Seq(Ids) /\ g[b].to \in Seq(Ids)
      BY <1>0 DEF GraphOn
    <3> QED
      BY <3>1
  <2> QED
    BY <1>1, <2>1, <2>2 DEF SameChoice
<1> QED
  BY <1>2, <1>3, <1>4 DEF Same

-----------------------------------------------------------------------------
(* The inductive invariant of the passes before the numbering.             *)

OneWayIn(g, L, x) ==
    \A u, v \in L : \A k \in DOMAIN g[u].to : \A l \in DOMAIN g[v].to :
        g[u].to[k] = x /\ g[v].to[l] = x => u = v /\ k = l

(* The blocks of L are those in use: all others that control could reach   *)
(* have been taken in.                                                     *)
MergeInv(L) ==
    /\ entry \in L /\ Closed(blocks, L)
    /\ \A b \in L : Same(orig, blocks, b)
    /\ \A b \in todo : b \in L \/ ~blocks[b].jump
    /\ \A x \in Ids : preds[x] = 1 => OneWayIn(blocks, L, x)

PassInv ==
    /\ phase \in {"count", "merge"} => First(blocks, entry) = Settles(orig, start)
    /\ phase = "count" => \A b \in Ids : Same(orig, blocks, b)
    /\ phase = "merge" => \E L \in SUBSET Ids : MergeInv(L)
    /\ phase \in {"thread", "number"} => SameRuns

LEMMA PassInit ==
    ASSUME Init PROVE TypeOK /\ PassInv
<1>1. orig \in Lowered /\ blocks = orig /\ entry = start /\ phase = "thread" /\ start \in Ids
  BY BlocksAssumption DEF Init, Ids
<1>2. GoodGraph(blocks) /\ GraphOn(Ids, blocks)
  BY <1>1, LoweredGood, GoodIsGraph
<1>3. TypeOK
  BY <1>1, <1>2 DEF TypeOK, Init
<1>4. \A b \in Ids : First(blocks, b) = Settles(orig, b)
  BY <1>1, LoweredFirst
<1>5. ASSUME NEW b \in Ids PROVE Same(orig, blocks, b)
  <2>1. \A k \in DOMAIN orig[b].to : orig[b].to[k] \in Ids
    BY <1>1, <1>2 DEF GraphOn
  <2>2. \A k \in DOMAIN orig[b].to : First(blocks, blocks[b].to[k]) = Settles(orig, orig[b].to[k])
    BY <1>1, <1>4, <2>1
  <2> QED
    BY <1>1, <1>2, <2>2, LoweredSame
<1>6. Reachable(blocks, entry) \subseteq Ids
  BY <1>1, <1>2, ReachableIs
<1>7. SameRuns
  BY <1>1, <1>4, <1>5, <1>6 DEF SameRuns, Same
<1> QED
  BY <1>1, <1>3, <1>7 DEF PassInv

LEMMA RetargetIs ==
    ASSUME NEW block, NEW f,
           block \in [stmts : Seq(Ids), jump : BOOLEAN, who : Ids \cup {NoBlock}, to : Seq(Ids)]
    PROVE  /\ Retarget(block, f).stmts = block.stmts
           /\ Retarget(block, f).jump = block.jump
           /\ Retarget(block, f).who = block.who
           /\ Retarget(block, f).to = [k \in DOMAIN block.to |-> f[block.to[k]]]
BY DEF Retarget

LEMMA RetargetType ==
    ASSUME NEW block, NEW f, NEW V, \A x \in Ids : f[x] \in V,
           block \in [stmts : Seq(Ids), jump : BOOLEAN, who : Ids \cup {NoBlock}, to : Seq(Ids)]
    PROVE  /\ Retarget(block, f) \in
                 [stmts : Seq(Ids), jump : BOOLEAN, who : Ids \cup {NoBlock}, to : Seq(V)]
           /\ Len(Retarget(block, f).to) = Len(block.to)
<1> DEFINE to == [k \in DOMAIN block.to |-> f[block.to[k]]]
<1>1. block.to \in Seq(Ids) /\ DOMAIN block.to = 1 .. Len(block.to) /\ Len(block.to) \in Nat
  OBVIOUS
<1>2. to = [k \in 1 .. Len(block.to) |-> f[block.to[k]]]
  BY <1>1
<1>3. \A k \in 1 .. Len(block.to) : f[block.to[k]] \in V
  BY <1>1
<1>4. to \in Seq(V) /\ Len(to) = Len(block.to)
  BY <1>1, <1>2, <1>3
<1>5. Retarget(block, f) = [block EXCEPT !.to = to]
  BY DEF Retarget
<1> HIDE DEF to
<1> QED
  BY <1>4, <1>5

LEMMA ThreadStep ==
    ASSUME TypeOK, ThreadJumps PROVE TypeOK' /\ PassInv'
<1> DEFINE r == [b \in Ids |-> Resolve(b)]
<1>1. orig \in Lowered /\ start \in Ids /\ blocks = orig /\ entry = start
  BY DEF TypeOK, ThreadJumps
<1>2. GoodGraph(blocks) /\ GraphOn(Ids, blocks)
  BY <1>1, LoweredGood, GoodIsGraph
<1>3. /\ blocks' = [b \in Ids |-> Retarget(blocks[b], r)] /\ entry' = r[entry]
      /\ phase' = "count" /\ UNCHANGED <<orig, start, preds, todo, walk>>
  BY DEF ThreadJumps
<1>4. \A x \in Ids : r[x] \in Way(blocks, x) /\ r[x] \in Ids
  BY <1>2, ResolveStops, WayShut
<1>5. \A x \in Ids : Settles(blocks, x) # NoBlock => r[x] = Settles(blocks, x)
  BY <1>2, ResolveStops
<1> HIDE DEF r
<1>6. ASSUME NEW b \in Ids
      PROVE  /\ blocks'[b] \in [stmts : Seq(Ids), jump : BOOLEAN, who : Ids \cup {NoBlock}, to : Seq(Ids)]
             /\ blocks'[b].jump => Len(blocks'[b].to) = 1
             /\ blocks'[b].stmts = blocks[b].stmts
             /\ blocks'[b].jump = blocks[b].jump
             /\ blocks'[b].who = blocks[b].who
             /\ blocks'[b].to = [k \in DOMAIN blocks[b].to |-> r[blocks[b].to[k]]]
  <2>1. /\ blocks[b] \in [stmts : Seq(Ids), jump : BOOLEAN, who : Ids \cup {NoBlock}, to : Seq(Ids)]
        /\ blocks[b].jump => Len(blocks[b].to) = 1
    BY <1>2 DEF GoodGraph
  <2>2. blocks'[b] = Retarget(blocks[b], r)
    BY <1>3
  <2> QED
    BY <1>4, <2>1, <2>2, RetargetIs, RetargetType
<1>7. GoodGraph(blocks') /\ GraphOn(Ids, blocks')
  <2>1. GoodGraph(blocks')
    BY <1>3, <1>6 DEF GoodGraph
  <2> QED
    BY <2>1, GoodIsGraph
<1>8. entry' \in Ids
  BY <1>1, <1>3, <1>4
<1>9. TypeOK'
  BY <1>1, <1>3, <1>7, <1>8 DEF TypeOK, walk
<1>10. \A x \in Ids : Skips(blocks', x) <=> Skips(blocks, x)
  BY <1>6 DEF Skips
<1>11. \A x \in Ids : Skips(blocks, x) => blocks'[x].to[1] = r[blocks[x].to[1]]
  <2>1. \A x \in Ids : Skips(blocks, x) => 1 \in DOMAIN blocks[x].to
    BY <1>2 DEF GoodGraph, Skips
  <2> QED
    BY <1>6, <2>1
<1>12. \A x \in Ids : Settles(blocks', x) = Settles(blocks, x)
  BY <1>2, <1>4, <1>5, <1>7, <1>10, <1>11, ThreadingSettles
<1>13. \A x \in Ids : First(blocks', x) = Settles(orig, x)
  BY <1>1, <1>6, <1>12, LoweredFirst
<1>14. \A x \in Ids : First(blocks', r[x]) = Settles(orig, x)
  BY <1>1, <1>2, <1>4, <1>13, SettlesAlong
<1>15. \A b \in Ids : Same(orig, blocks', b)
  <2> SUFFICES ASSUME NEW b \in Ids PROVE Same(orig, blocks', b)
    OBVIOUS
  <2>1. \A k \in DOMAIN orig[b].to : orig[b].to[k] \in Ids
    BY <1>1, <1>2 DEF GraphOn
  <2>2. \A k \in DOMAIN orig[b].to : First(blocks', blocks'[b].to[k]) = Settles(orig, orig[b].to[k])
    <3> SUFFICES ASSUME NEW k \in DOMAIN orig[b].to
                 PROVE  First(blocks', blocks'[b].to[k]) = Settles(orig, orig[b].to[k])
      OBVIOUS
    <3>1. blocks'[b].to[k] = r[orig[b].to[k]]
      <4>1. blocks'[b].to = [i \in DOMAIN orig[b].to |-> r[orig[b].to[i]]]
        BY <1>1, <1>6
      <4> QED
        BY <4>1
    <3> QED
      BY <1>14, <2>1, <3>1
  <2>3. DOMAIN blocks'[b].to = DOMAIN orig[b].to
    BY <1>1, <1>6
  <2>4. /\ blocks'[b].stmts = orig[b].stmts /\ blocks'[b].jump = orig[b].jump
        /\ blocks'[b].who = orig[b].who
    BY <1>1, <1>6
  <2> QED
    BY <1>1, <1>7, <2>2, <2>3, <2>4, LoweredSame
<1>16. PassInv'
  <2>1. First(blocks', entry') = Settles(orig, start)
    BY <1>1, <1>3, <1>14
  <2> QED
    BY <1>3, <1>15, <2>1 DEF PassInv
<1> QED
  BY <1>9, <1>16

(* A list of targets ends.                                                 *)
LEMMA EdgesFinite ==
    ASSUME NEW g, GraphOn(Ids, g), NEW R \in SUBSET Ids
    PROVE  IsFiniteSet(Edges(g, R))
<1> DEFINE Of == [w \in R |-> {w} \X DOMAIN g[w].to]
           All == {Of[w] : w \in R}
<1>1. \A w \in R : DOMAIN g[w].to = 1 .. Len(g[w].to) /\ Len(g[w].to) \in Nat
  BY DEF GraphOn
<1>2. \A w \in R : IsFiniteSet(Of[w])
  <2> SUFFICES ASSUME NEW w \in R PROVE IsFiniteSet({w} \X DOMAIN g[w].to)
    OBVIOUS
  <2>1. IsFiniteSet(1 .. Len(g[w].to))
    BY <1>1, FS_Interval
  <2>2. IsFiniteSet({w}) /\ IsFiniteSet(DOMAIN g[w].to)
    BY <1>1, <2>1, FS_Singleton
  <2> QED
    BY <2>2, FS_Product
<1>3. IsFiniteSet(All)
  <2>1. IsFiniteSet(R)
    BY IdsFinite, FS_Subset
  <2>2. Of \in Surjection(R, All)
    BY DEF Surjection
  <2> QED
    BY <2>1, <2>2, FS_Surjection
<1>4. Edges(g, R) = UNION All
  BY DEF Edges
<1>5. \A T \in All : IsFiniteSet(T)
  BY <1>2
<1> HIDE DEF All
<1> QED
  BY <1>3, <1>4, <1>5, FS_UNION

(* A count of one says that there is one way in.                           *)
LEMMA CountIsWays ==
    ASSUME NEW g, GraphOn(Ids, g), NEW R \in SUBSET Ids, NEW x \in Ids,
           Cardinality(WaysIn(g, R, x)) = 1
    PROVE  OneWayIn(g, R, x)
<1> SUFFICES ASSUME NEW u \in R, NEW v \in R, NEW k \in DOMAIN g[u].to, NEW l \in DOMAIN g[v].to,
                    g[u].to[k] = x, g[v].to[l] = x
             PROVE  u = v /\ k = l
  BY DEF OneWayIn
<1> DEFINE E == WaysIn(g, R, x)
<1>1. IsFiniteSet(E)
  <2>1. IsFiniteSet(Edges(g, R))
    BY EdgesFinite
  <2> QED
    BY <2>1, FS_Subset DEF WaysIn
<1>2. <<u, k>> \in E /\ <<v, l>> \in E
  BY DEF Edges, WaysIn
<1> HIDE DEF E
<1>3. PICK e : E = {e}
  <2>1. Cardinality(E) = 1
    BY DEF E
  <2> QED
    BY <1>1, <2>1, FS_Singleton
<1>4. <<u, k>> = <<v, l>>
  BY <1>2, <1>3
<1> QED
  BY <1>4

LEMMA CountStep ==
    ASSUME TypeOK, PassInv, CountPredecessors PROVE TypeOK' /\ PassInv'
<1>0. PICK R : R = Reachable(blocks, entry)
  OBVIOUS
<1>1. /\ phase = "count" /\ phase' = "merge" /\ todo' = R
      /\ preds' = [b \in Ids |-> Cardinality(WaysIn(blocks, R, b))]
      /\ UNCHANGED <<orig, start, blocks, entry, walk>>
  BY <1>0 DEF CountPredecessors
<1>2. GoodGraph(blocks) /\ GraphOn(Ids, blocks) /\ entry \in Ids
  BY <1>1, GoodIsGraph DEF TypeOK
<1>3. R \subseteq Ids /\ entry \in R /\ Closed(blocks, R)
  BY <1>0, <1>2, ReachableIs
<1>4. ASSUME NEW b \in Ids
      PROVE  Cardinality(WaysIn(blocks, R, b)) \in Nat
  <2>1. IsFiniteSet(Edges(blocks, R))
    BY <1>2, <1>3, EdgesFinite
  <2>2. IsFiniteSet(WaysIn(blocks, R, b))
    BY <2>1, FS_Subset DEF WaysIn
  <2> QED
    BY <2>2, FS_CardinalityType
<1>5. TypeOK'
  <2>1. preds' \in [Ids -> Nat]
    BY <1>1, <1>4
  <2> QED
    BY <1>1, <1>2, <1>3, <2>1 DEF TypeOK, walk
<1>6. ASSUME NEW x \in Ids, preds'[x] = 1 PROVE OneWayIn(blocks', R, x)
  <2>1. Cardinality(WaysIn(blocks, R, x)) = 1
    BY <1>1, <1>6
  <2>2. R \in SUBSET Ids
    BY <1>3
  <2>3. OneWayIn(blocks, R, x)
    BY <1>2, <2>1, <2>2, CountIsWays
  <2> QED
    BY <1>1, <2>3
<1>7. \A b \in R : Same(orig, blocks, b)
  BY <1>1, <1>3 DEF PassInv
<1>8. MergeInv(R)'
  BY <1>1, <1>3, <1>6, <1>7 DEF MergeInv
<1>9. PassInv'
  BY <1>1, <1>3, <1>8 DEF PassInv
<1> QED
  BY <1>5, <1>9

LEMMA MergingGood ==
    ASSUME NEW g, GoodGraph(g), NEW b \in Ids, NEW t \in Ids, b # t
    PROVE  LET h == Chain(g, b, t)
           IN  /\ GoodGraph(h) /\ Merged(g, h, b, t) /\ h[t] = Emptied
               /\ \A x \in Ids : x # b /\ x # t => h[x] = g[x]
<1> DEFINE h == Chain(g, b, t)
           m == [g[t] EXCEPT !.stmts = g[b].stmts \o @]
           Block == [stmts : Seq(Ids), jump : BOOLEAN, who : Ids \cup {NoBlock}, to : Seq(Ids)]
<1>1. /\ DOMAIN g = Ids /\ g[b] \in Block /\ g[t] \in Block
      /\ g[t].jump => Len(g[t].to) = 1
  BY DEF GoodGraph
<1>2. g[b].stmts \o g[t].stmts \in Seq(Ids)
  BY <1>1
<1>3. /\ m.stmts = g[b].stmts \o g[t].stmts /\ m.jump = g[t].jump /\ m.who = g[t].who
      /\ m.to = g[t].to /\ m \in Block
  BY <1>1, <1>2
<1>4. Emptied \in Block /\ ~Emptied.jump
  <2>1. <<>> \in Seq(Ids)
    OBVIOUS
  <2> QED
    BY <2>1 DEF Emptied
<1> HIDE DEF m
<1>5. h = [g EXCEPT ![b] = m, ![t] = Emptied]
  BY DEF m, Chain
<1> HIDE DEF h
<1>6. h[b] = m /\ h[t] = Emptied /\ \A x \in Ids : x # b /\ x # t => h[x] = g[x]
  BY <1>1, <1>5
<1>7. h = [x \in Ids |-> h[x]]
  BY <1>1, <1>5
<1>8. ASSUME NEW x \in Ids PROVE h[x] \in Block /\ (h[x].jump => Len(h[x].to) = 1)
  <2>1. g[x] \in Block /\ (g[x].jump => Len(g[x].to) = 1)
    BY DEF GoodGraph
  <2> HIDE DEF Block
  <2>2. CASE x = b
    BY <1>1, <1>3, <1>6, <2>2
  <2>3. CASE x = t
    BY <1>4, <1>6, <2>3
  <2>4. CASE x # b /\ x # t
    BY <1>6, <2>1, <2>4
  <2> QED
    BY <2>2, <2>3, <2>4
<1>9. GoodGraph(h)
  BY <1>7, <1>8 DEF GoodGraph
<1> QED
  BY <1>3, <1>6, <1>9 DEF Merged, h

LEMMA AbsorbStep ==
    ASSUME TypeOK, PassInv, NEW b \in Ids, NEW t \in Ids, Absorb(b, t)
    PROVE  TypeOK' /\ PassInv'
<1>1. /\ phase = "merge" /\ b \in todo /\ blocks[b].jump /\ blocks[b].to[1] = t
      /\ t # b /\ t # entry /\ preds[t] = 1
      /\ blocks' = Chain(blocks, b, t)
      /\ preds' = [preds EXCEPT ![t] = 0]
      /\ UNCHANGED <<orig, start, phase, entry, todo, walk>>
  BY DEF Absorb, Visiting, Absorbs
<1>2. GoodGraph(blocks) /\ GraphOn(Ids, blocks) /\ entry \in Ids /\ preds \in [Ids -> Nat]
  BY <1>1, GoodIsGraph DEF TypeOK
<1>3. /\ GoodGraph(blocks') /\ Merged(blocks, blocks', b, t) /\ blocks'[t] = Emptied
      /\ \A x \in Ids : x # b /\ x # t => blocks'[x] = blocks[x]
  <2>1. b # t /\ blocks' = Chain(blocks, b, t)
    BY <1>1
  <2> QED
    BY <1>2, <2>1, MergingGood
<1>4. GraphOn(Ids, blocks')
  BY <1>3, GoodIsGraph
<1>5. TypeOK'
  <2>1. preds' \in [Ids -> Nat]
    BY <1>1, <1>2
  <2> QED
    BY <1>1, <1>3, <2>1 DEF TypeOK, walk
<1>6. PICK L \in SUBSET Ids : MergeInv(L)
  BY <1>1 DEF PassInv
<1>7. b \in L /\ t \in L
  <2>1. b \in L
    BY <1>1, <1>6 DEF MergeInv
  <2>2. 1 \in DOMAIN blocks[b].to
    BY <1>1, <1>2 DEF GoodGraph
  <2> QED
    BY <1>1, <1>6, <2>1, <2>2 DEF MergeInv, Closed
<1>8. OneWayIn(blocks, L, t)
  BY <1>1, <1>6 DEF MergeInv
<1>9. OnlyInto(blocks, L, b, t)
  <2>1. 1 \in DOMAIN blocks[b].to
    BY <1>1, <1>2 DEF GoodGraph
  <2> QED
    BY <1>1, <1>7, <1>8, <2>1 DEF OneWayIn, OnlyInto
<1>10. Closed(blocks, L) /\ entry \in L /\ \A y \in L : Same(orig, blocks, y)
  BY <1>6 DEF MergeInv
<1>11. /\ blocks[b].stmts \in Seq(Ids) /\ blocks[t].stmts \in Seq(Ids)
       /\ \A y \in L : blocks[y].who \in Ids \cup {NoBlock}
  BY <1>2, <1>7 DEF GoodGraph
<1>12. \A x \in L : x # b /\ x # t => blocks'[x] = blocks[x]
  BY <1>3
<1>13. \A x \in L \ {t} : First(blocks', x) = First(blocks, x)
  <2>1. b # t /\ blocks[b].jump /\ blocks[b].to[1] = t
    BY <1>1
  <2>2. blocks[b].stmts \in Seq(Ids) /\ blocks[t].stmts \in Seq(Ids)
    BY <1>11
  <2> QED
    BY <1>2, <1>3, <1>4, <1>7, <1>9, <1>10, <1>12, <2>1, <2>2, MergingKeepsFirst
<1>14. \A y \in L \ {b} : \A k \in DOMAIN blocks[y].to : blocks[y].to[k] \in L \ {t}
  BY <1>9, <1>10 DEF Closed, OnlyInto
<1>15. GraphOn(Ids, orig)
  BY LoweredGood, GoodIsGraph DEF TypeOK
<1>16. ASSUME NEW y \in L \ {t} PROVE Same(orig, blocks', y)
  <2>1. CASE y # b
    <3>1. \A k \in DOMAIN blocks[y].to : First(blocks', blocks[y].to[k]) = First(blocks, blocks[y].to[k])
      BY <1>13, <1>14, <2>1
    <3>2. blocks'[y] = blocks[y] /\ Same(orig, blocks, y) /\ y \in Ids
      BY <1>10, <1>12, <2>1
    <3> QED
      BY <1>2, <1>11, <1>15, <3>1, <3>2, SameElsewhere
  <2>2. CASE y = b
    <3>1. \A k \in DOMAIN blocks[t].to : First(blocks', blocks[t].to[k]) = First(blocks, blocks[t].to[k])
      BY <1>1, <1>7, <1>13, <1>14
    <3> QED
      <4>1. b # t /\ blocks[b].jump /\ blocks[b].to[1] = t
        BY <1>1
      <4>2. /\ blocks[b].stmts \in Seq(Ids) /\ blocks[t].stmts \in Seq(Ids)
            /\ blocks[t].who \in Ids \cup {NoBlock}
        BY <1>7, <1>11
      <4>3. Same(orig, blocks, b) /\ Same(orig, blocks, t)
        BY <1>7, <1>10
      <4>4. Same(orig, blocks', b)
        BY <1>2, <1>3, <1>15, <3>1, <4>1, <4>2, <4>3, MergingKeepsMerged
      <4> QED
        BY <2>2, <4>4
  <2> QED
    BY <2>1, <2>2
<1>17. blocks'[b].to = blocks[t].to /\ blocks'[t].to = <<>> /\ ~blocks'[t].jump
  BY <1>3 DEF Merged, Emptied
<1>18. Closed(blocks', L \ {t})
  <2>1. \A y \in L \ {t} : y # b => blocks'[y].to = blocks[y].to
    BY <1>12
  <2>2. \A k \in DOMAIN blocks[t].to : blocks[t].to[k] \in L \ {t}
    BY <1>1, <1>7, <1>14
  <2>3. \A y \in L \ {t} : \A k \in DOMAIN blocks'[y].to : blocks'[y].to[k] \in L \ {t}
    BY <1>14, <1>17, <2>1, <2>2
  <2> QED
    BY <2>3 DEF Closed
<1>19. ASSUME NEW x \in Ids, preds'[x] = 1 PROVE OneWayIn(blocks', L \ {t}, x)
  <2>1. x # t /\ preds[x] = 1
    BY <1>1, <1>2, <1>19
  <2>2. OneWayIn(blocks, L, x)
    BY <1>6, <2>1 DEF MergeInv
  <2> SUFFICES ASSUME NEW u \in L \ {t}, NEW v \in L \ {t},
                      NEW k \in DOMAIN blocks'[u].to, NEW l \in DOMAIN blocks'[v].to,
                      blocks'[u].to[k] = x, blocks'[v].to[l] = x
               PROVE  u = v /\ k = l
    BY DEF OneWayIn
  <2> DEFINE From(y) == IF y = b THEN t ELSE y
  <2>3. /\ blocks'[u].to = blocks[From(u)].to /\ From(u) \in L
        /\ blocks'[v].to = blocks[From(v)].to /\ From(v) \in L
    BY <1>7, <1>12, <1>17
  <2>4. From(u) = From(v) /\ k = l
    <3> HIDE DEF From
    <3> QED
      BY <2>2, <2>3 DEF OneWayIn
  <2> QED
    BY <2>4
<1>20. \A y \in todo : y \in L \ {t} \/ ~blocks'[y].jump
  <2> SUFFICES ASSUME NEW y \in todo, y \notin L \ {t} PROVE ~blocks'[y].jump
    OBVIOUS
  <2>1. CASE y = t
    BY <1>17, <2>1
  <2>2. CASE y # t
    <3>1. y \notin L /\ y \in Ids /\ y # b /\ ~blocks[y].jump
      BY <1>6, <1>7, <2>2 DEF MergeInv, TypeOK
    <3> QED
      BY <1>3, <2>2, <3>1
  <2> QED
    BY <2>1, <2>2
<1>21. MergeInv(L \ {t})'
  BY <1>1, <1>10, <1>16, <1>18, <1>19, <1>20 DEF MergeInv
<1>22. First(blocks', entry') = Settles(orig', start')
  BY <1>1, <1>10, <1>13 DEF PassInv
<1>23. PassInv'
  <2>1. L \ {t} \in SUBSET Ids
    OBVIOUS
  <2> QED
    BY <1>1, <1>21, <1>22, <2>1 DEF PassInv
<1> QED
  BY <1>5, <1>23

LEMMA NextBlockStep ==
    ASSUME TypeOK, PassInv, NEW b \in Ids, NextBlock(b)
    PROVE  TypeOK' /\ PassInv'
<1>1. /\ phase = "merge" /\ todo' = todo \ {b}
      /\ UNCHANGED <<orig, start, phase, blocks, entry, preds, walk>>
  BY DEF NextBlock, Visiting
<1>2. TypeOK'
  BY <1>1 DEF TypeOK, walk
<1>3. PICK L \in SUBSET Ids : MergeInv(L)
  BY <1>1 DEF PassInv
<1>4. MergeInv(L)'
  BY <1>1, <1>3 DEF MergeInv
<1>5. PassInv'
  BY <1>1, <1>4 DEF PassInv
<1> QED
  BY <1>2, <1>5

LEMMA StartStep ==
    ASSUME TypeOK, PassInv, StartNumbering
    PROVE  TypeOK' /\ PassInv'
<1>1. /\ phase = "merge" /\ phase' = "number"
      /\ stack' = <<[id |-> entry, next |-> 0]>> /\ visited' = {entry}
      /\ UNCHANGED <<orig, start, blocks, entry, preds, todo, order>>
  BY DEF StartNumbering
<1>2. GoodGraph(blocks) /\ GraphOn(Ids, blocks) /\ entry \in Ids
  BY <1>1, GoodIsGraph DEF TypeOK
<1>3. TypeOK'
  BY <1>1, <1>2 DEF TypeOK
<1>4. PICK L \in SUBSET Ids : MergeInv(L)
  BY <1>1 DEF PassInv
<1>5. Reachable(blocks, entry) \subseteq L
  BY <1>2, <1>4, ReachableIs DEF MergeInv
<1>6. \A b \in Reachable(blocks, entry) : Same(orig, blocks, b)
  BY <1>4, <1>5 DEF MergeInv
<1>7. First(blocks, entry) = Settles(orig, start)
  BY <1>1 DEF PassInv
<1>8. SameRuns
  BY <1>6, <1>7 DEF SameRuns, Same
<1>9. SameRuns'
  BY <1>1, <1>8 DEF SameRuns
<1>10. PassInv'
  BY <1>1, <1>9 DEF PassInv
<1> QED
  BY <1>3, <1>10

-----------------------------------------------------------------------------
(* `renumber`: the walk.                                                   *)

Frame == [id : Ids, next : Nat]

(* u, and what is above it in the tree p whose root is e.                  *)
UpShut(p, e, S) == \A x \in S \ {e} : p[x] \in S
Anc(p, e, u) == {a \in Ids : \A S \in SUBSET Ids : u \in S /\ UpShut(p, e, S) => a \in S}

LEMMA AncIs ==
    ASSUME NEW p \in [Ids -> Ids], NEW e \in Ids, NEW u \in Ids
    PROVE  /\ Anc(p, e, u) \subseteq Ids /\ u \in Anc(p, e, u) /\ UpShut(p, e, Anc(p, e, u))
           /\ \A S \in SUBSET Ids : u \in S /\ UpShut(p, e, S) => Anc(p, e, u) \subseteq S
BY DEF Anc, UpShut

(* What is visited is on the stack or in the order, and once.              *)
Tracked(st, vis, ord) ==
    /\ vis = {st[i].id : i \in DOMAIN st} \cup {ord[i] : i \in DOMAIN ord}
    /\ \A i \in DOMAIN st : \A j \in DOMAIN ord : st[i].id # ord[j]
    /\ \A i, j \in DOMAIN st : st[i].id = st[j].id => i = j
    /\ \A i, j \in DOMAIN ord : ord[i] = ord[j] => i = j

(* The entry is at the bottom of the stack, and comes last into the order. *)
Rooted(e, st, ord) ==
    /\ st # <<>> => st[Len(st)].id = e
    /\ st = <<>> => ord # <<>> /\ ord[1] = e

(* The targets of u that n turns have looked at.                           *)
Explored(g, u, n) == {g[u].to[k] : k \in Len(g[u].to) - n + 1 .. Len(g[u].to)}
Partly(g, st) == \A i \in DOMAIN st : st[i].next <= Len(g[st[i].id].to)

(* p is the tree of the walk, and the stack a path in it.                  *)
TreeOf(g, e, st, vis, p) ==
    /\ \A i \in 1 .. Len(st) - 1 : p[st[i].id] = st[i + 1].id
    /\ \A u \in vis \ {e} : p[u] \in vis /\ \E k \in DOMAIN g[p[u]].to : g[p[u]].to[k] = u

(* The order has a block behind what is above it in the tree, a target     *)
(* behind the block it is one of unless it is above it, and nothing        *)
(* between a block and what is above it that is not below that, too.       *)
Downwards(e, st, ord, p) ==
    \A j \in DOMAIN ord :
        \/ ord[j] = e
        \/ \E i \in DOMAIN st : st[i].id = p[ord[j]]
        \/ \E i \in 1 .. j - 1 : ord[i] = p[ord[j]]
Forwards(g, e, ord, p) ==
    \A j \in DOMAIN ord : \A k \in DOMAIN g[ord[j]].to :
        \/ g[ord[j]].to[k] \in Anc(p, e, ord[j])
        \/ \E i \in DOMAIN ord : i > j /\ ord[i] = g[ord[j]].to[k]
Backwards(g, e, st, ord, p) ==
    \A i \in DOMAIN st : \A s \in Explored(g, st[i].id, st[i].next) :
        \/ s \in Anc(p, e, st[i].id)
        \/ \E j \in DOMAIN ord : ord[j] = s
        \/ i > 1 /\ s = st[i - 1].id
Nested(e, ord, p) ==
    \A k \in DOMAIN ord : \A j \in 1 .. k - 1 : \A a \in Anc(p, e, ord[k]) :
        a \in Anc(p, e, ord[j]) \/ \E m \in j + 1 .. k : ord[m] = a

Walked(g, e, st, vis, ord, p) ==
    /\ Tracked(st, vis, ord)
    /\ Rooted(e, st, ord)
    /\ Partly(g, st)
    /\ TreeOf(g, e, st, vis, p)
    /\ Downwards(e, st, ord, p)
    /\ Forwards(g, e, ord, p)
    /\ Backwards(g, e, st, ord, p)
    /\ Nested(e, ord, p)

LEMMA Pushed ==
    ASSUME NEW V, NEW s \in Seq(V), NEW x \in V
    PROVE  /\ <<x>> \o s \in Seq(V) /\ Len(<<x>> \o s) = Len(s) + 1
           /\ Len(s) \in Nat /\ DOMAIN s = 1 .. Len(s)
           /\ DOMAIN (<<x>> \o s) = 1 .. Len(s) + 1
           /\ (<<x>> \o s)[1] = x
           /\ \A i \in 1 .. Len(s) : (<<x>> \o s)[i + 1] = s[i]
OBVIOUS

LEMMA Popped ==
    ASSUME NEW V, NEW s \in Seq(V), s # <<>>
    PROVE  /\ Tail(s) \in Seq(V) /\ Len(Tail(s)) = Len(s) - 1
           /\ Len(s) \in Nat /\ Len(s) >= 1 /\ DOMAIN s = 1 .. Len(s)
           /\ DOMAIN Tail(s) = 1 .. Len(s) - 1
           /\ Head(s) = s[1] /\ s[1] \in V
           /\ \A i \in 1 .. Len(s) - 1 : Tail(s)[i] = s[i + 1]
OBVIOUS

LEMMA FrameIs ==
    ASSUME NEW st \in Seq(Frame)
    PROVE  /\ Len(st) \in Nat /\ DOMAIN st = 1 .. Len(st)
           /\ \A i \in DOMAIN st : st[i] \in Frame /\ st[i].id \in Ids /\ st[i].next \in Nat
<1>1. Len(st) \in Nat /\ DOMAIN st = 1 .. Len(st) /\ \A i \in DOMAIN st : st[i] \in Frame
  OBVIOUS
<1> QED
  BY <1>1 DEF Frame

(* The blocks on the stack are above the one on top.                       *)
LEMMA StackIsAbove ==
    ASSUME NEW g, NEW e \in Ids, NEW st \in Seq(Frame), NEW vis, NEW ord, NEW p \in [Ids -> Ids],
           Tracked(st, vis, ord), Rooted(e, st, ord), TreeOf(g, e, st, vis, p),
           NEW j \in DOMAIN st
    PROVE  st[j].id \in Anc(p, e, st[1].id)
<1> DEFINE Off == {i \in DOMAIN st : st[i].id \notin Anc(p, e, st[1].id)}
<1> SUFFICES ASSUME Off # {} PROVE FALSE
  OBVIOUS
<1>1. Len(st) \in Nat /\ DOMAIN st = 1 .. Len(st) /\ \A i \in DOMAIN st : st[i].id \in Ids
  BY FrameIs
<1>2. Off \in SUBSET Nat
  BY <1>1
<1>3. PICK i \in Off : \A m \in Off : i <= m
  BY <1>2, Least
<1>4. st[1].id \in Ids /\ 1 \in DOMAIN st
  BY <1>1, <1>3
<1>5. i # 1
  BY <1>3, <1>4, AncIs
<1>6. i - 1 \in 1 .. Len(st) - 1 /\ i - 1 \in DOMAIN st /\ i - 1 \notin Off /\ i \in DOMAIN st
  BY <1>1, <1>3, <1>5
<1>7. p[st[i - 1].id] = st[i].id
  <2>1. p[st[i - 1].id] = st[(i - 1) + 1].id
    BY <1>6 DEF TreeOf
  <2> QED
    BY <1>6, <1>1, <2>1
<1>8. st[i - 1].id # e
  <2>1. st # <<>> /\ st[Len(st)].id = e /\ Len(st) \in DOMAIN st /\ i - 1 # Len(st)
    BY <1>1, <1>6 DEF Rooted
  <2> QED
    BY <1>6, <2>1 DEF Tracked
<1>9. st[i].id \in Anc(p, e, st[1].id)
  BY <1>4, <1>6, <1>7, <1>8, AncIs DEF UpShut
<1> QED
  BY <1>3, <1>9

(* A block of the order is below blocks that are on the stack or come      *)
(* before it.                                                              *)
LEMMA AboveIsBefore ==
    ASSUME NEW g, NEW e \in Ids, NEW st \in Seq(Frame), NEW vis, NEW ord \in Seq(Ids),
           NEW p \in [Ids -> Ids], Tracked(st, vis, ord), Rooted(e, st, ord),
           TreeOf(g, e, st, vis, p), Downwards(e, st, ord, p),
           NEW k \in DOMAIN ord, NEW a \in Anc(p, e, ord[k])
    PROVE  (\E i \in DOMAIN st : st[i].id = a) \/ \E i \in 1 .. k : ord[i] = a
<1> DEFINE S == {st[i].id : i \in DOMAIN st} \cup {ord[i] : i \in 1 .. k}
<1>1. /\ Len(st) \in Nat /\ DOMAIN st = 1 .. Len(st) /\ \A i \in DOMAIN st : st[i].id \in Ids
      /\ Len(ord) \in Nat /\ DOMAIN ord = 1 .. Len(ord) /\ \A i \in DOMAIN ord : ord[i] \in Ids
  BY FrameIs
<1>2. S \in SUBSET Ids /\ ord[k] \in S
  BY <1>1
<1>3. UpShut(p, e, S)
  <2> SUFFICES ASSUME NEW x \in S, x # e PROVE p[x] \in S
    BY DEF UpShut
  <2>1. CASE \E i \in DOMAIN st : x = st[i].id
    <3>1. PICK i \in DOMAIN st : x = st[i].id
      BY <2>1
    <3>2. i # Len(st)
      BY <3>1, <1>1 DEF Rooted
    <3>3. i \in 1 .. Len(st) - 1 /\ i + 1 \in DOMAIN st
      BY <1>1, <3>2
    <3> QED
      BY <3>1, <3>3 DEF TreeOf
  <2>2. CASE \E i \in 1 .. k : x = ord[i]
    <3>1. PICK i \in 1 .. k : x = ord[i]
      BY <2>2
    <3>2. i \in DOMAIN ord
      BY <1>1
    <3>3. (\E l \in DOMAIN st : st[l].id = p[ord[i]]) \/ \E l \in 1 .. i - 1 : ord[l] = p[ord[i]]
      BY <3>1, <3>2 DEF Downwards
    <3>4. 1 .. i - 1 \subseteq 1 .. k
      BY <1>1
    <3> QED
      BY <3>1, <3>3, <3>4
  <2> QED
    BY <2>1, <2>2
<1>4. Anc(p, e, ord[k]) \subseteq S
  <2>1. ord[k] \in Ids
    BY <1>1
  <2> HIDE DEF S
  <2> QED
    BY <1>2, <1>3, <2>1, AncIs
<1> QED
  BY <1>4

LEMMA LeaveWalk ==
    ASSUME NEW g, GraphOn(Ids, g), NEW e \in Ids, NEW st \in Seq(Frame), NEW vis \in SUBSET Ids,
           NEW ord \in Seq(Ids), NEW p \in [Ids -> Ids], Walked(g, e, st, vis, ord, p),
           st # <<>>, Head(st).next = Len(g[Head(st).id].to)
    PROVE  Walked(g, e, Tail(st), vis, <<Head(st).id>> \o ord, p)
<1>0. /\ Tracked(st, vis, ord) /\ Rooted(e, st, ord) /\ Partly(g, st) /\ TreeOf(g, e, st, vis, p)
      /\ Downwards(e, st, ord, p) /\ Forwards(g, e, ord, p) /\ Backwards(g, e, st, ord, p)
      /\ Nested(e, ord, p)
  BY DEF Walked
<1>1. PICK n, m, u, r, q : n = Len(st) /\ m = Len(ord) /\ u = st[1].id /\ r = Tail(st)
                           /\ q = <<Head(st).id>> \o ord
  OBVIOUS
<1>2. /\ n \in Nat /\ n >= 1 /\ DOMAIN st = 1 .. n /\ DOMAIN r = 1 .. n - 1 /\ Len(r) = n - 1
      /\ Head(st) = st[1] /\ \A i \in 1 .. n - 1 : r[i] = st[i + 1]
      /\ r \in Seq(Frame)
  BY <1>1, Popped
<1>3. \A i \in 1 .. n : st[i].id \in Ids /\ st[i].next \in Nat
  BY <1>2, FrameIs
<1>4. u \in Ids /\ st[1].next = Len(g[u].to) /\ 1 \in DOMAIN st
  BY <1>1, <1>2, <1>3
<1>5. /\ m \in Nat /\ DOMAIN ord = 1 .. m /\ DOMAIN q = 1 .. m + 1 /\ q[1] = u
      /\ \A i \in 1 .. m : q[i + 1] = ord[i]
  <2>1. q = <<u>> \o ord
    BY <1>1, <1>2
  <2> QED
    BY <1>1, <1>4, <2>1, Pushed
<1>6. \A j \in 1 .. m + 1 : j = 1 \/ (j - 1 \in 1 .. m /\ q[j] = ord[j - 1])
  <2> SUFFICES ASSUME NEW j \in 1 .. m + 1, j # 1 PROVE j - 1 \in 1 .. m /\ q[j] = ord[j - 1]
    OBVIOUS
  <2>1. j - 1 \in 1 .. m /\ j = (j - 1) + 1
    BY <1>5
  <2> QED
    BY <1>5, <2>1
<1>7. \A i \in 1 .. n : i = 1 \/ (i - 1 \in 1 .. n - 1 /\ st[i] = r[i - 1])
  <2> SUFFICES ASSUME NEW i \in 1 .. n, i # 1 PROVE i - 1 \in 1 .. n - 1 /\ st[i] = r[i - 1]
    OBVIOUS
  <2>1. i - 1 \in 1 .. n - 1 /\ i = (i - 1) + 1
    BY <1>2
  <2> QED
    BY <1>2, <2>1
<1>8. \A j \in 1 .. m : j + 1 \in 1 .. m + 1 /\ q[j + 1] = ord[j]
  BY <1>5
<1>9. \A i \in 1 .. n - 1 : i + 1 \in 1 .. n /\ r[i] = st[i + 1]
  BY <1>2
<1>10. Tracked(r, vis, q)
  <2>1. \A x \in vis : (\E i \in 1 .. n - 1 : r[i].id = x) \/ \E j \in 1 .. m + 1 : q[j] = x
    <3> SUFFICES ASSUME NEW x \in vis
                 PROVE  (\E i \in 1 .. n - 1 : r[i].id = x) \/ \E j \in 1 .. m + 1 : q[j] = x
      OBVIOUS
    <3>1. (\E i \in 1 .. n : st[i].id = x) \/ \E j \in 1 .. m : ord[j] = x
      BY <1>0, <1>2, <1>5 DEF Tracked
    <3>2. 1 \in 1 .. m + 1
      BY <1>5
    <3> QED
      BY <1>1, <1>5, <1>7, <1>8, <3>1, <3>2
  <2>2. \A i \in 1 .. n - 1 : r[i].id \in vis
    BY <1>0, <1>2, <1>9 DEF Tracked
  <2>3. \A j \in 1 .. m + 1 : q[j] \in vis
    <3>1. u \in vis /\ \A j \in 1 .. m : ord[j] \in vis
      BY <1>0, <1>1, <1>4, <1>5 DEF Tracked
    <3> QED
      BY <1>5, <1>6, <3>1
  <2>4. vis = {r[i].id : i \in DOMAIN r} \cup {q[j] : j \in DOMAIN q}
    BY <1>2, <1>5, <2>1, <2>2, <2>3
  <2>5. \A i \in DOMAIN r : \A j \in DOMAIN q : r[i].id # q[j]
    <3> SUFFICES ASSUME NEW i \in 1 .. n - 1, NEW j \in 1 .. m + 1, r[i].id = q[j] PROVE FALSE
      BY <1>2, <1>5
    <3>1. i + 1 \in DOMAIN st /\ r[i].id = st[i + 1].id /\ i + 1 # 1
      BY <1>2, <1>9
    <3>2. j # 1
      <4>1. st[1].id # st[i + 1].id
        BY <1>0, <1>4, <3>1 DEF Tracked
      <4> QED
        BY <1>1, <1>5, <3>1, <4>1
    <3>3. j - 1 \in DOMAIN ord /\ q[j] = ord[j - 1]
      BY <1>5, <1>6, <3>2
    <3> QED
      BY <1>0, <3>1, <3>3 DEF Tracked
  <2>6. \A i, j \in DOMAIN r : r[i].id = r[j].id => i = j
    <3> SUFFICES ASSUME NEW i \in 1 .. n - 1, NEW j \in 1 .. n - 1, r[i].id = r[j].id PROVE i = j
      BY <1>2
    <3>1. i + 1 \in DOMAIN st /\ j + 1 \in DOMAIN st /\ st[i + 1].id = st[j + 1].id
      BY <1>2, <1>9
    <3>2. i + 1 = j + 1
      BY <1>0, <3>1 DEF Tracked
    <3> QED
      BY <1>2, <3>2
  <2>7. \A i, j \in DOMAIN q : q[i] = q[j] => i = j
    <3> SUFFICES ASSUME NEW i \in 1 .. m + 1, NEW j \in 1 .. m + 1, q[i] = q[j] PROVE i = j
      BY <1>5
    <3>1. \A k \in 1 .. m : ord[k] # u
      BY <1>0, <1>1, <1>4, <1>5 DEF Tracked
    <3>2. CASE i = 1 \/ j = 1
      BY <1>5, <1>6, <3>1, <3>2
    <3>3. CASE i # 1 /\ j # 1
      <4>1. i - 1 \in DOMAIN ord /\ j - 1 \in DOMAIN ord /\ ord[i - 1] = ord[j - 1]
        BY <1>5, <1>6, <3>3
      <4>2. i - 1 = j - 1
        BY <1>0, <4>1 DEF Tracked
      <4> QED
        BY <1>5, <4>2
    <3> QED
      BY <3>2, <3>3
  <2> QED
    BY <2>4, <2>5, <2>6, <2>7 DEF Tracked
<1>11. Rooted(e, r, q)
  <2>1. st[n].id = e
    BY <1>0, <1>1 DEF Rooted
  <2>2. CASE n = 1
    BY <1>1, <1>2, <1>5, <2>1, <2>2 DEF Rooted
  <2>3. CASE n # 1
    <3>1. n - 1 \in 1 .. n - 1 /\ (n - 1) + 1 = n
      BY <1>2, <2>3
    <3>2. r[n - 1].id = e
      BY <1>9, <2>1, <3>1
    <3>3. r # <<>>
      BY <1>2, <2>3
    <3> QED
      BY <1>2, <3>2, <3>3 DEF Rooted
  <2> QED
    BY <2>2, <2>3
<1>12. Partly(g, r)
  BY <1>0, <1>2, <1>9 DEF Partly
<1>13. TreeOf(g, e, r, vis, p)
  <2>1. ASSUME NEW i \in 1 .. Len(r) - 1 PROVE p[r[i].id] = r[i + 1].id
    <3>1. i \in 1 .. n - 1 /\ i + 1 \in 1 .. n - 1 /\ i + 1 \in 1 .. Len(st) - 1
      BY <1>1, <1>2
    <3>2. r[i] = st[i + 1] /\ r[i + 1] = st[(i + 1) + 1]
      BY <1>9, <3>1
    <3> QED
      BY <1>0, <3>1, <3>2 DEF TreeOf
  <2> QED
    BY <1>0, <2>1 DEF TreeOf
<1>14. Downwards(e, r, q, p)
  <2> SUFFICES ASSUME NEW j \in 1 .. m + 1, q[j] # e
               PROVE  \/ \E i \in DOMAIN r : r[i].id = p[q[j]]
                      \/ \E i \in 1 .. j - 1 : q[i] = p[q[j]]
    BY <1>5 DEF Downwards
  <2>1. CASE j = 1
    <3>1. n # 1
      BY <1>0, <1>1, <1>5, <2>1 DEF Rooted
    <3>2. 1 \in 1 .. n - 1 /\ 1 \in 1 .. Len(st) - 1 /\ r[1] = st[1 + 1]
      BY <1>1, <1>2, <3>1
    <3>3. p[u] = st[1 + 1].id
      BY <1>0, <1>1, <3>2 DEF TreeOf
    <3> QED
      BY <1>2, <1>5, <2>1, <3>2, <3>3
  <2>2. CASE j # 1
    <3>1. j - 1 \in 1 .. m /\ q[j] = ord[j - 1]
      BY <1>6, <2>2
    <3>2. \/ \E i \in 1 .. n : st[i].id = p[q[j]]
          \/ \E i \in 1 .. (j - 1) - 1 : ord[i] = p[q[j]]
      <4>1. ord[j - 1] # e /\ j - 1 \in DOMAIN ord
        BY <1>5, <3>1
      <4>2. \/ \E i \in DOMAIN st : st[i].id = p[ord[j - 1]]
            \/ \E i \in 1 .. (j - 1) - 1 : ord[i] = p[ord[j - 1]]
        BY <1>0, <4>1 DEF Downwards
      <4> QED
        BY <1>2, <3>1, <4>2
    <3>3. CASE \E i \in 1 .. n : st[i].id = p[q[j]]
      <4>1. PICK i \in 1 .. n : st[i].id = p[q[j]]
        BY <3>3
      <4>2. CASE i = 1
        <5>1. 1 \in 1 .. j - 1
          BY <2>2
        <5> QED
          BY <1>1, <1>5, <4>1, <4>2, <5>1
      <4>3. CASE i # 1
        BY <1>2, <1>7, <4>1, <4>3
      <4> QED
        BY <4>2, <4>3
    <3>4. CASE \E i \in 1 .. (j - 1) - 1 : ord[i] = p[q[j]]
      <4>1. PICK i \in 1 .. (j - 1) - 1 : ord[i] = p[q[j]]
        BY <3>4
      <4>2. i + 1 \in 1 .. j - 1 /\ i \in 1 .. m
        BY <1>5, <3>1
      <4> QED
        BY <1>8, <4>1, <4>2
    <3> QED
      BY <3>2, <3>3, <3>4
  <2> QED
    BY <2>1, <2>2
<1>15. Forwards(g, e, q, p)
  <2> SUFFICES ASSUME NEW j \in 1 .. m + 1, NEW k \in DOMAIN g[q[j]].to
               PROVE  \/ g[q[j]].to[k] \in Anc(p, e, q[j])
                      \/ \E i \in DOMAIN q : i > j /\ q[i] = g[q[j]].to[k]
    BY <1>5 DEF Forwards
  <2>1. CASE j = 1
    <3>1. g[u].to \in Seq(Ids) /\ k \in DOMAIN g[u].to
      BY <1>4, <1>5, <2>1 DEF GraphOn
    <3>2. k \in Len(g[u].to) - Len(g[u].to) + 1 .. Len(g[u].to)
      BY <3>1
    <3>3. g[u].to[k] \in Explored(g, st[1].id, st[1].next)
      BY <1>1, <1>4, <3>2 DEF Explored
    <3>4. g[u].to[k] \in Anc(p, e, u) \/ \E i \in 1 .. m : ord[i] = g[u].to[k]
      <4>1. \/ g[u].to[k] \in Anc(p, e, st[1].id)
            \/ \E i \in DOMAIN ord : ord[i] = g[u].to[k]
            \/ 1 > 1
        BY <1>0, <1>4, <3>3 DEF Backwards
      <4> QED
        BY <1>1, <1>5, <4>1
    <3>5. \A i \in 1 .. m : i + 1 > 1
      BY <1>5
    <3> QED
      BY <1>5, <1>8, <2>1, <3>4, <3>5
  <2>2. CASE j # 1
    <3>1. j - 1 \in 1 .. m /\ q[j] = ord[j - 1]
      BY <1>6, <2>2
    <3>2. \/ g[q[j]].to[k] \in Anc(p, e, q[j])
          \/ \E i \in 1 .. m : i > j - 1 /\ ord[i] = g[q[j]].to[k]
      BY <1>0, <1>5, <3>1 DEF Forwards
    <3>3. \A i \in 1 .. m : i > j - 1 => i + 1 > j
      BY <1>5
    <3> QED
      BY <1>5, <1>8, <3>2, <3>3
  <2> QED
    BY <2>1, <2>2
<1>16. Backwards(g, e, r, q, p)
  <2> SUFFICES ASSUME NEW i \in 1 .. n - 1, NEW s \in Explored(g, r[i].id, r[i].next)
               PROVE  \/ s \in Anc(p, e, r[i].id)
                      \/ \E j \in DOMAIN q : q[j] = s
                      \/ i > 1 /\ s = r[i - 1].id
    BY <1>2 DEF Backwards
  <2>1. i + 1 \in 1 .. n /\ r[i] = st[i + 1]
    BY <1>9
  <2>2. \/ s \in Anc(p, e, r[i].id)
        \/ \E j \in 1 .. m : ord[j] = s
        \/ s = st[(i + 1) - 1].id
    BY <1>0, <1>2, <1>5, <2>1 DEF Backwards
  <2>3. ASSUME s = st[(i + 1) - 1].id
        PROVE  (\E j \in DOMAIN q : q[j] = s) \/ (i > 1 /\ s = r[i - 1].id)
    <3>1. s = st[i].id /\ i \in 1 .. n
      BY <1>2, <2>3
    <3>2. CASE i = 1
      <4>1. 1 \in DOMAIN q /\ q[1] = s
        BY <1>1, <1>5, <3>1, <3>2
      <4> QED
        BY <4>1
    <3>3. CASE i # 1
      BY <1>2, <1>7, <3>1, <3>3
    <3> QED
      BY <3>2, <3>3
  <2> QED
    BY <1>5, <1>8, <2>2, <2>3
<1>17. Nested(e, q, p)
  <2> SUFFICES ASSUME NEW k \in 1 .. m + 1, NEW j \in 1 .. k - 1, NEW a \in Anc(p, e, q[k])
               PROVE  a \in Anc(p, e, q[j]) \/ \E i \in j + 1 .. k : q[i] = a
    BY <1>5 DEF Nested
  <2>1. k # 1 /\ k - 1 \in 1 .. m /\ q[k] = ord[k - 1]
    BY <1>5, <1>6
  <2>2. CASE j = 1
    <3>1. (\E i \in DOMAIN st : st[i].id = a) \/ \E i \in 1 .. k - 1 : ord[i] = a
      BY <1>0, <1>5, <2>1, AboveIsBefore
    <3>2. ASSUME NEW i \in DOMAIN st, st[i].id = a PROVE a \in Anc(p, e, q[j])
      BY <1>0, <1>1, <1>5, <2>2, <3>2, StackIsAbove
    <3>3. ASSUME NEW i \in 1 .. k - 1, ord[i] = a PROVE \E l \in j + 1 .. k : q[l] = a
      <4>1. i + 1 \in j + 1 .. k /\ i \in 1 .. m
        BY <1>5, <2>1, <2>2
      <4> QED
        BY <1>8, <3>3, <4>1
    <3> QED
      BY <3>1, <3>2, <3>3
  <2>3. CASE j # 1
    <3>1. j \in 1 .. m + 1 /\ j - 1 \in 1 .. (k - 1) - 1 /\ q[j] = ord[j - 1]
      BY <1>5, <1>6, <2>3
    <3>2. a \in Anc(p, e, ord[j - 1]) \/ \E i \in (j - 1) + 1 .. k - 1 : ord[i] = a
      BY <1>0, <1>5, <2>1, <3>1 DEF Nested
    <3>3. ASSUME NEW i \in (j - 1) + 1 .. k - 1, ord[i] = a PROVE \E l \in j + 1 .. k : q[l] = a
      <4>1. i + 1 \in j + 1 .. k /\ i \in 1 .. m
        BY <1>5, <2>1, <2>3
      <4> QED
        BY <1>8, <3>3, <4>1
    <3> QED
      BY <3>1, <3>2, <3>3
  <2> QED
    BY <2>2, <2>3
<1> QED
  BY <1>1, <1>10, <1>11, <1>12, <1>13, <1>14, <1>15, <1>16, <1>17 DEF Walked

LEMMA ExploredNext ==
    ASSUME NEW g, NEW u, g[u].to \in Seq(Ids), NEW n \in Nat, n < Len(g[u].to)
    PROVE  Explored(g, u, n + 1) = Explored(g, u, n) \cup {g[u].to[Len(g[u].to) - n]}
<1> DEFINE l == Len(g[u].to)
<1>1. l \in Nat /\ l - (n + 1) + 1 = l - n /\ l - n \in 1 .. l
  OBVIOUS
<1>2. l - n .. l = {l - n} \cup l - n + 1 .. l
  BY <1>1
<1> QED
  BY <1>1, <1>2 DEF Explored

LEMMA ExploredNone ==
    ASSUME NEW g, NEW u, g[u].to \in Seq(Ids)
    PROVE  Explored(g, u, 0) = {}
<1>1. PICK l : l = Len(g[u].to)
  OBVIOUS
<1>2. l \in Nat
  BY <1>1
<1>3. l - 0 + 1 .. l = {}
  BY <1>2
<1> QED
  BY <1>1, <1>3 DEF Explored

LEMMA AncStays ==
    ASSUME NEW p \in [Ids -> Ids], NEW e \in Ids, NEW V \in SUBSET Ids, UpShut(p, e, V),
           NEW q \in [Ids -> Ids], \A y \in V : q[y] = p[y], NEW u \in V
    PROVE  Anc(q, e, u) = Anc(p, e, u)
<1>1. q \in [Ids -> Ids] /\ \A y \in V : q[y] = p[y]
  OBVIOUS
<1>2. /\ Anc(p, e, u) \subseteq V /\ u \in Anc(p, e, u) /\ UpShut(p, e, Anc(p, e, u))
  BY AncIs
<1>3. UpShut(q, e, Anc(p, e, u))
  BY <1>1, <1>2 DEF UpShut
<1>4. Anc(q, e, u) \subseteq Anc(p, e, u) /\ u \in Anc(q, e, u) /\ UpShut(q, e, Anc(q, e, u))
  <2>1. Anc(p, e, u) \in SUBSET Ids
    BY <1>2
  <2> QED
    BY <1>1, <1>2, <1>3, <2>1, AncIs
<1>5. UpShut(p, e, Anc(q, e, u))
  <2>1. Anc(q, e, u) \subseteq V
    BY <1>2, <1>4
  <2> QED
    BY <1>1, <1>4, <2>1 DEF UpShut
<1>6. Anc(p, e, u) \subseteq Anc(q, e, u)
  <2>1. Anc(q, e, u) \in SUBSET Ids
    BY <1>2, <1>4
  <2> QED
    BY <1>4, <1>5, <2>1, AncIs
<1> QED
  BY <1>4, <1>6

(* The top of the stack has looked at one more target.                     *)
Turned(st) == <<[Head(st) EXCEPT !.next = @ + 1]>> \o Tail(st)

LEMMA TurnedIs ==
    ASSUME NEW st \in Seq(Frame), st # <<>>
    PROVE  /\ Turned(st) \in Seq(Frame) /\ Len(Turned(st)) = Len(st)
           /\ DOMAIN Turned(st) = DOMAIN st
           /\ \A i \in DOMAIN st : Turned(st)[i].id = st[i].id
           /\ Turned(st)[1].next = st[1].next + 1
           /\ \A i \in DOMAIN st : i # 1 => Turned(st)[i] = st[i]
<1> DEFINE f == [Head(st) EXCEPT !.next = @ + 1]
           r == <<f>> \o Tail(st)
<1>1. /\ Tail(st) \in Seq(Frame) /\ Len(Tail(st)) = Len(st) - 1
      /\ Len(st) \in Nat /\ Len(st) >= 1 /\ DOMAIN st = 1 .. Len(st)
      /\ Head(st) = st[1] /\ st[1] \in Frame
      /\ \A i \in 1 .. Len(st) - 1 : Tail(st)[i] = st[i + 1]
  BY Popped
<1>2. f \in Frame /\ f.id = st[1].id /\ f.next = st[1].next + 1
  BY <1>1 DEF Frame
<1> HIDE DEF f
<1>3. /\ r \in Seq(Frame) /\ Len(r) = Len(Tail(st)) + 1 /\ DOMAIN r = 1 .. Len(Tail(st)) + 1
      /\ r[1] = f /\ \A i \in 1 .. Len(Tail(st)) : r[i + 1] = Tail(st)[i]
  BY <1>1, <1>2, Pushed
<1>4. Turned(st) = r
  BY DEF Turned, f
<1> HIDE DEF r
<1>5. ASSUME NEW i \in DOMAIN st, i # 1 PROVE r[i] = st[i]
  <2>1. i - 1 \in 1 .. Len(st) - 1 /\ i = (i - 1) + 1
    BY <1>1, <1>5
  <2>2. r[(i - 1) + 1] = Tail(st)[i - 1] /\ Tail(st)[i - 1] = st[(i - 1) + 1]
    BY <1>1, <1>3, <2>1
  <2> QED
    BY <2>1, <2>2
<1> QED
  BY <1>1, <1>2, <1>3, <1>4, <1>5

LEMMA TopTarget ==
    ASSUME NEW g, GraphOn(Ids, g), NEW st \in Seq(Frame), st # <<>>,
           Head(st).next < Len(g[Head(st).id].to)
    PROVE  /\ Head(st) = st[1] /\ 1 \in DOMAIN st /\ st[1].id \in Ids /\ st[1].next \in Nat
           /\ g[st[1].id].to \in Seq(Ids)
           /\ Len(g[st[1].id].to) - st[1].next \in DOMAIN g[st[1].id].to
           /\ g[st[1].id].to[Len(g[st[1].id].to) - st[1].next] \in Ids
           /\ Explored(g, st[1].id, st[1].next + 1) =
                  Explored(g, st[1].id, st[1].next)
                      \cup {g[st[1].id].to[Len(g[st[1].id].to) - st[1].next]}
<1>1. Head(st) = st[1] /\ 1 \in DOMAIN st
  BY Popped
<1>2. st[1].id \in Ids /\ st[1].next \in Nat
  BY <1>1, FrameIs
<1>3. g[st[1].id].to \in Seq(Ids)
  BY <1>2 DEF GraphOn
<1>4. Explored(g, st[1].id, st[1].next + 1) =
          Explored(g, st[1].id, st[1].next)
              \cup {g[st[1].id].to[Len(g[st[1].id].to) - st[1].next]}
  BY <1>1, <1>2, <1>3, ExploredNext
<1>5. Len(g[st[1].id].to) - st[1].next \in 1 .. Len(g[st[1].id].to)
  BY <1>1, <1>2, <1>3
<1> QED
  BY <1>1, <1>2, <1>3, <1>4, <1>5

LEMMA ExploreOld ==
    ASSUME NEW g, GraphOn(Ids, g), NEW e \in Ids, NEW st \in Seq(Frame), NEW vis \in SUBSET Ids,
           NEW ord \in Seq(Ids), NEW p \in [Ids -> Ids], Walked(g, e, st, vis, ord, p),
           st # <<>>, Head(st).next < Len(g[Head(st).id].to),
           g[st[1].id].to[Len(g[st[1].id].to) - st[1].next] \in vis
    PROVE  Walked(g, e, Turned(st), vis, ord, p)
<1>0. /\ Tracked(st, vis, ord) /\ Rooted(e, st, ord) /\ Partly(g, st) /\ TreeOf(g, e, st, vis, p)
      /\ Downwards(e, st, ord, p) /\ Forwards(g, e, ord, p) /\ Backwards(g, e, st, ord, p)
      /\ Nested(e, ord, p)
  BY DEF Walked
<1>1. PICK r, u, s : r = Turned(st) /\ u = st[1].id
                     /\ s = g[st[1].id].to[Len(g[st[1].id].to) - st[1].next]
  OBVIOUS
<1>2. /\ Len(r) = Len(st) /\ DOMAIN r = DOMAIN st
      /\ \A i \in DOMAIN st : r[i].id = st[i].id
      /\ r[1].next = st[1].next + 1
      /\ \A i \in DOMAIN st : i # 1 => r[i] = st[i]
  BY <1>1, TurnedIs
<1>3. /\ Head(st) = st[1] /\ 1 \in DOMAIN st /\ u \in Ids /\ st[1].next \in Nat
      /\ g[u].to \in Seq(Ids)
      /\ Explored(g, u, st[1].next + 1) = Explored(g, u, st[1].next) \cup {s}
  BY <1>1, TopTarget
<1>4. DOMAIN st = 1 .. Len(st) /\ Len(st) \in Nat /\ Len(st) \in DOMAIN st
  BY <1>3, FrameIs
<1>5. r # <<>>
  BY <1>2, <1>4
<1>6. Tracked(r, vis, ord)
  <2>1. {r[i].id : i \in DOMAIN r} = {st[i].id : i \in DOMAIN st}
    BY <1>2
  <2>2. vis = {r[i].id : i \in DOMAIN r} \cup {ord[i] : i \in DOMAIN ord}
    BY <1>0, <2>1 DEF Tracked
  <2>3. \A i \in DOMAIN r : \A j \in DOMAIN ord : r[i].id # ord[j]
    BY <1>0, <1>2 DEF Tracked
  <2>4. \A i, j \in DOMAIN r : r[i].id = r[j].id => i = j
    BY <1>0, <1>2 DEF Tracked
  <2>5. \A i, j \in DOMAIN ord : ord[i] = ord[j] => i = j
    BY <1>0 DEF Tracked
  <2> QED
    BY <2>2, <2>3, <2>4, <2>5 DEF Tracked
<1>7. Rooted(e, r, ord)
  BY <1>0, <1>2, <1>4, <1>5 DEF Rooted
<1>8. Partly(g, r)
  <2>1. r[1].next <= Len(g[u].to)
    BY <1>1, <1>2, <1>3
  <2> QED
    BY <1>0, <1>1, <1>2, <2>1 DEF Partly
<1>9. TreeOf(g, e, r, vis, p)
  <2>1. \A i \in 1 .. Len(st) - 1 : i \in DOMAIN st /\ i + 1 \in DOMAIN st
    BY <1>4
  <2> QED
    BY <1>0, <1>2, <2>1 DEF TreeOf
<1>10. Downwards(e, r, ord, p)
  BY <1>0, <1>2 DEF Downwards
<1>11. Backwards(g, e, r, ord, p)
  <2> SUFFICES ASSUME NEW i \in DOMAIN st, NEW x \in Explored(g, r[i].id, r[i].next)
               PROVE  \/ x \in Anc(p, e, r[i].id)
                      \/ \E j \in DOMAIN ord : ord[j] = x
                      \/ i > 1 /\ x = r[i - 1].id
    BY <1>2 DEF Backwards
  <2>1. CASE i = 1
    <3>1. x \in Explored(g, st[1].id, st[1].next) \/ x = s
      BY <1>1, <1>2, <1>3, <2>1
    <3>2. CASE x \in Explored(g, st[1].id, st[1].next)
      <4>1. \/ x \in Anc(p, e, st[1].id)
            \/ \E j \in DOMAIN ord : ord[j] = x
            \/ 1 > 1
        BY <1>0, <1>3, <3>2 DEF Backwards
      <4> QED
        BY <1>2, <1>3, <2>1, <4>1
    <3>3. CASE x = s
      <4>1. (\E j \in DOMAIN st : st[j].id = s) \/ \E j \in DOMAIN ord : ord[j] = s
        BY <1>0, <1>1 DEF Tracked
      <4>2. \A j \in DOMAIN st : st[j].id \in Anc(p, e, st[1].id)
        BY <1>0, StackIsAbove
      <4> QED
        BY <1>2, <1>3, <2>1, <3>3, <4>1, <4>2
    <3> QED
      BY <3>1, <3>2, <3>3
  <2>2. CASE i # 1
    <3>1. i - 1 \in DOMAIN st /\ r[i] = st[i] /\ r[i - 1].id = st[i - 1].id
      BY <1>2, <1>4, <2>2
    <3> QED
      BY <1>0, <3>1 DEF Backwards
  <2> QED
    BY <2>1, <2>2
<1> QED
  BY <1>0, <1>1, <1>6, <1>7, <1>8, <1>9, <1>10, <1>11 DEF Walked

LEMMA ExploreNew ==
    ASSUME NEW g, GraphOn(Ids, g), NEW e \in Ids, NEW st \in Seq(Frame), NEW vis \in SUBSET Ids,
           NEW ord \in Seq(Ids), NEW p \in [Ids -> Ids], Walked(g, e, st, vis, ord, p),
           st # <<>>, Head(st).next < Len(g[Head(st).id].to),
           NEW s \in Ids \ vis, s = g[st[1].id].to[Len(g[st[1].id].to) - st[1].next]
    PROVE  Walked(g, e, <<[id |-> s, next |-> 0]>> \o Turned(st), vis \cup {s}, ord,
                  [p EXCEPT ![s] = st[1].id])
<1>0. /\ Tracked(st, vis, ord) /\ Rooted(e, st, ord) /\ Partly(g, st) /\ TreeOf(g, e, st, vis, p)
      /\ Downwards(e, st, ord, p) /\ Forwards(g, e, ord, p) /\ Backwards(g, e, st, ord, p)
      /\ Nested(e, ord, p)
  BY DEF Walked
<1>1. PICK n, t, u, r, q : n = Len(st) /\ t = Turned(st) /\ u = st[1].id
                     /\ r = <<[id |-> s, next |-> 0]>> \o Turned(st)
                     /\ q = [p EXCEPT ![s] = st[1].id]
  OBVIOUS
<1>2. /\ t \in Seq(Frame) /\ Len(t) = n /\ DOMAIN t = DOMAIN st
      /\ \A i \in DOMAIN st : t[i].id = st[i].id
      /\ t[1].next = st[1].next + 1
      /\ \A i \in DOMAIN st : i # 1 => t[i] = st[i]
  BY <1>1, TurnedIs
<1>3. /\ Head(st) = st[1] /\ 1 \in DOMAIN st /\ u \in Ids /\ st[1].next \in Nat
      /\ g[u].to \in Seq(Ids)
      /\ Len(g[u].to) - st[1].next \in DOMAIN g[u].to
      /\ Explored(g, u, st[1].next + 1) = Explored(g, u, st[1].next) \cup {s}
  BY <1>1, TopTarget
<1>4. DOMAIN st = 1 .. n /\ n \in Nat /\ n >= 1 /\ n \in DOMAIN st
  BY <1>1, <1>3, FrameIs
<1>5. /\ DOMAIN r = 1 .. n + 1 /\ Len(r) = n + 1 /\ r[1].id = s /\ r[1].next = 0
      /\ \A i \in 1 .. n : r[i + 1] = t[i]
  <2>1. [id |-> s, next |-> 0] \in Frame
    BY DEF Frame
  <2>2. r = <<[id |-> s, next |-> 0]>> \o t
    BY <1>1
  <2>3. /\ Len(r) = n + 1 /\ DOMAIN r = 1 .. n + 1 /\ r[1] = [id |-> s, next |-> 0]
        /\ \A i \in 1 .. n : r[i + 1] = t[i]
    BY <1>2, <2>1, <2>2, Pushed
  <2> QED
    BY <2>3
<1>6. \A j \in 1 .. n + 1 : j = 1 \/ (j - 1 \in 1 .. n /\ r[j] = t[j - 1])
  <2> SUFFICES ASSUME NEW j \in 1 .. n + 1, j # 1 PROVE j - 1 \in 1 .. n /\ r[j] = t[j - 1]
    OBVIOUS
  <2>1. j - 1 \in 1 .. n /\ j = (j - 1) + 1
    BY <1>4
  <2> QED
    BY <1>5, <2>1
<1>7. \A i \in 1 .. n : i + 1 \in 1 .. n + 1 /\ r[i + 1].id = st[i].id
  BY <1>2, <1>4, <1>5
<1>8. r # <<>> /\ st # <<>>
  BY <1>4, <1>5
<1>9. e \in vis /\ u \in vis /\ s # e /\ s # u /\ UpShut(p, e, vis)
  <2>1. st[n].id = e
    BY <1>0, <1>1 DEF Rooted
  <2>2. e \in vis /\ u \in vis
    BY <1>0, <1>1, <1>3, <1>4, <2>1 DEF Tracked
  <2>3. UpShut(p, e, vis)
    BY <1>0 DEF TreeOf, UpShut
  <2> QED
    BY <2>2, <2>3
<1>10. q \in [Ids -> Ids] /\ q[s] = u /\ \A x \in vis : q[x] = p[x]
  BY <1>1, <1>3
<1>11. \A x \in vis : Anc(q, e, x) = Anc(p, e, x)
  BY <1>9, <1>10, AncStays
<1>22. \A j \in 1 .. n + 1 : j # 1 => j > 1 /\ j - 1 \in DOMAIN st /\ r[j].id = st[j - 1].id
  <2> SUFFICES ASSUME NEW j \in 1 .. n + 1, j # 1
               PROVE  j > 1 /\ j - 1 \in DOMAIN st /\ r[j].id = st[j - 1].id
    OBVIOUS
  <2>1. j - 1 \in 1 .. n /\ r[j] = t[j - 1]
    BY <1>6
  <2>2. j > 1
    BY <1>4
  <2> QED
    BY <1>2, <1>4, <2>1, <2>2
<1>12. \A j \in DOMAIN ord : ord[j] \in vis
  BY <1>0 DEF Tracked
<1>13. \A i \in 1 .. n : st[i].id \in vis
  BY <1>0, <1>4 DEF Tracked
<1>14. Tracked(r, vis \cup {s}, ord)
  <2>1. \A x \in vis : (\E i \in 1 .. n + 1 : r[i].id = x) \/ \E j \in DOMAIN ord : ord[j] = x
    <3> SUFFICES ASSUME NEW x \in vis
                 PROVE  (\E i \in 1 .. n + 1 : r[i].id = x) \/ \E j \in DOMAIN ord : ord[j] = x
      OBVIOUS
    <3>1. (\E i \in 1 .. n : st[i].id = x) \/ \E j \in DOMAIN ord : ord[j] = x
      BY <1>0, <1>4 DEF Tracked
    <3> QED
      BY <1>7, <3>1
  <2>2. \A i \in 1 .. n + 1 : r[i].id \in vis \cup {s}
    BY <1>4, <1>5, <1>13, <1>22
  <2>3. 1 \in 1 .. n + 1
    BY <1>4
  <2>4. vis \cup {s} = {r[i].id : i \in DOMAIN r} \cup {ord[j] : j \in DOMAIN ord}
    <3>1. \E i \in 1 .. n + 1 : r[i].id = s
      BY <1>5, <2>3
    <3> QED
      <4> DEFINE A == {r[i].id : i \in DOMAIN r}
                 B == {ord[j] : j \in DOMAIN ord}
      <4>1. A \cup B \subseteq vis \cup {s}
        BY <1>5, <1>12, <2>2
      <4>2. s \in A
        BY <1>5, <3>1
      <4>3. \A x \in vis : x \in A \cup B
        BY <1>5, <2>1
      <4> HIDE DEF A, B
      <4>4. vis \cup {s} = A \cup B
        BY <4>1, <4>2, <4>3
      <4> QED
        BY <4>4 DEF A, B
  <2>5. \A i \in 1 .. n + 1 : i # 1 => i - 1 \in DOMAIN st /\ r[i].id = st[i - 1].id
    BY <1>22
  <2>6. \A i \in DOMAIN r : \A j \in DOMAIN ord : r[i].id # ord[j]
    <3> SUFFICES ASSUME NEW i \in 1 .. n + 1, NEW j \in DOMAIN ord PROVE r[i].id # ord[j]
      BY <1>5
    <3>1. CASE i = 1
      BY <1>5, <1>12, <3>1
    <3>2. CASE i # 1
      BY <1>0, <2>5, <3>2 DEF Tracked
    <3> QED
      BY <3>1, <3>2
  <2>7. \A i, j \in DOMAIN r : r[i].id = r[j].id => i = j
    <3> SUFFICES ASSUME NEW i \in 1 .. n + 1, NEW j \in 1 .. n + 1, r[i].id = r[j].id PROVE i = j
      BY <1>5
    <3>1. CASE i = 1 \/ j = 1
      BY <1>4, <1>5, <1>13, <2>5, <3>1
    <3>2. CASE i # 1 /\ j # 1
      <4>1. i - 1 \in DOMAIN st /\ j - 1 \in DOMAIN st /\ st[i - 1].id = st[j - 1].id
        BY <2>5, <3>2
      <4>2. i - 1 = j - 1
        BY <1>0, <4>1 DEF Tracked
      <4> QED
        BY <1>4, <4>2
    <3> QED
      BY <3>1, <3>2
  <2>8. \A i, j \in DOMAIN ord : ord[i] = ord[j] => i = j
    BY <1>0 DEF Tracked
  <2> QED
    BY <2>4, <2>6, <2>7, <2>8 DEF Tracked
<1>15. Rooted(e, r, ord)
  <2>1. st[n].id = e
    BY <1>0, <1>1 DEF Rooted
  <2>2. r[n + 1].id = e
    BY <1>4, <1>7, <2>1
  <2> QED
    BY <1>5, <1>8, <2>2 DEF Rooted
<1>16. Partly(g, r)
  <2> SUFFICES ASSUME NEW j \in 1 .. n + 1 PROVE r[j].next <= Len(g[r[j].id].to)
    BY <1>5 DEF Partly
  <2>1. CASE j = 1
    <3>1. g[s].to \in Seq(Ids)
      BY DEF GraphOn
    <3> QED
      BY <1>5, <2>1, <3>1
  <2>2. CASE j # 1
    <3>1. j - 1 \in DOMAIN st /\ r[j] = t[j - 1] /\ r[j].id = st[j - 1].id
      BY <1>2, <1>4, <1>6, <2>2
    <3>2. CASE j - 1 = 1
      <4>1. st[1].next + 1 <= Len(g[u].to)
        BY <1>1, <1>3
      <4> QED
        BY <1>1, <1>2, <3>1, <3>2, <4>1
    <3>3. CASE j - 1 # 1
      BY <1>0, <1>2, <3>1, <3>3 DEF Partly
    <3> QED
      BY <3>2, <3>3
  <2> QED
    BY <2>1, <2>2
<1>17. TreeOf(g, e, r, vis \cup {s}, q)
  <2>1. ASSUME NEW i \in 1 .. Len(r) - 1 PROVE q[r[i].id] = r[i + 1].id
    <3>1. i \in 1 .. n /\ r[i + 1].id = st[i].id
      BY <1>4, <1>5, <1>7
    <3>2. CASE i = 1
      BY <1>1, <1>5, <1>10, <3>1, <3>2
    <3>3. CASE i # 1
      <4>1. i - 1 \in 1 .. Len(st) - 1 /\ i - 1 \in 1 .. n /\ (i - 1) + 1 = i
        BY <1>1, <1>4, <3>1, <3>3
      <4>2. r[i].id = st[i - 1].id
        BY <1>7, <4>1
      <4>3. p[st[i - 1].id] = st[i].id
        BY <1>0, <4>1 DEF TreeOf
      <4> QED
        BY <1>10, <1>13, <3>1, <4>1, <4>2, <4>3
    <3> QED
      BY <3>2, <3>3
  <2>2. ASSUME NEW x \in (vis \cup {s}) \ {e}
        PROVE  q[x] \in vis \cup {s} /\ \E k \in DOMAIN g[q[x]].to : g[q[x]].to[k] = x
    <3>1. CASE x \in vis
      BY <1>0, <1>10, <3>1 DEF TreeOf
    <3>2. CASE x = s
      <4>1. g[u].to[Len(g[u].to) - st[1].next] = s
        BY <1>1
      <4>2. \E k \in DOMAIN g[u].to : g[u].to[k] = s
        BY <1>3, <4>1
      <4> QED
        BY <1>9, <1>10, <3>2, <4>2
    <3> QED
      BY <3>1, <3>2
  <2> QED
    BY <2>1, <2>2 DEF TreeOf
<1>18. Downwards(e, r, ord, q)
  <2> SUFFICES ASSUME NEW j \in DOMAIN ord, ord[j] # e
               PROVE  \/ \E i \in DOMAIN r : r[i].id = p[ord[j]]
                      \/ \E i \in 1 .. j - 1 : ord[i] = p[ord[j]]
    BY <1>10, <1>12 DEF Downwards
  <2>1. \/ \E i \in 1 .. n : st[i].id = p[ord[j]]
        \/ \E i \in 1 .. j - 1 : ord[i] = p[ord[j]]
    BY <1>0, <1>4 DEF Downwards
  <2> QED
    BY <1>5, <1>7, <2>1
<1>19. Forwards(g, e, ord, q)
  BY <1>0, <1>11, <1>12 DEF Forwards
<1>20. Nested(e, ord, q)
  <2> SUFFICES ASSUME NEW k \in DOMAIN ord, NEW j \in 1 .. k - 1, NEW a \in Anc(q, e, ord[k])
               PROVE  a \in Anc(q, e, ord[j]) \/ \E m \in j + 1 .. k : ord[m] = a
    BY DEF Nested
  <2>1. j \in DOMAIN ord
    BY FrameIs
  <2>2. a \in Anc(p, e, ord[k])
    BY <1>11, <1>12
  <2>3. Anc(q, e, ord[j]) = Anc(p, e, ord[j])
    BY <1>11, <1>12, <2>1
  <2> QED
    BY <1>0, <2>2, <2>3 DEF Nested
<1>21. Backwards(g, e, r, ord, q)
  <2> SUFFICES ASSUME NEW i \in 1 .. n + 1, NEW x \in Explored(g, r[i].id, r[i].next)
               PROVE  \/ x \in Anc(q, e, r[i].id)
                      \/ \E j \in DOMAIN ord : ord[j] = x
                      \/ i > 1 /\ x = r[i - 1].id
    BY <1>5 DEF Backwards
  <2>1. CASE i = 1
    <3>1. g[s].to \in Seq(Ids)
      BY DEF GraphOn
    <3>2. Explored(g, s, 0) = {}
      BY <3>1, ExploredNone
    <3> QED
      BY <1>5, <2>1, <3>2
  <2>2. CASE i # 1
    <3>1. i - 1 \in DOMAIN st /\ r[i] = t[i - 1] /\ r[i].id = st[i - 1].id /\ i > 1
      BY <1>6, <1>22, <2>2
    <3>2. Anc(q, e, r[i].id) = Anc(p, e, st[i - 1].id)
      BY <1>4, <1>11, <1>13, <3>1
    <3>3. CASE i - 1 = 1
      <4>1. x \in Explored(g, u, st[1].next) \/ x = s
        BY <1>1, <1>2, <1>3, <3>1, <3>3
      <4>2. CASE x \in Explored(g, u, st[1].next)
        <5>1. \/ x \in Anc(p, e, st[1].id)
              \/ \E j \in DOMAIN ord : ord[j] = x
              \/ 1 > 1
          BY <1>0, <1>1, <1>3, <4>2 DEF Backwards
        <5> QED
          BY <3>2, <3>3, <5>1
      <4>3. CASE x = s
        BY <1>5, <3>1, <3>3, <4>3
      <4> QED
        BY <4>1, <4>2, <4>3
    <3>4. CASE i - 1 # 1
      <4>1. x \in Explored(g, st[i - 1].id, st[i - 1].next)
        BY <1>2, <3>1, <3>4
      <4>2. \/ x \in Anc(p, e, st[i - 1].id)
            \/ \E j \in DOMAIN ord : ord[j] = x
            \/ x = st[(i - 1) - 1].id
        BY <1>0, <3>1, <4>1 DEF Backwards
      <4>3. (i - 1) - 1 \in 1 .. n /\ ((i - 1) - 1) + 1 = i - 1
        BY <1>4, <3>1, <3>4
      <4>4. r[i - 1].id = st[(i - 1) - 1].id
        BY <1>7, <4>3
      <4> QED
        BY <3>1, <3>2, <4>2, <4>4
    <3> QED
      BY <3>3, <3>4
  <2> QED
    BY <2>1, <2>2
<1> QED
  BY <1>1, <1>14, <1>15, <1>16, <1>17, <1>18, <1>19, <1>20, <1>21 DEF Walked

LEMMA StartWalk ==
    ASSUME NEW g, GraphOn(Ids, g), NEW e \in Ids, NEW p \in [Ids -> Ids]
    PROVE  Walked(g, e, <<[id |-> e, next |-> 0]>>, {e}, <<>>, p)
<1>1. PICK f, st : f = [id |-> e, next |-> 0] /\ st = <<f>>
  OBVIOUS
<1>2. /\ Len(st) = 1 /\ DOMAIN st = {1} /\ st[1] = f /\ st[1].id = e /\ st[1].next = 0
      /\ st # <<>>
  BY <1>1
<1>3. DOMAIN <<>> = {}
  OBVIOUS
<1>4. Tracked(st, {e}, <<>>) /\ Rooted(e, st, <<>>)
  BY <1>2, <1>3 DEF Tracked, Rooted
<1>5. Len(g[e].to) \in Nat /\ g[e].to \in Seq(Ids)
  BY DEF GraphOn
<1>6. Partly(g, st)
  BY <1>2, <1>5 DEF Partly
<1>7. TreeOf(g, e, st, {e}, p)
  <2>1. 1 .. Len(st) - 1 = {}
    BY <1>2
  <2> QED
    BY <2>1 DEF TreeOf
<1>8. Downwards(e, st, <<>>, p) /\ Forwards(g, e, <<>>, p) /\ Nested(e, <<>>, p)
  BY <1>3 DEF Downwards, Forwards, Nested
<1>9. Backwards(g, e, st, <<>>, p)
  <2>1. Explored(g, e, 0) = {}
    BY <1>5, ExploredNone
  <2> QED
    BY <1>2, <2>1 DEF Backwards
<1> QED
  BY <1>1, <1>4, <1>6, <1>7, <1>8, <1>9 DEF Walked

(* While the walk is under way, what it has met is what control reaches,   *)
(* and there is a tree of it.                                              *)
WalkInv ==
    /\ phase \in {"thread", "count", "merge"} => order = <<>>
    /\ phase = "number" =>
           /\ visited \subseteq Reachable(blocks, entry)
           /\ \E p \in [Ids -> Ids] : Walked(blocks, entry, stack, visited, order, p)

LEMMA WalkStarts ==
    ASSUME TypeOK, WalkInv, StartNumbering
    PROVE  WalkInv'
<1>1. /\ phase = "merge" /\ phase' = "number"
      /\ stack' = <<[id |-> entry, next |-> 0]>> /\ visited' = {entry}
      /\ UNCHANGED <<orig, start, blocks, entry, preds, todo, order>>
  BY DEF StartNumbering
<1>2. order' = <<>>
  BY <1>1 DEF WalkInv
<1>3. GraphOn(Ids, blocks) /\ entry \in Ids
  BY <1>1, GoodIsGraph DEF TypeOK
<1>4. PICK p \in [Ids -> Ids] : p = [x \in Ids |-> x]
  OBVIOUS
<1>5. Walked(blocks, entry, stack', visited', order', p)
  BY <1>1, <1>2, <1>3, StartWalk
<1>6. entry \in Reachable(blocks, entry)
  BY <1>3, ReachableIs
<1> QED
  BY <1>1, <1>5, <1>6 DEF WalkInv

LEMMA ExploreStep ==
    ASSUME TypeOK, PassInv, WalkInv, Explore
    PROVE  TypeOK' /\ PassInv' /\ WalkInv'
<1>1. PICK u, s : u = stack[1].id /\ s = blocks[u].to[Len(blocks[u].to) - stack[1].next]
  OBVIOUS
<1>2. stack \in Seq(Frame) /\ stack # <<>> /\ Head(stack) = stack[1]
  BY Popped DEF TypeOK, Frame, Explore
<1>3. /\ phase = "number" /\ phase' = "number"
      /\ stack[1].next < Len(blocks[u].to)
      /\ stack' = IF s \in visited THEN Turned(stack)
                  ELSE <<[id |-> s, next |-> 0]>> \o Turned(stack)
      /\ visited' = visited \cup {s}
      /\ UNCHANGED <<orig, start, blocks, entry, preds, todo, order>>
  BY <1>1, <1>2 DEF Explore, Turned
<1>4. GraphOn(Ids, blocks) /\ entry \in Ids /\ visited \in SUBSET Ids /\ order \in Seq(Ids)
  BY <1>3, GoodIsGraph DEF TypeOK
<1>5. /\ 1 \in DOMAIN stack /\ u \in Ids /\ s \in Ids
      /\ Len(blocks[u].to) - stack[1].next \in DOMAIN blocks[u].to
  <2>1. Head(stack).next < Len(blocks[Head(stack).id].to)
    BY <1>1, <1>2, <1>3
  <2> QED
    BY <1>1, <1>2, <1>4, <2>1, TopTarget
<1>6. Turned(stack) \in Seq(Frame)
  BY <1>2, TurnedIs
<1>7. stack' \in Seq(Frame)
  <2>1. [id |-> s, next |-> 0] \in Frame
    BY <1>5 DEF Frame
  <2>2. <<[id |-> s, next |-> 0]>> \o Turned(stack) \in Seq(Frame)
    BY <1>6, <2>1, Pushed
  <2> QED
    BY <1>3, <1>6, <2>2
<1>8. TypeOK'
  BY <1>3, <1>4, <1>5, <1>7 DEF TypeOK, Frame, GoodGraph
<1>9. PassInv'
  BY <1>3 DEF PassInv, SameRuns
<1>10. PICK p \in [Ids -> Ids] : Walked(blocks, entry, stack, visited, order, p)
  BY <1>3 DEF WalkInv
<1>11. visited' \subseteq Reachable(blocks, entry)
  <2>1. u \in visited
    BY <1>1, <1>5, <1>10 DEF Walked, Tracked
  <2>2. visited \subseteq Reachable(blocks, entry) /\ Closed(blocks, Reachable(blocks, entry))
    BY <1>3, <1>4, ReachableIs DEF WalkInv
  <2>3. s \in Reachable(blocks, entry)
    BY <1>1, <1>5, <2>1, <2>2 DEF Closed
  <2> QED
    BY <1>3, <2>2, <2>3
<1>12. \E q \in [Ids -> Ids] : Walked(blocks, entry, stack', visited', order, q)
  <2>1. Head(stack).next < Len(blocks[Head(stack).id].to)
    BY <1>1, <1>2, <1>3
  <2>2. s = blocks[stack[1].id].to[Len(blocks[stack[1].id].to) - stack[1].next]
    BY <1>1
  <2>3. CASE s \in visited
    <3>1. visited' = visited /\ stack' = Turned(stack)
      BY <1>3, <2>3
    <3>2. Walked(blocks, entry, Turned(stack), visited, order, p)
      BY <1>2, <1>4, <1>10, <2>1, <2>2, <2>3, ExploreOld
    <3> QED
      BY <3>1, <3>2
  <2>4. CASE s \notin visited
    <3>1. PICK q : q = [p EXCEPT ![s] = stack[1].id]
      OBVIOUS
    <3>2. q \in [Ids -> Ids]
      BY <1>1, <1>5, <3>1
    <3>3. s \in Ids \ visited
      BY <1>5, <2>4
    <3>4. Walked(blocks, entry, <<[id |-> s, next |-> 0]>> \o Turned(stack),
                 visited \cup {s}, order, q)
      BY <1>2, <1>4, <1>10, <2>1, <2>2, <3>1, <3>3, ExploreNew
    <3> QED
      BY <1>3, <2>4, <3>2, <3>4
  <2> QED
    BY <2>3, <2>4
<1>13. WalkInv'
  BY <1>3, <1>11, <1>12 DEF WalkInv
<1> QED
  BY <1>8, <1>9, <1>13

LEMMA LeaveStep ==
    ASSUME TypeOK, PassInv, WalkInv, Leave
    PROVE  TypeOK' /\ PassInv' /\ WalkInv'
<1>1. /\ phase = "number" /\ phase' = "number" /\ stack # <<>>
      /\ Head(stack).next = Len(blocks[Head(stack).id].to)
      /\ order' = <<Head(stack).id>> \o order /\ stack' = Tail(stack)
      /\ UNCHANGED <<orig, start, blocks, entry, preds, todo, visited>>
  BY DEF Leave
<1>2. stack \in Seq(Frame) /\ Tail(stack) \in Seq(Frame) /\ Head(stack) = stack[1] /\ stack[1] \in Frame
  BY <1>1, Popped DEF TypeOK, Frame
<1>3. GraphOn(Ids, blocks) /\ entry \in Ids /\ visited \in SUBSET Ids /\ order \in Seq(Ids)
  BY <1>1, GoodIsGraph DEF TypeOK
<1>4. Head(stack).id \in Ids
  BY <1>2 DEF Frame
<1>5. <<Head(stack).id>> \o order \in Seq(Ids)
  BY <1>3, <1>4, Pushed
<1>6. TypeOK'
  BY <1>1, <1>2, <1>3, <1>5 DEF TypeOK, Frame, GoodGraph
<1>7. PassInv'
  BY <1>1 DEF PassInv, SameRuns
<1>8. PICK p \in [Ids -> Ids] : Walked(blocks, entry, stack, visited, order, p)
  BY <1>1 DEF WalkInv
<1>9. Walked(blocks, entry, Tail(stack), visited, <<Head(stack).id>> \o order, p)
  BY <1>1, <1>2, <1>3, <1>8, LeaveWalk
<1>10. WalkInv'
  BY <1>1, <1>9 DEF WalkInv
<1> QED
  BY <1>6, <1>7, <1>10

-----------------------------------------------------------------------------
(* `renumber`: the blocks in the order of the walk, under their new        *)
(* numbers.                                                                *)

(* The block that comes by the number i.                                   *)
Old(ord, i) == ord[i + 1]

(* The n numbers go to the blocks of vis, one each, the first to the entry.*)
Placed(e, vis, ord, n) ==
    /\ n \in 1 .. N
    /\ \A i \in 0 .. n - 1 : Old(ord, i) \in vis
    /\ \A b \in vis : \E i \in 0 .. n - 1 : Old(ord, i) = b
    /\ \A i, j \in 0 .. n - 1 : Old(ord, i) = Old(ord, j) => i = j
    /\ Old(ord, 0) = e

LEMMA OrderIs ==
    ASSUME NEW g, GraphOn(Ids, g), NEW e \in Ids, NEW vis \in SUBSET Ids, NEW ord \in Seq(Ids),
           NEW p \in [Ids -> Ids], Walked(g, e, <<>>, vis, ord, p)
    PROVE  /\ Placed(e, vis, ord, Len(ord)) /\ e \in vis /\ UpShut(p, e, vis)
           /\ Closed(g, vis)
<1>0. /\ Tracked(<<>>, vis, ord) /\ Rooted(e, <<>>, ord) /\ TreeOf(g, e, <<>>, vis, p)
      /\ Forwards(g, e, ord, p)
  BY DEF Walked
<1>1. PICK n : n = Len(ord)
  OBVIOUS
<1>2. n \in Nat /\ DOMAIN ord = 1 .. n /\ \A j \in 1 .. n : ord[j] \in Ids
  BY <1>1
<1>3. n >= 1 /\ ord[1] = e
  BY <1>0, <1>1, <1>2 DEF Rooted
<1>4. vis = {ord[j] : j \in 1 .. n}
  <2>1. DOMAIN <<>> = {}
    OBVIOUS
  <2> QED
    BY <1>0, <1>2, <2>1 DEF Tracked
<1>5. \A i, j \in 1 .. n : ord[i] = ord[j] => i = j
  BY <1>0, <1>2 DEF Tracked
<1>6. n <= N
  <2> SUFFICES ASSUME n > N PROVE FALSE
    BY <1>2, BlocksAssumption
  <2> DEFINE f == [j \in 1 .. n |-> ord[j]]
  <2>1. f \in [1 .. n -> Ids]
    BY <1>2
  <2>2. IsFiniteSet(1 .. n) /\ Cardinality(1 .. n) = n
    <3>1. 1 \in Int /\ n \in Int /\ ~(1 > n) /\ n - 1 + 1 = n
      BY <1>2, <1>3
    <3> QED
      BY <3>1, FS_Interval
  <2>3. IsFiniteSet(Ids) /\ Cardinality(Ids) < Cardinality(1 .. n)
    BY <2>2, IdsFinite
  <2>4. \E i, j \in 1 .. n : i # j /\ f[i] = f[j]
    <3> HIDE DEF f
    <3> QED
      BY <2>1, <2>2, <2>3, FS_PigeonHole
  <2> QED
    BY <1>5, <2>4
<1>7. Placed(e, vis, ord, n)
  <2>1. \A i \in 0 .. n - 1 : i + 1 \in 1 .. n
    BY <1>2
  <2>2. \A b \in vis : \E i \in 0 .. n - 1 : ord[i + 1] = b
    <3> SUFFICES ASSUME NEW j \in 1 .. n PROVE \E i \in 0 .. n - 1 : ord[i + 1] = ord[j]
      BY <1>4
    <3>1. j - 1 \in 0 .. n - 1 /\ (j - 1) + 1 = j
      BY <1>2
    <3> QED
      BY <3>1
  <2>3. ASSUME NEW i \in 0 .. n - 1, NEW j \in 0 .. n - 1, ord[i + 1] = ord[j + 1] PROVE i = j
    <3>1. i + 1 = j + 1
      BY <1>5, <2>1, <2>3
    <3> QED
      BY <3>1, <1>2
  <2>4. n \in 1 .. N
    BY <1>2, <1>3, <1>6, BlocksAssumption
  <2>5. ord[0 + 1] = e
    BY <1>3
  <2> QED
    BY <1>4, <2>1, <2>2, <2>3, <2>4, <2>5 DEF Placed, Old
<1>8. e \in vis
  BY <1>2, <1>3, <1>4
<1>9. UpShut(p, e, vis)
  BY <1>0 DEF TreeOf, UpShut
<1>10. Closed(g, vis)
  <2> SUFFICES ASSUME NEW j \in 1 .. n, NEW k \in DOMAIN g[ord[j]].to PROVE g[ord[j]].to[k] \in vis
    BY <1>4 DEF Closed
  <2>1. Anc(p, e, ord[j]) \subseteq vis
    BY <1>2, <1>4, <1>9, AncIs
  <2>2. g[ord[j]].to[k] \in Anc(p, e, ord[j]) \/ \E i \in DOMAIN ord : ord[i] = g[ord[j]].to[k]
    BY <1>0, <1>2 DEF Forwards
  <2> QED
    BY <1>2, <1>4, <2>1, <2>2
<1> QED
  BY <1>1, <1>7, <1>8, <1>9, <1>10

(* h is g under the new numbers.                                           *)
Renamed(g, h, ord, n) ==
    /\ DOMAIN h = 0 .. n - 1
    /\ \A i \in 0 .. n - 1 :
           /\ h[i].stmts = g[Old(ord, i)].stmts
           /\ h[i].jump = g[Old(ord, i)].jump
           /\ h[i].who = g[Old(ord, i)].who
           /\ h[i].to \in Seq(0 .. n - 1)
           /\ Len(h[i].to) = Len(g[Old(ord, i)].to)
           /\ DOMAIN h[i].to = DOMAIN g[Old(ord, i)].to
           /\ \A k \in DOMAIN h[i].to : Old(ord, h[i].to[k]) = g[Old(ord, i)].to[k]

LEMMA RenamedGraph ==
    ASSUME NEW g, GraphOn(Ids, g), NEW e, NEW vis \in SUBSET Ids, NEW ord, NEW n,
           Placed(e, vis, ord, n), NEW h, Renamed(g, h, ord, n)
    PROVE  GraphOn(0 .. n - 1, h)
<1>1. n \in Nat /\ n >= 1 /\ n <= N
  BY BlocksAssumption DEF Placed
<1>2. IsFiniteSet(0 .. n - 1) /\ Cardinality(0 .. n - 1) = n
  <2>1. 0 \in Int /\ n - 1 \in Int /\ ~(0 > n - 1) /\ (n - 1) - 0 + 1 = n
    BY <1>1
  <2> QED
    BY <2>1, FS_Interval
<1>3. 0 .. n - 1 \in SUBSET Nat
  BY <1>1
<1>4. \A i \in 0 .. n - 1 : Old(ord, i) \in Ids
  BY DEF Placed
<1>5. ASSUME NEW i \in 0 .. n - 1
      PROVE  h[i].jump \in BOOLEAN /\ h[i].to \in Seq(0 .. n - 1) /\ (h[i].jump => Len(h[i].to) = 1)
  <2>1. g[Old(ord, i)].jump \in BOOLEAN /\ (g[Old(ord, i)].jump => Len(g[Old(ord, i)].to) = 1)
    BY <1>4 DEF GraphOn
  <2> QED
    BY <2>1 DEF Renamed
<1>6. DOMAIN h = 0 .. n - 1
  BY DEF Renamed
<1> QED
  BY <1>1, <1>2, <1>3, <1>5, <1>6 DEF GraphOn

LEMMA RenamedOnward ==
    ASSUME NEW g, GraphOn(Ids, g), NEW e, NEW vis \in SUBSET Ids, NEW ord, NEW n,
           Placed(e, vis, ord, n), NEW h, Renamed(g, h, ord, n), NEW i \in 0 .. n - 1
    PROVE  /\ Skips(h, i) <=> Skips(g, Old(ord, i))
           /\ Old(ord, Onward(h, i)) = Onward(g, Old(ord, i))
           /\ Onward(h, i) \in 0 .. n - 1
<1>1. GraphOn(0 .. n - 1, h)
  BY RenamedGraph
<1>2. Skips(h, i) <=> Skips(g, Old(ord, i))
  BY DEF Skips, Renamed
<1>3. Skips(h, i) => 1 \in DOMAIN h[i].to
  BY <1>1 DEF Skips, GraphOn
<1>4. Skips(h, i) => Old(ord, h[i].to[1]) = g[Old(ord, i)].to[1]
  BY <1>3 DEF Renamed
<1>5. Old(ord, Onward(h, i)) = Onward(g, Old(ord, i))
  BY <1>2, <1>4 DEF Onward
<1> QED
  BY <1>1, <1>2, <1>5, OnwardType

LEMMA RenamedFirst ==
    ASSUME NEW g, GraphOn(Ids, g), NEW e, NEW vis \in SUBSET Ids, NEW ord, NEW n,
           Placed(e, vis, ord, n), NEW h, Renamed(g, h, ord, n), NEW i \in 0 .. n - 1
    PROVE  First(h, i) = First(g, Old(ord, i))
<1>1. GraphOn(0 .. n - 1, h) /\ Old(ord, i) \in Ids
  BY RenamedGraph DEF Placed
<1>2. PICK W, V : W = Way(g, Old(ord, i)) /\ V = Way(h, i)
  OBVIOUS
<1>3. /\ W \subseteq Ids /\ Old(ord, i) \in W /\ Shut(g, W)
      /\ V \subseteq 0 .. n - 1 /\ i \in V /\ Shut(h, V)
  <2>1. W \subseteq Ids /\ Old(ord, i) \in W /\ Shut(g, W)
    BY <1>1, <1>2, WayShut
  <2>2. V \subseteq 0 .. n - 1 /\ i \in V /\ Shut(h, V)
    BY <1>1, <1>2, WayShut
  <2> QED
    BY <2>1, <2>2
<1>4. CASE \E c \in V : ~Skips(h, c)
  <2>1. PICK c \in V : ~Skips(h, c)
    BY <1>4
  <2> DEFINE S == {y \in 0 .. n - 1 : Old(ord, y) \in W}
  <2>2. i \in S
    BY <1>3
  <2>3. Shut(h, S)
    <3> SUFFICES ASSUME NEW y \in 0 .. n - 1, Old(ord, y) \in W
                 PROVE  Onward(h, y) \in 0 .. n - 1 /\ Old(ord, Onward(h, y)) \in W
      BY DEF Shut
    <3>1. Onward(h, y) \in 0 .. n - 1 /\ Old(ord, Onward(h, y)) = Onward(g, Old(ord, y))
      BY RenamedOnward
    <3> QED
      BY <1>3, <3>1 DEF Shut
  <2>4. V \subseteq S
    <3> HIDE DEF S
    <3> QED
      BY <1>1, <1>2, <2>2, <2>3, WayLeast
  <2>5. c \in 0 .. n - 1 /\ Old(ord, c) \in W /\ ~Skips(g, Old(ord, c))
    BY <1>3, <2>1, <2>4, RenamedOnward
  <2>6. Settles(h, i) = c
    BY <1>1, <1>2, <2>1, SettlesAt
  <2>7. Settles(g, Old(ord, i)) = Old(ord, c)
    BY <1>1, <1>2, <2>5, SettlesAt
  <2>8. c # NoBlock /\ Old(ord, c) # NoBlock
    <3>1. Old(ord, c) \in Ids
      BY <1>3, <2>5
    <3>2. \A x \in Ids : x # NoBlock
      BY BlocksAssumption DEF Ids, NoBlock
    <3>3. \A x \in 0 .. n - 1 : x # NoBlock
      BY BlocksAssumption DEF Placed, NoBlock
    <3> QED
      BY <2>5, <3>1, <3>2, <3>3
  <2>9. h[c].stmts = g[Old(ord, c)].stmts /\ h[c].who = g[Old(ord, c)].who
    BY <2>5 DEF Renamed
  <2> QED
    BY <2>6, <2>7, <2>8, <2>9 DEF First
<1>5. CASE \A c \in V : Skips(h, c)
  <2> DEFINE S == {Old(ord, y) : y \in V}
  <2>1. Shut(g, S)
    <3> SUFFICES ASSUME NEW y \in V PROVE \E z \in V : Onward(g, Old(ord, y)) = Old(ord, z)
      BY DEF Shut
    <3>1. y \in 0 .. n - 1 /\ Onward(h, y) \in V
      BY <1>3 DEF Shut
    <3>2. Old(ord, Onward(h, y)) = Onward(g, Old(ord, y))
      BY <3>1, RenamedOnward
    <3> QED
      BY <3>1, <3>2
  <2>2. Old(ord, i) \in S
    BY <1>3
  <2>3. W \subseteq S
    <3> HIDE DEF S
    <3> QED
      BY <1>1, <1>2, <2>1, <2>2, WayLeast
  <2>4. \A x \in W : Skips(g, x)
    <3> SUFFICES ASSUME NEW x \in W PROVE Skips(g, x)
      OBVIOUS
    <3>1. PICK y \in V : x = Old(ord, y)
      BY <2>3
    <3> QED
      BY <1>3, <1>5, <3>1, RenamedOnward
  <2>5. Settles(h, i) = NoBlock
    BY <1>1, <1>2, <1>5, SettlesNowhere
  <2>6. Settles(g, Old(ord, i)) = NoBlock
    BY <1>1, <1>2, <2>4, SettlesNowhere
  <2> QED
    BY <2>5, <2>6 DEF First
<1> QED
  BY <1>4, <1>5

LEMMA TargetIn ==
    ASSUME NEW B, NEW g, GraphOn(B, g), NEW u \in B, NEW k \in DOMAIN g[u].to
    PROVE  g[u].to[k] \in B
BY DEF GraphOn

LEMMA RenamedSame ==
    ASSUME NEW o, GraphOn(Ids, o), NEW g, GraphOn(Ids, g), NEW e, NEW vis \in SUBSET Ids,
           NEW ord, NEW n, Placed(e, vis, ord, n), NEW h, Renamed(g, h, ord, n),
           NEW i \in 0 .. n - 1, g[Old(ord, i)].who \in Ids \cup {NoBlock}, Same(o, g, Old(ord, i))
    PROVE  Same(o, h, i)
<1>1. PICK y : y = Old(ord, i)
  OBVIOUS
<1>2. /\ h[i].stmts = g[y].stmts /\ h[i].jump = g[y].jump /\ h[i].who = g[y].who
      /\ Len(h[i].to) = Len(g[y].to) /\ DOMAIN h[i].to = DOMAIN g[y].to
  BY <1>1 DEF Renamed
<1>3. y \in Ids /\ Same(o, g, y) /\ g[y].who \in Ids \cup {NoBlock}
  BY <1>1 DEF Placed
<1>4. \A k \in DOMAIN g[y].to : First(h, h[i].to[k]) = First(g, g[y].to[k])
  <2> SUFFICES ASSUME NEW k \in DOMAIN h[i].to
               PROVE  First(h, h[i].to[k]) = First(g, g[y].to[k])
    BY <1>2
  <2>1. h[i].to[k] \in 0 .. n - 1
    <3>1. GraphOn(0 .. n - 1, h)
      BY RenamedGraph
    <3> QED
      BY <3>1, TargetIn
  <2>2. Old(ord, h[i].to[k]) = g[y].to[k]
    BY <1>1 DEF Renamed
  <2> QED
    BY <2>1, <2>2, RenamedFirst
<1>5. SameStatements(o, h, i)
  BY <1>2, <1>3 DEF Same, SameStatements
<1>6. SameJump(o, h, i)
  <2>1. g[y].jump => 1 \in DOMAIN g[y].to
    <3>1. g[y].to \in Seq(Ids) /\ (g[y].jump => Len(g[y].to) = 1)
      BY <1>3 DEF GraphOn
    <3> QED
      BY <3>1
  <2> QED
    BY <1>2, <1>3, <1>4, <2>1 DEF Same, SameJump
<1>7. SameChoice(o, h, i)
  <2>1. ASSUME ~g[y].jump
        PROVE  DOMAIN o[g[y].who].to = DOMAIN g[y].to
    <3>1. g[y].who \in Ids /\ Len(o[g[y].who].to) = Len(g[y].to)
      BY <1>3, <2>1 DEF Same, SameChoice
    <3> QED
      BY <1>3, <3>1 DEF GraphOn
  <2> QED
    BY <1>2, <1>3, <1>4, <2>1 DEF Same, SameChoice
<1> QED
  BY <1>5, <1>6, <1>7 DEF Same

LEMMA RenamedReaches ==
    ASSUME NEW g, GraphOn(Ids, g), NEW e \in Ids, NEW vis \in SUBSET Ids, NEW ord, NEW n,
           Placed(e, vis, ord, n), vis \subseteq Reachable(g, e),
           NEW h, Renamed(g, h, ord, n)
    PROVE  Reachable(h, 0) = 0 .. n - 1
<1>1. GraphOn(0 .. n - 1, h)
  BY RenamedGraph
<1>2. n \in Nat /\ 0 \in 0 .. n - 1
  BY BlocksAssumption DEF Placed
<1>3. PICK R : R = Reachable(h, 0)
  OBVIOUS
<1>4. R \subseteq 0 .. n - 1 /\ 0 \in R /\ Closed(h, R)
  BY <1>1, <1>2, <1>3, ReachableIs
<1> DEFINE S == {Old(ord, i) : i \in R}
<1>5. S \in SUBSET Ids /\ e \in S
  BY <1>4 DEF Placed
<1>6. Closed(g, S)
  <2> SUFFICES ASSUME NEW i \in R, NEW k \in DOMAIN g[Old(ord, i)].to
               PROVE  \E j \in R : g[Old(ord, i)].to[k] = Old(ord, j)
    BY DEF Closed
  <2>1. i \in 0 .. n - 1 /\ k \in DOMAIN h[i].to
    BY <1>4 DEF Renamed
  <2>2. h[i].to[k] \in R
    BY <1>4, <2>1 DEF Closed
  <2>3. Old(ord, h[i].to[k]) = g[Old(ord, i)].to[k]
    BY <2>1 DEF Renamed
  <2> QED
    BY <2>2, <2>3
<1>7. Reachable(g, e) \subseteq S
  <2> HIDE DEF S
  <2> QED
    BY <1>5, <1>6, ReachableIs
<1>8. 0 .. n - 1 \subseteq R
  <2> SUFFICES ASSUME NEW i \in 0 .. n - 1 PROVE i \in R
    OBVIOUS
  <2>1. Old(ord, i) \in S
    BY <1>7 DEF Placed
  <2>2. PICK j \in R : Old(ord, i) = Old(ord, j)
    BY <2>1
  <2>3. i = j
    BY <1>4, <2>2 DEF Placed
  <2> QED
    BY <2>3
<1> QED
  BY <1>3, <1>4, <1>8

(* What the walk leaves of its tree, by the new numbers.                   *)
Treed(g, e, ord, p, n) ==
    /\ \A v \in 1 .. n - 1 : \E i \in 0 .. v - 1 : Old(ord, i) = p[Old(ord, v)]
    /\ \A v \in 1 .. n - 1 :
           \E k \in DOMAIN g[p[Old(ord, v)]].to : g[p[Old(ord, v)]].to[k] = Old(ord, v)
    /\ \A u \in 0 .. n - 1 : \A k \in DOMAIN g[Old(ord, u)].to :
           \/ g[Old(ord, u)].to[k] \in Anc(p, e, Old(ord, u))
           \/ \E i \in u + 1 .. n - 1 : Old(ord, i) = g[Old(ord, u)].to[k]
    /\ \A u \in 0 .. n - 1 : \A w \in 0 .. u - 1 : \A a \in Anc(p, e, Old(ord, u)) :
           \/ a \in Anc(p, e, Old(ord, w))
           \/ \E i \in w + 1 .. u : Old(ord, i) = a

LEMMA TreeIs ==
    ASSUME NEW g, GraphOn(Ids, g), NEW e \in Ids, NEW vis \in SUBSET Ids, NEW ord \in Seq(Ids),
           NEW p \in [Ids -> Ids], Walked(g, e, <<>>, vis, ord, p)
    PROVE  Treed(g, e, ord, p, Len(ord))
<1>0. /\ TreeOf(g, e, <<>>, vis, p) /\ Downwards(e, <<>>, ord, p)
      /\ Forwards(g, e, ord, p) /\ Nested(e, ord, p)
  BY DEF Walked
<1>1. PICK n : n = Len(ord)
  OBVIOUS
<1>2. n \in Nat /\ DOMAIN ord = 1 .. n
  BY <1>1
<1>3. Placed(e, vis, ord, n)
  BY <1>1, OrderIs
<1>4. \A v \in 1 .. n - 1 : v \in 0 .. n - 1 /\ v # 0 /\ v + 1 \in 1 .. n
  BY <1>2
<1>5. \A v \in 1 .. n - 1 : Old(ord, v) # e
  <2> SUFFICES ASSUME NEW v \in 1 .. n - 1 PROVE Old(ord, v) # e
    OBVIOUS
  <2>1. v \in 0 .. n - 1 /\ 0 \in 0 .. n - 1 /\ v # 0
    BY <1>2
  <2> QED
    BY <1>3, <2>1 DEF Placed
<1>6. ASSUME NEW v \in 1 .. n - 1
      PROVE  \E i \in 0 .. v - 1 : Old(ord, i) = p[Old(ord, v)]
  <2>1. v + 1 \in DOMAIN ord /\ ord[v + 1] # e /\ DOMAIN <<>> = {}
    BY <1>2, <1>4, <1>5 DEF Old
  <2>2. PICK i \in 1 .. (v + 1) - 1 : ord[i] = p[ord[v + 1]]
    BY <1>0, <2>1 DEF Downwards
  <2>3. i - 1 \in 0 .. v - 1 /\ (i - 1) + 1 = i
    OBVIOUS
  <2> QED
    BY <2>2, <2>3 DEF Old
<1>7. ASSUME NEW v \in 1 .. n - 1
      PROVE  \E k \in DOMAIN g[p[Old(ord, v)]].to : g[p[Old(ord, v)]].to[k] = Old(ord, v)
  <2>1. Old(ord, v) \in vis \ {e}
    BY <1>3, <1>4, <1>5 DEF Placed
  <2> QED
    BY <1>0, <2>1 DEF TreeOf
<1>8. ASSUME NEW u \in 0 .. n - 1, NEW k \in DOMAIN g[Old(ord, u)].to
      PROVE  \/ g[Old(ord, u)].to[k] \in Anc(p, e, Old(ord, u))
             \/ \E i \in u + 1 .. n - 1 : Old(ord, i) = g[Old(ord, u)].to[k]
  <2>1. u + 1 \in DOMAIN ord
    BY <1>2
  <2>2. \/ g[ord[u + 1]].to[k] \in Anc(p, e, ord[u + 1])
        \/ \E i \in DOMAIN ord : i > u + 1 /\ ord[i] = g[ord[u + 1]].to[k]
    BY <1>0, <2>1 DEF Forwards, Old
  <2>3. ASSUME NEW i \in DOMAIN ord, i > u + 1
        PROVE  i - 1 \in u + 1 .. n - 1 /\ Old(ord, i - 1) = ord[i]
    <3>1. i - 1 \in u + 1 .. n - 1 /\ (i - 1) + 1 = i
      BY <1>2, <2>3
    <3> QED
      BY <3>1 DEF Old
  <2> QED
    BY <2>2, <2>3 DEF Old
<1>9. ASSUME NEW u \in 0 .. n - 1, NEW w \in 0 .. u - 1, NEW a \in Anc(p, e, Old(ord, u))
      PROVE  \/ a \in Anc(p, e, Old(ord, w))
             \/ \E i \in w + 1 .. u : Old(ord, i) = a
  <2>1. u + 1 \in DOMAIN ord /\ w + 1 \in 1 .. (u + 1) - 1
    BY <1>2
  <2>2. \/ a \in Anc(p, e, ord[w + 1])
        \/ \E i \in (w + 1) + 1 .. u + 1 : ord[i] = a
    BY <1>0, <2>1 DEF Nested, Old
  <2>3. ASSUME NEW i \in (w + 1) + 1 .. u + 1
        PROVE  i - 1 \in w + 1 .. u /\ Old(ord, i - 1) = ord[i]
    <3>1. i - 1 \in w + 1 .. u /\ (i - 1) + 1 = i
      BY <1>2
    <3> QED
      BY <3>1 DEF Old
  <2> QED
    BY <2>2, <2>3 DEF Old
<1> QED
  BY <1>1, <1>6, <1>7, <1>8, <1>9 DEF Treed

(* A block is above another one in the tree of the new numbers where it is *)
(* above it in the tree of the walk.                                       *)
Over(n, parent, v) ==
    {u \in 0 .. n - 1 : \A S \in SUBSET (0 .. n - 1) :
        v \in S /\ (\A x \in S \ {0} : parent[x] \in S) => u \in S}

TreeOfNumbers(ord, p, n, parent) ==
    /\ parent \in [1 .. n - 1 -> 0 .. n - 1]
    /\ \A v \in 1 .. n - 1 : parent[v] < v /\ Old(ord, parent[v]) = p[Old(ord, v)]

LEMMA NumbersTree ==
    ASSUME NEW e \in Ids, NEW vis \in SUBSET Ids, NEW ord, NEW n, Placed(e, vis, ord, n),
           NEW g, NEW p \in [Ids -> Ids], Treed(g, e, ord, p, n)
    PROVE  \E parent : TreeOfNumbers(ord, p, n, parent)
<1>1. n \in Nat
  BY BlocksAssumption DEF Placed
<1>2. \A v \in 1 .. n - 1 : \E i \in 0 .. v - 1 : Old(ord, i) = p[Old(ord, v)]
  BY DEF Treed
<1> DEFINE parent == [v \in 1 .. n - 1 |-> CHOOSE i \in 0 .. v - 1 : Old(ord, i) = p[Old(ord, v)]]
<1>3. ASSUME NEW v \in 1 .. n - 1
      PROVE  parent[v] \in 0 .. v - 1 /\ Old(ord, parent[v]) = p[Old(ord, v)]
  BY <1>2
<1>4. ASSUME NEW v \in 1 .. n - 1, NEW i \in 0 .. v - 1
      PROVE  i \in 0 .. n - 1 /\ i < v
  BY <1>1
<1> QED
  BY <1>3, <1>4 DEF TreeOfNumbers

LEMMA OverIs ==
    ASSUME NEW e \in Ids, NEW vis \in SUBSET Ids, NEW ord, NEW n, Placed(e, vis, ord, n),
           NEW p \in [Ids -> Ids], NEW parent, TreeOfNumbers(ord, p, n, parent),
           NEW v \in 0 .. n - 1, NEW u \in 0 .. n - 1
    PROVE  u \in Over(n, parent, v) <=> Old(ord, u) \in Anc(p, e, Old(ord, v))
<1>0. n \in Nat /\ 0 \in 0 .. n - 1
  BY BlocksAssumption DEF Placed
<1>1. \A x \in 0 .. n - 1 : Old(ord, x) \in Ids
  BY DEF Placed
<1>2. \A x \in 0 .. n - 1 : Old(ord, x) = e => x = 0
  BY <1>0 DEF Placed
<1>3. Old(ord, 0) = e
  BY DEF Placed
<1>4. \A x \in 0 .. n - 1 :
          x # 0 => /\ parent[x] \in 0 .. n - 1
                   /\ Old(ord, parent[x]) = p[Old(ord, x)]
  <2>1. \A x \in 0 .. n - 1 : x # 0 => x \in 1 .. n - 1
    BY <1>0
  <2> QED
    BY <2>1 DEF TreeOfNumbers
<1>5. /\ Old(ord, v) \in Anc(p, e, Old(ord, v)) /\ UpShut(p, e, Anc(p, e, Old(ord, v)))
      /\ \A S \in SUBSET Ids : Old(ord, v) \in S /\ UpShut(p, e, S) => Anc(p, e, Old(ord, v)) \subseteq S
  BY <1>1, AncIs
<1>6. ASSUME u \in Over(n, parent, v) PROVE Old(ord, u) \in Anc(p, e, Old(ord, v))
  <2> DEFINE S == {y \in 0 .. n - 1 : Old(ord, y) \in Anc(p, e, Old(ord, v))}
  <2>1. v \in S /\ S \in SUBSET (0 .. n - 1)
    BY <1>5
  <2>2. ASSUME NEW x \in S \ {0} PROVE parent[x] \in S
    <3>1. Old(ord, x) # e
      BY <1>2
    <3>2. p[Old(ord, x)] \in Anc(p, e, Old(ord, v))
      BY <1>5, <3>1 DEF UpShut
    <3> QED
      BY <1>4, <3>2
  <2>3. u \in S
    <3> HIDE DEF S
    <3> QED
      BY <1>6, <2>1, <2>2 DEF Over
  <2> QED
    BY <2>3
<1>7. ASSUME Old(ord, u) \in Anc(p, e, Old(ord, v)) PROVE u \in Over(n, parent, v)
  <2> SUFFICES ASSUME NEW S \in SUBSET (0 .. n - 1), v \in S,
                      \A x \in S \ {0} : parent[x] \in S
               PROVE  u \in S
    BY DEF Over
  <2> DEFINE T == {Old(ord, y) : y \in S}
  <2>1. T \in SUBSET Ids /\ Old(ord, v) \in T
    BY <1>1
  <2>2. UpShut(p, e, T)
    <3> SUFFICES ASSUME NEW y \in S, Old(ord, y) # e PROVE \E z \in S : p[Old(ord, y)] = Old(ord, z)
      BY DEF UpShut
    <3>1. y \in 0 .. n - 1 /\ y # 0
      BY <1>3
    <3> QED
      BY <1>4, <3>1
  <2>3. Old(ord, u) \in T
    <3> HIDE DEF T
    <3> QED
      BY <1>5, <1>7, <2>1, <2>2
  <2>4. PICK y \in S : Old(ord, u) = Old(ord, y)
    BY <2>3
  <2>5. u = y
    BY <2>4 DEF Placed
  <2> QED
    BY <2>5
<1> QED
  BY <1>6, <1>7

(* A number is not above a smaller one, and above all between it and one   *)
(* it is above.                                                            *)
LEMMA OverFirst ==
    ASSUME NEW ord, NEW p, NEW n \in Nat, NEW parent, TreeOfNumbers(ord, p, n, parent),
           NEW u \in 0 .. n - 1, NEW v \in Over(n, parent, u)
    PROVE  v <= u
<1>1. 0 .. u \in SUBSET (0 .. n - 1) /\ u \in 0 .. u
  OBVIOUS
<1>2. ASSUME NEW x \in (0 .. u) \ {0} PROVE parent[x] \in 0 .. u
  <2>1. x \in 1 .. n - 1
    OBVIOUS
  <2>2. parent[x] \in 0 .. n - 1 /\ parent[x] < x
    BY <2>1 DEF TreeOfNumbers
  <2> QED
    BY <2>2
<1>3. v \in 0 .. u
  BY <1>1, <1>2 DEF Over
<1> QED
  BY <1>3

LEMMA OverBetween ==
    ASSUME NEW e \in Ids, NEW vis \in SUBSET Ids, NEW ord, NEW n, Placed(e, vis, ord, n),
           NEW g, NEW p \in [Ids -> Ids], Treed(g, e, ord, p, n),
           NEW parent, TreeOfNumbers(ord, p, n, parent),
           NEW u \in 0 .. n - 1, NEW v \in Over(n, parent, u), NEW w \in v .. u
    PROVE  w \in 0 .. n - 1 /\ v \in Over(n, parent, w)
<1>1. n \in Nat /\ v \in 0 .. n - 1
  BY BlocksAssumption DEF Placed, Over
<1>2. w \in 0 .. n - 1
  BY <1>1
<1>3. CASE w = u
  BY <1>2, <1>3
<1>4. CASE w # u
  <2>1. w \in 0 .. u - 1
    BY <1>1, <1>2, <1>4
  <2>2. Old(ord, v) \in Anc(p, e, Old(ord, u))
    BY <1>1, OverIs
  <2>3. \/ Old(ord, v) \in Anc(p, e, Old(ord, w))
        \/ \E i \in w + 1 .. u : Old(ord, i) = Old(ord, v)
    BY <2>1, <2>2 DEF Treed
  <2>4. ASSUME NEW i \in w + 1 .. u PROVE Old(ord, i) # Old(ord, v)
    <3>1. i \in 0 .. n - 1 /\ i # v
      BY <1>1, <1>2
    <3> QED
      BY <1>1, <3>1 DEF Placed
  <2>5. Old(ord, v) \in Anc(p, e, Old(ord, w))
    BY <2>3, <2>4
  <2> QED
    BY <1>1, <1>2, <2>5, OverIs
<1> QED
  BY <1>3, <1>4

LEMMA Interval ==
    ASSUME NEW n \in Nat, NEW S \in SUBSET (0 .. n - 1), NEW v \in S,
           \A u \in S : v <= u /\ \A w \in v .. u : w \in S
    PROVE  S = v .. v + Cardinality(S) - 1
<1> DEFINE D == {n - 1 - u : u \in S}
<1>1. D \in SUBSET Nat /\ D # {}
  OBVIOUS
<1>2. PICK d \in D : \A x \in D : d <= x
  BY <1>1, Least
<1>3. PICK m \in S : d = n - 1 - m
  BY <1>2
<1>4. \A u \in S : u <= m
  <2> SUFFICES ASSUME NEW u \in S PROVE u <= m
    OBVIOUS
  <2>1. n - 1 - m <= n - 1 - u
    BY <1>2, <1>3
  <2> QED
    BY <2>1
<1>5. S = v .. m
  <2>1. \A u \in S : u \in v .. m
    BY <1>4
  <2>2. \A u \in v .. m : u \in S
    BY <1>3
  <2> QED
    BY <2>1, <2>2
<1>6. v \in Int /\ m \in Int /\ v <= m
  BY <1>3
<1>7. Cardinality(v .. m) = m - v + 1
  BY <1>6, FS_Interval
<1> QED
  BY <1>5, <1>6, <1>7

(* The targets of a block.                                                 *)
Onto(h, u) == {h[u].to[k] : k \in DOMAIN h[u].to}

(* The graph under the new numbers is one SmallGraphs counts.              *)
LEMMA NumbersInTrees ==
    ASSUME NEW e \in Ids, NEW vis \in SUBSET Ids, NEW ord, NEW n, Placed(e, vis, ord, n),
           NEW g, NEW p \in [Ids -> Ids], Treed(g, e, ord, p, n),
           NEW parent, TreeOfNumbers(ord, p, n, parent),
           NEW v \in 0 .. n - 1
    PROVE  LET below == {u \in 0 .. n - 1 : v \in Over(n, parent, u)}
           IN  below = v .. v + Cardinality(below) - 1
<1> DEFINE below == {u \in 0 .. n - 1 : v \in Over(n, parent, u)}
<1>1. n \in Nat
  BY BlocksAssumption DEF Placed
<1>2. v \in Over(n, parent, v)
  BY DEF Over
<1>3. below \in SUBSET (0 .. n - 1) /\ v \in below
  BY <1>2
<1>4. ASSUME NEW u \in below PROVE v <= u /\ \A w \in v .. u : w \in below
  <2>1. v <= u
    BY <1>1, OverFirst
  <2>2. \A w \in v .. u : w \in 0 .. n - 1 /\ v \in Over(n, parent, w)
    BY OverBetween
  <2> QED
    BY <2>1, <2>2
<1>5. below = v .. v + Cardinality(below) - 1
  <2> HIDE DEF below
  <2> QED
    BY <1>1, <1>3, <1>4, Interval
<1> QED
  BY <1>5

LEMMA NumbersBranch ==
    ASSUME NEW e \in Ids, NEW vis \in SUBSET Ids, NEW ord, NEW n, Placed(e, vis, ord, n),
           NEW g, GraphOn(Ids, g), NEW p \in [Ids -> Ids], Treed(g, e, ord, p, n),
           NEW parent, TreeOfNumbers(ord, p, n, parent),
           NEW h, Renamed(g, h, ord, n), NEW u \in 0 .. n - 1,
           NEW S, S = Onto(h, u)
    PROVE  /\ S \in SUBSET (0 .. n - 1) /\ Cardinality(S) <= n
           /\ {v \in 1 .. n - 1 : parent[v] = u} \subseteq S
           /\ S \subseteq Over(n, parent, u) \cup u + 1 .. n - 1
<1>1. n \in Nat /\ n >= 1
  BY BlocksAssumption DEF Placed
<1>2. GraphOn(0 .. n - 1, h)
  BY RenamedGraph
<1>3. S \in SUBSET (0 .. n - 1)
  <2>1. \A k \in DOMAIN h[u].to : h[u].to[k] \in 0 .. n - 1
    BY <1>2, TargetIn
  <2> QED
    BY <2>1 DEF Onto
<1>4. Cardinality(S) <= n
  <2>1. IsFiniteSet(0 .. n - 1) /\ Cardinality(0 .. n - 1) = n
    <3>1. 0 \in Int /\ n - 1 \in Int /\ ~(0 > n - 1) /\ (n - 1) - 0 + 1 = n
      BY <1>1
    <3> QED
      BY <3>1, FS_Interval
  <2> QED
    BY <1>3, <2>1, FS_Subset
<1>5. ASSUME NEW k \in DOMAIN h[u].to
      PROVE  h[u].to[k] \in 0 .. n - 1 /\ k \in DOMAIN g[Old(ord, u)].to
             /\ Old(ord, h[u].to[k]) = g[Old(ord, u)].to[k]
  BY <1>2, TargetIn DEF Renamed
<1>6. ASSUME NEW v \in 1 .. n - 1, parent[v] = u PROVE v \in S
  <2>1. p[Old(ord, v)] = Old(ord, u)
    BY <1>6 DEF TreeOfNumbers
  <2>2. PICK k \in DOMAIN g[Old(ord, u)].to : g[Old(ord, u)].to[k] = Old(ord, v)
    BY <2>1 DEF Treed
  <2>3. k \in DOMAIN h[u].to
    BY DEF Renamed
  <2>4. Old(ord, h[u].to[k]) = Old(ord, v) /\ h[u].to[k] \in 0 .. n - 1 /\ v \in 0 .. n - 1
    BY <1>1, <1>5, <2>2, <2>3
  <2>5. h[u].to[k] = v
    BY <2>4 DEF Placed
  <2> QED
    BY <2>3, <2>5 DEF Onto
<1>7. ASSUME NEW k \in DOMAIN h[u].to
      PROVE  h[u].to[k] \in Over(n, parent, u) \/ h[u].to[k] \in u + 1 .. n - 1
  <2>1. \/ g[Old(ord, u)].to[k] \in Anc(p, e, Old(ord, u))
        \/ \E i \in u + 1 .. n - 1 : Old(ord, i) = g[Old(ord, u)].to[k]
    BY <1>5 DEF Treed
  <2>2. CASE g[Old(ord, u)].to[k] \in Anc(p, e, Old(ord, u))
    BY <1>5, <2>2, OverIs
  <2>3. ASSUME NEW i \in u + 1 .. n - 1, Old(ord, i) = g[Old(ord, u)].to[k]
        PROVE  h[u].to[k] \in u + 1 .. n - 1
    <3>1. i \in 0 .. n - 1 /\ Old(ord, i) = Old(ord, h[u].to[k]) /\ h[u].to[k] \in 0 .. n - 1
      BY <1>1, <1>5, <2>3
    <3>2. h[u].to[k] = i
      BY <3>1 DEF Placed
    <3> QED
      BY <3>2
  <2> QED
    BY <2>1, <2>2, <2>3
<1> QED
  BY <1>3, <1>4, <1>6, <1>7 DEF Onto

(* What `Numbered` makes.                                                  *)
LEMMA NumberedRenames ==
    ASSUME GoodGraph(blocks), visited \in SUBSET Ids, entry \in Ids, order \in Seq(Ids),
           Placed(entry, visited, order, Len(order)), Closed(blocks, visited)
    PROVE  Renamed(blocks, Numbered, order, Len(order))
<1> DEFINE f == [b \in visited |-> (CHOOSE i \in DOMAIN order : order[i] = b) - 1]
<1>1. PICK n : n = Len(order)
  OBVIOUS
<1>2. n \in Nat /\ DOMAIN order = 1 .. n
  BY <1>1
<1>3. ASSUME NEW b \in visited
      PROVE  f[b] \in 0 .. n - 1 /\ Old(order, f[b]) = b
  <2>1. PICK i \in 0 .. n - 1 : Old(order, i) = b
    BY <1>1 DEF Placed
  <2>2. i + 1 \in DOMAIN order /\ order[i + 1] = b
    BY <1>2, <2>1 DEF Old
  <2>3. PICK j \in DOMAIN order : j = (CHOOSE l \in DOMAIN order : order[l] = b) /\ order[j] = b
    BY <2>2
  <2>4. f[b] = j - 1 /\ j - 1 \in 0 .. n - 1 /\ (j - 1) + 1 = j
    BY <1>2, <2>3
  <2> QED
    BY <2>3, <2>4 DEF Old
<1>4. Numbered = [i \in 0 .. n - 1 |-> Retarget(blocks[order[i + 1]], f)]
  BY <1>1 DEF Numbered
<1> HIDE DEF f
<1>5. ASSUME NEW i \in 0 .. n - 1
      PROVE  /\ Numbered[i].stmts = blocks[Old(order, i)].stmts
             /\ Numbered[i].jump = blocks[Old(order, i)].jump
             /\ Numbered[i].who = blocks[Old(order, i)].who
             /\ Numbered[i].to \in Seq(0 .. n - 1)
             /\ Len(Numbered[i].to) = Len(blocks[Old(order, i)].to)
             /\ DOMAIN Numbered[i].to = DOMAIN blocks[Old(order, i)].to
             /\ \A k \in DOMAIN Numbered[i].to :
                    Old(order, Numbered[i].to[k]) = blocks[Old(order, i)].to[k]
  <2>1. PICK b : b = Old(order, i)
    OBVIOUS
  <2>2. b \in visited /\ b \in Ids
    BY <1>1, <2>1 DEF Placed
  <2>3. blocks[b] \in [stmts : Seq(Ids), jump : BOOLEAN, who : Ids \cup {NoBlock}, to : Seq(Ids)]
    BY <2>2 DEF GoodGraph
  <2>4. Numbered[i] = Retarget(blocks[b], f)
    BY <1>4, <2>1 DEF Old
  <2>5. PICK to : to = blocks[b].to
    OBVIOUS
  <2>6. to \in Seq(Ids) /\ DOMAIN to = 1 .. Len(to) /\ Len(to) \in Nat
    BY <2>3, <2>5
  <2>7. \A k \in DOMAIN to : to[k] \in visited
    BY <2>2, <2>5 DEF Closed
  <2>8. PICK new : new = [k \in 1 .. Len(to) |-> f[to[k]]]
    OBVIOUS
  <2>9. \A k \in 1 .. Len(to) : f[to[k]] \in 0 .. n - 1 /\ Old(order, f[to[k]]) = to[k]
    BY <1>3, <2>6, <2>7
  <2>10. /\ new \in Seq(0 .. n - 1) /\ Len(new) = Len(to) /\ DOMAIN new = DOMAIN to
         /\ \A k \in DOMAIN new : Old(order, new[k]) = to[k]
    BY <2>6, <2>8, <2>9
  <2>11. /\ Numbered[i].stmts = blocks[b].stmts
         /\ Numbered[i].jump = blocks[b].jump
         /\ Numbered[i].who = blocks[b].who
         /\ Numbered[i].to = [k \in DOMAIN blocks[b].to |-> f[blocks[b].to[k]]]
    BY <2>3, <2>4, RetargetIs
  <2>12. Numbered[i].to = new
    BY <2>5, <2>6, <2>8, <2>11
  <2> QED
    BY <2>1, <2>5, <2>10, <2>11, <2>12
<1>6. DOMAIN Numbered = 0 .. n - 1
  BY <1>4
<1> QED
  BY <1>1, <1>5, <1>6 DEF Renamed

LEMMA SmallCardinality ==
    ASSUME NEW n, NEW S
    PROVE  Small(n)!Cardinality(S) = Cardinality(S)
BY DEF Small!Cardinality, Cardinality

LEMMA NumbersSmall ==
    ASSUME NEW e \in Ids, NEW vis \in SUBSET Ids, NEW ord, NEW n, Placed(e, vis, ord, n),
           NEW g, GraphOn(Ids, g), NEW p \in [Ids -> Ids], Treed(g, e, ord, p, n),
           NEW h, Renamed(g, h, ord, n)
    PROVE  \E parent \in Small(n)!Trees :
               \A u \in DOMAIN h :
                   Onto(h, u) \in Small(n)!Branches(parent, u)
<1>1. PICK parent : TreeOfNumbers(ord, p, n, parent)
  BY NumbersTree
<1>2. \A v \in 0 .. n - 1 :
          LET below == {u \in 0 .. n - 1 : v \in Over(n, parent, u)}
          IN  below = v .. v + Cardinality(below) - 1
  BY <1>1, NumbersInTrees
<1>3. parent \in [1 .. n - 1 -> 0 .. n - 1] /\ \A v \in 1 .. n - 1 : parent[v] < v
  BY <1>1 DEF TreeOfNumbers
<1>4. \A v \in 0 .. n - 1 : Small(n)!Above(parent)[v] = Over(n, parent, v)
  BY DEF Small!Above, Small!Numbers, Over
<1>5. parent \in Small(n)!Trees
  <2>1. \A v \in 0 .. n - 1 :
            {u \in 0 .. n - 1 : v \in Small(n)!Above(parent)[u]} =
            {u \in 0 .. n - 1 : v \in Over(n, parent, u)}
    BY <1>4
  <2>2. \A v \in 0 .. n - 1 :
            LET below == {u \in 0 .. n - 1 : v \in Small(n)!Above(parent)[u]}
            IN  below = v .. v + Cardinality(below) - 1
    BY <1>2, <2>1
  <2> QED
    BY <1>3, <2>2, SmallCardinality DEF Small!Trees, Small!Numbers
<1>6. ASSUME NEW u \in 0 .. n - 1
      PROVE  Onto(h, u) \in Small(n)!Branches(parent, u)
  <2>1. PICK S : S = Onto(h, u)
    OBVIOUS
  <2>2. /\ S \in SUBSET (0 .. n - 1) /\ Cardinality(S) <= n
        /\ {v \in 1 .. n - 1 : parent[v] = u} \subseteq S
        /\ S \subseteq Over(n, parent, u) \cup u + 1 .. n - 1
    BY <1>1, <2>1, NumbersBranch
  <2>3. S \in Small(n)!Targets
    BY <2>2, SmallCardinality DEF Small!Targets, Small!Numbers
  <2>4. S \in Small(n)!Branches(parent, u)
    BY <1>4, <2>2, <2>3 DEF Small!Branches
  <2> QED
    BY <2>1, <2>4
<1>7. DOMAIN h = 0 .. n - 1
  BY DEF Renamed
<1> QED
  BY <1>5, <1>6, <1>7

LEMMA RenumberStep ==
    ASSUME TypeOK, PassInv, WalkInv, Renumber
    PROVE  TypeOK' /\ PassInv' /\ WalkInv' /\ SameRuns' /\ NumberedForReloop'
<1>1. /\ phase = "number" /\ phase' = "done" /\ stack = <<>>
      /\ blocks' = Numbered /\ entry' = 0
      /\ UNCHANGED <<orig, start, preds, todo, walk>>
  BY DEF Renumber
<1>2. PICK n, g, h, e : n = Len(order) /\ g = blocks /\ h = Numbered /\ e = entry
  OBVIOUS
<1>3. /\ GoodGraph(blocks) /\ entry \in Ids /\ visited \in SUBSET Ids /\ order \in Seq(Ids)
      /\ orig \in Lowered
  BY <1>1 DEF TypeOK
<1>4. GraphOn(Ids, g) /\ GraphOn(Ids, orig)
  BY <1>2, <1>3, GoodIsGraph, LoweredGood
<1>5. PICK p \in [Ids -> Ids] : Walked(g, e, <<>>, visited, order, p)
  BY <1>1, <1>2 DEF WalkInv
<1>6. Placed(e, visited, order, n) /\ Closed(g, visited)
  BY <1>2, <1>3, <1>4, <1>5, OrderIs
<1>7. Treed(g, e, order, p, n)
  BY <1>2, <1>3, <1>4, <1>5, TreeIs
<1>8. Renamed(g, h, order, n)
  BY <1>2, <1>3, <1>6, NumberedRenames
<1>9. n \in 1 .. N /\ n \in Nat /\ 0 \in 0 .. n - 1 /\ 0 \in Ids
  <2>1. n \in 1 .. N
    BY <1>6 DEF Placed
  <2> QED
    BY <2>1, BlocksAssumption DEF Ids
<1>10. GraphOn(0 .. n - 1, h)
  BY <1>3, <1>4, <1>6, <1>8, RenamedGraph
<1>11. Reachable(h, 0) = 0 .. n - 1
  <2>1. visited \subseteq Reachable(g, e)
    BY <1>1, <1>2 DEF WalkInv
  <2> QED
    BY <1>2, <1>3, <1>4, <1>6, <1>8, <2>1, RenamedReaches
<1>12. TypeOK'
  BY <1>1, <1>2, <1>3, <1>9, <1>10 DEF TypeOK, walk
<1>13. SameRuns
  BY <1>1 DEF PassInv
<1>14. First(h, 0) = Settles(orig, start)
  <2>1. Old(order, 0) = e
    BY <1>6 DEF Placed
  <2>2. First(h, 0) = First(g, e)
    BY <1>3, <1>4, <1>6, <1>8, <1>9, <2>1, RenamedFirst
  <2> QED
    BY <1>2, <1>13, <2>2 DEF SameRuns
<1>15. ASSUME NEW i \in 0 .. n - 1 PROVE Same(orig, h, i)
  <2>1. Old(order, i) \in visited /\ Old(order, i) \in Ids
    BY <1>3, <1>6 DEF Placed
  <2>2. Old(order, i) \in Reachable(blocks, entry)
    BY <1>1, <2>1 DEF WalkInv
  <2>3. Same(orig, g, Old(order, i))
    BY <1>2, <1>13, <2>2 DEF SameRuns, Same
  <2>4. g[Old(order, i)].who \in Ids \cup {NoBlock}
    BY <1>2, <1>3, <2>1 DEF GoodGraph
  <2> QED
    BY <1>3, <1>4, <1>6, <1>8, <2>3, <2>4, RenamedSame
<1>16. SameRuns'
  <2>1. blocks' = h /\ entry' = 0 /\ orig' = orig /\ start' = start
    BY <1>1, <1>2
  <2> QED
    BY <1>11, <1>14, <1>15, <2>1 DEF SameRuns, Same
<1>17. NumberedForReloop'
  <2>1. blocks' = h /\ entry' = 0
    BY <1>1, <1>2
  <2>2. DOMAIN h = 0 .. n - 1
    BY <1>8 DEF Renamed
  <2>3. \E parent \in Small(n)!Trees :
            \A u \in DOMAIN h :
                Onto(h, u) \in Small(n)!Branches(parent, u)
    BY <1>2, <1>3, <1>4, <1>6, <1>7, <1>8, NumbersSmall
  <2> QED
    BY <1>9, <1>11, <2>1, <2>2, <2>3 DEF NumberedForReloop, Succ, Onto
<1> QED
  BY <1>1, <1>12, <1>16, <1>17 DEF PassInv, WalkInv

-----------------------------------------------------------------------------
(* The invariant, and the theorems.                                        *)

Inv ==
    /\ TypeOK /\ PassInv /\ WalkInv
    /\ phase = "done" => SameRuns
    /\ NumberedForReloop

LEMMA InvHolds == Spec => []Inv
<1>1. Init => Inv
  <2> SUFFICES ASSUME Init PROVE Inv
    OBVIOUS
  <2>1. phase = "thread" /\ order = <<>>
    BY DEF Init
  <2> QED
    BY <2>1, PassInit DEF Inv, WalkInv, NumberedForReloop
<1>2. Inv /\ [Next]_vars => Inv'
  <2> SUFFICES ASSUME Inv, [Next]_vars PROVE Inv'
    OBVIOUS
  <2>0. TypeOK /\ PassInv /\ WalkInv
    BY DEF Inv
  <2>1. CASE ThreadJumps
    <3>1. TypeOK' /\ PassInv'
      BY <2>0, <2>1, ThreadStep
    <3>2. phase = "thread" /\ phase' = "count" /\ order' = order
      BY <2>1 DEF ThreadJumps, walk
    <3> QED
      BY <2>0, <3>1, <3>2 DEF Inv, WalkInv, NumberedForReloop
  <2>2. CASE CountPredecessors
    <3>1. TypeOK' /\ PassInv'
      BY <2>0, <2>2, CountStep
    <3>2. phase = "count" /\ phase' = "merge" /\ order' = order
      BY <2>2 DEF CountPredecessors, walk
    <3> QED
      BY <2>0, <3>1, <3>2 DEF Inv, WalkInv, NumberedForReloop
  <2>3. ASSUME NEW b \in Ids, NEW t \in Ids, Absorb(b, t) PROVE Inv'
    <3>1. TypeOK' /\ PassInv'
      BY <2>0, <2>3, AbsorbStep
    <3>2. phase = "merge" /\ phase' = "merge" /\ order' = order
      BY <2>3 DEF Absorb, Visiting, walk
    <3> QED
      BY <2>0, <3>1, <3>2 DEF Inv, WalkInv, NumberedForReloop
  <2>4. ASSUME NEW b \in Ids, NextBlock(b) PROVE Inv'
    <3>1. TypeOK' /\ PassInv'
      BY <2>0, <2>4, NextBlockStep
    <3>2. phase = "merge" /\ phase' = "merge" /\ order' = order
      BY <2>4 DEF NextBlock, Visiting, walk
    <3> QED
      BY <2>0, <3>1, <3>2 DEF Inv, WalkInv, NumberedForReloop
  <2>5. CASE StartNumbering
    <3>1. TypeOK' /\ PassInv' /\ WalkInv'
      BY <2>0, <2>5, StartStep, WalkStarts
    <3>2. phase' = "number"
      BY <2>5 DEF StartNumbering
    <3> QED
      BY <3>1, <3>2 DEF Inv, NumberedForReloop
  <2>6. CASE Explore
    <3>1. TypeOK' /\ PassInv' /\ WalkInv'
      BY <2>0, <2>6, ExploreStep
    <3>2. phase' = "number"
      BY <2>6 DEF Explore
    <3> QED
      BY <3>1, <3>2 DEF Inv, NumberedForReloop
  <2>7. CASE Leave
    <3>1. TypeOK' /\ PassInv' /\ WalkInv'
      BY <2>0, <2>7, LeaveStep
    <3>2. phase' = "number"
      BY <2>7 DEF Leave
    <3> QED
      BY <3>1, <3>2 DEF Inv, NumberedForReloop
  <2>8. CASE Renumber
    BY <2>0, <2>8, RenumberStep DEF Inv
  <2>9. CASE UNCHANGED vars
    BY <2>9 DEF Inv, TypeOK, PassInv, MergeInv, WalkInv, SameRuns, NumberedForReloop, Succ,
                vars, walk
  <2> QED
    BY <2>1, <2>2, <2>3, <2>4, <2>5, <2>6, <2>7, <2>8, <2>9 DEF Next
<1> QED
  BY <1>1, <1>2, PTL DEF Spec

LEMMA InvKeepsRuns ==
    ASSUME Inv
    PROVE  SameRuns
<1>1. TypeOK /\ PassInv
  BY DEF Inv
<1>2. CASE phase \in {"thread", "number"}
  BY <1>1, <1>2 DEF PassInv
<1>3. CASE phase = "done"
  BY <1>3 DEF Inv
<1>4. CASE phase \in {"count", "merge"}
  <2>1. GraphOn(Ids, blocks) /\ entry \in Ids
    BY <1>1, <1>4, GoodIsGraph DEF TypeOK
  <2>2. First(blocks, entry) = Settles(orig, start)
    BY <1>1, <1>4 DEF PassInv
  <2>3. \A b \in Reachable(blocks, entry) : Same(orig, blocks, b)
    <3>1. CASE phase = "count"
      BY <1>1, <2>1, <3>1, ReachableIs DEF PassInv
    <3>2. CASE phase = "merge"
      <4>1. PICK L \in SUBSET Ids : MergeInv(L)
        BY <1>1, <3>2 DEF PassInv
      <4>2. Reachable(blocks, entry) \subseteq L
        BY <2>1, <4>1, ReachableIs DEF MergeInv
      <4> QED
        BY <4>1, <4>2 DEF MergeInv
    <3> QED
      BY <1>4, <3>1, <3>2
  <2> QED
    BY <2>2, <2>3 DEF SameRuns, Same
<1> QED
  BY <1>1, <1>2, <1>3, <1>4 DEF TypeOK

(* The types: until `renumber` every block the lowering made is there, and *)
(* after it the blocks are numbered from 0 without a gap; a jump has one   *)
(* target, and every target is a block.                                    *)
THEOREM TypeCorrect == Spec => []TypeOK
<1>1. Inv => TypeOK
  BY DEF Inv
<1> QED
  BY <1>1, InvHolds, PTL

(* Whatever the lowering hands over, after each pass and between any two   *)
(* blocks of one, the graph runs the program the lowering made: threading  *)
(* a jump, taking a block in and numbering what is left lose, add, reorder *)
(* and redirect nothing that runs, and end no empty loop.                  *)
THEOREM PassesKeepRuns == Spec => []SameRuns
BY InvKeepsRuns, InvHolds, PTL

(* What `finish` returns is a graph the relooper is written for: the entry *)
(* is block 0, no block is out of reach, and the numbers are those of a    *)
(* depth-first walk in reverse postorder, a subtree without a gap and its  *)
(* root first, so that an edge leads to a child, forwards, or back to a    *)
(* block above.                                                            *)
THEOREM NumberedAsPromised == Spec => []NumberedForReloop
<1>1. Inv => NumberedForReloop
  BY DEF Inv
<1> QED
  BY <1>1, InvHolds, PTL
=============================================================================
