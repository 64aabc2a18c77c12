---------------------------- MODULE ReloopProofs ----------------------------
(***************************************************************************)
(* For every graph whatever its size: the relooper loses no block and      *)
(* emits none twice, and everything `plan` checks of its own shapes holds  *)
(* but the bound on nesting: no function falls back to the state machine   *)
(* because the relooper went wrong.                                        *)
(*                                                                         *)
(* Three invariants.  The first, IInv: the sets calls in progress hold     *)
(* are disjoint from each other and from what is placed, every block is    *)
(* somewhere, and what a call holds is spanned by its entries - so a call  *)
(* whose entries are used up holds nothing when it returns.                *)
(*                                                                         *)
(* The second, on top of it: the runs are a tree, every edge out of a      *)
(* block that is placed is served - by the arm of its branch, by a shape   *)
(* further on or the head of a loop around it, or by a call that has still *)
(* to begin with its target (JInv) - and no two shapes that follow another *)
(* begin with the same block, nor two loops with the same state variable   *)
(* (KInv); every run begins, or will begin, as its holder was promised it  *)
(* would (LInv).  What is defined along the way to the root of the tree is *)
(* then shown to exist, and the properties of the plan follow.             *)
(*                                                                         *)
(* The third is of the generated code while it runs (RunInv): where        *)
(* control stands leads to the block the terminator chose, and the state   *)
(* variable read on the way holds it.  So the code runs the graph.         *)
(***************************************************************************)
EXTENDS ShapeRun, SequenceTheorems, FiniteSetTheorems, NaturalsInduction,
        WellFoundedInduction, TLAPS

-----------------------------------------------------------------------------
(* Walks in a graph.  A set of entries spans a set of blocks when every    *)
(* block can be reached from an entry without leaving the set.  It is said *)
(* without paths, so that no proof needs an induction: no smaller set      *)
(* holds the entries and is left by no edge.                               *)


(* S is left by no edge of R inside B.                                     *)
Shut(R, S, B) == \A x \in S : \A y \in B : <<x, y>> \in R => y \in S

Span(R, E, B) ==
    /\ E \subseteq B
    /\ \A S \in SUBSET B : E \subseteq S /\ Shut(R, S, B) => S = B

(* What the edges of R reach inside B from E.                              *)
Reached(R, E, B) == {b \in B : \A S \in SUBSET B : E \subseteq S /\ Shut(R, S, B) => b \in S}

(* Taking C out of B leaves a set spanned by the entries that are left and *)
(* by what C jumps to: nothing becomes unreachable.                        *)
LEMMA SpanRemainder ==
    ASSUME NEW R, NEW E, NEW B, Span(R, E, B), NEW C, C \subseteq B,
           NEW F, F = (E \ C) \cup {y \in B \ C : \E x \in C : <<x, y>> \in R}
    PROVE  Span(R, F, B \ C)
<1>1. F \subseteq B \ C
  BY DEF Span
<1>2. ASSUME NEW S \in SUBSET (B \ C), F \subseteq S, Shut(R, S, B \ C)
      PROVE  S = B \ C
  <2>1. S \cup C \in SUBSET B
    OBVIOUS
  <2>2. E \subseteq S \cup C
    BY <1>2
  <2>3. Shut(R, S \cup C, B)
    BY <1>2 DEF Shut
  <2>4. S \cup C = B
    BY <2>1, <2>2, <2>3 DEF Span
  <2> QED
    BY <2>4
<1> QED
  BY <1>1, <1>2 DEF Span

(* A part of B that is entered from outside only at F, and that keeps its  *)
(* edges but those to F, is spanned by F.                                  *)
LEMMA SpanPart ==
    ASSUME NEW R, NEW E, NEW B, Span(R, E, B),
           NEW G, G \subseteq B, NEW F, F \subseteq G, E \cap G \subseteq F,
           \A x \in B \ G : \A y \in G : <<x, y>> \in R => y \in F,
           NEW Q, \A x \in G : \A y \in G : <<x, y>> \in R => <<x, y>> \in Q \/ y \in F
    PROVE  Span(Q, F, G)
<1>1. ASSUME NEW S \in SUBSET G, F \subseteq S, Shut(Q, S, G)
      PROVE  S = G
  <2> DEFINE T == S \cup (B \ G)
  <2>1. T \in SUBSET B /\ E \subseteq T
    BY <1>1 DEF Span
  <2>2. Shut(R, T, B)
    <3> SUFFICES ASSUME NEW x \in T, NEW y \in B, <<x, y>> \in R
                 PROVE  y \in T
      BY DEF Shut
    <3>1. CASE y \notin G
      BY <3>1
    <3>2. CASE y \in G /\ x \in S
      BY <1>1, <3>2 DEF Shut
    <3>3. CASE y \in G /\ x \notin S
      BY <1>1, <3>3
    <3> QED
      BY <3>1, <3>2, <3>3
  <2>3. T = B
    BY <2>1, <2>2 DEF Span
  <2> QED
    BY <2>3
<1> QED
  BY <1>1 DEF Span

(* Adding or hiding edges that do not start in B changes nothing.          *)
LEMMA SpanLocal ==
    ASSUME NEW R, NEW Q, NEW E, NEW B, Span(R, E, B),
           \A x \in B : \A y \in B : <<x, y>> \in R => <<x, y>> \in Q
    PROVE  Span(Q, E, B)
BY DEF Span, Shut

LEMMA ReachedShut ==
    ASSUME NEW R, NEW E, NEW B, E \subseteq B
    PROVE  /\ Reached(R, E, B) \subseteq B
           /\ E \subseteq Reached(R, E, B)
           /\ Shut(R, Reached(R, E, B), B)
BY DEF Reached, Shut

LEMMA ReachedLeast ==
    ASSUME NEW R, NEW E, NEW B, NEW S \in SUBSET B, E \subseteq S, Shut(R, S, B)
    PROVE  Reached(R, E, B) \subseteq S
BY DEF Reached

(* Whatever the entries span is reached from one of them.                  *)
LEMMA ReachedFromOne ==
    ASSUME NEW R, NEW E, NEW B, Span(R, E, B), NEW b \in B
    PROVE  \E e \in E : b \in Reached(R, {e}, B)
<1> DEFINE S == {x \in B : \E e \in E : x \in Reached(R, {e}, B)}
<1>1. E \subseteq S
  BY ReachedShut DEF Span
<1>2. Shut(R, S, B)
  <2> SUFFICES ASSUME NEW x \in S, NEW y \in B, <<x, y>> \in R
               PROVE  y \in S
    BY DEF Shut
  <2>1. PICK e \in E : x \in Reached(R, {e}, B)
    OBVIOUS
  <2>2. y \in Reached(R, {e}, B)
    BY <2>1, ReachedShut DEF Shut, Span
  <2> QED
    BY <2>2
<1>3. S = B
  BY <1>1, <1>2 DEF Span
<1> QED
  BY <1>3

-----------------------------------------------------------------------------

(* The graph that is left, as a set of edges.                              *)
Edges == {e \in Block \X Block : e[2] \in graph.succ[e[1]] /\ e \notin cut}

GroupMaps == UNION {[S -> SUBSET Block] : S \in SUBSET Block}

ShapeType ==
    [kind : {"simple", "loop", "dispatch"}, entries : SUBSET Block,
     state : Nat, body : Nat, arms : UNION {[S -> Nat] : S \in SUBSET Block}]

FrameType ==
    [run : Nat, groups : GroupMaps, inline : BOOLEAN, head : Nat,
     entries : SUBSET Block, blocks : SUBSET Block]

TypeInv ==
    /\ graph \in Graph
    /\ cut \subseteq Block \X Block
    /\ runs \in Seq(Seq(ShapeType))
    /\ stack \in Seq(FrameType)
    /\ \A k \in DOMAIN stack : stack[k].run \in DOMAIN runs
    /\ states \in Nat

(* What a call holds is spanned by its entries, group by group; nothing    *)
(* inside an irreducible region enters its heads.                          *)
GroupsOK(R, f) ==
    /\ \A e \in DOMAIN f.groups :
          Span(R, {e}, f.groups[e]) /\ f.groups[e] \cap f.blocks = {}
    /\ \A e, x \in DOMAIN f.groups : e # x => f.groups[e] \cap f.groups[x] = {}
HeadsOK(R, f) ==
    f.head # 0 => /\ DOMAIN f.groups = {}
                  /\ \A x \in f.blocks : \A y \in f.entries : <<x, y>> \notin R
FrameOK(R, f) == Span(R, f.entries, f.blocks) /\ GroupsOK(R, f) /\ HeadsOK(R, f)

PlacedIn(rs, b, q, i) ==
    /\ q \in DOMAIN rs /\ i \in DOMAIN rs[q]
    /\ rs[q][i].kind = "simple" /\ b \in rs[q][i].entries
Placed(rs) == {b \in Block : \E q \in DOMAIN rs : \E i \in DOMAIN rs[q] : PlacedIn(rs, b, q, i)}

StackInv ==
    /\ \A k \in DOMAIN stack : FrameOK(Edges, stack[k])
    /\ \A k, l \in DOMAIN stack : k # l => Held(stack[k]) \cap Held(stack[l]) = {}
    /\ \A k \in DOMAIN stack : Held(stack[k]) \cap Placed(runs) = {}
    /\ \A b \in Block : b \in Placed(runs) \/ \E k \in DOMAIN stack : b \in Held(stack[k])

PlacedOnce(rs) ==
    \A b \in Block :
        \A q, r \in DOMAIN rs : \A i \in DOMAIN rs[q], j \in DOMAIN rs[r] :
            PlacedIn(rs, b, q, i) /\ PlacedIn(rs, b, r, j) => q = r /\ i = j

IInv == TypeInv /\ StackInv /\ PlacedOnce(runs)

-----------------------------------------------------------------------------
(* The operators of the relooper, in terms of the edges that are left.     *)

LEMMA NoGroupsIs == NoGroups \in GroupMaps /\ DOMAIN NoGroups = {} /\ consumed(NoGroups) = {}
<1>1. NoGroups \in [{} -> SUBSET Block] /\ DOMAIN NoGroups = {}
  BY DEF NoGroups
<1>2. {} \in SUBSET Block
  OBVIOUS
<1> HIDE DEF NoGroups
<1> QED
  BY ONLY <1>1, <1>2 DEF GroupMaps, consumed

LEMMA SuccIn ==
    ASSUME graph \in Graph, NEW b \in Block, NEW S \in SUBSET Block
    PROVE  succ_in(b, S) = {t \in S : <<b, t>> \in Edges}
BY DEF succ_in, Edges, Graph

LEMMA PredsIn ==
    ASSUME graph \in Graph, NEW b \in Block, NEW S \in SUBSET Block
    PROVE  preds_in(b, S) = {f \in S : <<f, b>> \in Edges}
BY DEF preds_in, Edges, Graph

LEMMA ClosedIs ==
    ASSUME graph \in Graph, NEW B \in SUBSET Block, NEW S \in SUBSET B
    PROVE  Closed(S, B) <=> Shut(Edges, S, B)
<1>1. \A x \in S : succ_in(x, B) = {t \in B : <<x, t>> \in Edges}
  BY SuccIn
<1> QED
  BY <1>1 DEF Closed, Shut

LEMMA ReachIs ==
    ASSUME graph \in Graph, NEW B \in SUBSET Block, NEW E \in SUBSET B
    PROVE  Reach(E, B) = Reached(Edges, E, B)
<1>1. \A S \in SUBSET B : Closed(S, B) <=> Shut(Edges, S, B)
  BY ClosedIs
<1> QED
  BY <1>1 DEF Reach, Reached

LEMMA Leaving ==
    ASSUME graph \in Graph, NEW B \in SUBSET Block, NEW P \in SUBSET B
    PROVE  leaving(B, P) = {y \in B \ P : \E x \in P : <<x, y>> \in Edges}
<1>1. \A x \in P : succ_in(x, B) = {y \in B : <<x, y>> \in Edges}
  BY SuccIn
<1>2. ASSUME NEW y
      PROVE  y \in leaving(B, P) <=> y \in B \ P /\ \E x \in P : <<x, y>> \in Edges
  <2>1. y \in leaving(B, P) <=> y \notin P /\ \E x \in P : y \in succ_in(x, B)
    BY DEF leaving
  <2> QED
    BY <1>1, <2>1
<1> QED
  BY <1>2

(* What the groups of a set leave is spanned by what they leave to enter.  *)
LEMMA NextEntries ==
    ASSUME graph \in Graph, NEW B \in SUBSET Block, NEW E, Span(Edges, E, B),
           NEW g, consumed(g) \subseteq B
    PROVE  Span(Edges, next_entries(E, B, g), B \ consumed(g))
<1> DEFINE C == consumed(g)
           F == (E \ C) \cup {y \in B \ C : \E x \in C : <<x, y>> \in Edges}
<1>1. \A x \in C : succ_in(x, B \ C) = {t \in B \ C : <<x, t>> \in Edges}
  BY SuccIn
<1>2. UNION {succ_in(b, B \ C) : b \in C} = {y \in B \ C : \E x \in C : <<x, y>> \in Edges}
  <2> DEFINE U == UNION {succ_in(b, B \ C) : b \in C}
             V == {y \in B \ C : \E x \in C : <<x, y>> \in Edges}
  <2>1. ASSUME NEW y \in U
        PROVE  y \in V
    <3>1. PICK x \in C : y \in succ_in(x, B \ C)
      OBVIOUS
    <3> QED
      BY <1>1, <3>1
  <2>2. ASSUME NEW y \in V
        PROVE  y \in U
    <3>1. PICK x \in C : <<x, y>> \in Edges
      OBVIOUS
    <3>2. y \in succ_in(x, B \ C)
      BY <1>1, <3>1
    <3> QED
      BY <3>1, <3>2
  <2> QED
    BY <2>1, <2>2
<1>3. next_entries(E, B, g) = F
  BY <1>2, Zenon DEF next_entries
<1>4. Span(Edges, F, B \ C)
  BY SpanRemainder
<1> QED
  BY <1>3, <1>4

(* The groups are disjoint, each spanned by its entry.                     *)
LEMMA IndependentGroups ==
    ASSUME graph \in Graph, NEW B \in SUBSET Block, NEW E, Span(Edges, E, B),
           NEW g, g = independent_groups(E, B)
    PROVE  /\ g \in [DOMAIN g -> SUBSET B] /\ DOMAIN g \subseteq E
           /\ \A e \in DOMAIN g : Span(Edges, {e}, g[e])
           /\ \A e, x \in DOMAIN g : e # x => g[e] \cap g[x] = {}
<1> DEFINE R(e) == Reached(Edges, {e}, B)
<1>1. E \subseteq B
  BY DEF Span
<1>2. \A e \in E : Reach({e}, B) = R(e)
  BY <1>1, ReachIs
<1> HIDE DEF R
<1>3. /\ \A x : x \in DOMAIN g <=> x \in E /\ \A y \in E \ {x} : x \notin R(y)
      /\ \A e \in DOMAIN g : \A b : b \in g[e] <=> b \in R(e) /\ \A y \in E \ {e} : b \notin R(y)
      /\ g = [e \in DOMAIN g |-> g[e]]
  <2>1. DOMAIN g = {x \in E : \A y \in E \ {x} : x \notin Reach({y}, B)}
    BY DEF independent_groups
  <2>2. \A e \in DOMAIN g :
            g[e] = {b \in Reach({e}, B) : \A y \in E \ {e} : b \notin Reach({y}, B)}
    BY DEF independent_groups
  <2>3. g = [e \in DOMAIN g |-> g[e]]
    BY DEF independent_groups
  <2>4. ASSUME NEW x
        PROVE  x \in DOMAIN g <=> x \in E /\ \A y \in E \ {x} : x \notin R(y)
    BY <1>2, <2>1
  <2>5. ASSUME NEW e \in DOMAIN g, NEW b
        PROVE  b \in g[e] <=> b \in R(e) /\ \A y \in E \ {e} : b \notin R(y)
    <3>1. e \in E
      BY <2>1
    <3>2. b \in g[e] <=> b \in Reach({e}, B) /\ \A y \in E \ {e} : b \notin Reach({y}, B)
      BY <2>2
    <3>3. Reach({e}, B) = R(e) /\ \A y \in E \ {e} : Reach({y}, B) = R(y)
      BY <1>2, <3>1
    <3> QED
      BY <3>2, <3>3
  <2> QED
    BY <2>3, <2>4, <2>5
<1>4. \A e \in E : R(e) \subseteq B /\ e \in R(e) /\ Shut(Edges, R(e), B)
  BY <1>1, ReachedShut DEF R
<1>5. \A e \in DOMAIN g : g[e] \subseteq B
  BY <1>3, <1>4
<1>6. ASSUME NEW e \in DOMAIN g
      PROVE  Span(Edges, {e}, g[e])
  <2>1. e \in E /\ e \in g[e] /\ g[e] \subseteq B /\ E \cap g[e] \subseteq {e}
    BY <1>3, <1>4
  <2>2. ASSUME NEW x \in B \ g[e], NEW y \in g[e], <<x, y>> \in Edges
        PROVE  FALSE
    <3>1. PICK d \in E : x \in R(d)
      BY ReachedFromOne DEF R
    <3>2. y \in R(d)
      BY <1>4, <2>1, <2>2, <3>1 DEF Shut
    <3>3. d = e
      BY <1>3, <3>2
    <3>4. PICK c \in E \ {e} : x \in R(c)
      BY <1>3, <2>2, <3>1, <3>3
    <3>5. y \in R(c)
      BY <1>4, <2>1, <2>2, <3>4 DEF Shut
    <3> QED
      BY <1>3, <3>5
  <2> QED
    BY <2>1, <2>2, SpanPart
<1>7. ASSUME NEW e \in DOMAIN g, NEW x \in DOMAIN g, e # x
      PROVE  g[e] \cap g[x] = {}
  BY <1>3, <1>7
<1> QED
  BY <1>3, <1>5, <1>6, <1>7

(* A loop holds its entries, and is entered at nothing else.               *)
EnteredAt(R, E, B, G) ==
    /\ E \subseteq G /\ G \subseteq B
    /\ \A x \in B \ G : \A y \in G : <<x, y>> \in R => y \in E

LEMMA LoopBlocks ==
    ASSUME graph \in Graph, NEW B \in SUBSET Block, NEW E, Span(Edges, E, B),
           NEW G, G = loop_blocks(E, B)
    PROVE  EnteredAt(Edges, E, B, G)
<1> DEFINE I == E \cup reaching(E, B)
<1>1. E \subseteq B
  BY DEF Span
<1>2. I \subseteq B
  BY <1>1 DEF reaching
<1>3. ASSUME NEW x \in B \ I, NEW y \in I, <<x, y>> \in Edges
      PROVE  y \in E
  <2> SUFFICES ASSUME y \notin E
               PROVE  FALSE
    OBVIOUS
  <2>1. y \in B /\ Reach({y}, B) \cap E # {}
    BY DEF reaching
  <2>2. PICK e \in E : e \in Reached(Edges, {y}, B)
    BY <2>1, ReachIs
  <2>3. Shut(Edges, Reached(Edges, {x}, B), B) /\ x \in Reached(Edges, {x}, B)
    BY ReachedShut
  <2>4. y \in Reached(Edges, {x}, B)
    BY <1>3, <2>1, <2>3 DEF Shut
  <2>5. e \in Reached(Edges, {x}, B)
    BY <2>1, <2>2, <2>3, <2>4, ReachedLeast, ReachedShut
  <2>6. e \in Reach({x}, B)
    BY <2>5, ReachIs
  <2> QED
    BY <2>6 DEF reaching
<1>4. /\ I \subseteq widen_loop(B, I) /\ widen_loop(B, I) \subseteq B
      /\ \A x \in B \ widen_loop(B, I) : \A y \in widen_loop(B, I) :
             <<x, y>> \in Edges => y \in E
  <2> DEFINE W == widen_loop(B, I)
             Wide(S) == /\ I \subseteq S
                        /\ \A b \in S : \A t \in succ_in(b, B) :
                               preds_in(t, B) = {b} => t \in S
  <2>1. W = {b \in B : \A S \in SUBSET B : Wide(S) => b \in S}
    BY DEF widen_loop
  <2>2. I \subseteq W /\ W \subseteq B
    BY <1>2, <2>1
  <2>3. Wide(W)
    <3> SUFFICES ASSUME NEW b \in W, NEW t \in succ_in(b, B), preds_in(t, B) = {b}
                 PROVE  t \in W
      BY <2>2
    <3>1. t \in B
      BY DEF succ_in
    <3>2. ASSUME NEW S \in SUBSET B, Wide(S)
          PROVE  t \in S
      BY <2>1, <3>2
    <3> QED
      BY <2>1, <3>1, <3>2
  <2> DEFINE V == {y \in W : y \in I \/ \A x \in B : <<x, y>> \in Edges => x \in W}
  <2>4. Wide(V)
    <3>1. I \subseteq V
      BY <2>2
    <3>2. ASSUME NEW b \in V, NEW t \in succ_in(b, B), preds_in(t, B) = {b}
          PROVE  t \in V
      <4>1. t \in W /\ t \in B
        BY <2>3, <3>2 DEF succ_in
      <4>2. {f \in B : <<f, t>> \in Edges} = {b}
        BY <3>2, <4>1, PredsIn
      <4> QED
        BY <4>1, <4>2
    <3> QED
      BY <3>1, <3>2
  <2>5. W \subseteq V
    <3>1. V \in SUBSET B
      BY <2>2
    <3> HIDE DEF V, Wide
    <3>2. ASSUME NEW b \in W
          PROVE  b \in V
      BY <2>1, <2>4, <3>1, <3>2
    <3> QED
      BY <3>2
  <2>6. ASSUME NEW x \in B \ W, NEW y \in W, <<x, y>> \in Edges
        PROVE  y \in E
    BY <1>3, <2>2, <2>5, <2>6
  <2> QED
    BY <2>2, <2>6
<1>5. G = I \/ G = widen_loop(B, I)
  BY DEF loop_blocks
<1> QED
  BY <1>2, <1>3, <1>4, <1>5 DEF EnteredAt

(* When nothing inside enters an entry, every entry has a group.           *)
LEMMA HeadsSplit ==
    ASSUME graph \in Graph, NEW B \in SUBSET Block, NEW E \in SUBSET B,
           \A x \in B : \A y \in E : <<x, y>> \notin Edges
    PROVE  DOMAIN independent_groups(E, B) = E
<1>1. ASSUME NEW e \in E, NEW y \in E \ {e}
      PROVE  e \notin Reach({y}, B)
  <2>1. Shut(Edges, B \ {e}, B)
    BY DEF Shut
  <2>2. Reached(Edges, {y}, B) \subseteq B \ {e}
    BY <2>1, ReachedLeast
  <2> QED
    BY <2>2, ReachIs
<1> QED
  BY <1>1 DEF independent_groups

-----------------------------------------------------------------------------
(* The runs.                                                               *)

LEMMA RunAdded ==
    ASSUME NEW rs \in Seq(Seq(ShapeType))
    PROVE  /\ Append(rs, <<>>) \in Seq(Seq(ShapeType))
           /\ DOMAIN Append(rs, <<>>) = 1 .. Len(rs) + 1
           /\ \A b, q, i : PlacedIn(Append(rs, <<>>), b, q, i) <=> PlacedIn(rs, b, q, i)
<1>1. <<>> \in Seq(ShapeType)
  OBVIOUS
<1>2. /\ Append(rs, <<>>) \in Seq(Seq(ShapeType))
      /\ DOMAIN Append(rs, <<>>) = 1 .. Len(rs) + 1 /\ DOMAIN rs = 1 .. Len(rs)
      /\ \A q \in 1 .. Len(rs) : Append(rs, <<>>)[q] = rs[q]
      /\ Append(rs, <<>>)[Len(rs) + 1] = <<>>
  BY <1>1
<1>3. ASSUME NEW b, NEW q, NEW i
      PROVE  PlacedIn(Append(rs, <<>>), b, q, i) <=> PlacedIn(rs, b, q, i)
  <2>1. CASE q \in 1 .. Len(rs)
    BY <1>2, <2>1 DEF PlacedIn
  <2>2. CASE q = Len(rs) + 1
    <3>1. DOMAIN Append(rs, <<>>)[q] = {}
      BY <1>2, <2>2
    <3>2. q \notin DOMAIN rs
      BY <1>2, <2>2
    <3> QED
      BY <3>1, <3>2 DEF PlacedIn
  <2>3. CASE q \notin 1 .. Len(rs) + 1
    BY <1>2, <2>3 DEF PlacedIn
  <2> QED
    BY <2>1, <2>2, <2>3
<1> QED
  BY <1>2, <1>3

Grown(rs, q, shape) == [rs EXCEPT ![q] = Append(@, shape)]

LEMMA ShapePlaced ==
    ASSUME NEW rs \in Seq(Seq(ShapeType)), NEW q \in DOMAIN rs, NEW shape \in ShapeType,
           NEW new, new = Grown(rs, q, shape)
    PROVE  /\ new \in Seq(Seq(ShapeType)) /\ DOMAIN new = DOMAIN rs
           /\ \A b, r, i : PlacedIn(new, b, r, i) <=>
                  \/ PlacedIn(rs, b, r, i)
                  \/ r = q /\ i = Len(rs[q]) + 1 /\ shape.kind = "simple" /\ b \in shape.entries
<1>1. rs[q] \in Seq(ShapeType)
  OBVIOUS
<1>2. /\ Append(rs[q], shape) \in Seq(ShapeType)
      /\ DOMAIN Append(rs[q], shape) = 1 .. Len(rs[q]) + 1 /\ DOMAIN rs[q] = 1 .. Len(rs[q])
      /\ \A i \in 1 .. Len(rs[q]) : Append(rs[q], shape)[i] = rs[q][i]
      /\ Append(rs[q], shape)[Len(rs[q]) + 1] = shape
  BY <1>1
<1>3. /\ new \in Seq(Seq(ShapeType)) /\ DOMAIN new = DOMAIN rs
      /\ new[q] = Append(rs[q], shape)
      /\ \A r \in DOMAIN rs : r # q => new[r] = rs[r]
  BY <1>2 DEF Grown
<1>4. ASSUME NEW b, NEW r, NEW i
      PROVE  PlacedIn(new, b, r, i) <=>
                  \/ PlacedIn(rs, b, r, i)
                  \/ r = q /\ i = Len(rs[q]) + 1 /\ shape.kind = "simple" /\ b \in shape.entries
  <2>1. CASE r # q
    BY <1>3, <2>1 DEF PlacedIn
  <2>2. CASE r = q /\ i \in 1 .. Len(rs[q])
    <3>1. i # Len(rs[q]) + 1 /\ new[r][i] = rs[r][i] /\ i \in DOMAIN new[r] /\ i \in DOMAIN rs[r]
      BY <1>1, <1>2, <1>3, <2>2
    <3> QED
      BY <1>3, <2>2, <3>1 DEF PlacedIn
  <2>3. CASE r = q /\ i = Len(rs[q]) + 1
    <3>1. i \notin DOMAIN rs[r] /\ i \in DOMAIN new[r] /\ new[r][i] = shape
      BY <1>1, <1>2, <1>3, <2>3
    <3> QED
      BY <1>3, <2>3, <3>1 DEF PlacedIn
  <2>4. CASE r = q /\ i \notin 1 .. Len(rs[q]) + 1
    <3>1. i \notin DOMAIN rs[r] /\ i \notin DOMAIN new[r] /\ i # Len(rs[q]) + 1
      BY <1>1, <1>2, <1>3, <2>4
    <3> QED
      BY <2>4, <3>1 DEF PlacedIn
  <2> QED
    BY <1>1, <1>2, <2>1, <2>2, <2>3, <2>4
<1> QED
  BY <1>3, <1>4

(* An arm added to a shape leaves every block where it is.                 *)
LEMMA ArmAdded ==
    ASSUME runs \in Seq(Seq(ShapeType)), NEW q \in DOMAIN runs,
           NEW e \in Block, NEW body \in Nat, NEW new, new = AddArm(q, e, body)
    PROVE  /\ new \in Seq(Seq(ShapeType)) /\ DOMAIN new = DOMAIN runs
           /\ \A b, r, i : PlacedIn(new, b, r, i) <=> PlacedIn(runs, b, r, i)
<1> DEFINE n == Len(runs[q])
           old == runs[q][n]
           arms == [x \in DOMAIN old.arms \cup {e} |-> IF x = e THEN body ELSE old.arms[x]]
           shape == [old EXCEPT !.arms = arms]
<1>1. runs[q] \in Seq(ShapeType)
  OBVIOUS
<1>2. new = [runs EXCEPT ![q] = [runs[q] EXCEPT ![n] = shape]]
  BY DEF AddArm
<1>3. CASE n \in DOMAIN runs[q]
  <2>1. old \in ShapeType
    BY <1>1, <1>3
  <2>2. PICK S \in SUBSET Block : old.arms \in [S -> Nat]
    BY <2>1 DEF ShapeType
  <2>3. arms \in [S \cup {e} -> Nat] /\ S \cup {e} \in SUBSET Block
    BY <2>2
  <2>4. shape \in ShapeType /\ shape.kind = old.kind /\ shape.entries = old.entries
    <3>1. arms \in UNION {[T -> Nat] : T \in SUBSET Block}
      BY <2>3
    <3> HIDE DEF arms
    <3> QED
      BY <2>1, <3>1 DEF ShapeType
  <2> HIDE DEF shape
  <2>5. [runs[q] EXCEPT ![n] = shape] \in Seq(ShapeType)
    <3>1. n \in 1 .. Len(runs[q])
      BY <1>1, <1>3
    <3> QED
      BY <1>1, <2>4, <3>1, ExceptSeq
  <2>6. /\ new \in Seq(Seq(ShapeType)) /\ DOMAIN new = DOMAIN runs
        /\ \A r \in DOMAIN runs : DOMAIN new[r] = DOMAIN runs[r]
        /\ \A r \in DOMAIN runs : \A i \in DOMAIN runs[r] :
               new[r][i].kind = runs[r][i].kind /\ new[r][i].entries = runs[r][i].entries
    BY <1>2, <1>3, <2>4, <2>5
  <2> QED
    BY <2>6 DEF PlacedIn
<1>4. CASE n \notin DOMAIN runs[q]
  <2> HIDE DEF shape
  <2>1. [runs[q] EXCEPT ![n] = shape] = runs[q]
    BY <1>1, <1>4
  <2>2. new = runs
    BY <1>2, <2>1
  <2> QED
    BY <2>2
<1> QED
  BY <1>3, <1>4

LEMMA PlacedSame ==
    ASSUME NEW rs, NEW new, \A b, q, i : PlacedIn(new, b, q, i) <=> PlacedIn(rs, b, q, i)
    PROVE  Placed(new) = Placed(rs) /\ (PlacedOnce(rs) => PlacedOnce(new))
<1>1. \A b, q, i : PlacedIn(new, b, q, i) => q \in DOMAIN rs /\ i \in DOMAIN rs[q]
  BY DEF PlacedIn
<1>2. \A b, q, i : PlacedIn(rs, b, q, i) => q \in DOMAIN new /\ i \in DOMAIN new[q]
  BY DEF PlacedIn
<1>3. Placed(new) = Placed(rs)
  BY <1>1, <1>2 DEF Placed
<1>4. ASSUME PlacedOnce(rs)
      PROVE  PlacedOnce(new)
  BY <1>1, <1>4 DEF PlacedOnce
<1> QED
  BY <1>3, <1>4

-----------------------------------------------------------------------------
(* The stack.  A step hands what the top call holds to the calls that      *)
(* replace it, but for the blocks P it places.                             *)

HandsOver(P) ==
    /\ P \subseteq Held(Top) /\ Placed(runs') = Placed(runs) \cup P
    /\ Len(stack') \in Len(stack) - 1 .. Len(stack) + 1
    /\ \A k \in 1 .. Len(stack) - 1 : stack'[k] = stack[k]
    /\ \A k \in Len(stack) .. Len(stack') :
           FrameOK(Edges', stack'[k]) /\ Held(stack'[k]) \subseteq Held(Top) \ P
    /\ \A k, l \in Len(stack) .. Len(stack') :
           k # l => Held(stack'[k]) \cap Held(stack'[l]) = {}
    /\ \A b \in Held(Top) \ P : \E k \in Len(stack) .. Len(stack') : b \in Held(stack'[k])
    /\ \A x \in Block \ Held(Top) : \A y \in Block : <<x, y>> \in Edges <=> <<x, y>> \in Edges'

LEMMA StackStep ==
    ASSUME TypeInv, StackInv, stack # <<>>, TypeInv', NEW P, HandsOver(P)
    PROVE  StackInv'
<1> USE DEF HandsOver
<1> DEFINE n == Len(stack)
           Old == 1 .. n - 1
           New == n .. Len(stack')
<1>1. /\ n \in Nat \ {0} /\ DOMAIN stack = 1 .. n /\ n \in DOMAIN stack
      /\ DOMAIN stack' = 1 .. Len(stack') /\ Top = stack[n]
      /\ \A k \in DOMAIN stack' : k \in Old \/ k \in New
      /\ \A k \in New : k \in DOMAIN stack'
      /\ \A k \in Old : k \in DOMAIN stack /\ k \in DOMAIN stack' /\ k # n
  BY DEF TypeInv, Top
<1>2. \A k \in Old : stack'[k] = stack[k]
  OBVIOUS
<1>3. \A k \in DOMAIN stack : stack[k] \in FrameType /\ Held(stack[k]) \subseteq Block
  <2> SUFFICES ASSUME NEW k \in DOMAIN stack
               PROVE  stack[k] \in FrameType /\ Held(stack[k]) \subseteq Block
    OBVIOUS
  <2>1. stack[k] \in FrameType
    BY DEF TypeInv
  <2>2. PICK S \in SUBSET Block : stack[k].groups \in [S -> SUBSET Block]
    BY <2>1 DEF FrameType, GroupMaps
  <2>3. consumed(stack[k].groups) \subseteq Block
    BY <2>2 DEF consumed
  <2> QED
    BY <2>1, <2>3 DEF Held, FrameType
<1>4. ASSUME NEW k \in Old
      PROVE  FrameOK(Edges', stack[k])
  <2> DEFINE f == stack[k]
  <2>1. FrameOK(Edges, f) /\ Held(f) \cap Held(Top) = {} /\ Held(f) \subseteq Block
    BY <1>1, <1>3 DEF StackInv
  <2>2. \A x \in Held(f) : \A y \in Block : <<x, y>> \in Edges <=> <<x, y>> \in Edges'
    BY <2>1
  <2>3. f.blocks \subseteq Held(f) /\ \A e \in DOMAIN f.groups : f.groups[e] \subseteq Held(f)
    BY DEF Held, consumed
  <2>4. Span(Edges', f.entries, f.blocks)
    BY <2>1, <2>2, <2>3, SpanLocal DEF FrameOK
  <2>5. \A e \in DOMAIN f.groups : Span(Edges', {e}, f.groups[e])
    BY <2>1, <2>2, <2>3, SpanLocal DEF FrameOK, GroupsOK
  <2>6. f.entries \subseteq f.blocks
    BY <2>4 DEF Span
  <2>7. HeadsOK(Edges', f)
    BY <2>1, <2>2, <2>3, <2>6 DEF FrameOK, HeadsOK
  <2> QED
    BY <2>1, <2>4, <2>5, <2>7 DEF FrameOK, GroupsOK
<1>5. \A k \in DOMAIN stack' : FrameOK(Edges', stack'[k])
  BY <1>1, <1>2, <1>4
<1>6. ASSUME NEW k \in DOMAIN stack', NEW l \in DOMAIN stack', k # l
      PROVE  Held(stack'[k]) \cap Held(stack'[l]) = {}
  <2>1. CASE k \in Old /\ l \in Old
    BY <1>1, <1>2, <1>6, <2>1 DEF StackInv
  <2>2. ASSUME NEW o \in Old, NEW m \in New
        PROVE  Held(stack'[o]) \cap Held(stack'[m]) = {}
    <3>1. Held(stack[o]) \cap Held(Top) = {}
      BY <1>1 DEF StackInv
    <3>2. Held(stack'[m]) \subseteq Held(Top)
      OBVIOUS
    <3> QED
      BY <1>2, <3>1, <3>2
  <2>3. CASE (k \in Old /\ l \in New) \/ (k \in New /\ l \in Old)
    BY <2>2, <2>3
  <2>4. CASE k \in New /\ l \in New
    BY <1>6, <2>4
  <2> QED
    BY <1>1, <2>1, <2>2, <2>3, <2>4
<1>7. ASSUME NEW k \in DOMAIN stack'
      PROVE  Held(stack'[k]) \cap Placed(runs') = {}
  <2>1. CASE k \in Old
    <3>1. Held(stack[k]) \cap Placed(runs) = {} /\ Held(stack[k]) \cap Held(Top) = {}
      BY <1>1, <2>1 DEF StackInv
    <3> QED
      BY <1>2, <2>1, <3>1
  <2>2. CASE k \in New
    <3>1. Held(Top) \cap Placed(runs) = {}
      BY <1>1 DEF StackInv
    <3> QED
      BY <2>2, <3>1
  <2> QED
    BY <1>1, <2>1, <2>2
<1>8. ASSUME NEW b \in Block, b \notin Placed(runs')
      PROVE  \E k \in DOMAIN stack' : b \in Held(stack'[k])
  <2>1. PICK k \in DOMAIN stack : b \in Held(stack[k])
    BY <1>8 DEF StackInv
  <2>2. CASE k = n
    BY <1>1, <1>8, <2>1, <2>2
  <2>3. CASE k # n
    <3>1. k \in 1 .. n /\ k # n /\ n \in Nat
      BY <1>1, <2>3
    <3>2. k \in 1 .. n - 1
      BY <3>1
    <3> QED
      BY <1>1, <1>2, <2>1, <3>2
  <2> QED
    BY <2>2, <2>3
<1> QED
  BY <1>5, <1>6, <1>7, <1>8 DEF StackInv

(* A call that splits groups off still holds the same blocks.              *)
LEMMA SplitHolds ==
    ASSUME graph \in Graph, NEW B \in SUBSET Block, NEW E, Span(Edges, E, B),
           NEW g, g = independent_groups(E, B) \/ g = NoGroups,
           NEW q \in Nat, NEW i \in BOOLEAN
    PROVE  /\ Split(q, i, E, B, g) \in FrameType
           /\ FrameOK(Edges, Split(q, i, E, B, g))
           /\ Held(Split(q, i, E, B, g)) = B
<1> DEFINE f == Split(q, i, E, B, g)
<1>1. /\ DOMAIN g \subseteq E /\ g \in [DOMAIN g -> SUBSET B]
      /\ \A e \in DOMAIN g : Span(Edges, {e}, g[e])
      /\ \A e, x \in DOMAIN g : e # x => g[e] \cap g[x] = {}
  <2>1. CASE g = NoGroups
    BY <2>1 DEF NoGroups
  <2>2. CASE g = independent_groups(E, B)
    BY <2>2, IndependentGroups
  <2> QED
    BY <2>1, <2>2
<1>2. consumed(g) \subseteq B /\ \A e \in DOMAIN g : g[e] \subseteq consumed(g)
  BY <1>1 DEF consumed
<1>3. Span(Edges, next_entries(E, B, g), B \ consumed(g))
  BY <1>2, NextEntries
<1>4. /\ f.run = q /\ f.groups = g /\ f.inline = i /\ f.head = 0
      /\ f.entries = next_entries(E, B, g) /\ f.blocks = B \ consumed(g)
  BY DEF Frame, Split
<1>5. FrameOK(Edges, f)
  <2>1. \A e \in DOMAIN g : g[e] \cap (B \ consumed(g)) = {}
    BY <1>2
  <2> QED
    BY <1>1, <1>3, <1>4, <2>1 DEF FrameOK, GroupsOK, HeadsOK
<1>6. Held(f) = B
  BY <1>2, <1>4 DEF Held
<1>7. f \in FrameType
  <2>1. f.entries \subseteq Block /\ f.blocks \subseteq Block
    BY <1>3, <1>4 DEF Span
  <2>2. g \in GroupMaps
    <3>1. DOMAIN g \in SUBSET Block /\ g \in [DOMAIN g -> SUBSET Block]
      BY <1>1 DEF Span
    <3> QED
      BY <3>1 DEF GroupMaps
  <2> QED
    BY <1>4, <2>1, <2>2 DEF Frame, Split, FrameType
<1> QED
  BY <1>5, <1>6, <1>7

LEMMA StackGoes ==
    ASSUME stack \in Seq(FrameType), stack # <<>>, NEW f \in FrameType
    PROVE  /\ Goes(f) \in Seq(FrameType) /\ Len(Goes(f)) = Len(stack)
           /\ Goes(f)[Len(stack)] = f
           /\ \A k \in 1 .. Len(stack) - 1 : Goes(f)[k] = stack[k]
<1>1. Len(stack) \in 1 .. Len(stack)
  OBVIOUS
<1>2. Goes(f) \in Seq(FrameType) /\ Len(Goes(f)) = Len(stack)
  BY <1>1, ExceptSeq DEF Goes
<1>3. \A k \in 1 .. Len(stack) : Goes(f)[k] = IF k = Len(stack) THEN f ELSE stack[k]
  BY <1>1, ExceptSeq DEF Goes
<1> QED
  BY <1>1, <1>2, <1>3

LEMMA StackCalls ==
    ASSUME stack \in Seq(FrameType), stack # <<>>, NEW f \in FrameType, NEW g \in FrameType
    PROVE  /\ Calls(f, g) \in Seq(FrameType) /\ Len(Calls(f, g)) = Len(stack) + 1
           /\ Calls(f, g)[Len(stack)] = f /\ Calls(f, g)[Len(stack) + 1] = g
           /\ \A k \in 1 .. Len(stack) - 1 : Calls(f, g)[k] = stack[k]
<1>1. /\ Goes(f) \in Seq(FrameType) /\ Len(Goes(f)) = Len(stack)
      /\ Goes(f)[Len(stack)] = f
      /\ \A k \in 1 .. Len(stack) - 1 : Goes(f)[k] = stack[k]
  BY StackGoes
<1> HIDE DEF Goes
<1> QED
  BY <1>1 DEF Calls

LEMMA TopFrame ==
    ASSUME TypeInv, StackInv, stack # <<>>
    PROVE  /\ Top \in FrameType /\ Top.run \in DOMAIN runs /\ FrameOK(Edges, Top)
           /\ Top.entries \subseteq Top.blocks /\ Here(Top) = Top.entries
           /\ (DOMAIN Top.groups = {} => Held(Top) = Top.blocks)
<1>1. Len(stack) \in DOMAIN stack
  BY DEF TypeInv
<1>2. Top \in FrameType /\ Top.run \in DOMAIN runs /\ FrameOK(Edges, Top)
  BY <1>1 DEF TypeInv, StackInv, Top
<1>3. Top.entries \subseteq Top.blocks
  BY <1>2 DEF FrameOK, Span
<1>4. ASSUME DOMAIN Top.groups = {}
      PROVE  Held(Top) = Top.blocks
  BY <1>4 DEF Held, consumed
<1> QED
  BY <1>2, <1>3, <1>4 DEF Here

(* A step of the top call alone, which places the blocks P and splits      *)
(* groups off the rest.                                                    *)
LEMMA GoesStep ==
    ASSUME TypeInv, StackInv, stack # <<>>, DOMAIN Top.groups = {},
           UNCHANGED <<graph, cut, states>>,
           runs' \in Seq(Seq(ShapeType)), DOMAIN runs' = DOMAIN runs,
           NEW P \in SUBSET Top.blocks, Placed(runs') = Placed(runs) \cup P,
           NEW E, Span(Edges, E, Top.blocks \ P),
           NEW g, g = independent_groups(E, Top.blocks \ P) \/ g = NoGroups,
           NEW i \in BOOLEAN,
           stack' = Goes(Split(Top.run, i, E, Top.blocks \ P, g))
    PROVE  TypeInv' /\ StackInv'
<1> DEFINE B == Top.blocks \ P
           f == Split(Top.run, i, E, B, g)
           n == Len(stack)
<1>1. /\ Top \in FrameType /\ Top.run \in DOMAIN runs /\ Held(Top) = Top.blocks
      /\ graph \in Graph /\ n \in Nat \ {0} /\ stack \in Seq(FrameType)
  BY TopFrame DEF TypeInv
<1>2. B \in SUBSET Block /\ Top.run \in Nat
  BY <1>1 DEF FrameType
<1>3. f \in FrameType /\ FrameOK(Edges, f) /\ Held(f) = B /\ f.run = Top.run
  <2>1. f \in FrameType /\ FrameOK(Edges, f) /\ Held(f) = B
    <3>1. graph \in Graph /\ B \in SUBSET Block /\ Span(Edges, E, B) /\ Top.run \in Nat
      BY <1>1, <1>2
    <3> HIDE DEF B
    <3>2. g = independent_groups(E, B) \/ g = NoGroups
      BY DEF B
    <3> QED
      BY <3>1, <3>2, SplitHolds
  <2>2. f.run = Top.run
    BY DEF Split, Frame
  <2> QED
    BY <2>1, <2>2
<1> HIDE DEF f, B
<1>4. stack' = Goes(f)
  BY DEF f, B
<1>5. /\ stack' \in Seq(FrameType) /\ Len(stack') = n /\ stack'[n] = f
      /\ \A k \in 1 .. n - 1 : stack'[k] = stack[k]
  <2>1. /\ Goes(f) \in Seq(FrameType) /\ Len(Goes(f)) = n /\ Goes(f)[n] = f
        /\ \A k \in 1 .. n - 1 : Goes(f)[k] = stack[k]
    BY <1>1, <1>3, StackGoes
  <2> QED
    BY <1>4, <2>1
<1>6. \A k \in DOMAIN stack' : stack'[k].run \in DOMAIN runs'
  <2> SUFFICES ASSUME NEW k \in DOMAIN stack'
               PROVE  stack'[k].run \in DOMAIN runs'
    OBVIOUS
  <2>1. CASE k = n
    BY <1>1, <1>3, <1>5, <2>1
  <2>2. CASE k # n
    <3>1. k \in 1 .. n - 1 /\ k \in DOMAIN stack
      BY <1>1, <1>5, <2>2
    <3> QED
      BY <1>5, <3>1 DEF TypeInv
  <2> QED
    BY <2>1, <2>2
<1>7. TypeInv'
  BY <1>5, <1>6 DEF TypeInv
<1>8. Edges' = Edges
  BY DEF Edges
<1>9. n .. Len(stack') = {n} /\ Len(stack') \in n - 1 .. n + 1
  BY <1>1, <1>5
<1>10. StackInv'
  <2>1. P \subseteq Held(Top) /\ Held(Top) \ P = B
    BY <1>1 DEF B
  <2>2. \A k \in n .. Len(stack') : k = n
    BY <1>9
  <2>3. \A k \in n .. Len(stack') :
            FrameOK(Edges', stack'[k]) /\ Held(stack'[k]) \subseteq Held(Top) \ P
    BY <1>3, <1>5, <1>8, <2>1, <2>2
  <2>4. \A b \in Held(Top) \ P : \E k \in n .. Len(stack') : b \in Held(stack'[k])
    BY <1>3, <1>5, <1>9, <2>1
  <2>5. \A k, l \in n .. Len(stack') : k # l => Held(stack'[k]) \cap Held(stack'[l]) = {}
    BY <2>2
  <2>6. HandsOver(P)
    BY <1>5, <1>8, <1>9, <2>1, <2>3, <2>4, <2>5 DEF HandsOver
  <2> QED
    BY <1>7, <2>6, StackStep
<1> QED
  BY <1>7, <1>10

(* A step in which the top call f hands a part of its blocks to a call g.  *)
HandsOn(f, g) ==
    /\ f \in FrameType /\ g \in FrameType
    /\ f.run \in DOMAIN runs' /\ g.run \in DOMAIN runs'
    /\ FrameOK(Edges', f) /\ FrameOK(Edges', g)
    /\ Held(f) \cap Held(g) = {} /\ Held(f) \cup Held(g) = Held(Top)
    /\ stack' = Calls(f, g)

LEMMA CallsStep ==
    ASSUME TypeInv, StackInv, stack # <<>>,
           graph' = graph, cut' \subseteq Block \X Block, states' \in Nat,
           runs' \in Seq(Seq(ShapeType)), DOMAIN runs \subseteq DOMAIN runs',
           Placed(runs') = Placed(runs),
           \A x \in Block \ Held(Top) : \A y \in Block : <<x, y>> \in Edges <=> <<x, y>> \in Edges',
           NEW f, NEW g, HandsOn(f, g)
    PROVE  TypeInv' /\ StackInv'
<1> DEFINE n == Len(stack)
<1>1. /\ n \in Nat \ {0} /\ stack \in Seq(FrameType) /\ DOMAIN stack = 1 .. n
      /\ f \in FrameType /\ g \in FrameType /\ stack' = Calls(f, g)
  BY DEF TypeInv, HandsOn
<1>2. /\ stack' \in Seq(FrameType) /\ Len(stack') = n + 1
      /\ stack'[n] = f /\ stack'[n + 1] = g
      /\ \A k \in 1 .. n - 1 : stack'[k] = stack[k]
  <2>1. /\ Calls(f, g) \in Seq(FrameType) /\ Len(Calls(f, g)) = n + 1
        /\ Calls(f, g)[n] = f /\ Calls(f, g)[n + 1] = g
        /\ \A k \in 1 .. n - 1 : Calls(f, g)[k] = stack[k]
    BY <1>1, StackCalls
  <2> QED
    BY <1>1, <2>1
<1>3. \A k \in DOMAIN stack' : stack'[k].run \in DOMAIN runs'
  <2> SUFFICES ASSUME NEW k \in DOMAIN stack'
               PROVE  stack'[k].run \in DOMAIN runs'
    OBVIOUS
  <2>1. k \in 1 .. n + 1
    BY <1>2
  <2>2. CASE k \in 1 .. n - 1
    <3>1. k \in DOMAIN stack
      BY <1>1, <2>2
    <3> QED
      BY <1>2, <2>2, <3>1 DEF TypeInv
  <2>3. CASE k = n \/ k = n + 1
    BY <1>2, <2>3 DEF HandsOn
  <2> QED
    BY <1>1, <2>1, <2>2, <2>3
<1>4. TypeInv'
  BY <1>2, <1>3 DEF TypeInv
<1>5. n .. Len(stack') = {n, n + 1} /\ Len(stack') \in n - 1 .. n + 1
  BY <1>1, <1>2
<1>6. \A k \in n .. Len(stack') :
          FrameOK(Edges', stack'[k]) /\ Held(stack'[k]) \subseteq Held(Top)
  <2> SUFFICES ASSUME NEW k \in n .. Len(stack')
               PROVE  FrameOK(Edges', stack'[k]) /\ Held(stack'[k]) \subseteq Held(Top)
    OBVIOUS
  <2>1. stack'[k] = f \/ stack'[k] = g
    BY <1>2, <1>5
  <2> QED
    BY <2>1 DEF HandsOn
<1>7. \A k, l \in n .. Len(stack') : k # l => Held(stack'[k]) \cap Held(stack'[l]) = {}
  <2> SUFFICES ASSUME NEW k \in n .. Len(stack'), NEW l \in n .. Len(stack'), k # l
               PROVE  Held(stack'[k]) \cap Held(stack'[l]) = {}
    OBVIOUS
  <2>1. \/ stack'[k] = f /\ stack'[l] = g
        \/ stack'[k] = g /\ stack'[l] = f
    BY <1>2, <1>5
  <2> QED
    BY <2>1 DEF HandsOn
<1>8. \A b \in Held(Top) : \E k \in n .. Len(stack') : b \in Held(stack'[k])
  <2> SUFFICES ASSUME NEW b \in Held(Top)
               PROVE  b \in Held(stack'[n]) \/ b \in Held(stack'[n + 1])
    BY <1>5
  <2> QED
    BY <1>2 DEF HandsOn
<1>9. HandsOver({})
  BY <1>2, <1>5, <1>6, <1>7, <1>8 DEF HandsOver
<1> QED
  BY <1>4, <1>9, StackStep

-----------------------------------------------------------------------------
(* One lemma per action: each keeps the invariant.                         *)

LEMMA SimpleStep ==
    ASSUME IInv, stack # <<>>, make_simple
    PROVE  IInv'
<1> USE DEF IInv
<1> DEFINE f == Top
<1>1. PICK b \in Here(f) :
        LET rest    == f.blocks \ {b}
            targets == succ_in(b, rest)
            groups  == IF fusable(b, targets)
                       THEN independent_groups(targets, rest)
                       ELSE NoGroups
        IN  /\ Turn(f)
            /\ Here(f) = {b}
            /\ runs' = Place(f.run, Simple(b))
            /\ stack' = Goes(Split(f.run, FALSE, targets, rest, groups))
            /\ UNCHANGED <<graph, cut, states>>
  BY DEF make_simple
<1> DEFINE rest    == f.blocks \ {b}
           targets == succ_in(b, rest)
           groups  == IF fusable(b, targets)
                      THEN independent_groups(targets, rest)
                      ELSE NoGroups
<1>2. /\ f \in FrameType /\ f.run \in DOMAIN runs /\ Span(Edges, f.entries, f.blocks)
      /\ Here(f) = f.entries /\ DOMAIN f.groups = {} /\ f.entries = {b}
      /\ f.blocks \subseteq Block /\ b \in f.blocks /\ b \in Block
      /\ graph \in Graph /\ runs \in Seq(Seq(ShapeType))
  BY <1>1, TopFrame DEF TypeInv, Turn, FrameOK, FrameType, Here
<1>3. Span(Edges, targets, rest)
  <2>1. targets = {y \in rest : <<b, y>> \in Edges}
    BY <1>2, SuccIn
  <2>2. targets = (f.entries \ {b}) \cup {y \in rest : \E x \in {b} : <<x, y>> \in Edges}
    BY <1>2, <2>1
  <2> QED
    BY <1>2, <2>2, SpanRemainder
<1>4. Simple(b) \in ShapeType /\ Simple(b).kind = "simple" /\ Simple(b).entries = {b}
  <2>1. NoArms \in [{} -> Nat]
    BY DEF NoArms
  <2>2. NoArms \in UNION {[S -> Nat] : S \in SUBSET Block}
    BY <2>1
  <2> HIDE DEF NoArms
  <2> QED
    BY <1>2, <2>2 DEF Simple, Shape, ShapeType
<1>5. /\ runs' \in Seq(Seq(ShapeType)) /\ DOMAIN runs' = DOMAIN runs
      /\ \A c, r, i : PlacedIn(runs', c, r, i) <=>
             PlacedIn(runs, c, r, i) \/ (r = f.run /\ i = Len(runs[f.run]) + 1 /\ c = b)
  <2>1. runs' = Grown(runs, f.run, Simple(b))
    BY <1>1 DEF Place, Grown
  <2> DEFINE shape == Simple(b)
             new == runs'
             q == f.run
  <2>2. runs \in Seq(Seq(ShapeType)) /\ q \in DOMAIN runs /\ shape \in ShapeType
        /\ new = Grown(runs, q, shape)
    BY <1>2, <1>4, <2>1
  <2> HIDE DEF f, shape, new, q
  <2>3. /\ new \in Seq(Seq(ShapeType)) /\ DOMAIN new = DOMAIN runs
        /\ \A c, r, i : PlacedIn(new, c, r, i) <=>
               \/ PlacedIn(runs, c, r, i)
               \/ (r = q /\ i = Len(runs[q]) + 1 /\ shape.kind = "simple" /\ c \in shape.entries)
    BY <2>2, ShapePlaced
  <2>4. shape.kind = "simple" /\ shape.entries = {b}
    BY <1>4 DEF shape
  <2>5. ASSUME NEW c, NEW r, NEW i
        PROVE  PlacedIn(new, c, r, i) <=>
                   PlacedIn(runs, c, r, i) \/ (r = q /\ i = Len(runs[q]) + 1 /\ c = b)
    BY <2>3, <2>4
  <2> QED
    BY <2>3, <2>5 DEF new, q
<1>6. b \notin Placed(runs)
  <2>1. Len(stack) \in DOMAIN stack /\ Held(f) = f.blocks
    BY <1>2, TopFrame DEF TypeInv
  <2> QED
    BY <1>2, <2>1 DEF StackInv, Top
<1>7. Placed(runs') = Placed(runs) \cup {b}
  <2>1. f.run \in DOMAIN runs' /\ PlacedIn(runs', b, f.run, Len(runs[f.run]) + 1)
    BY <1>2, <1>5
  <2>2. b \in Placed(runs')
    BY <1>2, <2>1 DEF Placed, PlacedIn
  <2>3. \A c \in Placed(runs') : c \in Placed(runs) \/ c = b
    BY <1>5 DEF Placed, PlacedIn
  <2>4. \A c \in Placed(runs) : c \in Placed(runs')
    BY <1>5 DEF Placed, PlacedIn
  <2> QED
    BY <2>2, <2>3, <2>4
<1>8. PlacedOnce(runs')
  <2> SUFFICES ASSUME NEW c \in Block, NEW q, NEW i, NEW r, NEW j,
                      PlacedIn(runs', c, q, i), PlacedIn(runs', c, r, j)
               PROVE  q = r /\ i = j
    BY DEF PlacedOnce
  <2>1. CASE c # b
    <3>1. PlacedIn(runs, c, q, i) /\ PlacedIn(runs, c, r, j)
      BY <1>5, <2>1
    <3>2. /\ q \in DOMAIN runs /\ r \in DOMAIN runs
          /\ i \in DOMAIN runs[q] /\ j \in DOMAIN runs[r]
      BY <3>1 DEF PlacedIn
    <3> QED
      BY <3>1, <3>2 DEF PlacedOnce
  <2>2. CASE c = b
    <3>1. \A s, k : ~PlacedIn(runs, b, s, k)
      BY <1>2, <1>6 DEF Placed, PlacedIn
    <3> HIDE DEF f
    <3>2. q = f.run /\ i = Len(runs[f.run]) + 1
      BY <1>5, <2>2, <3>1
    <3>3. r = f.run /\ j = Len(runs[f.run]) + 1
      BY <1>5, <2>2, <3>1
    <3> QED
      BY <3>2, <3>3
  <2> QED
    BY <2>1, <2>2
<1>9. TypeInv' /\ StackInv'
  <2>1. groups = independent_groups(targets, rest) \/ groups = NoGroups
    OBVIOUS
  <2>2. stack' = Goes(Split(Top.run, FALSE, targets, Top.blocks \ {b}, groups))
    BY <1>1
  <2> HIDE DEF groups, targets
  <2> QED
    BY <1>1, <1>2, <1>3, <1>5, <1>7, <2>1, <2>2, GoesStep
<1> QED
  BY <1>8, <1>9

LEMMA MultipleStep ==
    ASSUME IInv, stack # <<>>, make_multiple
    PROVE  IInv'
<1> USE DEF IInv
<1> DEFINE f == Top
           groups == independent_groups(f.entries, f.blocks)
<1>1. /\ f \in FrameType /\ Span(Edges, f.entries, f.blocks) /\ Here(f) = f.entries
      /\ runs \in Seq(Seq(ShapeType))
  BY TopFrame DEF TypeInv, FrameOK
<1>2. /\ DOMAIN f.groups = {} /\ UNCHANGED <<graph, cut, runs, states>>
      /\ stack' = Goes(Split(f.run, TRUE, f.entries, f.blocks, groups))
  BY <1>1 DEF make_multiple, Turn
<1>3. f.blocks \ {} = f.blocks /\ Placed(runs') = Placed(runs) \cup {}
  BY <1>2
<1>4. TypeInv' /\ StackInv'
  <2>1. stack' = Goes(Split(Top.run, TRUE, f.entries, Top.blocks \ {}, groups))
    BY <1>2, <1>3
  <2>2. groups = independent_groups(f.entries, Top.blocks \ {})
    BY <1>3
  <2>3. Span(Edges, f.entries, Top.blocks \ {}) /\ {} \in SUBSET Top.blocks
    BY <1>1, <1>3
  <2> HIDE DEF groups
  <2> QED
    BY <1>1, <1>2, <1>3, <2>1, <2>2, <2>3, GoesStep
<1> QED
  BY <1>2, <1>4

LEMMA DispatchStep ==
    ASSUME IInv, stack # <<>>, make_dispatch
    PROVE  IInv'
<1> USE DEF IInv
<1> DEFINE f == Top
           groups == independent_groups(f.entries, f.blocks)
           shape == Dispatch(DOMAIN groups, f.head)
<1>1. /\ f \in FrameType /\ Span(Edges, f.entries, f.blocks) /\ f.run \in DOMAIN runs
      /\ runs \in Seq(Seq(ShapeType)) /\ graph \in Graph
  BY TopFrame DEF TypeInv, FrameOK
<1>2. /\ DOMAIN f.groups = {} /\ UNCHANGED <<graph, cut, states>>
      /\ runs' = Grown(runs, f.run, shape)
      /\ stack' = Goes(Split(f.run, FALSE, f.entries, f.blocks, groups))
  BY DEF make_dispatch, Turn, Place, Grown
<1>3. shape \in ShapeType /\ shape.kind = "dispatch"
  <2>1. DOMAIN groups \subseteq f.entries
    <3> DEFINE E == f.entries
               B == f.blocks
    <3>1. /\ graph \in Graph /\ B \in SUBSET Block /\ Span(Edges, E, B)
          /\ groups = independent_groups(E, B)
      BY <1>1 DEF FrameType
    <3> HIDE DEF E, B, groups
    <3>2. DOMAIN groups \subseteq E
      BY <3>1, IndependentGroups
    <3> QED
      BY <3>2 DEF E
  <2>2. DOMAIN groups \in SUBSET Block /\ f.head \in Nat
    BY <1>1, <2>1 DEF FrameType
  <2>3. NoArms \in UNION {[S -> Nat] : S \in SUBSET Block}
    BY DEF NoArms
  <2> HIDE DEF NoArms, groups
  <2> QED
    BY <2>2, <2>3 DEF Dispatch, Shape, ShapeType
<1>4. /\ runs' \in Seq(Seq(ShapeType)) /\ DOMAIN runs' = DOMAIN runs
      /\ \A c, r, i : PlacedIn(runs', c, r, i) <=> PlacedIn(runs, c, r, i)
  <2> DEFINE new == runs'
             q == f.run
  <2>1. q \in DOMAIN runs /\ new = Grown(runs, q, shape)
    BY <1>1, <1>2
  <2> HIDE DEF f, shape, new, q
  <2>2. /\ new \in Seq(Seq(ShapeType)) /\ DOMAIN new = DOMAIN runs
        /\ \A c, r, i : PlacedIn(new, c, r, i) <=>
               \/ PlacedIn(runs, c, r, i)
               \/ (r = q /\ i = Len(runs[q]) + 1 /\ shape.kind = "simple" /\ c \in shape.entries)
    BY <1>1, <1>3, <2>1, ShapePlaced
  <2> QED
    BY <1>3, <2>2 DEF new
<1>5. Placed(runs') = Placed(runs) /\ PlacedOnce(runs')
  BY <1>4, PlacedSame
<1>6. f.blocks \ {} = f.blocks /\ Placed(runs') = Placed(runs) \cup {}
  BY <1>5
<1>7. TypeInv' /\ StackInv'
  <2>1. stack' = Goes(Split(Top.run, FALSE, f.entries, Top.blocks \ {}, groups))
    BY <1>2, <1>6
  <2>2. groups = independent_groups(f.entries, Top.blocks \ {})
    BY <1>6
  <2>3. Span(Edges, f.entries, Top.blocks \ {}) /\ {} \in SUBSET Top.blocks
    BY <1>1, <1>6
  <2> HIDE DEF groups
  <2> QED
    BY <1>1, <1>2, <1>4, <1>6, <2>1, <2>2, <2>3, GoesStep
<1> QED
  BY <1>5, <1>7

LEMMA ReturnStep ==
    ASSUME IInv, stack # <<>>, return
    PROVE  IInv'
<1> USE DEF IInv
<1> DEFINE n == Len(stack)
<1>1. /\ DOMAIN Top.groups = {} /\ Here(Top) = {} /\ UNCHANGED <<graph, cut, runs, states>>
      /\ stack' = SubSeq(stack, 1, n - 1)
  BY DEF return, Turn
<1>2. /\ Span(Edges, Top.entries, Top.blocks) /\ Top.entries = {} /\ Held(Top) = Top.blocks
      /\ stack \in Seq(FrameType)
  BY <1>1, TopFrame DEF FrameOK, TypeInv
<1>3. Held(Top) = {}
  <2>1. Shut(Edges, {}, Top.blocks)
    BY DEF Shut
  <2>2. Top.blocks \subseteq {}
    BY <1>2, <2>1 DEF Span
  <2> QED
    BY <1>2, <2>2
<1>4. /\ n \in Nat \ {0} /\ stack' \in Seq(FrameType) /\ Len(stack') = n - 1
      /\ DOMAIN stack' = 1 .. n - 1 /\ DOMAIN stack = 1 .. n
      /\ \A k \in 1 .. n - 1 : stack'[k] = stack[k]
  <2>1. n \in Nat /\ n # 0 /\ DOMAIN stack = 1 .. n
    BY <1>2
  <2>2. \A k \in 1 .. n - 1 : stack[k] \in FrameType
    BY <1>2, <2>1
  <2>3. stack' = [k \in 1 .. n - 1 |-> stack[k]]
    BY <1>1, <2>1
  <2> QED
    BY <2>1, <2>2, <2>3
<1>5. TypeInv'
  <2>1. \A k \in DOMAIN stack' : stack'[k].run \in DOMAIN runs'
    BY <1>1, <1>4 DEF TypeInv
  <2> QED
    BY <1>1, <1>4, <2>1 DEF TypeInv
<1>6. n .. Len(stack') = {} /\ Len(stack') \in n - 1 .. n + 1
  BY <1>4
<1>7. Edges' = Edges /\ Placed(runs') = Placed(runs) \cup {}
  BY <1>1 DEF Edges
<1>8. HandsOver({})
  BY <1>3, <1>4, <1>6, <1>7 DEF HandsOver
<1> QED
  BY <1>1, <1>5, <1>8, StackStep

LEMMA GroupStep ==
    ASSUME IInv, stack # <<>>, process_group
    PROVE  IInv'
<1> USE DEF IInv
<1> DEFINE f == Top
           new == Len(runs) + 1
<1>1. PICK e \in DOMAIN f.groups :
        LET left == [f EXCEPT !.groups = [x \in DOMAIN f.groups \ {e} |-> f.groups[x]]]
        IN  /\ runs' = IF f.inline THEN runs ELSE Append(AddArm(f.run, e, new), <<>>)
            /\ stack' = Calls(left, Frame(IF f.inline THEN f.run ELSE new,
                                          NoGroups, FALSE, 0, {e}, f.groups[e]))
            /\ UNCHANGED <<graph, cut, states>>
  BY DEF process_group
<1> DEFINE rest == [x \in DOMAIN f.groups \ {e} |-> f.groups[x]]
           left == [f EXCEPT !.groups = rest]
           q == IF f.inline THEN f.run ELSE new
           g == Frame(q, NoGroups, FALSE, 0, {e}, f.groups[e])
<1>2. /\ f \in FrameType /\ f.run \in DOMAIN runs /\ FrameOK(Edges, f)
      /\ runs \in Seq(Seq(ShapeType)) /\ graph \in Graph /\ cut \subseteq Block \X Block
      /\ states \in Nat /\ Edges' = Edges /\ new \in Nat /\ f.run \in Nat
  BY <1>1, TopFrame DEF TypeInv, FrameType, Edges
<1>3. PICK D \in SUBSET Block : f.groups \in [D -> SUBSET Block]
  BY <1>2 DEF FrameType, GroupMaps
<1>4. /\ e \in D /\ e \in Block /\ f.groups[e] \subseteq Block
      /\ rest \in [D \ {e} -> SUBSET Block] /\ DOMAIN rest = D \ {e} /\ DOMAIN f.groups = D
      /\ \A x \in D \ {e} : rest[x] = f.groups[x]
  BY <1>3
<1>5. /\ left.run = f.run /\ left.groups = rest /\ left.inline = f.inline
      /\ left.head = f.head /\ left.entries = f.entries /\ left.blocks = f.blocks
      /\ left \in FrameType
  <2>1. rest \in GroupMaps
    BY <1>4 DEF GroupMaps
  <2> HIDE DEF rest, f
  <2> QED
    BY <1>2, <2>1 DEF FrameType
<1>6. /\ g.run = q /\ g.groups = NoGroups /\ g.head = 0 /\ g.entries = {e}
      /\ g.blocks = f.groups[e] /\ g \in FrameType
  <2>1. q \in Nat /\ {e} \in SUBSET Block /\ f.groups[e] \in SUBSET Block
    BY <1>2, <1>4
  <2>2. NoGroups \in GroupMaps
    BY DEF NoGroups, GroupMaps
  <2> HIDE DEF q, f, NoGroups
  <2> QED
    BY <2>1, <2>2 DEF Frame, FrameType
<1>7. FrameOK(Edges, left)
  <2>1. GroupsOK(Edges, left)
    BY <1>2, <1>4, <1>5 DEF FrameOK, GroupsOK
  <2>2. f.head = 0
    BY <1>2, <1>4 DEF FrameOK, HeadsOK
  <2> QED
    BY <1>2, <1>5, <2>1, <2>2 DEF FrameOK, HeadsOK
<1>8. FrameOK(Edges, g)
  <2>1. Span(Edges, {e}, f.groups[e])
    BY <1>2, <1>4 DEF FrameOK, GroupsOK
  <2>2. DOMAIN NoGroups = {}
    BY DEF NoGroups
  <2> HIDE DEF g, f
  <2> QED
    BY <1>6, <2>1, <2>2 DEF FrameOK, GroupsOK, HeadsOK
<1>9. /\ Held(left) = f.blocks \cup UNION {f.groups[x] : x \in D \ {e}}
      /\ Held(g) = f.groups[e]
      /\ Held(f) = f.blocks \cup UNION {f.groups[x] : x \in D}
  <2>1. consumed(rest) = UNION {f.groups[x] : x \in D \ {e}}
    BY <1>4 DEF consumed
  <2>2. consumed(NoGroups) = {}
    BY DEF consumed, NoGroups
  <2>3. consumed(f.groups) = UNION {f.groups[x] : x \in D}
    BY <1>4 DEF consumed
  <2> HIDE DEF rest, g, left, f
  <2> QED
    BY <1>5, <1>6, <2>1, <2>2, <2>3 DEF Held
<1>10. Held(left) \cap Held(g) = {} /\ Held(left) \cup Held(g) = Held(f)
  <2>1. f.groups[e] \cap f.blocks = {}
        /\ \A x \in D \ {e} : f.groups[x] \cap f.groups[e] = {}
    BY <1>2, <1>4 DEF FrameOK, GroupsOK
  <2> HIDE DEF f, g, left
  <2> QED
    BY <1>4, <1>9, <2>1
<1>11. /\ runs' \in Seq(Seq(ShapeType)) /\ DOMAIN runs \subseteq DOMAIN runs' /\ q \in DOMAIN runs'
       /\ \A b, r, i : PlacedIn(runs', b, r, i) <=> PlacedIn(runs, b, r, i)
  <2>1. CASE f.inline
    BY <1>1, <1>2, <2>1
  <2>2. CASE ~f.inline
    <3> DEFINE arm == AddArm(f.run, e, new)
    <3>1. /\ arm \in Seq(Seq(ShapeType)) /\ DOMAIN arm = DOMAIN runs
          /\ \A b, r, i : PlacedIn(arm, b, r, i) <=> PlacedIn(runs, b, r, i)
      BY <1>2, <1>4, ArmAdded
    <3> HIDE DEF arm
    <3>2. /\ Append(arm, <<>>) \in Seq(Seq(ShapeType))
          /\ DOMAIN Append(arm, <<>>) = 1 .. Len(arm) + 1
          /\ \A b, r, i : PlacedIn(Append(arm, <<>>), b, r, i) <=> PlacedIn(arm, b, r, i)
      BY <3>1, RunAdded
    <3>3. Len(arm) = Len(runs) /\ DOMAIN runs = 1 .. Len(runs)
      BY <1>2, <3>1
    <3>4. runs' = Append(arm, <<>>) /\ q = Len(runs) + 1
      BY <1>1, <2>2 DEF arm
    <3> QED
      BY <1>2, <3>1, <3>2, <3>3, <3>4
  <2> QED
    BY <2>1, <2>2
<1>12. Placed(runs') = Placed(runs) /\ PlacedOnce(runs')
  BY <1>11, PlacedSame
<1>13. HandsOn(left, g)
  <2>1. stack' = Calls(left, g)
    BY <1>1
  <2>2. left.run \in DOMAIN runs'
    BY <1>2, <1>5, <1>11
  <2> HIDE DEF left, g, f, q
  <2> QED
    BY <1>2, <1>5, <1>6, <1>7, <1>8, <1>10, <1>11, <2>1, <2>2 DEF HandsOn, f
<1>14. TypeInv' /\ StackInv'
  <2> HIDE DEF left, g
  <2> QED
    BY <1>1, <1>2, <1>11, <1>12, <1>13, CallsStep
<1> QED
  BY <1>12, <1>14

LEMMA LoopStep ==
    ASSUME IInv, stack # <<>>, make_loop
    PROVE  IInv'
<1> USE DEF IInv
<1> DEFINE f == Top
           E == f.entries
           B == f.blocks
           inner == loop_blocks(E, B)
           new == Len(runs) + 1
           state == fresh_state(E)
           shape == Loop(E, state, new)
           left == Frame(f.run, NoGroups, FALSE, 0, leaving(B, inner), B \ inner)
           g == Frame(new, NoGroups, FALSE, state, E, inner)
<1>1. /\ f \in FrameType /\ f.run \in DOMAIN runs /\ Here(f) = E /\ Span(Edges, E, B)
      /\ runs \in Seq(Seq(ShapeType)) /\ graph \in Graph /\ cut \subseteq Block \X Block
      /\ states \in Nat /\ new \in Nat /\ f.run \in Nat
  BY TopFrame DEF TypeInv, FrameType, FrameOK
<1>2. /\ DOMAIN f.groups = {} /\ graph' = graph
      /\ cut' = cut \cup {edge \in inner \X E : edge[2] \in graph.succ[edge[1]]}
      /\ states' = IF state = 0 THEN states ELSE state
      /\ runs' = Append(Place(f.run, shape), <<>>)
      /\ stack' = Calls(left, g)
  BY <1>1 DEF make_loop, Turn
<1>3. Held(f) = B /\ B \subseteq Block /\ E \subseteq B /\ state \in Nat
  BY <1>1, <1>2, TopFrame DEF FrameType, fresh_state
<1>4. /\ E \subseteq inner /\ inner \subseteq B
      /\ \A x \in B \ inner : \A y \in inner : <<x, y>> \in Edges => y \in E
  <2>1. /\ graph \in Graph /\ B \in SUBSET Block /\ Span(Edges, E, B)
        /\ inner = loop_blocks(E, B)
    BY <1>1, <1>3
  <2> HIDE DEF f, E, B, inner
  <2>2. EnteredAt(Edges, E, B, inner)
    BY <2>1, LoopBlocks
  <2> QED
    BY <2>2 DEF EnteredAt
<1>5. \A x \in Block, y \in Block :
          <<x, y>> \in Edges' <=> <<x, y>> \in Edges /\ ~(x \in inner /\ y \in E)
  <2>1. \A x \in Block, y \in Block :
            /\ <<x, y>> \in Edges <=> y \in graph.succ[x] /\ <<x, y>> \notin cut
            /\ <<x, y>> \in Edges' <=> y \in graph.succ[x] /\ <<x, y>> \notin cut'
    BY <1>2 DEF Edges
  <2> HIDE DEF inner, E
  <2>2. \A x \in Block, y \in Block :
            <<x, y>> \in cut' <=> <<x, y>> \in cut \/ (x \in inner /\ y \in E /\ y \in graph.succ[x])
    BY <1>2
  <2> QED
    BY <2>1, <2>2
<1> HIDE DEF inner
<1>6. Span(Edges', E, inner)
  <2> DEFINE Q == Edges'
  <2>1. E \cap inner \subseteq E
    OBVIOUS
  <2>2. \A x \in inner : \A y \in inner : <<x, y>> \in Edges => <<x, y>> \in Q \/ y \in E
    BY <1>3, <1>4, <1>5
  <2> HIDE DEF Q, E, B
  <2>3. Span(Q, E, inner)
    BY <1>1, <1>4, <2>1, <2>2, SpanPart
  <2> QED
    BY <2>3 DEF Q
<1>7. Span(Edges', leaving(B, inner), B \ inner)
  <2> DEFINE F == {y \in B \ inner : \E x \in inner : <<x, y>> \in Edges}
  <2>1. leaving(B, inner) = F
    <3>1. graph \in Graph /\ B \in SUBSET Block /\ inner \in SUBSET B
      BY <1>1, <1>3, <1>4
    <3> HIDE DEF f, E, B
    <3> QED
      BY <3>1, Leaving
  <2>3. F = (E \ inner) \cup {y \in B \ inner : \E x \in inner : <<x, y>> \in Edges}
    BY <1>4
  <2>4. Span(Edges, F, B \ inner)
    <3> HIDE DEF E, B, F
    <3> QED
      BY <1>1, <1>4, <2>3, SpanRemainder
  <2>5. \A x \in B \ inner : \A y \in B \ inner : <<x, y>> \in Edges => <<x, y>> \in Edges'
    BY <1>3, <1>5
  <2>6. Span(Edges', F, B \ inner)
    <3> DEFINE Q == Edges'
               A == B \ inner
    <3>1. Span(Edges, F, A) /\ \A x \in A : \A y \in A : <<x, y>> \in Edges => <<x, y>> \in Q
      BY <2>4, <2>5
    <3> HIDE DEF Q, A, F
    <3>2. Span(Q, F, A)
      BY <3>1, SpanLocal
    <3> QED
      BY <3>2 DEF Q, A
  <2> QED
    BY <2>1, <2>6
<1>8. /\ NoGroups \in GroupMaps /\ DOMAIN NoGroups = {} /\ consumed(NoGroups) = {}
  BY NoGroupsIs
<1>9. /\ left.run = f.run /\ left.groups = NoGroups /\ left.head = 0
      /\ left.entries = leaving(B, inner) /\ left.blocks = B \ inner
      /\ left \in FrameType /\ FrameOK(Edges', left) /\ Held(left) = B \ inner
  <2> DEFINE L == leaving(B, inner)
             C == B \ inner
  <2>1. L \subseteq Block /\ C \subseteq Block /\ Span(Edges', L, C)
    BY <1>3, <1>7 DEF Span
  <2> HIDE DEF L, C, f, NoGroups
  <2>2. left = Frame(f.run, NoGroups, FALSE, 0, L, C)
    BY DEF L, C
  <2> HIDE DEF left
  <2>3. /\ left.run = f.run /\ left.groups = NoGroups /\ left.head = 0
        /\ left.entries = L /\ left.blocks = C /\ left \in FrameType
    BY <1>1, <1>8, <2>1, <2>2 DEF Frame, FrameType
  <2>4. FrameOK(Edges', left) /\ Held(left) = C
    BY <1>8, <2>1, <2>3 DEF FrameOK, GroupsOK, HeadsOK, Held
  <2> QED
    BY <2>3, <2>4 DEF L, C
<1>10. /\ g.run = new /\ g \in FrameType /\ FrameOK(Edges', g) /\ Held(g) = inner
  <2>1. inner \subseteq Block /\ E \subseteq Block
    BY <1>3, <1>4
  <2>2. \A x \in inner : \A y \in E : <<x, y>> \notin Edges'
    BY <1>5, <2>1
  <2> HIDE DEF f, E, NoGroups, state, new
  <2>3. /\ g.run = new /\ g.groups = NoGroups /\ g.head = state
        /\ g.entries = E /\ g.blocks = inner /\ g \in FrameType
    BY <1>1, <1>3, <1>8, <2>1 DEF Frame, FrameType
  <2> HIDE DEF g
  <2> QED
    BY <1>6, <1>8, <2>2, <2>3 DEF FrameOK, GroupsOK, HeadsOK, Held
<1>11. shape \in ShapeType /\ shape.kind = "loop"
  <2>1. NoArms \in UNION {[S -> Nat] : S \in SUBSET Block}
    BY DEF NoArms
  <2> HIDE DEF NoArms, E, B, state, new
  <2>2. E \in SUBSET Block
    BY <1>3
  <2> QED
    BY <1>1, <1>3, <2>1, <2>2 DEF Loop, Shape, ShapeType
<1>12. /\ runs' \in Seq(Seq(ShapeType)) /\ DOMAIN runs \subseteq DOMAIN runs' /\ new \in DOMAIN runs'
       /\ \A b, r, i : PlacedIn(runs', b, r, i) <=> PlacedIn(runs, b, r, i)
  <2> DEFINE mid == Place(f.run, shape)
             q == f.run
  <2>1. /\ q \in DOMAIN runs /\ mid = Grown(runs, q, shape) /\ shape \in ShapeType
        /\ runs \in Seq(Seq(ShapeType))
    BY <1>1, <1>11 DEF Place, Grown
  <2>2. runs' = Append(mid, <<>>)
    BY <1>2
  <2> HIDE DEF f, shape, mid, q
  <2>3. /\ mid \in Seq(Seq(ShapeType)) /\ DOMAIN mid = DOMAIN runs
        /\ \A c, r, i : PlacedIn(mid, c, r, i) <=>
               \/ PlacedIn(runs, c, r, i)
               \/ (r = q /\ i = Len(runs[q]) + 1 /\ shape.kind = "simple" /\ c \in shape.entries)
    BY <2>1, ShapePlaced
  <2>4. \A c, r, i : PlacedIn(mid, c, r, i) <=> PlacedIn(runs, c, r, i)
    BY <1>11, <2>3
  <2>5. /\ Append(mid, <<>>) \in Seq(Seq(ShapeType))
        /\ DOMAIN Append(mid, <<>>) = 1 .. Len(mid) + 1
        /\ \A b, r, i : PlacedIn(Append(mid, <<>>), b, r, i) <=> PlacedIn(mid, b, r, i)
    BY <2>3, RunAdded
  <2>6. Len(mid) = Len(runs) /\ DOMAIN runs = 1 .. Len(runs)
    BY <1>1, <2>3
  <2> QED
    BY <1>1, <2>2, <2>4, <2>5, <2>6
<1>13. Placed(runs') = Placed(runs) /\ PlacedOnce(runs')
  BY <1>12, PlacedSame
<1>14. HandsOn(left, g)
  <2>1. Held(left) \cap Held(g) = {} /\ Held(left) \cup Held(g) = Held(Top)
    BY <1>3, <1>4, <1>9, <1>10
  <2>2. left.run \in DOMAIN runs' /\ g.run \in DOMAIN runs'
    BY <1>1, <1>9, <1>10, <1>12
  <2> HIDE DEF left, g
  <2> QED
    BY <1>2, <1>9, <1>10, <2>1, <2>2 DEF HandsOn
<1>15. \A x \in Block \ Held(Top) : \A y \in Block : <<x, y>> \in Edges <=> <<x, y>> \in Edges'
  <2>1. \A x \in Block \ Held(Top) : x \notin inner
    BY <1>3, <1>4
  <2> QED
    BY <1>5, <2>1
<1>16. cut' \subseteq Block \X Block /\ states' \in Nat
  <2>1. inner \X E \subseteq Block \X Block
    BY <1>3, <1>4
  <2> HIDE DEF E, state
  <2> QED
    BY <1>1, <1>2, <1>3, <2>1
<1>17. TypeInv' /\ StackInv'
  <2> HIDE DEF left, g
  <2> QED
    BY <1>2, <1>12, <1>13, <1>14, <1>15, <1>16, CallsStep
<1> QED
  BY <1>13, <1>17

-----------------------------------------------------------------------------
LEMMA InitInv ==
    ASSUME Init
    PROVE  IInv
<1> DEFINE f == Frame(1, NoGroups, FALSE, 0, {0}, Block)
<1>1. /\ graph \in Graph /\ FromEntry(graph) /\ cut = {} /\ runs = << <<>> >>
      /\ stack = <<f>> /\ states = 0 /\ 0 \in Block
  BY NAssumption, GraphsAssumption DEF Init, Block
<1>2. /\ NoGroups \in GroupMaps /\ DOMAIN NoGroups = {} /\ consumed(NoGroups) = {}
  BY NoGroupsIs
<1>3. f \in FrameType /\ f.run = 1 /\ Held(f) = Block
  <2> HIDE DEF NoGroups
  <2> QED
    BY <1>1, <1>2 DEF Frame, FrameType, Held
<1>4. Span(Edges, {0}, Block)
  <2>1. \A x \in Block : \A y \in graph.succ[x] : y \in Block /\ <<x, y>> \in Edges
    BY <1>1 DEF Edges, Graph
  <2> SUFFICES ASSUME NEW S \in SUBSET Block, {0} \subseteq S, Shut(Edges, S, Block)
               PROVE  S = Block
    BY <1>1 DEF Span
  <2>2. \A b \in S : graph.succ[b] \subseteq S
    BY <2>1 DEF Shut
  <2> QED
    BY <1>1, <2>2 DEF FromEntry
<1>5. FrameOK(Edges, f)
  <2> HIDE DEF NoGroups
  <2> QED
    BY <1>2, <1>4 DEF Frame, FrameOK, GroupsOK, HeadsOK
<1> HIDE DEF f
<1>6. TypeInv
  <2>1. runs \in Seq(Seq(ShapeType)) /\ DOMAIN runs = {1}
    BY <1>1
  <2>2. stack \in Seq(FrameType) /\ DOMAIN stack = {1} /\ stack[1] = f
    BY <1>1, <1>3
  <2> QED
    BY <1>1, <1>3, <2>1, <2>2 DEF TypeInv
<1>7. \A b, q, i : ~PlacedIn(runs, b, q, i)
  <2> SUFFICES ASSUME NEW q \in DOMAIN runs
               PROVE  DOMAIN runs[q] = {}
    BY DEF PlacedIn
  <2> QED
    BY <1>1
<1>8. StackInv
  <2>1. DOMAIN stack = {1} /\ stack[1] = f
    BY <1>1
  <2>2. Placed(runs) = {}
    BY <1>7 DEF Placed
  <2> QED
    BY <1>3, <1>5, <2>1, <2>2 DEF StackInv
<1> QED
  BY <1>6, <1>7, <1>8 DEF IInv, PlacedOnce

LEMMA NextInv ==
    ASSUME IInv, [Next]_vars
    PROVE  IInv'
<1>1. CASE UNCHANGED vars
  <2>1. Edges' = Edges /\ Top' = Top
    BY <1>1 DEF vars, Edges, Top
  <2> QED
    BY <1>1, <2>1 DEF vars, IInv, TypeInv, StackInv
<1>2. CASE Process
  BY <1>2, SimpleStep, MultipleStep, GroupStep, LoopStep, DispatchStep, ReturnStep DEF Process
<1> QED
  BY <1>1, <1>2 DEF Next

(* The inductive invariant.                                                *)
THEOREM RelooperInvariant == Spec => []IInv
<1>1. Init => IInv
  BY InitInv
<1>2. IInv /\ [Next]_vars => IInv'
  BY NextInv
<1> QED
  BY <1>1, <1>2, PTL DEF Spec

(* The relooper neither loses a block nor emits one twice.                 *)
THEOREM NoBlockLost == Spec => []EveryBlockOnce
<1>1. IInv => EveryBlockOnce
  <2> SUFFICES ASSUME IInv, stack = <<>>, NEW b \in Block
               PROVE  /\ \E q \in DOMAIN runs : \E i \in DOMAIN runs[q] : PlacedIn(runs, b, q, i)
                      /\ \A q, r \in DOMAIN runs : \A i \in DOMAIN runs[q], j \in DOMAIN runs[r] :
                            PlacedIn(runs, b, q, i) /\ PlacedIn(runs, b, r, j) => q = r /\ i = j
    BY DEF EveryBlockOnce, Recovered, PlacedAt, PlacedIn
  <2>1. b \in Placed(runs)
    BY DEF IInv, StackInv
  <2> QED
    BY <2>1 DEF Placed, PlacedOnce, IInv
<1> QED
  BY <1>1, RelooperInvariant, PTL

(* The heads of an irreducible region always split into groups, so the     *)
(* `None` arm of `make_loop` is not taken.                                 *)
THEOREM HeadsAlwaysSplit == Spec => []HeadsIndependent
<1>1. IInv => HeadsIndependent
  <2> SUFFICES ASSUME IInv, NEW k \in DOMAIN stack, stack[k].head # 0
               PROVE  DOMAIN independent_groups(stack[k].entries, stack[k].blocks) = stack[k].entries
    BY DEF HeadsIndependent
  <2> DEFINE E == stack[k].entries
             B == stack[k].blocks
  <2>1. graph \in Graph /\ stack[k] \in FrameType /\ FrameOK(Edges, stack[k])
    BY DEF IInv, TypeInv, StackInv
  <2>2. B \in SUBSET Block /\ E \in SUBSET B
    BY <2>1 DEF FrameType, FrameOK, Span
  <2>3. \A x \in B : \A y \in E : <<x, y>> \notin Edges
    BY <2>1 DEF FrameOK, HeadsOK
  <2> HIDE DEF E, B
  <2>4. DOMAIN independent_groups(E, B) = E
    BY <2>1, <2>2, <2>3, HeadsSplit
  <2> QED
    BY <2>4 DEF E, B
<1> QED
  BY <1>1, RelooperInvariant, PTL

-----------------------------------------------------------------------------
(* The tree of the runs.  S holds, with a run, those its shapes hold.      *)
Nested(rs, S) == \A r \in S : \A i \in DOMAIN rs[r] : Bodies(rs[r][i]) \subseteq S

(* The runs of the tree whose root is run q.                               *)
Inside(rs, q) == {r \in DOMAIN rs : \A S \in SUBSET DOMAIN rs : q \in S /\ Nested(rs, S) => r \in S}

(* Every run but the first stands in exactly one shape, of an earlier run. *)
HeldLater(rs) ==
    \A q \in DOMAIN rs : \A i \in DOMAIN rs[q] : \A b \in Bodies(rs[q][i]) : b \in DOMAIN rs /\ q < b
HeldOnce(rs) ==
    /\ \A b \in DOMAIN rs \ {1} : \E q \in DOMAIN rs : \E i \in DOMAIN rs[q] : b \in Bodies(rs[q][i])
    /\ \A q, r \in DOMAIN rs : \A i \in DOMAIN rs[q], j \in DOMAIN rs[r] :
          \A b \in Bodies(rs[q][i]) : b \in Bodies(rs[r][j]) => q = r /\ i = j
LoopBody(rs) ==
    \A q \in DOMAIN rs : \A i \in DOMAIN rs[q] : rs[q][i].kind = "loop" <=> rs[q][i].body # 0
TreeOK(rs) == HeldLater(rs) /\ HeldOnce(rs) /\ LoopBody(rs)

LEMMA InsideSelf ==
    ASSUME NEW rs, NEW q \in DOMAIN rs
    PROVE  q \in Inside(rs, q)
BY DEF Inside

LEMMA InsideNested ==
    ASSUME NEW rs, HeldLater(rs), NEW q
    PROVE  Nested(rs, Inside(rs, q))
<1> SUFFICES ASSUME NEW r \in Inside(rs, q), NEW i \in DOMAIN rs[r], NEW b \in Bodies(rs[r][i])
             PROVE  b \in Inside(rs, q)
  BY DEF Nested
<1>1. r \in DOMAIN rs
  BY DEF Inside
<1>2. b \in DOMAIN rs
  BY <1>1 DEF HeldLater
<1>3. ASSUME NEW S \in SUBSET DOMAIN rs, q \in S, Nested(rs, S)
      PROVE  b \in S
  <2>1. r \in S
    BY <1>3 DEF Inside
  <2> QED
    BY <2>1, <1>3 DEF Nested
<1> QED
  BY <1>2, <1>3 DEF Inside

LEMMA InsideKid ==
    ASSUME NEW rs, HeldLater(rs), NEW q, NEW r \in Inside(rs, q),
           NEW i \in DOMAIN rs[r], NEW b \in Bodies(rs[r][i])
    PROVE  b \in Inside(rs, q)
BY InsideNested DEF Nested

LEMMA InsideTrans ==
    ASSUME NEW rs, HeldLater(rs), NEW c, NEW b \in Inside(rs, c), NEW a \in Inside(rs, b)
    PROVE  a \in Inside(rs, c)
<1>1. Inside(rs, c) \in SUBSET DOMAIN rs
  BY DEF Inside
<1>2. Nested(rs, Inside(rs, c))
  BY InsideNested
<1> QED
  BY <1>1, <1>2 DEF Inside

(* A run of the tree is its root, or in the tree of a run the root holds.  *)
LEMMA InsideDown ==
    ASSUME NEW rs, HeldLater(rs), NEW q \in DOMAIN rs, NEW r \in Inside(rs, q), r # q
    PROVE  \E i \in DOMAIN rs[q] : \E b \in Bodies(rs[q][i]) : r \in Inside(rs, b)
<1> DEFINE Below == {x \in DOMAIN rs :
                       \E i \in DOMAIN rs[q] : \E b \in Bodies(rs[q][i]) : x \in Inside(rs, b)}
           T == {q} \cup Below
<1>1. T \in SUBSET DOMAIN rs
  OBVIOUS
<1>2. ASSUME NEW x \in T, NEW j \in DOMAIN rs[x], NEW c \in Bodies(rs[x][j])
      PROVE  c \in T
  <2>1. c \in DOMAIN rs
    BY <1>1, <1>2 DEF HeldLater
  <2>2. CASE x = q
    BY <1>2, <2>1, <2>2, InsideSelf
  <2>3. CASE x # q
    <3>1. PICK i \in DOMAIN rs[q] : \E b \in Bodies(rs[q][i]) : x \in Inside(rs, b)
      BY <2>3
    <3>2. PICK b \in Bodies(rs[q][i]) : x \in Inside(rs, b)
      BY <3>1
    <3>3. c \in Inside(rs, b)
      BY <1>2, <3>2, InsideKid
    <3> QED
      BY <2>1, <3>3
  <2> QED
    BY <2>2, <2>3
<1> HIDE DEF T
<1>3. Nested(rs, T)
  BY <1>2 DEF Nested
<1>4. q \in T
  BY DEF T
<1>5. r \in T
  BY <1>1, <1>3, <1>4 DEF Inside
<1> QED
  BY <1>5 DEF T

-----------------------------------------------------------------------------
(* How the runs grow: nothing that was made is taken back.                 *)
Same(old, shape) ==
    /\ shape.kind = old.kind /\ shape.entries = old.entries
    /\ shape.state = old.state /\ shape.body = old.body
    /\ DOMAIN old.arms \subseteq DOMAIN shape.arms /\ Bodies(old) \subseteq Bodies(shape)
Grows(rs, new) ==
    /\ DOMAIN rs \subseteq DOMAIN new
    /\ \A q \in DOMAIN rs : DOMAIN rs[q] \subseteq DOMAIN new[q]
    /\ \A q \in DOMAIN rs : \A i \in DOMAIN rs[q] : Same(rs[q][i], new[q][i])

LEMMA InsideGrows ==
    ASSUME NEW rs, NEW new, HeldLater(rs), Grows(rs, new), NEW q \in DOMAIN rs, NEW r \in Inside(rs, q)
    PROVE  r \in Inside(new, q)
<1>1. r \in DOMAIN new
  BY DEF Inside, Grows
<1>2. ASSUME NEW S \in SUBSET DOMAIN new, q \in S, Nested(new, S)
      PROVE  r \in S
  <2> DEFINE T == S \cap DOMAIN rs
  <2>1. ASSUME NEW x \in T, NEW i \in DOMAIN rs[x], NEW b \in Bodies(rs[x][i])
        PROVE  b \in T
    <3>1. b \in DOMAIN rs
      BY DEF HeldLater
    <3>2. i \in DOMAIN new[x] /\ b \in Bodies(new[x][i])
      BY DEF Grows, Same
    <3> QED
      BY <1>2, <3>1, <3>2 DEF Nested
  <2> HIDE DEF T
  <2>2. Nested(rs, T)
    BY <2>1 DEF Nested
  <2>3. T \in SUBSET DOMAIN rs /\ q \in T
    BY <1>2 DEF T
  <2>4. r \in T
    BY <2>2, <2>3 DEF Inside
  <2> QED
    BY <2>4 DEF T
<1> QED
  BY <1>1, <1>2 DEF Inside

(* A jump from shape i of run q is served: something it can leave, or fall *)
(* out of, ends where t begins.                                            *)
Beyond(rs, q, i, t) == \E j \in DOMAIN rs[q] : i < j /\ t \in rs[q][j].entries
Around(rs, q, t) ==
    \E r \in DOMAIN rs : \E j \in DOMAIN rs[r] : \E b \in Bodies(rs[r][j]) :
        /\ q \in Inside(rs, b)
        /\ Beyond(rs, r, j, t) \/ (rs[r][j].kind = "loop" /\ t \in rs[r][j].entries)
Escapes(rs, q, i, t) == Beyond(rs, q, i, t) \/ Around(rs, q, t)

LEMMA BeyondGrows ==
    ASSUME NEW rs, NEW new, Grows(rs, new), NEW q \in DOMAIN rs, NEW i, NEW t, Beyond(rs, q, i, t)
    PROVE  Beyond(new, q, i, t)
<1>1. PICK j \in DOMAIN rs[q] : i < j /\ t \in rs[q][j].entries
  BY DEF Beyond
<1>2. j \in DOMAIN new[q] /\ new[q][j].entries = rs[q][j].entries
  BY DEF Grows, Same
<1> QED
  BY <1>1, <1>2 DEF Beyond

LEMMA EscapesGrow ==
    ASSUME NEW rs, NEW new, HeldLater(rs), Grows(rs, new),
           NEW q \in DOMAIN rs, NEW i, NEW t, Escapes(rs, q, i, t)
    PROVE  Escapes(new, q, i, t)
<1>1. CASE Beyond(rs, q, i, t)
  BY <1>1, BeyondGrows DEF Escapes
<1>2. CASE Around(rs, q, t)
  <2>1. PICK r \in DOMAIN rs : \E j \in DOMAIN rs[r] : \E b \in Bodies(rs[r][j]) :
            /\ q \in Inside(rs, b)
            /\ Beyond(rs, r, j, t) \/ (rs[r][j].kind = "loop" /\ t \in rs[r][j].entries)
    BY <1>2 DEF Around
  <2>2. PICK j \in DOMAIN rs[r] : \E b \in Bodies(rs[r][j]) :
            /\ q \in Inside(rs, b)
            /\ Beyond(rs, r, j, t) \/ (rs[r][j].kind = "loop" /\ t \in rs[r][j].entries)
    BY <2>1
  <2>3. PICK b \in Bodies(rs[r][j]) :
            /\ q \in Inside(rs, b)
            /\ Beyond(rs, r, j, t) \/ (rs[r][j].kind = "loop" /\ t \in rs[r][j].entries)
    BY <2>2
  <2>4. /\ r \in DOMAIN new /\ j \in DOMAIN new[r] /\ b \in Bodies(new[r][j])
        /\ new[r][j].kind = rs[r][j].kind /\ new[r][j].entries = rs[r][j].entries
    BY DEF Grows, Same
  <2>5. b \in DOMAIN rs
    BY DEF HeldLater
  <2>6. q \in Inside(new, b)
    BY <2>3, <2>5, InsideGrows
  <2>7. Beyond(new, r, j, t) \/ (new[r][j].kind = "loop" /\ t \in new[r][j].entries)
    BY <2>3, <2>4, BeyondGrows
  <2> QED
    BY <2>4, <2>6, <2>7 DEF Around, Escapes
<1> QED
  BY <1>1, <1>2 DEF Escapes

(* What a run gets as its next shape is beyond every shape of its tree.    *)
LEMMA EscapesNext ==
    ASSUME NEW rs \in Seq(Seq(ShapeType)), NEW new, HeldLater(rs), Grows(rs, new), NEW q \in DOMAIN rs,
           Len(rs[q]) + 1 \in DOMAIN new[q], NEW t \in new[q][Len(rs[q]) + 1].entries,
           NEW r \in Inside(rs, q), NEW i \in DOMAIN rs[r]
    PROVE  Escapes(new, r, i, t)
<1> DEFINE n == Len(rs[q]) + 1
<1>0. rs[q] \in Seq(ShapeType)
  OBVIOUS
<1>1. \A j \in DOMAIN rs[q] : j < n
  BY <1>0
<1> HIDE DEF n
<1>2. n \in DOMAIN new[q] /\ t \in new[q][n].entries
  BY DEF n
<1>3. CASE r = q
  BY <1>1, <1>2, <1>3 DEF Escapes, Beyond
<1>4. CASE r # q
  <2>1. PICK j \in DOMAIN rs[q] : \E b \in Bodies(rs[q][j]) : r \in Inside(rs, b)
    BY <1>4, InsideDown
  <2>2. PICK b \in Bodies(rs[q][j]) : r \in Inside(rs, b)
    BY <2>1
  <2>3. b \in DOMAIN rs
    BY DEF HeldLater
  <2>4. r \in Inside(new, b)
    BY <2>2, <2>3, InsideGrows
  <2>5. q \in DOMAIN new /\ j \in DOMAIN new[q] /\ b \in Bodies(new[q][j])
    BY DEF Grows, Same
  <2>6. Beyond(new, q, j, t)
    BY <1>1, <1>2, <2>1 DEF Beyond
  <2> QED
    BY <2>4, <2>5, <2>6 DEF Escapes, Around
<1> QED
  BY <1>3, <1>4

-----------------------------------------------------------------------------
(* The three ways a step makes runs grow.  F is the run it adds, if it     *)
(* does: shape i of run q gets to hold it.                                 *)
RunsStep(rs, new, q, i, F) ==
    /\ q \in DOMAIN rs /\ i \in DOMAIN new[q]
    /\ DOMAIN new = DOMAIN rs \cup F
    /\ \A r \in F : r \notin DOMAIN rs /\ new[r] = <<>> /\ \A x \in DOMAIN rs : x < r
    /\ \A r \in DOMAIN rs : \A j \in DOMAIN new[r] : \A b :
          b \in Bodies(new[r][j]) <=> \/ j \in DOMAIN rs[r] /\ b \in Bodies(rs[r][j])
                                      \/ r = q /\ j = i /\ b \in F
    /\ LoopBody(new)

LEMMA TreeGrows ==
    ASSUME NEW rs, NEW new, TreeOK(rs), Grows(rs, new), NEW q, NEW i, NEW F, RunsStep(rs, new, q, i, F)
    PROVE  TreeOK(new)
<1> USE DEF RunsStep
<1>1. \A r \in F : DOMAIN new[r] = {}
  OBVIOUS
<1>2. HeldLater(new)
  <2> SUFFICES ASSUME NEW r \in DOMAIN new, NEW j \in DOMAIN new[r], NEW b \in Bodies(new[r][j])
               PROVE  b \in DOMAIN new /\ r < b
    BY DEF HeldLater
  <2>1. r \in DOMAIN rs
    BY <1>1
  <2>2. CASE j \in DOMAIN rs[r] /\ b \in Bodies(rs[r][j])
    BY <2>1, <2>2 DEF TreeOK, HeldLater
  <2>3. CASE r = q /\ j = i /\ b \in F
    BY <2>3
  <2> QED
    BY <2>1, <2>2, <2>3
<1>3. ASSUME NEW b \in DOMAIN new \ {1}
      PROVE  \E r \in DOMAIN new : \E j \in DOMAIN new[r] : b \in Bodies(new[r][j])
  <2>1. CASE b \in F
    BY <2>1
  <2>2. CASE b \in DOMAIN rs
    <3>1. PICK r \in DOMAIN rs : \E j \in DOMAIN rs[r] : b \in Bodies(rs[r][j])
      BY <2>2 DEF TreeOK, HeldOnce
    <3>2. PICK j \in DOMAIN rs[r] : b \in Bodies(rs[r][j])
      BY <3>1
    <3>3. j \in DOMAIN new[r] /\ b \in Bodies(new[r][j])
      BY <3>2 DEF Grows, Same
    <3> QED
      BY <3>3
  <2> QED
    BY <2>1, <2>2
<1>4. ASSUME NEW r \in DOMAIN new, NEW s \in DOMAIN new, NEW j \in DOMAIN new[r], NEW k \in DOMAIN new[s],
             NEW b \in Bodies(new[r][j]), b \in Bodies(new[s][k])
      PROVE  r = s /\ j = k
  <2>1. r \in DOMAIN rs /\ s \in DOMAIN rs
    BY <1>1
  <2>2. CASE b \in F
    <3>1. \A x \in DOMAIN rs : \A y \in DOMAIN rs[x] : b \notin Bodies(rs[x][y])
      BY <2>2 DEF TreeOK, HeldLater
    <3> QED
      BY <2>1, <3>1, <1>4
  <2>3. CASE b \notin F
    <3>1. j \in DOMAIN rs[r] /\ b \in Bodies(rs[r][j]) /\ k \in DOMAIN rs[s] /\ b \in Bodies(rs[s][k])
      BY <2>1, <2>3, <1>4
    <3> QED
      BY <2>1, <3>1 DEF TreeOK, HeldOnce
  <2> QED
    BY <2>2, <2>3
<1>5. HeldOnce(new)
  BY <1>3, <1>4 DEF HeldOnce
<1> QED
  BY <1>2, <1>5 DEF TreeOK

(* What a run looks like when it got a shape.                              *)
GrownBy(rs, new, q, shape) ==
    /\ \A r \in DOMAIN rs : r # q => new[r] = rs[r]
    /\ DOMAIN new[q] = 1 .. Len(rs[q]) + 1
    /\ \A i \in DOMAIN rs[q] : new[q][i] = rs[q][i]
    /\ new[q][Len(rs[q]) + 1] = shape

LEMMA GrownIs ==
    ASSUME NEW rs \in Seq(Seq(ShapeType)), NEW q \in DOMAIN rs, NEW shape \in ShapeType
    PROVE  GrownBy(rs, Grown(rs, q, shape), q, shape)
<1>1. rs[q] \in Seq(ShapeType)
  OBVIOUS
<1>2. /\ Append(rs[q], shape) \in Seq(ShapeType)
      /\ DOMAIN Append(rs[q], shape) = 1 .. Len(rs[q]) + 1 /\ DOMAIN rs[q] = 1 .. Len(rs[q])
      /\ \A i \in 1 .. Len(rs[q]) : Append(rs[q], shape)[i] = rs[q][i]
      /\ Append(rs[q], shape)[Len(rs[q]) + 1] = shape
  BY <1>1
<1> QED
  BY <1>2 DEF Grown, GrownBy

OnlyNext(rs, new, q, shape) ==
    \A r \in DOMAIN rs : \A j \in DOMAIN new[r] :
        \/ j \in DOMAIN rs[r] /\ new[r][j] = rs[r][j]
        \/ r = q /\ j = Len(rs[q]) + 1 /\ new[r][j] = shape

LEMMA GrownGrows ==
    ASSUME NEW rs \in Seq(Seq(ShapeType)), NEW new, NEW q \in DOMAIN rs, NEW shape,
           DOMAIN rs \subseteq DOMAIN new, GrownBy(rs, new, q, shape)
    PROVE  Grows(rs, new) /\ OnlyNext(rs, new, q, shape)
<1> USE DEF GrownBy
<1>1. rs[q] \in Seq(ShapeType)
  OBVIOUS
<1>2. DOMAIN rs[q] = 1 .. Len(rs[q]) /\ Len(rs[q]) \in Nat
  BY <1>1
<1>3. \A r \in DOMAIN rs : \A j \in DOMAIN rs[r] : j \in DOMAIN new[r] /\ new[r][j] = rs[r][j]
  <2>1. \A j \in DOMAIN rs[q] : j \in DOMAIN new[q] /\ new[q][j] = rs[q][j]
    BY <1>2
  <2>2. \A r \in DOMAIN rs : r # q => new[r] = rs[r]
    OBVIOUS
  <2> QED
    BY ONLY <2>1, <2>2
<1>4. Grows(rs, new)
  BY <1>3 DEF Grows, Same
<1>5. ASSUME NEW r \in DOMAIN rs, NEW j \in DOMAIN new[r], j \notin DOMAIN rs[r]
      PROVE  r = q /\ j = Len(rs[q]) + 1 /\ new[r][j] = shape
  BY <1>2, <1>5
<1> QED
  BY <1>3, <1>4, <1>5 DEF OnlyNext

(* A block or a dispatch is placed.                                        *)
LEMMA PlaceGrows ==
    ASSUME NEW rs \in Seq(Seq(ShapeType)), TreeOK(rs), NEW q \in DOMAIN rs,
           NEW shape \in ShapeType, shape.body = 0, DOMAIN shape.arms = {}, shape.kind # "loop",
           NEW new, new = Grown(rs, q, shape)
    PROVE  /\ Grows(rs, new) /\ TreeOK(new) /\ DOMAIN new = DOMAIN rs
           /\ GrownBy(rs, new, q, shape)
<1>1. DOMAIN new = DOMAIN rs /\ GrownBy(rs, new, q, shape)
  BY GrownIs, ShapePlaced
<1>2. Bodies(shape) = {}
  BY DEF Bodies
<1>3. Grows(rs, new) /\ OnlyNext(rs, new, q, shape)
  BY <1>1, GrownGrows
<1>4. LoopBody(new)
  BY <1>1, <1>3 DEF TreeOK, LoopBody, OnlyNext
<1>5. Len(rs[q]) + 1 \in DOMAIN new[q] /\ Len(rs[q]) + 1 \notin DOMAIN rs[q]
  <2>1. rs[q] \in Seq(ShapeType)
    OBVIOUS
  <2>2. DOMAIN rs[q] = 1 .. Len(rs[q]) /\ Len(rs[q]) \in Nat
    BY <2>1
  <2> QED
    BY <1>1, <2>2 DEF GrownBy
<1>6. RunsStep(rs, new, q, Len(rs[q]) + 1, {})
  <2>1. ASSUME NEW r \in DOMAIN rs, NEW j \in DOMAIN new[r], NEW b
        PROVE  b \in Bodies(new[r][j]) <=> j \in DOMAIN rs[r] /\ b \in Bodies(rs[r][j])
    BY <1>2, <1>3, <1>5 DEF OnlyNext
  <2> QED
    BY <1>1, <1>4, <1>5, <2>1 DEF RunsStep
<1> QED
  BY <1>1, <1>3, <1>6, TreeGrows

LEMMA AppendIs ==
    ASSUME NEW rs \in Seq(Seq(ShapeType))
    PROVE  /\ DOMAIN Append(rs, <<>>) = DOMAIN rs \cup {Len(rs) + 1}
           /\ \A q \in DOMAIN rs : Append(rs, <<>>)[q] = rs[q]
           /\ Append(rs, <<>>)[Len(rs) + 1] = <<>>
           /\ Len(rs) + 1 \notin DOMAIN rs /\ \A q \in DOMAIN rs : q < Len(rs) + 1
           /\ DOMAIN rs = 1 .. Len(rs)
OBVIOUS

(* A loop is placed, whose body is a new run.                              *)
GetsLoop(rs, q, shape, new) ==
    /\ rs \in Seq(Seq(ShapeType)) /\ TreeOK(rs) /\ q \in DOMAIN rs
    /\ shape \in ShapeType /\ shape.body = Len(rs) + 1 /\ DOMAIN shape.arms = {} /\ shape.kind = "loop"
    /\ new = Append(Grown(rs, q, shape), <<>>)
GotLoop(rs, q, shape, new) ==
    /\ Grows(rs, new) /\ TreeOK(new) /\ DOMAIN new = DOMAIN rs \cup {Len(rs) + 1}
    /\ GrownBy(rs, new, q, shape) /\ new[Len(rs) + 1] = <<>>
    /\ Len(rs) + 1 \notin DOMAIN rs
    /\ Len(rs[q]) + 1 \in DOMAIN new[q] /\ Len(rs[q]) + 1 \notin DOMAIN rs[q]
    /\ new[q][Len(rs[q]) + 1] = shape
    /\ \A i \in DOMAIN new[q] : i \in DOMAIN rs[q] \/ i = Len(rs[q]) + 1

LEMMA LoopGrows ==
    ASSUME NEW rs, NEW q, NEW shape, NEW new, GetsLoop(rs, q, shape, new)
    PROVE  GotLoop(rs, q, shape, new)
<1>0. /\ rs \in Seq(Seq(ShapeType)) /\ TreeOK(rs) /\ q \in DOMAIN rs
      /\ shape \in ShapeType /\ shape.body = Len(rs) + 1 /\ DOMAIN shape.arms = {} /\ shape.kind = "loop"
      /\ new = Append(Grown(rs, q, shape), <<>>)
  BY DEF GetsLoop
<1> USE <1>0
<1> DEFINE n == Len(rs) + 1
           mid == Grown(rs, q, shape)
<1>1. mid \in Seq(Seq(ShapeType)) /\ DOMAIN mid = DOMAIN rs /\ GrownBy(rs, mid, q, shape)
  BY GrownIs, ShapePlaced
<1> HIDE DEF mid
<1>2. Len(mid) = Len(rs)
  BY <1>1
<1>3. /\ DOMAIN new = DOMAIN rs \cup {n} /\ n \notin DOMAIN rs /\ \A r \in DOMAIN rs : r < n
      /\ \A r \in DOMAIN rs : new[r] = mid[r]
      /\ new[n] = <<>> /\ n # 0
  <2>1. new = Append(mid, <<>>)
    BY DEF mid
  <2> QED
    BY <1>1, <1>2, <2>1, AppendIs
<1>4. GrownBy(rs, new, q, shape)
  BY <1>1, <1>3 DEF GrownBy
<1>5. Bodies(shape) = {n}
  BY <1>3 DEF Bodies
<1> HIDE DEF n
<1>6. Grows(rs, new) /\ OnlyNext(rs, new, q, shape)
  BY <1>3, <1>4, GrownGrows
<1>7. LoopBody(new)
  <2>1. DOMAIN new[n] = {} /\ shape.body # 0
    BY <1>3 DEF n
  <2>2. ASSUME NEW r \in DOMAIN rs, NEW j \in DOMAIN new[r]
        PROVE  new[r][j].kind = "loop" <=> new[r][j].body # 0
    <3>1. CASE new[r][j] = shape
      BY <2>1, <3>1
    <3>2. CASE j \in DOMAIN rs[r] /\ new[r][j] = rs[r][j]
      BY <3>2 DEF TreeOK, LoopBody
    <3> QED
      BY <1>6, <3>1, <3>2 DEF OnlyNext
  <2> QED
    BY ONLY <1>3, <2>1, <2>2 DEF LoopBody
<1>8. /\ Len(rs[q]) + 1 \in DOMAIN new[q] /\ Len(rs[q]) + 1 \notin DOMAIN rs[q]
      /\ new[q][Len(rs[q]) + 1] = shape
      /\ \A i \in DOMAIN new[q] : i \in DOMAIN rs[q] \/ i = Len(rs[q]) + 1
  <2>1. rs[q] \in Seq(ShapeType)
    OBVIOUS
  <2>2. DOMAIN rs[q] = 1 .. Len(rs[q]) /\ Len(rs[q]) \in Nat
    BY ONLY <2>1
  <2>3. DOMAIN new[q] = 1 .. Len(rs[q]) + 1 /\ new[q][Len(rs[q]) + 1] = shape
    BY <1>4 DEF GrownBy
  <2> QED
    BY ONLY <2>2, <2>3
<1>9. RunsStep(rs, new, q, Len(rs[q]) + 1, {n})
  <2>1. ASSUME NEW r \in DOMAIN rs, NEW j \in DOMAIN new[r], NEW b
        PROVE  b \in Bodies(new[r][j]) <=> \/ j \in DOMAIN rs[r] /\ b \in Bodies(rs[r][j])
                                           \/ r = q /\ j = Len(rs[q]) + 1 /\ b \in {n}
    <3>1. CASE j \in DOMAIN rs[r] /\ new[r][j] = rs[r][j]
      BY <1>8, <3>1
    <3>2. CASE r = q /\ j = Len(rs[q]) + 1 /\ new[r][j] = shape
      BY <1>5, <1>8, <3>2
    <3> QED
      BY <1>6, <3>1, <3>2 DEF OnlyNext
  <2>2. \A r \in {n} : r \notin DOMAIN rs /\ new[r] = <<>> /\ \A x \in DOMAIN rs : x < r
    BY <1>3
  <2> QED
    BY ONLY <1>3, <1>7, <1>8, <2>1, <2>2, q \in DOMAIN rs DEF RunsStep
<1>10. TreeOK(new)
  BY <1>6, <1>9, TreeGrows
<1> QED
  BY <1>3, <1>4, <1>6, <1>8, <1>10 DEF n, GotLoop

(* A branch gets an arm, whose body is a new run.                          *)
ArmAt(old, shape, e, body) ==
    /\ shape.kind = old.kind /\ shape.entries = old.entries
    /\ shape.state = old.state /\ shape.body = old.body
    /\ DOMAIN shape.arms = DOMAIN old.arms \cup {e} /\ shape.arms[e] = body
    /\ \A x \in DOMAIN old.arms : x # e => shape.arms[x] = old.arms[x]
ArmGrown(rs, new, q, n, e, body) ==
    /\ DOMAIN new = DOMAIN rs
    /\ \A r \in DOMAIN rs : r # q => new[r] = rs[r]
    /\ DOMAIN new[q] = DOMAIN rs[q] /\ \A j \in DOMAIN rs[q] : j # n => new[q][j] = rs[q][j]
    /\ ArmAt(rs[q][n], new[q][n], e, body)

LEMMA AddArmIs ==
    ASSUME runs \in Seq(Seq(ShapeType)), NEW q \in DOMAIN runs, runs[q] # <<>>,
           NEW e, NEW body
    PROVE  Len(runs[q]) \in DOMAIN runs[q] /\ ArmGrown(runs, AddArm(q, e, body), q, Len(runs[q]), e, body)
<1>1. runs[q] \in Seq(ShapeType)
  OBVIOUS
<1> DEFINE n == Len(runs[q])
           old == runs[q][n]
           arms == [x \in DOMAIN old.arms \cup {e} |-> IF x = e THEN body ELSE old.arms[x]]
           shape == [old EXCEPT !.arms = arms]
           new == AddArm(q, e, body)
<1>2. n \in DOMAIN runs[q] /\ old \in ShapeType
  BY <1>1
<1>3. new = [runs EXCEPT ![q] = [runs[q] EXCEPT ![n] = shape]]
  BY DEF AddArm
<1>4. ArmAt(old, shape, e, body)
  <2>1. /\ DOMAIN arms = DOMAIN old.arms \cup {e} /\ arms[e] = body
        /\ \A x \in DOMAIN old.arms : x # e => arms[x] = old.arms[x]
    OBVIOUS
  <2> HIDE DEF arms, old
  <2>2. /\ shape.kind = old.kind /\ shape.entries = old.entries /\ shape.state = old.state
        /\ shape.body = old.body /\ shape.arms = arms
    BY <1>2 DEF ShapeType
  <2> QED
    BY ONLY <2>1, <2>2 DEF ArmAt
<1> HIDE DEF shape, new
<1>5. /\ DOMAIN new = DOMAIN runs
      /\ \A r \in DOMAIN runs : r # q => new[r] = runs[r]
      /\ DOMAIN new[q] = DOMAIN runs[q] /\ \A j \in DOMAIN runs[q] : j # n => new[q][j] = runs[q][j]
      /\ new[q][n] = shape
  BY <1>2, <1>3
<1> QED
  BY <1>2, <1>4, <1>5 DEF ArmGrown, new

GetsArm(q, e, new) ==
    /\ runs \in Seq(Seq(ShapeType)) /\ TreeOK(runs) /\ q \in DOMAIN runs /\ runs[q] # <<>>
    /\ e \in Block /\ e \notin DOMAIN runs[q][Len(runs[q])].arms
    /\ new = Append(AddArm(q, e, Len(runs) + 1), <<>>)
GotArm(q, e, new) ==
    /\ Grows(runs, new) /\ TreeOK(new) /\ DOMAIN new = DOMAIN runs \cup {Len(runs) + 1}
    /\ new[Len(runs) + 1] = <<>> /\ Len(runs) + 1 \notin DOMAIN runs
    /\ \A r \in DOMAIN runs : DOMAIN new[r] = DOMAIN runs[r]
    /\ \A r \in DOMAIN runs : r # q => new[r] = runs[r]
    /\ \A j \in DOMAIN runs[q] : j # Len(runs[q]) => new[q][j] = runs[q][j]
    /\ DOMAIN new[q][Len(runs[q])].arms = DOMAIN runs[q][Len(runs[q])].arms \cup {e}
    /\ new[q][Len(runs[q])].arms[e] = Len(runs) + 1
    /\ \A x \in DOMAIN runs[q][Len(runs[q])].arms :
          new[q][Len(runs[q])].arms[x] = runs[q][Len(runs[q])].arms[x]
    /\ Len(runs) + 1 \in Bodies(new[q][Len(runs[q])])

LEMMA ArmGrows ==
    ASSUME NEW q, NEW e, NEW new, GetsArm(q, e, new)
    PROVE  GotArm(q, e, new)
<1>0. /\ runs \in Seq(Seq(ShapeType)) /\ TreeOK(runs) /\ q \in DOMAIN runs /\ runs[q] # <<>>
      /\ e \in Block /\ e \notin DOMAIN runs[q][Len(runs[q])].arms
      /\ new = Append(AddArm(q, e, Len(runs) + 1), <<>>)
  BY DEF GetsArm
<1> USE <1>0
<1> DEFINE body == Len(runs) + 1
           mid == AddArm(q, e, body)
           n == Len(runs[q])
           old == runs[q][n]
<1>1. n \in DOMAIN runs[q] /\ ArmGrown(runs, mid, q, n, e, body)
  BY AddArmIs
<1>2. mid \in Seq(Seq(ShapeType)) /\ DOMAIN mid = DOMAIN runs
  BY ArmAdded
<1>3. /\ DOMAIN new = DOMAIN runs \cup {body} /\ body \notin DOMAIN runs
      /\ \A r \in DOMAIN runs : r < body
      /\ \A r \in DOMAIN runs : new[r] = mid[r]
      /\ new[body] = <<>> /\ body # 0
  <2> HIDE DEF mid
  <2>1. Len(mid) = Len(runs) /\ new = Append(mid, <<>>)
    BY <1>2 DEF mid
  <2> QED
    BY <1>2, <2>1, AppendIs
<1> HIDE DEF mid, body
<1>4. /\ \A r \in DOMAIN runs : DOMAIN new[r] = DOMAIN runs[r]
      /\ \A r \in DOMAIN runs : r # q => new[r] = runs[r]
      /\ \A r \in DOMAIN runs : \A j \in DOMAIN runs[r] : r # q \/ j # n => new[r][j] = runs[r][j]
  BY <1>1, <1>3 DEF ArmGrown
<1>5. old \in ShapeType
  <2>1. runs[q] \in Seq(ShapeType)
    OBVIOUS
  <2> QED
    BY <1>1, <2>1
<1>6. PICK a : a = old.arms
  OBVIOUS
<1>7. PICK b : b = new[q][n].arms
  OBVIOUS
<1>8. ArmAt(old, new[q][n], e, body)
  BY <1>1, <1>3 DEF ArmGrown
<1>9. /\ new[q][n].kind = old.kind /\ new[q][n].entries = old.entries /\ new[q][n].state = old.state
      /\ new[q][n].body = old.body /\ new[q][n].arms = b
  BY <1>7, <1>8 DEF ArmAt
<1>10. e \notin DOMAIN a /\ DOMAIN b = DOMAIN a \cup {e} /\ b[e] = body
       /\ \A x \in DOMAIN a : b[x] = a[x]
  BY <1>6, <1>7, <1>8 DEF ArmAt
<1> HIDE DEF old
<1>11. Bodies(new[q][n]) = Bodies(old) \cup {body}
  <2>1. {b[x] : x \in DOMAIN b} = {a[x] : x \in DOMAIN a} \cup {body}
    BY ONLY <1>10
  <2>2. /\ Bodies(new[q][n]) = ({old.body} \ {0}) \cup {b[x] : x \in DOMAIN b}
        /\ Bodies(old) = ({old.body} \ {0}) \cup {a[x] : x \in DOMAIN a}
    BY <1>6, <1>9, Zenon DEF Bodies
  <2> QED
    BY ONLY <2>1, <2>2
<1>12. Same(old, new[q][n])
  BY <1>6, <1>9, <1>10, <1>11 DEF Same
<1>13. ASSUME NEW r \in DOMAIN runs, NEW j \in DOMAIN runs[r]
       PROVE  /\ Same(runs[r][j], new[r][j])
              /\ \A c : c \in Bodies(new[r][j]) <=>
                    c \in Bodies(runs[r][j]) \/ (r = q /\ j = n /\ c = body)
  <2>1. CASE r = q /\ j = n
    BY <1>11, <1>12, <2>1 DEF old
  <2>2. CASE r # q \/ j # n
    BY <1>4, <2>2 DEF Same
  <2> QED
    BY <2>1, <2>2
<1>14. Grows(runs, new)
  BY <1>3, <1>4, <1>13 DEF Grows
<1>15. LoopBody(new)
  <2>1. DOMAIN new[body] = {}
    BY <1>3
  <2>2. ASSUME NEW r \in DOMAIN runs, NEW j \in DOMAIN new[r]
        PROVE  new[r][j].kind = "loop" <=> new[r][j].body # 0
    <3>1. j \in DOMAIN runs[r]
      BY <1>4
    <3>2. new[r][j].kind = runs[r][j].kind /\ new[r][j].body = runs[r][j].body
      BY <1>13, <3>1 DEF Same
    <3>3. runs[r][j].kind = "loop" <=> runs[r][j].body # 0
      BY <3>1 DEF TreeOK, LoopBody
    <3> QED
      BY ONLY <3>2, <3>3
  <2> QED
    BY ONLY <1>3, <2>1, <2>2 DEF LoopBody
<1>16. RunsStep(runs, new, q, n, {body})
  <2>1. \A r \in {body} : r \notin DOMAIN runs /\ new[r] = <<>> /\ \A x \in DOMAIN runs : x < r
    BY <1>3
  <2>2. ASSUME NEW r \in DOMAIN runs, NEW j \in DOMAIN new[r], NEW c
        PROVE  c \in Bodies(new[r][j]) <=> \/ j \in DOMAIN runs[r] /\ c \in Bodies(runs[r][j])
                                           \/ r = q /\ j = n /\ c \in {body}
    BY <1>4, <1>13
  <2> QED
    BY ONLY <1>1, <1>3, <1>4, <1>15, <2>1, <2>2, q \in DOMAIN runs DEF RunsStep
<1>17. TreeOK(new)
  BY <1>14, <1>16, TreeGrows
<1> QED
  BY <1>3, <1>4, <1>6, <1>9, <1>10, <1>11, <1>14, <1>17 DEF body, old, GotArm

-----------------------------------------------------------------------------
(* The edges between what the calls hold.  Inside a call, its groups are   *)
(* entered at nothing but their own entries, and what follows at the       *)
(* entries of the call.                                                    *)
Within(R, f) ==
    /\ \A e \in DOMAIN f.groups : \A x \in f.groups[e] : \A t \in Block : <<x, t>> \in R =>
          /\ t \in f.blocks => t \in f.entries
          /\ \A y \in DOMAIN f.groups : t \in f.groups[y] => y = e
    /\ \A x \in f.blocks : \A t \in Block : <<x, t>> \in R => t \notin consumed(f.groups)

GroupsApart(R, E, B, g) ==
    /\ \A e \in DOMAIN g : e \in g[e]
    /\ \A e \in E : e \in consumed(g) => e \in DOMAIN g
    /\ \A d, e \in DOMAIN g : \A x \in g[d] : \A y \in g[e] : <<x, y>> \in R => d = e
    /\ \A x \in B \ consumed(g) : \A y \in consumed(g) : <<x, y>> \notin R

LEMMA GroupEdges ==
    ASSUME graph \in Graph, NEW B \in SUBSET Block, NEW E, Span(Edges, E, B),
           NEW g, g = independent_groups(E, B)
    PROVE  GroupsApart(Edges, E, B, g)
<1> DEFINE R(e) == Reached(Edges, {e}, B)
<1>1. E \subseteq B
  BY DEF Span
<1>2. \A e \in E : Reach({e}, B) = R(e)
  BY <1>1, ReachIs
<1>3. \A e \in E : R(e) \subseteq B /\ e \in R(e) /\ Shut(Edges, R(e), B)
  BY <1>1, ReachedShut
<1>4. \A b \in B : \E e \in E : b \in R(e)
  BY ReachedFromOne
<1> HIDE DEF R
<1>5. /\ \A x : x \in DOMAIN g <=> x \in E /\ \A y \in E \ {x} : x \notin R(y)
      /\ \A e \in DOMAIN g : \A b : b \in g[e] <=> b \in R(e) /\ \A y \in E \ {e} : b \notin R(y)
  <2>1. DOMAIN g = {x \in E : \A y \in E \ {x} : x \notin Reach({y}, B)}
    BY DEF independent_groups
  <2>2. \A e \in DOMAIN g :
            g[e] = {b \in Reach({e}, B) : \A y \in E \ {e} : b \notin Reach({y}, B)}
    BY DEF independent_groups
  <2>3. ASSUME NEW x
        PROVE  x \in DOMAIN g <=> x \in E /\ \A y \in E \ {x} : x \notin R(y)
    BY <1>2, <2>1
  <2>4. ASSUME NEW e \in DOMAIN g, NEW b
        PROVE  b \in g[e] <=> b \in R(e) /\ \A y \in E \ {e} : b \notin R(y)
    <3>1. e \in E
      BY <2>1
    <3>2. b \in g[e] <=> b \in Reach({e}, B) /\ \A y \in E \ {e} : b \notin Reach({y}, B)
      BY <2>2
    <3>3. Reach({e}, B) = R(e) /\ \A y \in E \ {e} : Reach({y}, B) = R(y)
      BY <1>2, <3>1
    <3> QED
      BY <3>2, <3>3
  <2> QED
    BY <2>3, <2>4
<1>6. \A b : b \in consumed(g) <=> \E e \in DOMAIN g : b \in g[e]
  BY DEF consumed
<1>7. \A e \in DOMAIN g : e \in g[e]
  BY <1>3, <1>5
<1>8. \A e \in E : e \in consumed(g) => e \in DOMAIN g
  <2> SUFFICES ASSUME NEW e \in E, e \in consumed(g)
               PROVE  e \in DOMAIN g
    OBVIOUS
  <2>1. PICK d \in DOMAIN g : e \in g[d]
    BY <1>6
  <2>2. d = e
    BY <1>3, <1>5, <2>1
  <2> QED
    BY <2>1, <2>2
<1>9. ASSUME NEW d \in E, NEW x \in R(d), NEW y \in B, <<x, y>> \in Edges
      PROVE  y \in R(d)
  BY <1>3, <1>9 DEF Shut
<1>10. \A d, e \in DOMAIN g : \A x \in g[d] : \A y \in g[e] : <<x, y>> \in Edges => d = e
  <2> SUFFICES ASSUME NEW d \in DOMAIN g, NEW e \in DOMAIN g, NEW x \in g[d], NEW y \in g[e],
                      <<x, y>> \in Edges
               PROVE  d = e
    OBVIOUS
  <2>1. d \in E /\ e \in E /\ x \in R(d) /\ y \in B
    BY <1>3, <1>5
  <2>2. y \in R(d)
    BY <1>9, <2>1
  <2> QED
    BY <1>5, <2>1, <2>2
<1>11. \A x \in B \ consumed(g) : \A y \in consumed(g) : <<x, y>> \notin Edges
  <2> SUFFICES ASSUME NEW x \in B, x \notin consumed(g), NEW y \in consumed(g), <<x, y>> \in Edges
               PROVE  FALSE
    OBVIOUS
  <2>1. PICK e \in DOMAIN g : y \in g[e]
    BY <1>6
  <2>2. e \in E /\ y \in B
    BY <1>3, <1>5, <2>1
  <2>3. PICK d \in E : x \in R(d)
    BY <1>4
  <2>4. y \in R(d)
    BY <1>9, <2>2, <2>3
  <2>5. d = e
    BY <1>5, <2>1, <2>3, <2>4
  <2>6. x \notin g[e]
    BY <1>6
  <2>7. PICK c \in E \ {e} : x \in R(c)
    BY <1>5, <2>3, <2>5, <2>6
  <2>8. y \in R(c)
    BY <1>9, <2>2, <2>7
  <2> QED
    BY <1>5, <2>1, <2>7, <2>8
<1> QED
  BY <1>7, <1>8, <1>10, <1>11 DEF GroupsApart

SplitOK(R, f, q, i, E, B, g) ==
    /\ Within(R, f)
    /\ \A e \in E : e \in f.entries \/ e \in DOMAIN f.groups
    /\ f.run = q /\ f.groups = g /\ f.inline = i /\ f.head = 0 /\ f.blocks = B \ consumed(g)
    /\ \A e \in DOMAIN f.groups : e \in f.groups[e] /\ e \in E /\ f.groups[e] \subseteq B

LEMMA SplitEdges ==
    ASSUME graph \in Graph, NEW B \in SUBSET Block, NEW E, Span(Edges, E, B),
           NEW g, g = independent_groups(E, B) \/ g = NoGroups,
           NEW f, NEW q, NEW i, f = Split(q, i, E, B, g)
    PROVE  SplitOK(Edges, f, q, i, E, B, g)
<1>1. /\ f.run = q /\ f.groups = g /\ f.inline = i /\ f.head = 0 /\ f.blocks = B \ consumed(g)
      /\ f.entries = next_entries(E, B, g)
  BY DEF Split, Frame
<1>2. /\ \A e \in DOMAIN g : e \in g[e] /\ e \in E /\ g[e] \subseteq B
      /\ \A e \in E : e \in consumed(g) => e \in DOMAIN g
      /\ \A d, e \in DOMAIN g : \A x \in g[d] : \A y \in g[e] : <<x, y>> \in Edges => d = e
      /\ \A x \in B \ consumed(g) : \A y \in consumed(g) : <<x, y>> \notin Edges
  <2>1. CASE g = NoGroups
    <3>1. DOMAIN g = {} /\ consumed(g) = {}
      BY <2>1 DEF NoGroups, consumed
    <3> QED
      BY <3>1
  <2>2. CASE g = independent_groups(E, B)
    <3>1. /\ g \in [DOMAIN g -> SUBSET B] /\ DOMAIN g \subseteq E
      BY <2>2, IndependentGroups
    <3>2. GroupsApart(Edges, E, B, g)
      BY <2>2, GroupEdges
    <3> QED
      BY <3>1, <3>2 DEF GroupsApart
  <2> QED
    BY <2>1, <2>2
<1>3. /\ E \ consumed(g) \subseteq f.entries
      /\ \A x \in consumed(g) : succ_in(x, B \ consumed(g)) \subseteq f.entries
  BY <1>1 DEF next_entries
<1>4. \A e \in DOMAIN g : g[e] \subseteq consumed(g)
  BY DEF consumed
<1>5. ASSUME NEW e \in DOMAIN g, NEW x \in g[e], NEW t \in B \ consumed(g), <<x, t>> \in Edges
      PROVE  t \in f.entries
  <2>1. x \in Block /\ x \in consumed(g)
    BY <1>2, <1>4
  <2>2. B \ consumed(g) \in SUBSET Block
    OBVIOUS
  <2>3. t \in succ_in(x, B \ consumed(g))
    BY <1>5, <2>1, <2>2, SuccIn
  <2> QED
    BY <1>3, <2>1, <2>3
<1>6. Within(Edges, f)
  BY <1>1, <1>2, <1>5 DEF Within
<1> QED
  BY <1>1, <1>2, <1>3, <1>6 DEF SplitOK

(* Nothing outside a loop enters it: what could get to it is in it.        *)
LEMMA LoopEntered ==
    ASSUME graph \in Graph, NEW B \in SUBSET Block, NEW E, Span(Edges, E, B),
           NEW G, G = loop_blocks(E, B)
    PROVE  \A x \in B \ G : \A y \in G : <<x, y>> \notin Edges
<1> SUFFICES ASSUME NEW x \in B \ G, NEW y \in G, <<x, y>> \in Edges
             PROVE  FALSE
  OBVIOUS
<1>1. EnteredAt(Edges, E, B, G)
  BY LoopBlocks
<1>2. y \in E /\ y \in B
  BY <1>1 DEF EnteredAt
<1>3. Shut(Edges, Reached(Edges, {x}, B), B) /\ x \in Reached(Edges, {x}, B)
  BY ReachedShut
<1>4. y \in Reached(Edges, {x}, B)
  BY <1>2, <1>3 DEF Shut
<1>5. y \in Reach({x}, B)
  BY <1>4, ReachIs
<1>6. x \in reaching(E, B)
  BY <1>2, <1>5 DEF reaching
<1>7. reaching(E, B) \subseteq G
  <2> DEFINE I == E \cup reaching(E, B)
  <2>1. I \subseteq B
    BY DEF reaching, Span
  <2>2. I \subseteq widen_loop(B, I)
    BY <2>1 DEF widen_loop
  <2> QED
    BY <2>2 DEF loop_blocks
<1> QED
  BY <1>6, <1>7

-----------------------------------------------------------------------------
(* The invariant.                                                          *)

(* An edge that is left leads from what a call holds to what the call      *)
(* itself holds, or to an entry of a call it is inside of; never back to a *)
(* shape.                                                                  *)
EdgesInv ==
    \A k \in DOMAIN stack :
        /\ Within(Edges, stack[k])
        /\ \A x \in Held(stack[k]) : \A t \in Block : <<x, t>> \in Edges =>
              /\ t \notin Placed(runs)
              /\ \A j \in DOMAIN stack :
                    t \in Held(stack[j]) => j <= k /\ (j < k => t \in stack[j].entries)

(* An edge that is hidden leads to the head of a loop around the call.     *)
Hidden(rs, q, t) ==
    \E r \in DOMAIN rs : \E i \in DOMAIN rs[r] :
        /\ rs[r][i].kind = "loop" /\ t \in rs[r][i].entries
        /\ q \in Inside(rs, rs[r][i].body)
CutInv ==
    \A k \in DOMAIN stack : \A x \in Held(stack[k]) : \A t \in Block :
        <<x, t>> \in cut => Hidden(runs, stack[k].run, t)

(* A call works inside the tree of the run of the call it is made by.      *)
ChainInv ==
    \A j, k \in DOMAIN stack : j <= k => stack[k].run \in Inside(runs, stack[j].run)

(* Groups that wait to be arms wait at the end of their run.               *)
Arming(f) == ~f.inline /\ DOMAIN f.groups # {}
ArmsWait(rs, f) ==
    /\ rs[f.run] # <<>>
    /\ \A e \in DOMAIN f.groups : e \notin DOMAIN rs[f.run][Len(rs[f.run])].arms
ArmsInv ==
    \A k \in DOMAIN stack :
        Arming(stack[k]) =>
            /\ ArmsWait(runs, stack[k])
            /\ \A l \in DOMAIN stack : k < l => stack[l].run # stack[k].run

(* The target of a jump that is not served yet is what a call begins with, *)
(* or an arm to be.                                                        *)
Wanted(f) == f.entries \cup (IF f.inline THEN DOMAIN f.groups ELSE {})
ArmOf(rs, f, q, i, t) == Arming(f) /\ t \in DOMAIN f.groups /\ f.run = q /\ i = Len(rs[q])
Served(rs, stk, q, i, t) ==
    \/ Escapes(rs, q, i, t)
    \/ \E k \in DOMAIN stk : q \in Inside(rs, stk[k].run) /\ t \in Wanted(stk[k])
    \/ \E k \in DOMAIN stk : ArmOf(rs, stk[k], q, i, t)
ServedInv ==
    \A q \in DOMAIN runs : \A i \in DOMAIN runs[q] : runs[q][i].kind = "simple" =>
        \A x \in runs[q][i].entries : \A t \in graph.succ[x] :
            t \notin DOMAIN runs[q][i].arms => Served(runs, stack, q, i, t)

JInv == TreeOK(runs) /\ EdgesInv /\ CutInv /\ ChainInv /\ ArmsInv /\ ServedInv

-----------------------------------------------------------------------------
(* What a step does to the stack: the calls below the top one stay.        *)
Below == {k \in DOMAIN stack : k < Len(stack)}
Ahead == {k \in DOMAIN stack' : Len(stack) <= k}
Prefix ==
    /\ Len(stack) \in DOMAIN stack /\ Top = stack[Len(stack)]
    /\ \A k \in DOMAIN stack : k <= Len(stack) /\ k \in Nat
    /\ \A k \in DOMAIN stack' : k \in Nat /\ (k \in Below \/ k \in Ahead)
    /\ \A k \in Below : k \in DOMAIN stack' /\ stack'[k] = stack[k]

LEMMA PrefixGoes ==
    ASSUME stack \in Seq(FrameType), stack # <<>>, NEW f \in FrameType, stack' = Goes(f)
    PROVE  Prefix /\ Ahead = {Len(stack)} /\ stack'[Len(stack)] = f
<1> DEFINE n == Len(stack)
<1>1. /\ Goes(f) \in Seq(FrameType) /\ Len(Goes(f)) = n /\ Goes(f)[n] = f
      /\ \A k \in 1 .. n - 1 : Goes(f)[k] = stack[k]
  BY StackGoes
<1>2. n \in Nat \ {0} /\ DOMAIN stack = 1 .. n /\ DOMAIN stack' = 1 .. n
  BY <1>1
<1>3. Below = 1 .. n - 1 /\ Ahead = {n}
  BY <1>2 DEF Below, Ahead
<1> QED
  BY <1>1, <1>2, <1>3 DEF Prefix, Top

LEMMA PrefixCalls ==
    ASSUME stack \in Seq(FrameType), stack # <<>>, NEW f \in FrameType, NEW g \in FrameType,
           stack' = Calls(f, g)
    PROVE  /\ Prefix /\ Ahead = {Len(stack), Len(stack) + 1}
           /\ stack'[Len(stack)] = f /\ stack'[Len(stack) + 1] = g
<1> DEFINE n == Len(stack)
<1>1. /\ Calls(f, g) \in Seq(FrameType) /\ Len(Calls(f, g)) = n + 1
      /\ Calls(f, g)[n] = f /\ Calls(f, g)[n + 1] = g
      /\ \A k \in 1 .. n - 1 : Calls(f, g)[k] = stack[k]
  BY StackCalls
<1>2. n \in Nat \ {0} /\ DOMAIN stack = 1 .. n /\ DOMAIN stack' = 1 .. n + 1
  BY <1>1
<1>3. Below = 1 .. n - 1 /\ Ahead = {n, n + 1}
  BY <1>2 DEF Below, Ahead
<1> QED
  BY <1>1, <1>2, <1>3 DEF Prefix, Top

(* What is needed of a step to keep ChainInv, CutInv and ArmsInv.          *)
RunsOf == \A k \in DOMAIN stack : stack[k].run \in DOMAIN runs
NewChain ==
    /\ \A k \in Ahead : stack'[k].run \in Inside(runs', Top.run)
    /\ \A j, k \in Ahead : j <= k => stack'[k].run \in Inside(runs', stack'[j].run)

LEMMA ChainStep ==
    ASSUME Prefix, RunsOf, TreeOK(runs), TreeOK(runs'), Grows(runs, runs'), ChainInv, NewChain
    PROVE  ChainInv'
<1> SUFFICES ASSUME NEW j \in DOMAIN stack', NEW k \in DOMAIN stack', j <= k
             PROVE  stack'[k].run \in Inside(runs', stack'[j].run)
  BY DEF ChainInv
<1>1. HeldLater(runs) /\ HeldLater(runs')
  BY DEF TreeOK
<1>2. ASSUME NEW i \in Below, NEW l \in DOMAIN stack, i <= l
      PROVE  stack[l].run \in Inside(runs', stack'[i].run)
  <2>1. stack[l].run \in Inside(runs, stack[i].run) /\ i \in DOMAIN stack
    BY <1>2 DEF ChainInv, Below
  <2>2. stack[i].run \in DOMAIN runs
    BY <2>1 DEF RunsOf
  <2>3. stack'[i] = stack[i]
    BY DEF Prefix
  <2> QED
    BY <1>1, <2>1, <2>2, <2>3, InsideGrows
<1>3. CASE j \in Below /\ k \in Below
  <2>1. k \in DOMAIN stack /\ stack'[k] = stack[k]
    BY <1>3 DEF Below, Prefix
  <2> QED
    BY <1>2, <1>3, <2>1
<1>4. CASE j \in Below /\ k \in Ahead
  <2>1. Len(stack) \in DOMAIN stack /\ j <= Len(stack) /\ Top = stack[Len(stack)]
    BY <1>4 DEF Below, Prefix
  <2>2. Top.run \in Inside(runs', stack'[j].run)
    BY <1>2, <1>4, <2>1
  <2>3. stack'[k].run \in Inside(runs', Top.run)
    BY <1>4 DEF NewChain
  <2> QED
    BY <1>1, <2>2, <2>3, InsideTrans
<1>5. CASE j \in Ahead /\ k \in Ahead
  BY <1>5 DEF NewChain
<1>6. ~(j \in Ahead /\ k \in Below)
  <2>1. Len(stack) \in Nat /\ j \in Nat /\ k \in Nat
    BY DEF Prefix
  <2> QED
    BY <2>1 DEF Ahead, Below
<1> QED
  BY <1>3, <1>4, <1>5, <1>6 DEF Prefix

LEMMA HiddenGrows ==
    ASSUME NEW rs, NEW new, TreeOK(rs), Grows(rs, new), NEW q, NEW t, Hidden(rs, q, t)
    PROVE  Hidden(new, q, t)
<1>1. PICK r \in DOMAIN rs : \E i \in DOMAIN rs[r] :
          /\ rs[r][i].kind = "loop" /\ t \in rs[r][i].entries
          /\ q \in Inside(rs, rs[r][i].body)
  BY DEF Hidden
<1>2. PICK i \in DOMAIN rs[r] :
          /\ rs[r][i].kind = "loop" /\ t \in rs[r][i].entries
          /\ q \in Inside(rs, rs[r][i].body)
  BY <1>1
<1>3. rs[r][i].body \in Bodies(rs[r][i])
  BY <1>2 DEF TreeOK, LoopBody, Bodies
<1>4. rs[r][i].body \in DOMAIN rs
  BY <1>3 DEF TreeOK, HeldLater
<1>5. q \in Inside(new, rs[r][i].body)
  BY <1>2, <1>4, InsideGrows DEF TreeOK
<1>6. /\ r \in DOMAIN new /\ i \in DOMAIN new[r] /\ new[r][i].body = rs[r][i].body
      /\ new[r][i].kind = rs[r][i].kind /\ new[r][i].entries = rs[r][i].entries
  BY DEF Grows, Same
<1> QED
  BY <1>2, <1>5, <1>6 DEF Hidden

(* A call inside one whose hidden edges lead to heads around it.           *)
LEMMA HiddenInside ==
    ASSUME NEW rs, TreeOK(rs), NEW q, NEW t, Hidden(rs, q, t), NEW r \in Inside(rs, q)
    PROVE  Hidden(rs, r, t)
BY InsideTrans DEF Hidden, TreeOK

NewCut ==
    \A k \in Ahead :
        /\ stack'[k].run \in Inside(runs', Top.run) /\ Held(stack'[k]) \subseteq Held(Top)
        /\ \A x \in Held(stack'[k]) : \A t \in Block :
              <<x, t>> \in cut' => <<x, t>> \in cut \/ Hidden(runs', stack'[k].run, t)

LEMMA CutStep ==
    ASSUME Prefix, TreeOK(runs), TreeOK(runs'), Grows(runs, runs'), CutInv, NewCut,
           \A x \in Block \ Held(Top) : \A t \in Block : <<x, t>> \in cut' => <<x, t>> \in cut,
           \A k \in Below : Held(stack[k]) \subseteq Block \ Held(Top)
    PROVE  CutInv'
<1> SUFFICES ASSUME NEW k \in DOMAIN stack', NEW x \in Held(stack'[k]), NEW t \in Block, <<x, t>> \in cut'
             PROVE  Hidden(runs', stack'[k].run, t)
  BY DEF CutInv, Held, consumed
<1>1. CASE k \in Below
  <2>1. k \in DOMAIN stack /\ stack'[k] = stack[k]
    BY <1>1 DEF Below, Prefix
  <2>2. <<x, t>> \in cut
    BY <1>1, <2>1
  <2>3. Hidden(runs, stack[k].run, t)
    BY <2>1, <2>2 DEF CutInv
  <2> QED
    BY <2>1, <2>3, HiddenGrows
<1>2. CASE k \in Ahead
  <2>1. CASE <<x, t>> \in cut
    <3>1. Len(stack) \in DOMAIN stack /\ Top = stack[Len(stack)] /\ x \in Held(Top)
      BY <1>2 DEF Prefix, NewCut
    <3>2. Hidden(runs, Top.run, t)
      BY <2>1, <3>1 DEF CutInv
    <3> QED
      BY <1>2, <3>2, HiddenGrows, HiddenInside DEF NewCut
  <2> QED
    BY <1>2, <2>1 DEF NewCut
<1> QED
  BY <1>1, <1>2 DEF Prefix

(* Only the run of the top call and what hangs below it changes.           *)
OnlyTop ==
    /\ \A q \in DOMAIN runs : q # Top.run => runs'[q] = runs[q]
    /\ \A k \in Ahead : stack'[k].run = Top.run \/ stack'[k].run \notin DOMAIN runs
NewArms ==
    \A k \in Ahead : Arming(stack'[k]) =>
        /\ ArmsWait(runs', stack'[k])
        /\ \A l \in Ahead : k < l => stack'[l].run # stack'[k].run

LEMMA ArmsStep ==
    ASSUME Prefix, RunsOf, ArmsInv, OnlyTop, NewArms
    PROVE  ArmsInv'
<1> SUFFICES ASSUME NEW k \in DOMAIN stack', Arming(stack'[k])
             PROVE  /\ ArmsWait(runs', stack'[k])
                    /\ \A l \in DOMAIN stack' : k < l => stack'[l].run # stack'[k].run
  BY DEF ArmsInv, Arming, ArmsWait
<1>1. CASE k \in Below
  <2> DEFINE f == stack[k]
  <2>1. k \in DOMAIN stack /\ stack'[k] = f /\ k < Len(stack) /\ f.run \in DOMAIN runs
    BY <1>1 DEF Below, Prefix, RunsOf
  <2>2. ArmsWait(runs, f) /\ f.run # Top.run
    BY <2>1 DEF ArmsInv, Prefix
  <2>3. ArmsWait(runs', f)
    <3>1. runs'[f.run] = runs[f.run]
      BY <2>1, <2>2 DEF OnlyTop
    <3> QED
      BY <2>2, <3>1 DEF ArmsWait
  <2>4. ASSUME NEW l \in DOMAIN stack', k < l
        PROVE  stack'[l].run # f.run
    <3>1. CASE l \in Below
      BY <2>1, <2>4, <3>1 DEF ArmsInv, Below, Prefix
    <3>2. CASE l \in Ahead
      BY <2>1, <2>2, <3>2 DEF OnlyTop
    <3> QED
      BY <3>1, <3>2 DEF Prefix
  <2> QED
    BY <2>1, <2>3, <2>4
<1>2. CASE k \in Ahead
  <2>1. ASSUME NEW l \in DOMAIN stack', k < l
        PROVE  l \in Ahead
    <3>1. Len(stack) \in Nat /\ k \in Nat /\ l \in Nat
      BY DEF Prefix
    <3> QED
      BY <1>2, <2>1, <3>1 DEF Ahead
  <2> QED
    BY <1>2, <2>1 DEF NewArms
<1> QED
  BY <1>1, <1>2 DEF Prefix

Fewer == \A x \in Block : \A t \in Block : <<x, t>> \in Edges' => <<x, t>> \in Edges
NewEdges(P) ==
    \A k \in Ahead :
        /\ Within(Edges', stack'[k]) /\ Held(stack'[k]) \subseteq Held(Top) \ P
        /\ \A x \in Held(stack'[k]) : \A t \in Block : <<x, t>> \in Edges' =>
              /\ t \notin P
              /\ \A j \in Ahead :
                    t \in Held(stack'[j]) => j <= k /\ (j < k => t \in stack'[j].entries)

LEMMA EdgesStep ==
    ASSUME Prefix, EdgesInv, Fewer, \A k \in DOMAIN stack : Held(stack[k]) \subseteq Block,
           NEW P, P \subseteq Held(Top), Placed(runs') = Placed(runs) \cup P, NewEdges(P)
    PROVE  EdgesInv'
<1> DEFINE n == Len(stack)
<1>1. n \in DOMAIN stack /\ n \in Nat /\ Top = stack[n]
  BY DEF Prefix
<1>2. ASSUME NEW k \in DOMAIN stack'
      PROVE  Within(Edges', stack'[k])
  <2>1. CASE k \in Below
    <3>1. k \in DOMAIN stack /\ stack'[k] = stack[k]
      BY <2>1 DEF Below, Prefix
    <3>2. Within(Edges, stack[k]) /\ Held(stack[k]) \subseteq Block
      BY <3>1 DEF EdgesInv
    <3>3. \A e \in DOMAIN stack[k].groups : stack[k].groups[e] \subseteq Block
      BY <3>2 DEF Held, consumed
    <3>4. stack[k].blocks \subseteq Block
      BY <3>2 DEF Held
    <3> QED
      BY <3>1, <3>2, <3>3, <3>4 DEF Within, Fewer
  <2>2. CASE k \in Ahead
    BY <2>2 DEF NewEdges
  <2> QED
    BY <2>1, <2>2 DEF Prefix
<1>3. ASSUME NEW k \in DOMAIN stack', NEW x \in Held(stack'[k]), NEW t \in Block, <<x, t>> \in Edges'
      PROVE  /\ t \notin Placed(runs')
             /\ \A j \in DOMAIN stack' :
                   t \in Held(stack'[j]) => j <= k /\ (j < k => t \in stack'[j].entries)
  <2>1. CASE k \in Below
    <3>1. k \in DOMAIN stack /\ stack'[k] = stack[k] /\ k < n /\ k \in Nat
      BY <2>1 DEF Below, Prefix
    <3>2. x \in Block /\ <<x, t>> \in Edges
      BY <1>3, <3>1 DEF Fewer
    <3>3. /\ t \notin Placed(runs)
          /\ \A j \in DOMAIN stack :
                t \in Held(stack[j]) => j <= k /\ (j < k => t \in stack[j].entries)
      BY <3>1, <3>2 DEF EdgesInv
    <3>4. t \notin Held(Top)
      BY <1>1, <3>1, <3>3
    <3>5. ASSUME NEW j \in DOMAIN stack', t \in Held(stack'[j])
          PROVE  j <= k /\ (j < k => t \in stack'[j].entries)
      <4>1. j \notin Ahead
        BY <3>4, <3>5 DEF NewEdges
      <4>2. j \in DOMAIN stack /\ stack'[j] = stack[j]
        BY <4>1 DEF Below, Prefix
      <4> QED
        BY <3>3, <3>5, <4>2
    <3> QED
      BY <3>3, <3>4, <3>5
  <2>2. CASE k \in Ahead
    <3>1. x \in Held(Top) /\ x \in Block /\ <<x, t>> \in Edges
      BY <1>1, <1>3, <2>2 DEF NewEdges, Fewer
    <3>2. /\ t \notin Placed(runs)
          /\ \A j \in DOMAIN stack :
                t \in Held(stack[j]) => j <= n /\ (j < n => t \in stack[j].entries)
      BY <1>1, <3>1 DEF EdgesInv
    <3>3. t \notin P
      BY <1>3, <2>2 DEF NewEdges
    <3>4. ASSUME NEW j \in DOMAIN stack', t \in Held(stack'[j])
          PROVE  j <= k /\ (j < k => t \in stack'[j].entries)
      <4>1. CASE j \in Ahead
        BY <1>3, <2>2, <3>4, <4>1 DEF NewEdges
      <4>2. CASE j \in Below
        <5>1. j \in DOMAIN stack /\ stack'[j] = stack[j] /\ j < n /\ j \in Nat
          BY <4>2 DEF Below, Prefix
        <5>2. n <= k /\ k \in Nat
          BY <2>2 DEF Ahead, Prefix
        <5> QED
          BY <1>1, <3>2, <3>4, <5>1, <5>2
      <4> QED
        BY <4>1, <4>2 DEF Prefix
    <3> QED
      BY <3>2, <3>3, <3>4
  <2> QED
    BY <2>1, <2>2 DEF Prefix
<1> QED
  BY <1>2, <1>3 DEF EdgesInv

NewWants ==
    \A t \in Wanted(Top) :
        \/ \A r \in Inside(runs, Top.run) : \A i \in DOMAIN runs[r] : Escapes(runs', r, i, t)
        \/ \E k \in Ahead : stack'[k].run = Top.run /\ t \in Wanted(stack'[k])
NewArm ==
    Arming(Top) => \A t \in DOMAIN Top.groups :
        /\ Len(runs'[Top.run]) = Len(runs[Top.run])
        /\ \/ t \in DOMAIN runs'[Top.run][Len(runs[Top.run])].arms
           \/ \E k \in Ahead : /\ Arming(stack'[k]) /\ t \in DOMAIN stack'[k].groups
                               /\ stack'[k].run = Top.run
NewShapes ==
    \A q \in DOMAIN runs' : \A i \in DOMAIN runs'[q] :
        ~(q \in DOMAIN runs /\ i \in DOMAIN runs[q]) /\ runs'[q][i].kind = "simple" =>
            \A x \in runs'[q][i].entries : \A t \in graph.succ[x] :
                t \notin DOMAIN runs'[q][i].arms => Served(runs', stack', q, i, t)

LEMMA ArmOfStep ==
    ASSUME Prefix, ArmsInv, OnlyTop, NewArm, NEW q \in DOMAIN runs, NEW i, NEW t,
           NEW k \in DOMAIN stack, ArmOf(runs, stack[k], q, i, t)
    PROVE  \/ t \in DOMAIN runs'[q][i].arms
           \/ \E l \in DOMAIN stack' : ArmOf(runs', stack'[l], q, i, t)
<1>1. CASE k \in Below
  <2>1. stack[k].run # Top.run /\ stack'[k] = stack[k] /\ k \in DOMAIN stack'
    BY <1>1 DEF ArmsInv, ArmOf, Below, Prefix
  <2>2. runs'[q] = runs[q]
    BY <2>1 DEF OnlyTop, ArmOf
  <2>3. ArmOf(runs', stack'[k], q, i, t)
    BY <2>1, <2>2 DEF ArmOf
  <2> QED
    BY <2>1, <2>3
<1>2. CASE k \notin Below
  <2>1. k = Len(stack) /\ stack[k] = Top
    BY <1>2 DEF Prefix, Below
  <2>2. Arming(Top) /\ t \in DOMAIN Top.groups /\ Top.run = q /\ i = Len(runs[q])
    BY <2>1 DEF ArmOf
  <2>3. CASE \E l \in Ahead : /\ Arming(stack'[l]) /\ t \in DOMAIN stack'[l].groups
                              /\ stack'[l].run = Top.run
    <3>1. PICK l \in Ahead : /\ Arming(stack'[l]) /\ t \in DOMAIN stack'[l].groups
                             /\ stack'[l].run = Top.run
      BY <2>3
    <3>2. ArmOf(runs', stack'[l], q, i, t)
      BY <2>2, <3>1 DEF ArmOf, NewArm
    <3> QED
      BY <3>2 DEF Ahead
  <2> QED
    BY <2>2, <2>3 DEF NewArm
<1> QED
  BY <1>1, <1>2

LEMMA ServedStep ==
    ASSUME Prefix, RunsOf, TreeOK(runs), TreeOK(runs'), Grows(runs, runs'), ArmsInv, OnlyTop,
           ServedInv, graph' = graph, NewWants, NewArm, NewShapes
    PROVE  ServedInv'
<1> SUFFICES ASSUME NEW q \in DOMAIN runs', NEW i \in DOMAIN runs'[q], runs'[q][i].kind = "simple",
                    NEW x \in runs'[q][i].entries, NEW t \in graph.succ[x],
                    t \notin DOMAIN runs'[q][i].arms
             PROVE  Served(runs', stack', q, i, t)
  BY DEF ServedInv
<1>1. CASE ~(q \in DOMAIN runs /\ i \in DOMAIN runs[q])
  BY <1>1 DEF NewShapes
<1>2. CASE q \in DOMAIN runs /\ i \in DOMAIN runs[q]
  <2>1. /\ runs[q][i].kind = "simple" /\ x \in runs[q][i].entries
        /\ t \notin DOMAIN runs[q][i].arms
    BY <1>2 DEF Grows, Same
  <2>2. Served(runs, stack, q, i, t)
    BY <1>2, <2>1 DEF ServedInv
  <2>3. CASE Escapes(runs, q, i, t)
    BY <1>2, <2>3, EscapesGrow DEF Served, TreeOK
  <2>4. CASE \E k \in DOMAIN stack : q \in Inside(runs, stack[k].run) /\ t \in Wanted(stack[k])
    <3>1. PICK k \in DOMAIN stack : q \in Inside(runs, stack[k].run) /\ t \in Wanted(stack[k])
      BY <2>4
    <3>2. q \in Inside(runs', stack[k].run)
      BY <3>1, InsideGrows DEF RunsOf, TreeOK
    <3>3. CASE k \in Below
      BY <3>1, <3>2, <3>3 DEF Prefix, Served
    <3>4. CASE k \notin Below
      <4>1. k = Len(stack) /\ stack[k] = Top
        BY <3>4 DEF Prefix, Below
      <4>2. CASE \A r \in Inside(runs, Top.run) : \A j \in DOMAIN runs[r] : Escapes(runs', r, j, t)
        BY <1>2, <3>1, <4>1, <4>2 DEF Served
      <4>3. CASE \E l \in Ahead : stack'[l].run = Top.run /\ t \in Wanted(stack'[l])
        BY <3>2, <4>1, <4>3 DEF Served, Ahead
      <4> QED
        BY <3>1, <4>1, <4>2, <4>3 DEF NewWants
    <3> QED
      BY <3>3, <3>4
  <2>5. CASE \E k \in DOMAIN stack : ArmOf(runs, stack[k], q, i, t)
    <3>1. PICK k \in DOMAIN stack : ArmOf(runs, stack[k], q, i, t)
      BY <2>5
    <3>2. \E l \in DOMAIN stack' : ArmOf(runs', stack'[l], q, i, t)
      BY <1>2, <3>1, ArmOfStep
    <3> QED
      BY <3>2 DEF Served
  <2> QED
    BY <2>2, <2>3, <2>4, <2>5 DEF Served
<1> QED
  BY <1>1, <1>2

-----------------------------------------------------------------------------
(* The top call, and the calls below it.                                   *)
LEMMA TopFacts ==
    ASSUME IInv, JInv, stack # <<>>
    PROVE  /\ RunsOf /\ runs \in Seq(Seq(ShapeType)) /\ stack \in Seq(FrameType) /\ graph \in Graph
           /\ Top \in FrameType /\ Top.run \in DOMAIN runs /\ Top.run \in Nat
           /\ Top.entries \subseteq Top.blocks /\ Here(Top) = Top.entries
           /\ Top.blocks \in SUBSET Block /\ Span(Edges, Top.entries, Top.blocks)
           /\ \A k \in DOMAIN stack : Held(stack[k]) \subseteq Block
           /\ Held(Top) \subseteq Block /\ Top.blocks \subseteq Held(Top)
           /\ (Len(stack) \in DOMAIN stack /\ Top = stack[Len(stack)])
           /\ (DOMAIN Top.groups = {} => Held(Top) = Top.blocks)
<1>1. /\ RunsOf /\ runs \in Seq(Seq(ShapeType)) /\ stack \in Seq(FrameType) /\ graph \in Graph
  BY DEF IInv, TypeInv, RunsOf
<1>2. /\ Top \in FrameType /\ Top.run \in DOMAIN runs /\ FrameOK(Edges, Top)
      /\ Top.entries \subseteq Top.blocks /\ Here(Top) = Top.entries
      /\ (DOMAIN Top.groups = {} => Held(Top) = Top.blocks)
  BY TopFrame DEF IInv
<1>3. Top.blocks \in SUBSET Block /\ Span(Edges, Top.entries, Top.blocks) /\ Top.run \in Nat
  BY <1>2 DEF FrameType, FrameOK
<1>4. ASSUME NEW k \in DOMAIN stack
      PROVE  Held(stack[k]) \subseteq Block
  <2>1. stack[k] \in FrameType
    BY <1>1
  <2>2. PICK S \in SUBSET Block : stack[k].groups \in [S -> SUBSET Block]
    BY <2>1 DEF FrameType, GroupMaps
  <2>3. consumed(stack[k].groups) \subseteq Block
    BY <2>2 DEF consumed
  <2> QED
    BY <2>1, <2>3 DEF Held, FrameType
<1>5. Len(stack) \in DOMAIN stack /\ Top = stack[Len(stack)]
  BY <1>1 DEF Top
<1>6. Held(Top) \subseteq Block /\ Top.blocks \subseteq Held(Top)
  BY <1>4, <1>5 DEF Held
<1> QED
  BY <1>1, <1>2, <1>3, <1>4, <1>5, <1>6

(* The top call goes on as f, which splits g off what P leaves of B.       *)
GoesOn(P, E, g, i, f) ==
    /\ P \subseteq Top.blocks /\ DOMAIN Top.groups = {}
    /\ Span(Edges, E, Top.blocks \ P)
    /\ g = independent_groups(E, Top.blocks \ P) \/ g = NoGroups
    /\ i \in BOOLEAN /\ f = Split(Top.run, i, E, Top.blocks \ P, g)
    /\ stack' = Goes(f) /\ UNCHANGED <<graph, cut, states>>
FrameIs(f, P, E, g, i) ==
    /\ f \in FrameType /\ f.run = Top.run /\ f.groups = g /\ f.inline = i /\ f.head = 0
    /\ Held(f) = Top.blocks \ P /\ Held(Top) = Top.blocks
    /\ f.blocks \subseteq Top.blocks \ P
    /\ Within(Edges, f)
    /\ \A e \in E : e \in f.entries \/ e \in DOMAIN g
    /\ \A e \in DOMAIN g : e \in g[e] /\ e \in E /\ g[e] \subseteq Top.blocks \ P
    /\ Prefix /\ Ahead = {Len(stack)} /\ stack'[Len(stack)] = f /\ Edges' = Edges

LEMMA GoesFacts ==
    ASSUME IInv, JInv, stack # <<>>, NEW P, NEW E, NEW g, NEW i, NEW f, GoesOn(P, E, g, i, f)
    PROVE  FrameIs(f, P, E, g, i)
<1> DEFINE B == Top.blocks \ P
           q == Top.run
<1>1. /\ graph \in Graph /\ B \in SUBSET Block /\ Span(Edges, E, B) /\ q \in Nat
      /\ (g = independent_groups(E, B) \/ g = NoGroups) /\ i \in BOOLEAN /\ f = Split(q, i, E, B, g)
      /\ stack \in Seq(FrameType) /\ Held(Top) = Top.blocks
  <2>1. /\ graph \in Graph /\ Top.blocks \in SUBSET Block /\ q \in Nat /\ stack \in Seq(FrameType)
        /\ (DOMAIN Top.groups = {} => Held(Top) = Top.blocks)
    BY TopFacts
  <2> QED
    BY <2>1 DEF GoesOn
<1> HIDE DEF B, q
<1>2. f \in FrameType /\ Held(f) = B
  BY <1>1, SplitHolds
<1>3. SplitOK(Edges, f, q, i, E, B, g)
  BY <1>1, SplitEdges
<1>4. Prefix /\ Ahead = {Len(stack)} /\ stack'[Len(stack)] = f
  BY <1>1, <1>2, PrefixGoes DEF GoesOn
<1>5. Edges' = Edges
  BY DEF Edges, GoesOn
<1> QED
  BY <1>1, <1>2, <1>3, <1>4, <1>5 DEF FrameIs, SplitOK, B, q

LEMMA GoesKeeps ==
    ASSUME IInv, JInv, stack # <<>>, NEW P, NEW E, NEW g, NEW i, NEW f,
           GoesOn(P, E, g, i, f), FrameIs(f, P, E, g, i),
           Grows(runs, runs'), TreeOK(runs'), \A q \in DOMAIN runs : q # Top.run => runs'[q] = runs[q],
           Placed(runs') = Placed(runs) \cup P,
           \A x \in Top.blocks \ P : \A t \in P : <<x, t>> \notin Edges,
           Arming(f) => ArmsWait(runs', f), NewWants, NewShapes
    PROVE  JInv'
<1> USE DEF GoesOn, FrameIs
<1> DEFINE n == Len(stack)
<1>1. /\ RunsOf /\ Top.run \in DOMAIN runs /\ TreeOK(runs)
      /\ \A k \in DOMAIN stack : Held(stack[k]) \subseteq Block
      /\ \A k \in Ahead : stack'[k] = f
      /\ \A j, k \in Ahead : j = k
  BY TopFacts DEF JInv
<1>2. Top.run \in Inside(runs', Top.run)
  BY <1>1, InsideSelf DEF Grows
<1>3. ChainInv'
  <2>1. NewChain
    BY <1>1, <1>2 DEF NewChain
  <2> QED
    BY <1>1, <2>1, ChainStep DEF JInv
<1>4. CutInv'
  <2>1. NewCut
    BY <1>1, <1>2 DEF NewCut
  <2>2. \A k \in Below : Held(stack[k]) \subseteq Block \ Held(Top)
    BY <1>1 DEF IInv, StackInv, Below, Prefix
  <2> QED
    BY <1>1, <2>1, <2>2, CutStep DEF JInv
<1>5. EdgesInv'
  <2>1. Fewer
    BY DEF Fewer
  <2>2. NewEdges(P)
    <3>1. \A k \in Ahead : k \in Nat
      BY DEF Ahead, Prefix
    <3>2. \A x \in Held(f) : \A t \in Block : <<x, t>> \in Edges => t \notin P
      OBVIOUS
    <3>3. \A k, j \in Ahead : j <= k /\ ~(j < k)
      BY <1>1, <3>1
    <3> QED
      BY <1>1, <3>2, <3>3 DEF NewEdges
  <2>3. P \subseteq Held(Top)
    OBVIOUS
  <2> QED
    BY <1>1, <2>1, <2>2, <2>3, EdgesStep DEF JInv
<1>6. OnlyTop
  BY <1>1 DEF OnlyTop
<1>7. ArmsInv'
  <2>1. NewArms
    <3>1. \A k \in Ahead : k \in Nat
      BY DEF Ahead, Prefix
    <3>2. \A k, l \in Ahead : ~(k < l)
      BY <1>1, <3>1
    <3> QED
      BY <1>1, <3>2 DEF NewArms
  <2> QED
    BY <1>1, <1>6, <2>1, ArmsStep DEF JInv
<1>8. ServedInv'
  <2>1. NewArm
    BY DEF NewArm, Arming
  <2> QED
    BY <1>1, <1>6, <2>1, ServedStep DEF JInv
<1> QED
  BY <1>3, <1>4, <1>5, <1>7, <1>8 DEF JInv

-----------------------------------------------------------------------------
(* What the labels and the state variables rest on.                        *)
Empty(rs, q) == DOMAIN rs[q] = {}

(* A run without a shape is that of the top call, which has just begun; a  *)
(* dispatch is all that a call that has to begin with one has seen.        *)
FreshOK(rs, stk, k) ==
    /\ Empty(rs, stk[k].run) =>
          /\ \A l \in DOMAIN stk : l <= k
          /\ DOMAIN stk[k].groups = {}
          /\ Single(stk[k].entries) \/ stk[k].head # 0
    /\ stk[k].head # 0 => Empty(rs, stk[k].run) /\ stk[k].entries # {}
FreshInv == \A k \in DOMAIN stack : FreshOK(runs, stack, k)

(* A block a shape begins with, that is not placed yet, begins a new run   *)
(* next: only that run's first shape may begin with it too.                *)
BeginsRun(rs, f, t) ==
    \/ t \in f.entries /\ Empty(rs, f.run)
    \/ t \in DOMAIN f.groups /\ ~f.inline
BegunInv ==
    \A q \in DOMAIN runs : \A i \in DOMAIN runs[q] : 1 < i =>
        \A t \in runs[q][i].entries : \A k \in DOMAIN stack :
            t \in Held(stack[k]) => BeginsRun(runs, stack[k], t)

(* No two shapes that a label may end at begin with the same block.        *)
EntriesOnce(rs) ==
    /\ \A q \in DOMAIN rs : \A i \in DOMAIN rs[q] : rs[q][i].entries # {}
    /\ \A q, r \in DOMAIN rs : \A i \in DOMAIN rs[q], j \in DOMAIN rs[r] :
          \A t \in rs[q][i].entries :
              1 < i /\ 1 < j /\ t \in rs[r][j].entries => q = r /\ i = j

(* No two loops have the same state variable.                              *)
StatesOnce(rs, last) ==
    /\ \A q \in DOMAIN rs : \A i \in DOMAIN rs[q] :
          /\ rs[q][i].kind \in {"simple", "loop", "dispatch"}
          /\ rs[q][i].kind = "simple" => rs[q][i].state = 0
          /\ rs[q][i].kind = "dispatch" => ~(1 < i)
          /\ rs[q][i].kind = "loop" => rs[q][i].state <= last
    /\ \A q, r \in DOMAIN rs : \A i \in DOMAIN rs[q], j \in DOMAIN rs[r] :
          (/\ rs[q][i].kind = "loop" /\ rs[r][j].kind = "loop"
           /\ rs[q][i].state = rs[r][j].state /\ rs[q][i].state # 0) => (q = r /\ i = j)

KInv == FreshInv /\ BegunInv /\ EntriesOnce(runs) /\ StatesOnce(runs, states)

(* What a step adds: at most the next shape of the run of the top call.    *)
Next1(r, i) == r = Top.run /\ i = Len(runs[Top.run]) + 1
Old(r, i) == r \in DOMAIN runs /\ i \in DOMAIN runs[r]
NewEntries ==
    \A r \in DOMAIN runs' : \A i \in DOMAIN runs'[r] : ~Old(r, i) =>
        /\ Next1(r, i) /\ DOMAIN Top.groups = {}
        /\ runs'[r][i].entries = Top.entries /\ Top.entries # {}
NewStates ==
    /\ states <= states'
    /\ \A r \in DOMAIN runs' : \A i \in DOMAIN runs'[r] : ~Old(r, i) =>
          /\ runs'[r][i].kind \in {"simple", "loop", "dispatch"}
          /\ runs'[r][i].kind = "simple" => runs'[r][i].state = 0
          /\ runs'[r][i].kind = "dispatch" => ~(1 < i)
          /\ runs'[r][i].kind = "loop" =>
                /\ runs'[r][i].state <= states'
                /\ runs'[r][i].state = 0 \/ runs'[r][i].state = states + 1
NewFresh ==
    \A k \in Ahead : FreshOK(runs', stack', k)
NewBegun ==
    \A k \in Ahead :
        /\ Held(stack'[k]) \subseteq Held(Top)
        /\ \A t \in Held(stack'[k]) :
              /\ BeginsRun(runs, Top, t) => BeginsRun(runs', stack'[k], t)
              /\ \A r \in DOMAIN runs' : \A i \in DOMAIN runs'[r] :
                    ~Old(r, i) /\ 1 < i /\ t \in runs'[r][i].entries => BeginsRun(runs', stack'[k], t)

LEMMA OldSame ==
    ASSUME Grows(runs, runs'), NEW r, NEW i, Old(r, i)
    PROVE  /\ r \in DOMAIN runs' /\ i \in DOMAIN runs'[r]
           /\ runs'[r][i].kind = runs[r][i].kind /\ runs'[r][i].entries = runs[r][i].entries
           /\ runs'[r][i].state = runs[r][i].state
BY DEF Old, Grows, Same

LEMMA EntriesStep ==
    ASSUME IInv, JInv, KInv, stack # <<>>, Prefix, Grows(runs, runs'), NewEntries
    PROVE  EntriesOnce(runs')
<1>1. /\ Top.run \in DOMAIN runs /\ Top.entries \subseteq Held(Top) /\ runs \in Seq(Seq(ShapeType))
      /\ Len(stack) \in DOMAIN stack /\ Top = stack[Len(stack)]
  BY TopFacts
<1>2. ASSUME NEW r \in DOMAIN runs', NEW i \in DOMAIN runs'[r]
      PROVE  runs'[r][i].entries # {}
  <2>1. CASE Old(r, i)
    <3>1. runs[r][i].entries # {}
      BY <2>1 DEF KInv, EntriesOnce, Old
    <3> QED
      BY <2>1, <3>1, OldSame
  <2>2. CASE ~Old(r, i)
    BY <2>2 DEF NewEntries
  <2> QED
    BY <2>1, <2>2
<1>3. ASSUME NEW r \in DOMAIN runs', NEW i \in DOMAIN runs'[r], NEW s, NEW j,
             ~Old(r, i), Old(s, j), 1 < i, 1 < j,
             NEW t, t \in runs'[r][i].entries, t \in runs'[s][j].entries
      PROVE  FALSE
  <2>1. /\ i = Len(runs[Top.run]) + 1 /\ DOMAIN Top.groups = {} /\ t \in Top.entries
    BY <1>3 DEF NewEntries, Next1
  <2>2. t \in runs[s][j].entries
    BY <1>3, OldSame
  <2>3. BeginsRun(runs, Top, t)
    BY <1>1, <1>3, <2>1, <2>2 DEF KInv, BegunInv, Old
  <2>4. DOMAIN runs[Top.run] = {}
    BY <2>1, <2>3 DEF BeginsRun, Empty
  <2>5. PICK x : x = runs[Top.run]
    OBVIOUS
  <2>6. x \in Seq(ShapeType) /\ DOMAIN x = {}
    BY <1>1, <2>4, <2>5
  <2>7. Len(x) = 0
    BY ONLY <2>6
  <2> QED
    BY <1>3, <2>1, <2>5, <2>7
<1>4. ASSUME NEW q \in DOMAIN runs', NEW r \in DOMAIN runs',
             NEW i \in DOMAIN runs'[q], NEW j \in DOMAIN runs'[r],
             NEW t \in runs'[q][i].entries, 1 < i, 1 < j, t \in runs'[r][j].entries
      PROVE  q = r /\ i = j
  <2>1. CASE Old(q, i) /\ Old(r, j)
    <3>1. t \in runs[q][i].entries /\ t \in runs[r][j].entries
      BY <1>4, <2>1, OldSame
    <3> QED
      BY <1>4, <2>1, <3>1 DEF KInv, EntriesOnce, Old
  <2>2. CASE ~Old(q, i) /\ ~Old(r, j)
    BY <2>2 DEF NewEntries, Next1
  <2>3. CASE Old(q, i) /\ ~Old(r, j)
    BY <1>3, <1>4, <2>3
  <2>4. CASE ~Old(q, i) /\ Old(r, j)
    BY <1>3, <1>4, <2>4
  <2> QED
    BY <2>1, <2>2, <2>3, <2>4
<1> QED
  BY <1>2, <1>4 DEF EntriesOnce

LEMMA StatesStep ==
    ASSUME KInv, Grows(runs, runs'), states \in Nat, states' \in Nat, runs \in Seq(Seq(ShapeType)),
           runs' \in Seq(Seq(ShapeType)), NewEntries, NewStates
    PROVE  StatesOnce(runs', states')
<1>1. ASSUME NEW r \in DOMAIN runs', NEW i \in DOMAIN runs'[r]
      PROVE  runs'[r][i].state \in Nat
  <2>1. runs'[r] \in Seq(ShapeType)
    OBVIOUS
  <2>2. runs'[r][i] \in ShapeType
    BY <2>1
  <2> QED
    BY <2>2 DEF ShapeType
<1>2. ASSUME NEW r \in DOMAIN runs', NEW i \in DOMAIN runs'[r]
      PROVE  /\ runs'[r][i].kind \in {"simple", "loop", "dispatch"}
             /\ runs'[r][i].kind = "simple" => runs'[r][i].state = 0
             /\ runs'[r][i].kind = "dispatch" => ~(1 < i)
             /\ runs'[r][i].kind = "loop" => runs'[r][i].state <= states'
  <2>1. CASE Old(r, i)
    <3>1. /\ runs'[r][i].kind = runs[r][i].kind /\ runs'[r][i].state = runs[r][i].state
      BY <2>1, OldSame
    <3>2. /\ runs[r][i].kind \in {"simple", "loop", "dispatch"}
          /\ runs[r][i].kind = "simple" => runs[r][i].state = 0
          /\ runs[r][i].kind = "dispatch" => ~(1 < i)
          /\ runs[r][i].kind = "loop" => runs[r][i].state <= states
      BY <2>1 DEF KInv, StatesOnce, Old
    <3>3. runs'[r][i].state \in Nat /\ states <= states'
      BY <1>1 DEF NewStates
    <3>4. runs'[r][i].kind = "loop" => runs'[r][i].state <= states'
      <4> HAVE runs'[r][i].kind = "loop"
      <4>1. runs'[r][i].state <= states
        BY <3>1, <3>2
      <4> QED
        BY <3>3, <4>1
    <3> QED
      BY ONLY <3>1, <3>2, <3>4
  <2>2. CASE ~Old(r, i)
    BY <2>2 DEF NewStates
  <2> QED
    BY <2>1, <2>2
<1>3. ASSUME NEW r \in DOMAIN runs', NEW i \in DOMAIN runs'[r], NEW s \in DOMAIN runs', NEW j \in DOMAIN runs'[s],
             ~Old(r, i), Old(s, j), runs'[r][i].kind = "loop", runs'[s][j].kind = "loop",
             runs'[r][i].state = runs'[s][j].state, runs'[r][i].state # 0
      PROVE  FALSE
  <2>1. runs'[r][i].state = states + 1
    BY <1>3 DEF NewStates
  <2>2. runs[s][j].kind = "loop" /\ runs'[s][j].state = runs[s][j].state
    BY <1>3, OldSame
  <2>3. runs[s][j].state <= states
    BY <1>3, <2>2 DEF KInv, StatesOnce, Old
  <2>4. states + 1 <= states
    BY <1>3, <2>1, <2>2, <2>3
  <2> QED
    BY ONLY <2>4, states \in Nat
<1>4. ASSUME NEW q \in DOMAIN runs', NEW r \in DOMAIN runs',
             NEW i \in DOMAIN runs'[q], NEW j \in DOMAIN runs'[r],
             runs'[q][i].kind = "loop", runs'[r][j].kind = "loop",
             runs'[q][i].state = runs'[r][j].state, runs'[q][i].state # 0
      PROVE  q = r /\ i = j
  <2>1. CASE Old(q, i) /\ Old(r, j)
    <3>1. /\ runs[q][i].kind = "loop" /\ runs[r][j].kind = "loop"
          /\ runs[q][i].state = runs[r][j].state /\ runs[q][i].state # 0
      BY <1>4, <2>1, OldSame
    <3> QED
      BY <2>1, <3>1 DEF KInv, StatesOnce, Old
  <2>2. CASE ~Old(q, i) /\ ~Old(r, j)
    BY <2>2 DEF NewEntries, Next1
  <2>3. CASE Old(q, i) /\ ~Old(r, j)
    BY <1>3, <1>4, <2>3
  <2>4. CASE ~Old(q, i) /\ Old(r, j)
    BY <1>3, <1>4, <2>4
  <2> QED
    BY <2>1, <2>2, <2>3, <2>4
<1> QED
  BY <1>2, <1>4 DEF StatesOnce

LEMMA FreshStep ==
    ASSUME KInv, Prefix, RunsOf, Grows(runs, runs'), NewFresh
    PROVE  FreshInv'
<1> SUFFICES ASSUME NEW k \in DOMAIN stack'
             PROVE  FreshOK(runs', stack', k)
  BY DEF FreshInv, FreshOK, Empty
<1>1. CASE k \in Below
  <2>1. /\ k \in DOMAIN stack /\ stack'[k] = stack[k] /\ k < Len(stack) /\ Len(stack) \in DOMAIN stack
        /\ k \in Nat /\ Len(stack) \in Nat /\ stack[k].run \in DOMAIN runs
    BY <1>1 DEF Below, Prefix, RunsOf
  <2>2. FreshOK(runs, stack, k) /\ ~(Len(stack) <= k)
    BY <2>1 DEF KInv, FreshInv
  <2>3. ~Empty(runs, stack[k].run)
    BY <2>1, <2>2 DEF FreshOK
  <2>4. stack[k].head = 0
    BY <2>2, <2>3 DEF FreshOK
  <2>5. ~Empty(runs', stack[k].run)
    BY <2>1, <2>3 DEF Empty, Grows
  <2> QED
    BY <2>1, <2>4, <2>5 DEF FreshOK
<1>2. CASE k \in Ahead
  BY <1>2 DEF NewFresh
<1> QED
  BY <1>1, <1>2 DEF Prefix

LEMMA BegunStep ==
    ASSUME KInv, Prefix, RunsOf, Grows(runs, runs'), NewEntries, NewBegun,
           \A k \in Below : Held(stack[k]) \cap Held(Top) = {}, Top.entries \subseteq Held(Top)
    PROVE  BegunInv'
<1> SUFFICES ASSUME NEW q \in DOMAIN runs', NEW i \in DOMAIN runs'[q], 1 < i,
                    NEW t \in runs'[q][i].entries, NEW k \in DOMAIN stack', t \in Held(stack'[k])
             PROVE  BeginsRun(runs', stack'[k], t)
  BY DEF BegunInv, BeginsRun, Empty
<1>1. CASE k \in Below
  <2>1. /\ k \in DOMAIN stack /\ stack'[k] = stack[k] /\ k < Len(stack) /\ Len(stack) \in DOMAIN stack
        /\ k \in Nat /\ Len(stack) \in Nat /\ stack[k].run \in DOMAIN runs
    BY <1>1 DEF Below, Prefix, RunsOf
  <2>2. FreshOK(runs, stack, k) /\ ~(Len(stack) <= k)
    BY <2>1 DEF KInv, FreshInv
  <2>3. ~Empty(runs, stack[k].run)
    BY <2>1, <2>2 DEF FreshOK
  <2>4. Old(q, i)
    BY <1>1, <2>1 DEF NewEntries
  <2>5. t \in runs[q][i].entries
    BY <2>4, OldSame
  <2>6. BeginsRun(runs, stack[k], t)
    BY <2>1, <2>4, <2>5 DEF KInv, BegunInv, Old
  <2> QED
    BY <2>1, <2>3, <2>6 DEF BeginsRun
<1>2. CASE k \in Ahead
  <2>1. CASE Old(q, i)
    <3>1. t \in runs[q][i].entries
      BY <2>1, OldSame
    <3>2. t \in Held(Top) /\ Len(stack) \in DOMAIN stack /\ Top = stack[Len(stack)]
      BY <1>2 DEF NewBegun, Prefix
    <3>3. BeginsRun(runs, Top, t)
      BY <2>1, <3>1, <3>2 DEF KInv, BegunInv, Old
    <3> QED
      BY <1>2, <3>3 DEF NewBegun
  <2>2. CASE ~Old(q, i)
    BY <1>2, <2>2 DEF NewBegun
  <2> QED
    BY <2>1, <2>2
<1> QED
  BY <1>1, <1>2 DEF Prefix

LEMMA KKeeps ==
    ASSUME IInv, JInv, KInv, stack # <<>>, IInv', Prefix, Grows(runs, runs'),
           NewEntries, NewStates, NewFresh, NewBegun
    PROVE  KInv'
<1>1. /\ RunsOf /\ runs \in Seq(Seq(ShapeType)) /\ Top.entries \subseteq Held(Top)
      /\ states \in Nat /\ states' \in Nat /\ runs' \in Seq(Seq(ShapeType))
  BY TopFacts DEF IInv, TypeInv
<1>2. \A k \in Below : Held(stack[k]) \cap Held(Top) = {}
  BY DEF IInv, StackInv, Below, Prefix
<1>3. FreshInv'
  BY <1>1, FreshStep
<1>4. BegunInv'
  BY <1>1, <1>2, BegunStep
<1>5. EntriesOnce(runs')
  BY EntriesStep
<1>6. StatesOnce(runs', states')
  BY <1>1, StatesStep
<1> QED
  BY <1>3, <1>4, <1>5, <1>6 DEF KInv

-----------------------------------------------------------------------------
(* What control finds where a run begins.  The run of an arm begins with   *)
(* the block the arm is entered at, that of a loop with the loop's heads,  *)
(* dispatched on the loop's state variable when they are several; a run    *)
(* that has no shape yet is that of a call that will begin it so.          *)
Begins(rs, stk, b, E, s) ==
    /\ b \in DOMAIN rs
    /\ \/ 1 \in DOMAIN rs[b] /\ rs[b][1].entries = E /\ rs[b][1].state = s
       \/ /\ Empty(rs, b)
          /\ \E k \in DOMAIN stk : stk[k].run = b /\ stk[k].entries = E /\ stk[k].head = s

(* A dispatch has an arm for each head, or a call that waits to make it.   *)
Laid(rs, stk, q, i) ==
    /\ rs[q][i].kind = "simple" => Single(rs[q][i].entries)
    /\ rs[q][i].kind = "loop" => /\ DOMAIN rs[q][i].arms = {}
                                 /\ Begins(rs, stk, rs[q][i].body, rs[q][i].entries, rs[q][i].state)
    /\ \A e \in DOMAIN rs[q][i].arms : Begins(rs, stk, rs[q][i].arms[e], {e}, 0)
    /\ rs[q][i].kind = "dispatch" =>
          /\ rs[q][i].state # 0
          /\ \A e \in rs[q][i].entries :
                \/ e \in DOMAIN rs[q][i].arms
                \/ \E k \in DOMAIN stk : ArmOf(rs, stk[k], q, i, e)

ArmsEnd(rs, f) == Arming(f) => rs[f.run][Len(rs[f.run])].kind # "loop"

LInv ==
    /\ Begins(runs, stack, 1, {0}, 0)
    /\ \A q \in DOMAIN runs : \A i \in DOMAIN runs[q] : Laid(runs, stack, q, i)
    /\ \A k \in DOMAIN stack : ArmsEnd(runs, stack[k])

(* What is needed of a step to keep LInv.                                  *)
NewFirst ==
    Empty(runs, Top.run) => /\ 1 \in DOMAIN runs'[Top.run]
                            /\ runs'[Top.run][1].entries = Top.entries
                            /\ runs'[Top.run][1].state = Top.head
NewLaid ==
    \A q \in DOMAIN runs' : \A i \in DOMAIN runs'[q] :
        /\ ~Old(q, i) => Laid(runs', stack', q, i)
        /\ Old(q, i) => \A e \in DOMAIN runs'[q][i].arms :
              \/ e \in DOMAIN runs[q][i].arms /\ runs'[q][i].arms[e] = runs[q][i].arms[e]
              \/ /\ runs[q][i].kind # "loop"
                 /\ Begins(runs', stack', runs'[q][i].arms[e], {e}, 0)
NewEnds == \A k \in Ahead : ArmsEnd(runs', stack'[k])

LEMMA EmptyRun ==
    ASSUME runs \in Seq(Seq(ShapeType)), NEW q \in DOMAIN runs, Empty(runs, q)
    PROVE  Len(runs[q]) + 1 = 1
<1>1. PICK s : s = runs[q]
  OBVIOUS
<1>2. s \in Seq(ShapeType) /\ DOMAIN s = {}
  BY <1>1 DEF Empty
<1>3. Len(s) + 1 = 1
  BY ONLY <1>2
<1> QED
  BY <1>1, <1>3

LEMMA BeginsStep ==
    ASSUME KInv, Prefix, Grows(runs, runs'), NewFirst, NEW b, NEW E, NEW s, Begins(runs, stack, b, E, s)
    PROVE  Begins(runs', stack', b, E, s)
<1>1. b \in DOMAIN runs /\ b \in DOMAIN runs'
  BY DEF Begins, Grows
<1>2. CASE 1 \in DOMAIN runs[b] /\ runs[b][1].entries = E /\ runs[b][1].state = s
  BY <1>1, <1>2 DEF Begins, Grows, Same
<1>3. CASE /\ Empty(runs, b)
           /\ \E k \in DOMAIN stack : stack[k].run = b /\ stack[k].entries = E /\ stack[k].head = s
  <2>1. PICK k \in DOMAIN stack : stack[k].run = b /\ stack[k].entries = E /\ stack[k].head = s
    BY <1>3
  <2>2. \A l \in DOMAIN stack : l <= k
    BY <1>3, <2>1 DEF KInv, FreshInv, FreshOK
  <2>3. k = Len(stack)
    <3>1. k \in Nat /\ Len(stack) \in Nat /\ k <= Len(stack) /\ Len(stack) <= k
      BY <2>2 DEF Prefix
    <3> QED
      BY ONLY <3>1
  <2> QED
    BY <1>1, <1>3, <2>1, <2>3 DEF Prefix, NewFirst, Begins
<1> QED
  BY <1>2, <1>3 DEF Begins

LEMMA LKeeps ==
    ASSUME IInv, JInv, KInv, LInv, stack # <<>>, Prefix, Grows(runs, runs'), OnlyTop, NewArm,
           NewFirst, NewLaid, NewEnds
    PROVE  LInv'
<1>1. RunsOf
  BY TopFacts
<1>2. Begins(runs', stack', 1, {0}, 0)
  BY BeginsStep DEF LInv
<1>3. ASSUME NEW q \in DOMAIN runs', NEW i \in DOMAIN runs'[q]
      PROVE  Laid(runs', stack', q, i)
  <2>1. CASE ~Old(q, i)
    BY <2>1 DEF NewLaid
  <2>2. CASE Old(q, i)
    <3>1. /\ q \in DOMAIN runs /\ i \in DOMAIN runs[q] /\ Laid(runs, stack, q, i)
          /\ Same(runs[q][i], runs'[q][i])
      BY <2>2 DEF Old, LInv, Grows
    <3>2. ASSUME NEW e \in DOMAIN runs'[q][i].arms
          PROVE  Begins(runs', stack', runs'[q][i].arms[e], {e}, 0)
      <4>1. CASE e \in DOMAIN runs[q][i].arms /\ runs'[q][i].arms[e] = runs[q][i].arms[e]
        <5>1. Begins(runs, stack, runs[q][i].arms[e], {e}, 0)
          BY <3>1, <4>1 DEF Laid
        <5> QED
          BY <4>1, <5>1, BeginsStep
      <4> QED
        BY <2>2, <4>1 DEF NewLaid
    <3>3. ASSUME runs'[q][i].kind = "loop"
          PROVE  /\ DOMAIN runs'[q][i].arms = {}
                 /\ Begins(runs', stack', runs'[q][i].body, runs'[q][i].entries, runs'[q][i].state)
      <4>1. /\ runs[q][i].kind = "loop" /\ runs'[q][i].body = runs[q][i].body
            /\ runs'[q][i].entries = runs[q][i].entries /\ runs'[q][i].state = runs[q][i].state
        BY <3>1, <3>3 DEF Same
      <4>2. /\ DOMAIN runs[q][i].arms = {}
            /\ Begins(runs, stack, runs[q][i].body, runs[q][i].entries, runs[q][i].state)
        BY <3>1, <4>1 DEF Laid
      <4>3. DOMAIN runs'[q][i].arms = {}
        BY <2>2, <4>1, <4>2 DEF NewLaid
      <4>4. Begins(runs', stack', runs[q][i].body, runs[q][i].entries, runs[q][i].state)
        BY <4>2, BeginsStep
      <4> QED
        BY <4>1, <4>3, <4>4
    <3>4. ASSUME runs'[q][i].kind = "dispatch"
          PROVE  /\ runs'[q][i].state # 0
                 /\ \A e \in runs'[q][i].entries :
                       \/ e \in DOMAIN runs'[q][i].arms
                       \/ \E k \in DOMAIN stack' : ArmOf(runs', stack'[k], q, i, e)
      <4>1. /\ runs[q][i].kind = "dispatch" /\ runs'[q][i].state = runs[q][i].state
            /\ runs'[q][i].entries = runs[q][i].entries
            /\ DOMAIN runs[q][i].arms \subseteq DOMAIN runs'[q][i].arms
        BY <3>1, <3>4 DEF Same
      <4>2. /\ runs[q][i].state # 0
            /\ \A e \in runs[q][i].entries :
                  \/ e \in DOMAIN runs[q][i].arms
                  \/ \E k \in DOMAIN stack : ArmOf(runs, stack[k], q, i, e)
        BY <3>1, <4>1 DEF Laid
      <4>3. ASSUME NEW e, NEW k \in DOMAIN stack, ArmOf(runs, stack[k], q, i, e)
            PROVE  \/ e \in DOMAIN runs'[q][i].arms
                   \/ \E l \in DOMAIN stack' : ArmOf(runs', stack'[l], q, i, e)
        BY <3>1, <4>3, ArmOfStep DEF JInv
      <4> QED
        BY <4>1, <4>2, <4>3
    <3>5. runs'[q][i].kind = "simple" => Single(runs'[q][i].entries)
      BY <3>1 DEF Laid, Same
    <3> QED
      BY <3>2, <3>3, <3>4, <3>5 DEF Laid
  <2> QED
    BY <2>1, <2>2
<1>4. ASSUME NEW k \in DOMAIN stack'
      PROVE  ArmsEnd(runs', stack'[k])
  <2>1. CASE k \in Below
    <3>1. k \in DOMAIN stack /\ stack'[k] = stack[k] /\ k < Len(stack) /\ stack[k].run \in DOMAIN runs
      BY <1>1, <2>1 DEF Below, Prefix, RunsOf
    <3>2. Arming(stack[k]) => runs'[stack[k].run] = runs[stack[k].run]
      BY <3>1 DEF JInv, ArmsInv, OnlyTop, Prefix
    <3>3. ArmsEnd(runs, stack[k])
      BY <3>1 DEF LInv
    <3> QED
      BY <3>1, <3>2, <3>3 DEF ArmsEnd
  <2> QED
    BY <2>1 DEF Prefix, NewEnds
<1> QED
  BY <1>2, <1>3, <1>4 DEF LInv

-----------------------------------------------------------------------------
(* One lemma per action.                                                   *)
Placing(rs, new, q, shape, P) ==
    /\ rs \in Seq(Seq(ShapeType)) /\ q \in DOMAIN rs /\ shape \in ShapeType
    /\ P = IF shape.kind = "simple" THEN shape.entries ELSE {}
    /\ new = Grown(rs, q, shape)

LEMMA PlacedGrown ==
    ASSUME NEW rs, NEW new, NEW q, NEW shape, NEW P, Placing(rs, new, q, shape, P)
    PROVE  Placed(new) = Placed(rs) \cup P
<1> USE DEF Placing
<1>1. /\ new \in Seq(Seq(ShapeType)) /\ DOMAIN new = DOMAIN rs
      /\ \A b, r, i : PlacedIn(new, b, r, i) <=>
             \/ PlacedIn(rs, b, r, i)
             \/ (r = q /\ i = Len(rs[q]) + 1 /\ shape.kind = "simple" /\ b \in shape.entries)
  BY ShapePlaced
<1>2. P \subseteq Block
  BY DEF ShapeType
<1>3. ASSUME NEW b \in Placed(new)
      PROVE  b \in Placed(rs) \cup P
  <2>1. PICK r, i : PlacedIn(new, b, r, i)
    BY DEF Placed
  <2>2. CASE PlacedIn(rs, b, r, i)
    BY <2>2 DEF Placed, PlacedIn
  <2>3. CASE shape.kind = "simple" /\ b \in shape.entries
    BY <2>3
  <2> QED
    BY <1>1, <2>1, <2>2, <2>3
<1>4. ASSUME NEW b \in Placed(rs) \cup P
      PROVE  b \in Placed(new)
  <2>1. CASE b \in Placed(rs)
    <3>1. PICK r, i : PlacedIn(rs, b, r, i)
      BY <2>1 DEF Placed
    <3>2. PlacedIn(new, b, r, i) /\ b \in Block
      BY <1>1, <2>1, <3>1 DEF Placed
    <3> QED
      BY <3>2 DEF Placed, PlacedIn
  <2>2. CASE b \in P
    <3>1. PlacedIn(new, b, q, Len(rs[q]) + 1) /\ b \in Block
      BY <1>1, <1>2, <2>2
    <3> QED
      BY <3>1 DEF Placed, PlacedIn
  <2> QED
    BY <2>1, <2>2
<1> QED
  BY <1>1, <1>3, <1>4

(* The blocks a shape begins with serve the jumps that waited for them.    *)
LEMMA WantsShape ==
    ASSUME IInv, JInv, stack # <<>>, DOMAIN Top.groups = {}, Grows(runs, runs'),
           Len(runs[Top.run]) + 1 \in DOMAIN runs'[Top.run],
           Top.entries \subseteq runs'[Top.run][Len(runs[Top.run]) + 1].entries
    PROVE  NewWants
<1>1. Top.run \in DOMAIN runs /\ runs \in Seq(Seq(ShapeType)) /\ HeldLater(runs)
  BY TopFacts DEF JInv, TreeOK
<1>2. Wanted(Top) = Top.entries
  BY DEF Wanted
<1> SUFFICES ASSUME NEW t \in Top.entries, NEW r \in Inside(runs, Top.run), NEW i \in DOMAIN runs[r]
             PROVE  Escapes(runs', r, i, t)
  BY <1>2 DEF NewWants
<1> DEFINE new == runs'
           q == Top.run
           old == runs
<1>3. /\ old \in Seq(Seq(ShapeType)) /\ HeldLater(old) /\ Grows(old, new) /\ q \in DOMAIN old
      /\ Len(old[q]) + 1 \in DOMAIN new[q] /\ t \in new[q][Len(old[q]) + 1].entries
      /\ r \in Inside(old, q) /\ i \in DOMAIN old[r]
  BY <1>1
<1> HIDE DEF new, q, old
<1>4. Escapes(new, r, i, t)
  BY <1>3, EscapesNext
<1> QED
  BY <1>4 DEF new

LEMMA HiddenEscapes ==
    ASSUME NEW rs, TreeOK(rs), NEW q, NEW i, NEW t, Hidden(rs, q, t)
    PROVE  Escapes(rs, q, i, t)
<1>1. PICK r \in DOMAIN rs : \E j \in DOMAIN rs[r] :
          /\ rs[r][j].kind = "loop" /\ t \in rs[r][j].entries
          /\ q \in Inside(rs, rs[r][j].body)
  BY DEF Hidden
<1>2. PICK j \in DOMAIN rs[r] :
          /\ rs[r][j].kind = "loop" /\ t \in rs[r][j].entries
          /\ q \in Inside(rs, rs[r][j].body)
  BY <1>1
<1>3. rs[r][j].body \in Bodies(rs[r][j])
  BY <1>2 DEF TreeOK, LoopBody, Bodies
<1> QED
  BY <1>2, <1>3 DEF Escapes, Around

(* A jump of a block the top call holds, once it is hidden or leads out.   *)
LEMMA OuterServed ==
    ASSUME IInv, JInv, stack # <<>>, Prefix, TreeOK(runs'), Grows(runs, runs'),
           NEW b \in Held(Top), NEW t \in graph.succ[b], t \notin Held(Top) \/ <<b, t>> \in cut, NEW i
    PROVE  Served(runs', stack', Top.run, i, t)
<1>0. /\ b \in Block /\ t \in Block /\ Top.run \in DOMAIN runs
      /\ Len(stack) \in DOMAIN stack /\ Top = stack[Len(stack)]
  BY TopFacts DEF Graph
<1>1. CASE <<b, t>> \in cut
  <2>1. Hidden(runs, Top.run, t)
    BY <1>0, <1>1 DEF JInv, CutInv
  <2>2. Hidden(runs', Top.run, t)
    BY <2>1, HiddenGrows DEF JInv
  <2> QED
    BY <2>2, HiddenEscapes DEF Served
<1>2. CASE <<b, t>> \notin cut
  <2>1. <<b, t>> \in Edges
    BY <1>0, <1>2 DEF Edges
  <2>2. /\ t \notin Placed(runs)
        /\ \A j \in DOMAIN stack :
              t \in Held(stack[j]) => j <= Len(stack) /\ (j < Len(stack) => t \in stack[j].entries)
    BY <1>0, <2>1 DEF JInv, EdgesInv
  <2>3. PICK j \in DOMAIN stack : t \in Held(stack[j])
    BY <1>0, <2>2 DEF IInv, StackInv
  <2>4. j < Len(stack)
    <3>1. t \notin Held(Top)
      BY <1>2
    <3>2. j # Len(stack)
      BY <1>0, <2>3, <3>1
    <3>3. j <= Len(stack) /\ j \in Nat /\ Len(stack) \in Nat
      BY <1>0, <2>3 DEF Prefix
    <3> QED
      BY ONLY <3>2, <3>3
  <2>5. j \in DOMAIN stack' /\ stack'[j] = stack[j] /\ j <= Len(stack)
    BY <2>4 DEF Prefix, Below
  <2>6. Top.run \in Inside(runs, stack[j].run) /\ stack[j].run \in DOMAIN runs
    BY <1>0, <2>5, TopFacts DEF JInv, ChainInv, RunsOf
  <2>7. Top.run \in Inside(runs', stack[j].run)
    BY <2>6, InsideGrows DEF JInv, TreeOK
  <2> QED
    BY <2>2, <2>3, <2>4, <2>5, <2>7 DEF Served, Wanted
<1> QED
  BY <1>1, <1>2

(* The run of the top call, with a shape that holds no run.                *)
NextShape(q, shape) ==
    /\ shape \in ShapeType /\ shape.body = 0 /\ DOMAIN shape.arms = {} /\ shape.kind # "loop"
    /\ runs' = Grown(runs, q, shape)
Shaped(q, shape) ==
    /\ Grows(runs, runs') /\ TreeOK(runs') /\ DOMAIN runs' = DOMAIN runs
    /\ \A r \in DOMAIN runs : r # q => runs'[r] = runs[r]
    /\ Len(runs'[q]) = Len(runs[q]) + 1 /\ runs'[q] # <<>>
    /\ Len(runs[q]) + 1 \in DOMAIN runs'[q] /\ runs'[q][Len(runs[q]) + 1] = shape
    /\ Len(runs[q]) + 1 \notin DOMAIN runs[q]
    /\ \A i \in DOMAIN runs'[q] : i \in DOMAIN runs[q] \/ i = Len(runs[q]) + 1
    /\ \A i \in DOMAIN runs[q] : runs'[q][i] = runs[q][i]

LEMMA ShapedBy ==
    ASSUME IInv, JInv, stack # <<>>, NEW shape, NextShape(Top.run, shape)
    PROVE  Shaped(Top.run, shape)
<1> USE DEF NextShape
<1> DEFINE q == Top.run
<1>1. runs \in Seq(Seq(ShapeType)) /\ q \in DOMAIN runs /\ TreeOK(runs)
  BY TopFacts DEF JInv
<1> HIDE DEF q
<1>2. runs' = Grown(runs, q, shape)
  BY DEF q
<1>3. /\ Grows(runs, runs') /\ TreeOK(runs') /\ DOMAIN runs' = DOMAIN runs
      /\ GrownBy(runs, runs', q, shape)
  <2> DEFINE new == runs'
  <2>1. new = Grown(runs, q, shape)
    BY <1>2
  <2> HIDE DEF new
  <2>2. /\ Grows(runs, new) /\ TreeOK(new) /\ DOMAIN new = DOMAIN runs
        /\ GrownBy(runs, new, q, shape)
    BY <1>1, <2>1, PlaceGrows
  <2> QED
    BY <2>2 DEF new
<1>4. runs[q] \in Seq(ShapeType) /\ runs'[q] = Append(runs[q], shape)
  BY <1>1, <1>2 DEF Grown
<1>5. /\ Len(runs'[q]) = Len(runs[q]) + 1 /\ runs'[q] # <<>>
      /\ DOMAIN runs[q] = 1 .. Len(runs[q]) /\ Len(runs[q]) \in Nat
      /\ DOMAIN runs'[q] = 1 .. Len(runs[q]) + 1
  <2>1. PICK s : s = runs[q]
    OBVIOUS
  <2>2. PICK r : r = runs'[q]
    OBVIOUS
  <2>3. s \in Seq(ShapeType) /\ shape \in ShapeType /\ r = Append(s, shape)
    BY <1>4, <2>1, <2>2
  <2>4. /\ Len(r) = Len(s) + 1 /\ r # <<>> /\ DOMAIN s = 1 .. Len(s) /\ Len(s) \in Nat
        /\ DOMAIN r = 1 .. Len(s) + 1
    BY ONLY <2>3
  <2> QED
    BY <2>1, <2>2, <2>4
<1>6. /\ Len(runs[q]) + 1 \in DOMAIN runs'[q] /\ Len(runs[q]) + 1 \notin DOMAIN runs[q]
      /\ \A i \in DOMAIN runs'[q] : i \in DOMAIN runs[q] \/ i = Len(runs[q]) + 1
  BY <1>5
<1> QED
  BY <1>3, <1>5, <1>6 DEF Shaped, GrownBy, q

(* The top call goes on, once it has placed a shape that is not a loop.    *)
LaidNext(f, shape) ==
    /\ DOMAIN Top.groups = {} /\ shape.kind # "loop" /\ DOMAIN shape.arms = {}
    /\ shape.entries = Top.entries /\ shape.state = Top.head
    /\ shape.kind = "simple" => Single(shape.entries)
    /\ shape.kind = "dispatch" =>
          /\ shape.state # 0
          /\ \A e \in shape.entries : ArmOf(runs', f, Top.run, Len(runs[Top.run]) + 1, e)

LEMMA GoesLaid ==
    ASSUME IInv, JInv, KInv, LInv, stack # <<>>, NEW P, NEW E, NEW g, NEW i, NEW f,
           FrameIs(f, P, E, g, i), NEW shape, Shaped(Top.run, shape), LaidNext(f, shape)
    PROVE  LInv'
<1> DEFINE q == Top.run
           n == Len(runs[q]) + 1
<1>1. /\ q \in DOMAIN runs /\ runs \in Seq(Seq(ShapeType))
      /\ Prefix /\ Ahead = {Len(stack)} /\ stack'[Len(stack)] = f /\ f.run = q
      /\ Len(stack) \in DOMAIN stack'
  BY TopFacts DEF FrameIs, Ahead
<1>2. /\ Grows(runs, runs') /\ DOMAIN runs' = DOMAIN runs
      /\ \A r \in DOMAIN runs : r # q => runs'[r] = runs[r]
      /\ Len(runs'[q]) = n /\ n \in DOMAIN runs'[q] /\ runs'[q][n] = shape
      /\ \A j \in DOMAIN runs'[q] : j \in DOMAIN runs[q] \/ j = n
      /\ \A j \in DOMAIN runs[q] : runs'[q][j] = runs[q][j]
  BY DEF Shaped
<1>3. OnlyTop /\ NewArm
  BY <1>1, <1>2 DEF OnlyTop, NewArm, Arming, LaidNext
<1>4. Empty(runs, q) => n = 1
  BY <1>1, EmptyRun
<1> HIDE DEF n
<1>5. NewFirst
  BY <1>2, <1>4 DEF NewFirst, LaidNext
<1>6. ASSUME NEW r \in DOMAIN runs', NEW j \in DOMAIN runs'[r]
      PROVE  /\ Old(r, j) => runs'[r][j] = runs[r][j]
             /\ ~Old(r, j) => r = q /\ j = n
  BY <1>2 DEF Old
<1>7. Laid(runs', stack', q, n)
  <2>1. /\ runs'[q][n].kind # "loop" /\ DOMAIN runs'[q][n].arms = {}
        /\ runs'[q][n].kind = "simple" => Single(runs'[q][n].entries)
    BY <1>2 DEF LaidNext
  <2>2. ASSUME runs'[q][n].kind = "dispatch"
        PROVE  /\ runs'[q][n].state # 0
               /\ \A e \in runs'[q][n].entries :
                     \E k \in DOMAIN stack' : ArmOf(runs', stack'[k], q, n, e)
    BY <1>1, <1>2, <2>2 DEF LaidNext, n
  <2> QED
    BY <2>1, <2>2 DEF Laid
<1>8. NewLaid
  BY <1>6, <1>7 DEF NewLaid
<1>9. NewEnds
  BY <1>1, <1>2 DEF NewEnds, ArmsEnd, LaidNext
<1> QED
  BY <1>1, <1>2, <1>3, <1>5, <1>8, <1>9, LKeeps

LEMMA SimpleKeeps ==
    ASSUME IInv, JInv, KInv, LInv, stack # <<>>, make_simple
    PROVE  JInv' /\ KInv' /\ LInv'
<1> DEFINE q == Top.run
           B == Top.blocks
<1>1. PICK b \in Here(Top) :
        LET rest    == B \ {b}
            targets == succ_in(b, rest)
            groups  == IF fusable(b, targets)
                       THEN independent_groups(targets, rest)
                       ELSE NoGroups
        IN  /\ DOMAIN Top.groups = {}
            /\ Here(Top) = {b} /\ preds_in(b, B) = {}
            /\ runs' = Grown(runs, q, Simple(b))
            /\ stack' = Goes(Split(q, FALSE, targets, rest, groups))
            /\ UNCHANGED <<graph, cut, states>>
  BY DEF make_simple, Turn, Place, Grown
<1>2. /\ Top.entries = {b} /\ b \in B /\ b \in Block /\ B \in SUBSET Block /\ graph \in Graph
      /\ runs \in Seq(Seq(ShapeType)) /\ q \in DOMAIN runs /\ Span(Edges, {b}, B)
      /\ Held(Top) = B
  BY <1>1, TopFacts
<1> DEFINE E == succ_in(b, B \ {b})
           G == IF fusable(b, E) THEN independent_groups(E, B \ {b}) ELSE NoGroups
           F == Split(q, FALSE, E, B \ {b}, G)
<1>3. E = {y \in B \ {b} : <<b, y>> \in Edges}
  BY <1>2, SuccIn
<1>4. \A x \in B : <<x, b>> \notin Edges
  BY <1>1, <1>2, PredsIn
<1>5. Span(Edges, E, B \ {b})
  <2>1. E = ({b} \ {b}) \cup {y \in B \ {b} : \E x \in {b} : <<x, y>> \in Edges}
    BY <1>3
  <2> HIDE DEF E, B
  <2>2. {b} \subseteq B
    BY <1>2
  <2> QED
    BY <1>2, <2>1, <2>2, SpanRemainder
<1>6. PICK g : g = G
  OBVIOUS
<1>7. PICK f : f = F
  OBVIOUS
<1>8. GoesOn({b}, E, g, FALSE, f)
  <2>1. g = independent_groups(E, B \ {b}) \/ g = NoGroups
    BY <1>6
  <2>2. f = Split(Top.run, FALSE, E, B \ {b}, g) /\ stack' = Goes(f)
    BY <1>1, <1>6, <1>7
  <2> HIDE DEF E, G, F
  <2> QED
    BY <1>1, <1>2, <1>5, <2>1, <2>2 DEF GoesOn
<1> HIDE DEF E, G, F
<1>9. FrameIs(f, {b}, E, g, FALSE)
  BY <1>8, GoesFacts
<1>10. Simple(b) \in ShapeType /\ Simple(b).kind = "simple" /\ Simple(b).entries = {b}
       /\ Simple(b).body = 0 /\ DOMAIN Simple(b).arms = {} /\ Simple(b).state = 0
  <2>1. NoArms \in UNION {[S -> Nat] : S \in SUBSET Block} /\ DOMAIN NoArms = {}
    BY DEF NoArms
  <2> HIDE DEF NoArms
  <2> QED
    BY <1>2, <2>1 DEF Simple, Shape, ShapeType
<1>11. Shaped(q, Simple(b))
  <2>1. NextShape(q, Simple(b))
    BY <1>1, <1>10 DEF NextShape
  <2> QED
    BY <2>1, ShapedBy
<1>12. Placed(runs') = Placed(runs) \cup {b}
  <2> DEFINE new == runs'
             shape == Simple(b)
             P == {b}
  <2>1. Placing(runs, new, q, shape, P)
    BY <1>1, <1>2, <1>10 DEF Placing
  <2> HIDE DEF new, shape, q, P
  <2>2. Placed(new) = Placed(runs) \cup P
    BY <2>1, PlacedGrown
  <2> QED
    BY <2>2 DEF new, P
<1>13. Arming(f) => ArmsWait(runs', f)
  BY <1>9, <1>10, <1>11 DEF ArmsWait, Shaped, FrameIs
<1>14. NewWants
  BY <1>1, <1>2, <1>10, <1>11, WantsShape DEF Shaped
<1>15. NewShapes
  <2> SUFFICES ASSUME NEW t \in graph.succ[b]
               PROVE  Served(runs', stack', q, Len(runs[q]) + 1, t)
    <3> DEFINE Here1(t) == Served(runs', stack', q, Len(runs[q]) + 1, t)
    <3> SUFFICES ASSUME \A t \in graph.succ[b] : Here1(t),
                        NEW r \in DOMAIN runs', NEW i \in DOMAIN runs'[r],
                        ~(r \in DOMAIN runs /\ i \in DOMAIN runs[r]),
                        NEW x \in runs'[r][i].entries, NEW t \in graph.succ[x]
                 PROVE  Served(runs', stack', r, i, t)
      BY DEF NewShapes
    <3>1. r = q /\ i = Len(runs[q]) + 1
      BY <1>11 DEF Shaped
    <3>2. runs'[r][i] = Simple(b)
      BY <1>11, <3>1 DEF Shaped
    <3>3. x = b
      BY <1>10, <3>2
    <3> QED
      BY <3>1, <3>3
  <2>1. CASE t \notin Held(Top) \/ <<b, t>> \in cut
    BY <1>2, <1>9, <1>11, <2>1, OuterServed DEF Shaped, FrameIs
  <2>2. CASE t \in Held(Top) /\ <<b, t>> \notin cut
    <3>1. t \in E
      BY <1>2, <1>3, <1>4, <2>2 DEF Edges
    <3>2. Len(stack) \in DOMAIN stack' /\ stack'[Len(stack)] = f /\ f.run = q
      BY <1>9 DEF FrameIs, Ahead
    <3>3. CASE t \in f.entries
      <4>1. q \in Inside(runs', f.run)
        BY <1>2, <1>11, <3>2, InsideSelf DEF Shaped
      <4> QED
        BY <3>2, <3>3, <4>1 DEF Served, Wanted
    <3>4. CASE t \in DOMAIN g
      <4>1. ArmOf(runs', f, q, Len(runs[q]) + 1, t)
        BY <1>9, <1>11, <3>2, <3>4 DEF ArmOf, Arming, FrameIs, Shaped
      <4> QED
        BY <3>2, <4>1 DEF Served
    <3> QED
      BY <1>9, <3>1, <3>3, <3>4 DEF FrameIs
  <2> QED
    BY <2>1, <2>2
<1>16. \A x \in B \ {b} : \A t \in {b} : <<x, t>> \notin Edges
  BY <1>4
<1>17. JInv'
  BY <1>8, <1>9, <1>11, <1>12, <1>13, <1>14, <1>15, <1>16, GoesKeeps DEF Shaped
<1>18. KInv'
  <2>1. ASSUME NEW r \in DOMAIN runs', NEW i \in DOMAIN runs'[r], ~Old(r, i)
        PROVE  Next1(r, i) /\ runs'[r][i] = Simple(b)
    BY <1>11, <2>1 DEF Shaped, Old, Next1
  <2>2. NewEntries
    BY <1>1, <1>2, <1>10, <2>1 DEF NewEntries
  <2>3. NewStates
    BY <1>1, <1>10, <2>1, IInv DEF NewStates, IInv, TypeInv
  <2>4. \A k \in Ahead : stack'[k] = f
    BY <1>9 DEF FrameIs
  <2>5. NewFresh
    BY <1>9, <1>11, <2>4 DEF NewFresh, FreshOK, Empty, FrameIs, Shaped
  <2>6. NewBegun
    <3>1. \A t \in Held(f) : t \in Held(Top) /\ t # b
      BY <1>9 DEF FrameIs
    <3>2. \A t : BeginsRun(runs, Top, t) => t = b
      BY <1>1, <1>2 DEF BeginsRun
    <3>3. \A r \in DOMAIN runs' : \A i \in DOMAIN runs'[r] : ~Old(r, i) => runs'[r][i].entries = {b}
      BY <1>10, <2>1
    <3> QED
      BY <2>4, <3>1, <3>2, <3>3 DEF NewBegun
  <2> QED
    BY <1>9, <1>11, <2>2, <2>3, <2>5, <2>6, SimpleStep, KKeeps DEF FrameIs, Shaped
<1>19. LInv'
  <2>1. Top.head = 0
    BY DEF make_simple
  <2>2. LaidNext(f, Simple(b))
    BY <1>1, <1>2, <1>10, <2>1 DEF LaidNext, Single
  <2> QED
    BY <1>9, <1>11, <2>2, GoesLaid
<1> QED
  BY <1>17, <1>18, <1>19

LEMMA MultipleKeeps ==
    ASSUME IInv, JInv, KInv, LInv, stack # <<>>, make_multiple
    PROVE  JInv' /\ KInv' /\ LInv'
<1> DEFINE E == Top.entries
           B == Top.blocks \ {}
           G == independent_groups(Top.entries, Top.blocks)
<1>1. /\ DOMAIN Top.groups = {} /\ runs' = runs
      /\ stack' = Goes(Split(Top.run, TRUE, E, Top.blocks, G))
      /\ UNCHANGED <<graph, cut, states>>
      /\ ~Single(Top.entries) /\ Top.head = 0
  BY TopFacts DEF make_multiple, Turn
<1>2. Span(Edges, E, Top.blocks) /\ Top.run \in DOMAIN runs
  BY TopFacts
<1>3. B = Top.blocks
  OBVIOUS
<1>4. PICK g : g = G
  OBVIOUS
<1>5. PICK f : f = Split(Top.run, TRUE, E, B, g)
  OBVIOUS
<1>6. GoesOn({}, E, g, TRUE, f)
  <2>1. Span(Edges, E, Top.blocks \ {}) /\ g = independent_groups(E, Top.blocks \ {})
    BY <1>2, <1>3, <1>4
  <2>2. f = Split(Top.run, TRUE, E, Top.blocks \ {}, g) /\ stack' = Goes(f)
    BY <1>1, <1>3, <1>4, <1>5
  <2> QED
    BY <1>1, <2>1, <2>2 DEF GoesOn
<1>7. FrameIs(f, {}, E, g, TRUE)
  BY <1>6, GoesFacts
<1>8. Grows(runs, runs') /\ TreeOK(runs') /\ Placed(runs') = Placed(runs) \cup {}
  BY <1>1 DEF Grows, Same, JInv
<1>9. NewWants
  <2> SUFFICES ASSUME NEW t \in Wanted(Top)
               PROVE  \E k \in Ahead : stack'[k].run = Top.run /\ t \in Wanted(stack'[k])
    BY DEF NewWants
  <2>1. t \in E
    BY <1>1 DEF Wanted
  <2>2. t \in f.entries \/ t \in DOMAIN f.groups
    BY <1>7, <2>1 DEF FrameIs
  <2> QED
    BY <1>7, <2>2 DEF FrameIs, Wanted
<1>10. NewShapes
  BY <1>1 DEF NewShapes
<1>11. ~Arming(f)
  BY <1>7 DEF FrameIs, Arming
<1> HIDE DEF E, G, B
<1>12. JInv'
  BY <1>1, <1>6, <1>7, <1>8, <1>9, <1>10, <1>11, GoesKeeps
<1>13. KInv'
  <2>1. \A r \in DOMAIN runs' : \A i \in DOMAIN runs'[r] : Old(r, i)
    BY <1>1 DEF Old
  <2>2. NewEntries /\ NewStates
    BY <1>1, <2>1 DEF NewEntries, NewStates, IInv, TypeInv
  <2>3. ~Empty(runs, Top.run)
    BY <1>1, TopFacts DEF KInv, FreshInv, FreshOK
  <2>4. \A k \in Ahead : stack'[k] = f
    BY <1>7 DEF FrameIs
  <2>5. NewFresh
    BY <1>1, <1>7, <2>3, <2>4 DEF NewFresh, FreshOK, Empty, FrameIs
  <2>6. NewBegun
    <3>1. Held(f) \subseteq Held(Top)
      BY <1>7 DEF FrameIs
    <3>2. \A t : ~BeginsRun(runs, Top, t)
      BY <1>1, <2>3 DEF BeginsRun
    <3> QED
      BY <2>1, <2>4, <3>1, <3>2 DEF NewBegun
  <2> QED
    BY <1>7, <1>8, <2>2, <2>5, <2>6, MultipleStep, KKeeps DEF FrameIs
<1>14. LInv'
  <2>1. \A k \in Ahead : stack'[k] = f
    BY <1>7 DEF FrameIs
  <2>2. OnlyTop /\ NewArm
    BY <1>1, <1>7, <2>1 DEF OnlyTop, NewArm, Arming, FrameIs
  <2>3. NewFirst
    BY <1>1, TopFacts DEF KInv, FreshInv, FreshOK, NewFirst
  <2>4. NewLaid
    <3>1. ASSUME NEW r \in DOMAIN runs, NEW j \in DOMAIN runs[r]
          PROVE  Old(r, j)
      BY DEF Old
    <3> QED
      BY <1>1, <3>1 DEF NewLaid
  <2>5. NewEnds
    BY <1>11, <2>1 DEF NewEnds, ArmsEnd
  <2> QED
    BY <1>7, <1>8, <2>2, <2>3, <2>4, <2>5, LKeeps DEF FrameIs
<1> QED
  BY <1>12, <1>13, <1>14

LEMMA DispatchKeeps ==
    ASSUME IInv, JInv, KInv, LInv, stack # <<>>, make_dispatch
    PROVE  JInv' /\ KInv' /\ LInv'
<1> DEFINE q == Top.run
           E == Top.entries
           B == Top.blocks \ {}
           G == independent_groups(Top.entries, Top.blocks)
           shape == Dispatch(DOMAIN G, Top.head)
<1>1. /\ DOMAIN Top.groups = {} /\ Top.head # 0
      /\ runs' = Grown(runs, q, shape)
      /\ stack' = Goes(Split(q, FALSE, E, Top.blocks, G))
      /\ UNCHANGED <<graph, cut, states>>
  BY DEF make_dispatch, Turn, Place, Grown
<1>2. /\ Span(Edges, E, Top.blocks) /\ q \in DOMAIN runs /\ runs \in Seq(Seq(ShapeType))
      /\ graph \in Graph /\ Top.blocks \in SUBSET Block /\ E \subseteq Top.blocks
      /\ Top.head \in Nat
  BY TopFacts DEF FrameType
<1>3. B = Top.blocks
  OBVIOUS
<1>4. PICK g : g = G
  OBVIOUS
<1>5. PICK f : f = Split(q, FALSE, E, B, g)
  OBVIOUS
<1>6. GoesOn({}, E, g, FALSE, f)
  <2>1. Span(Edges, E, Top.blocks \ {}) /\ g = independent_groups(E, Top.blocks \ {})
    BY <1>2, <1>3, <1>4
  <2>2. f = Split(Top.run, FALSE, E, Top.blocks \ {}, g) /\ stack' = Goes(f)
    BY <1>1, <1>3, <1>4, <1>5
  <2> QED
    BY <1>1, <2>1, <2>2 DEF GoesOn
<1>7. FrameIs(f, {}, E, g, FALSE)
  BY <1>6, GoesFacts
<1>8. DOMAIN G = E
  <2>1. \A x \in Top.blocks : \A y \in E : <<x, y>> \notin Edges
    BY <1>1, TopFacts DEF IInv, StackInv, FrameOK, HeadsOK
  <2>2. E \in SUBSET Top.blocks
    BY <1>2
  <2> QED
    BY <1>2, <2>1, <2>2, HeadsSplit
<1>9. /\ shape \in ShapeType /\ shape.kind = "dispatch" /\ shape.entries = E
      /\ shape.body = 0 /\ DOMAIN shape.arms = {}
  <2>1. NoArms \in UNION {[S -> Nat] : S \in SUBSET Block} /\ DOMAIN NoArms = {}
    BY DEF NoArms
  <2>2. DOMAIN G = E /\ E \in SUBSET Block
    BY <1>2, <1>8
  <2> HIDE DEF NoArms, G, E
  <2> QED
    BY <1>2, <2>1, <2>2 DEF Dispatch, Shape, ShapeType
<1> HIDE DEF G, E, B, shape
<1>10. Shaped(q, shape)
  <2>1. NextShape(q, shape)
    BY <1>1, <1>9 DEF NextShape
  <2> QED
    BY <2>1, ShapedBy
<1>11. Placed(runs') = Placed(runs) \cup {}
  <2> DEFINE new == runs'
             P == {}
  <2>1. Placing(runs, new, q, shape, P)
    BY <1>1, <1>2, <1>9 DEF Placing
  <2> HIDE DEF new, q, P
  <2>2. Placed(new) = Placed(runs) \cup P
    BY <2>1, PlacedGrown
  <2> QED
    BY <2>2 DEF new, P
<1>12. Arming(f) => ArmsWait(runs', f)
  BY <1>7, <1>9, <1>10 DEF ArmsWait, Shaped, FrameIs
<1>13. NewWants
  <2>1. Top.entries \subseteq shape.entries
    BY <1>9 DEF E
  <2> QED
    BY <1>1, <1>10, <2>1, WantsShape DEF Shaped
<1>14. NewShapes
  <2> SUFFICES ASSUME NEW r \in DOMAIN runs', NEW i \in DOMAIN runs'[r],
                      ~(r \in DOMAIN runs /\ i \in DOMAIN runs[r])
               PROVE  runs'[r][i].kind # "simple"
    BY DEF NewShapes
  <2>1. r = q /\ i = Len(runs[q]) + 1
    BY <1>10 DEF Shaped
  <2>2. runs'[r][i] = shape
    BY <1>10, <2>1 DEF Shaped
  <2> QED
    BY <1>9, <2>2
<1>15. JInv'
  BY <1>6, <1>7, <1>10, <1>11, <1>12, <1>13, <1>14, GoesKeeps DEF Shaped
<1>16. KInv'
  <2>1. ASSUME NEW r \in DOMAIN runs', NEW i \in DOMAIN runs'[r], ~Old(r, i)
        PROVE  Next1(r, i) /\ runs'[r][i] = shape
    BY <1>10, <2>1 DEF Shaped, Old, Next1
  <2>2. Empty(runs, q) /\ E # {}
    BY <1>1, TopFacts DEF KInv, FreshInv, FreshOK, E
  <2>3. Len(runs[q]) + 1 = 1
    <3>1. PICK s : s = runs[q]
      OBVIOUS
    <3>2. s \in Seq(ShapeType) /\ DOMAIN s = {}
      BY <1>2, <2>2, <3>1 DEF Empty
    <3>3. Len(s) + 1 = 1
      BY ONLY <3>2
    <3> QED
      BY <3>1, <3>3
  <2>4. \A r \in DOMAIN runs' : \A i \in DOMAIN runs'[r] : ~Old(r, i) => ~(1 < i)
    BY <2>1, <2>3 DEF Next1
  <2>5. NewEntries
    BY <1>1, <1>9, <2>1, <2>2 DEF NewEntries, E
  <2>6. NewStates
    BY <1>1, <1>9, <2>1, <2>4 DEF NewStates, IInv, TypeInv
  <2>7. \A k \in Ahead : stack'[k] = f
    BY <1>7 DEF FrameIs
  <2>8. NewFresh
    BY <1>7, <1>10, <2>7 DEF NewFresh, FreshOK, Empty, FrameIs, Shaped
  <2>9. NewBegun
    <3>1. Held(f) \subseteq Held(Top)
      BY <1>7 DEF FrameIs
    <3>2. \A t : BeginsRun(runs, Top, t) => BeginsRun(runs', f, t)
      BY <1>1, <1>4, <1>7, <1>8 DEF BeginsRun, FrameIs, E
    <3> QED
      BY <2>4, <2>7, <3>1, <3>2 DEF NewBegun
  <2> QED
    BY <1>7, <1>10, <2>5, <2>6, <2>8, <2>9, DispatchStep, KKeeps DEF FrameIs, Shaped
<1>17. LInv'
  <2>1. shape.state = Top.head
    BY DEF shape, Dispatch, Shape
  <2>2. ASSUME NEW e \in E
        PROVE  ArmOf(runs', f, q, Len(runs[q]) + 1, e)
    BY <1>4, <1>7, <1>8, <1>10 DEF ArmOf, Arming, FrameIs, Shaped
  <2>3. LaidNext(f, shape)
    BY <1>1, <1>9, <2>1, <2>2 DEF LaidNext, E
  <2> QED
    BY <1>7, <1>10, <2>3, GoesLaid
<1> QED
  BY <1>15, <1>16, <1>17

(* The top call goes on as f, and calls g with a part of what it holds.    *)
CallsOn(f, g) ==
    /\ f \in FrameType /\ g \in FrameType /\ stack' = Calls(f, g) /\ graph' = graph
    /\ f.run = Top.run /\ g.run \in Inside(runs', Top.run)
    /\ g.run = Top.run \/ g.run \notin DOMAIN runs
    /\ Held(f) \subseteq Held(Top) /\ Held(g) \subseteq Held(Top)
    /\ Arming(f) => ArmsWait(runs', f) /\ g.run # f.run
    /\ ~Arming(g)
HandsPart(f, g) ==
    /\ Fewer /\ Within(Edges', f) /\ Within(Edges', g)
    /\ \A x \in Held(f) : \A t \in Held(g) : <<x, t>> \notin Edges'
    /\ \A x \in Held(g) : \A t \in Held(f) : <<x, t>> \in Edges' => t \in f.entries
HidesHeads(f, g) ==
    /\ \A x \in Block \ Held(g) : \A t \in Block : <<x, t>> \in cut' => <<x, t>> \in cut
    /\ \A x \in Held(g) : \A t \in Block :
          <<x, t>> \in cut' => <<x, t>> \in cut \/ Hidden(runs', g.run, t)
    /\ Held(f) \cap Held(g) = {}

LEMMA CallsKeeps ==
    ASSUME IInv, JInv, stack # <<>>, NEW f, NEW g, CallsOn(f, g), HandsPart(f, g), HidesHeads(f, g),
           Grows(runs, runs'), TreeOK(runs'), \A q \in DOMAIN runs : q # Top.run => runs'[q] = runs[q],
           Placed(runs') = Placed(runs), NewWants, NewArm, NewShapes
    PROVE  JInv'
<1> USE DEF CallsOn
<1> DEFINE n == Len(stack)
<1>1. /\ RunsOf /\ Top.run \in DOMAIN runs /\ TreeOK(runs)
      /\ \A k \in DOMAIN stack : Held(stack[k]) \subseteq Block
      /\ stack \in Seq(FrameType)
  BY TopFacts DEF JInv
<1>2. /\ Prefix /\ Ahead = {n, n + 1} /\ stack'[n] = f /\ stack'[n + 1] = g
  BY <1>1, PrefixCalls
<1>3. n \in Nat /\ n \in DOMAIN stack /\ Top = stack[n]
  BY <1>1, <1>2 DEF Prefix
<1>4. Top.run \in Inside(runs', Top.run) /\ g.run \in DOMAIN runs'
  BY <1>1, InsideSelf DEF Grows, Inside
<1>5. ChainInv'
  <2>1. \A j, k \in Ahead : j <= k => \/ (j = n /\ k = n) \/ (j = n /\ k = n + 1)
                                      \/ (j = n + 1 /\ k = n + 1)
    <3>1. PICK m : m = n
      OBVIOUS
    <3>2. m \in Nat /\ Ahead = {m, m + 1}
      BY <1>2, <1>3, <3>1
    <3>3. \A j, k \in {m, m + 1} : j <= k => \/ (j = m /\ k = m) \/ (j = m /\ k = m + 1)
                                           \/ (j = m + 1 /\ k = m + 1)
      <4>1. m \in Nat
        BY <3>2
      <4>2. ~(m + 1 <= m)
        BY ONLY <4>1
      <4> QED
        BY ONLY <4>2
    <3> QED
      BY <3>1, <3>2, <3>3
  <2>2. g.run \in Inside(runs', g.run)
    BY <1>4, InsideSelf
  <2> HIDE DEF n
  <2>3. NewChain
    BY <1>2, <1>4, <2>1, <2>2 DEF NewChain
  <2> QED
    BY <1>1, <1>2, <2>3, ChainStep DEF JInv
<1>6. CutInv'
  <2>0. Held(Top) \subseteq Block
    BY <1>1, <1>3
  <2>1. NewCut
    BY <1>2, <1>4, <2>0 DEF NewCut, HidesHeads
  <2>2. \A k \in Below : Held(stack[k]) \subseteq Block \ Held(Top)
    BY <1>1, <1>2 DEF IInv, StackInv, Below, Prefix
  <2>3. \A x \in Block \ Held(Top) : \A t \in Block : <<x, t>> \in cut' => <<x, t>> \in cut
    BY DEF HidesHeads
  <2> QED
    BY <1>1, <1>2, <2>1, <2>2, <2>3, CutStep DEF JInv
<1>7. EdgesInv'
  <2>1. NewEdges({})
    <3> SUFFICES ASSUME NEW k \in Ahead, NEW x \in Held(stack'[k]), NEW t \in Block, <<x, t>> \in Edges',
                        NEW j \in Ahead, t \in Held(stack'[j])
                 PROVE  j <= k /\ (j < k => t \in stack'[j].entries)
      BY <1>2 DEF NewEdges, HandsPart
    <3>1. CASE k = n /\ j = n + 1
      BY <1>2, <3>1 DEF HandsPart
    <3>2. CASE k = n + 1 /\ j = n
      <4>1. t \in f.entries
        BY <1>2, <3>2 DEF HandsPart
      <4> QED
        BY <1>2, <1>3, <3>2, <4>1
    <3>3. CASE k = j
      BY <1>2, <1>3, <3>3
    <3> QED
      BY <1>2, <3>1, <3>2, <3>3
  <2>2. Fewer
    BY DEF HandsPart
  <2>3. Placed(runs') = Placed(runs) \cup {} /\ {} \subseteq Held(Top)
    OBVIOUS
  <2> QED
    BY <1>1, <1>2, <2>1, <2>2, <2>3, EdgesStep DEF JInv
<1>8. OnlyTop
  BY <1>2 DEF OnlyTop
<1>9. ArmsInv'
  <2>1. NewArms
    <3> SUFFICES ASSUME NEW k \in Ahead, Arming(stack'[k])
                 PROVE  /\ ArmsWait(runs', stack'[k])
                        /\ \A l \in Ahead : k < l => stack'[l].run # stack'[k].run
      BY DEF NewArms
    <3>1. k = n /\ stack'[k] = f
      BY <1>2
    <3>2. \A l \in Ahead : k < l => l = n + 1
      BY <1>2, <1>3, <3>1
    <3> QED
      BY <1>2, <3>1, <3>2
  <2> QED
    BY <1>1, <1>2, <1>8, <2>1, ArmsStep DEF JInv
<1>10. ServedInv'
  BY <1>1, <1>2, <1>8, ServedStep DEF JInv
<1> QED
  BY <1>5, <1>6, <1>7, <1>9, <1>10 DEF JInv

LEMMA GroupKeeps ==
    ASSUME IInv, JInv, KInv, LInv, stack # <<>>, process_group
    PROVE  JInv' /\ KInv' /\ LInv'
<1> DEFINE q == Top.run
           new == Len(runs) + 1
<1>1. PICK e \in DOMAIN Top.groups :
        LET left == [Top EXCEPT !.groups = [x \in DOMAIN Top.groups \ {e} |-> Top.groups[x]]]
        IN  /\ runs' = IF Top.inline THEN runs ELSE Append(AddArm(q, e, new), <<>>)
            /\ stack' = Calls(left, Frame(IF Top.inline THEN q ELSE new,
                                          NoGroups, FALSE, 0, {e}, Top.groups[e]))
            /\ UNCHANGED <<graph, cut, states>>
  BY DEF process_group
<1>2. /\ Top \in FrameType /\ q \in DOMAIN runs /\ runs \in Seq(Seq(ShapeType)) /\ graph \in Graph
      /\ Held(Top) \subseteq Block /\ q \in Nat /\ stack \in Seq(FrameType)
      /\ (Len(stack) \in DOMAIN stack /\ Top = stack[Len(stack)])
  BY TopFacts
<1>3. PICK D \in SUBSET Block : Top.groups \in [D -> SUBSET Block]
  BY <1>2 DEF FrameType, GroupMaps
<1> DEFINE rest == [x \in DOMAIN Top.groups \ {e} |-> Top.groups[x]]
           r == IF Top.inline THEN q ELSE new
<1>4. /\ e \in D /\ e \in Block /\ Top.groups[e] \subseteq Block
      /\ rest \in GroupMaps /\ DOMAIN rest = D \ {e} /\ DOMAIN Top.groups = D
      /\ \A x \in D \ {e} : rest[x] = Top.groups[x]
  <2>1. /\ e \in D /\ e \in Block /\ Top.groups[e] \subseteq Block /\ DOMAIN Top.groups = D
        /\ DOMAIN rest = D \ {e} /\ \A x \in D \ {e} : rest[x] = Top.groups[x]
    BY <1>3
  <2>2. rest \in [D \ {e} -> SUBSET Block]
    BY <1>3
  <2>3. D \ {e} \in SUBSET Block
    OBVIOUS
  <2> QED
    BY <2>1, <2>2, <2>3 DEF GroupMaps
<1>5. PICK f : f = [Top EXCEPT !.groups = rest]
  OBVIOUS
<1>6. PICK g : g = Frame(r, NoGroups, FALSE, 0, {e}, Top.groups[e])
  OBVIOUS
<1>7. stack' = Calls(f, g)
  BY <1>1, <1>5, <1>6
<1> HIDE DEF rest
<1>8. /\ f.run = q /\ f.groups = rest /\ f.inline = Top.inline
      /\ f.entries = Top.entries /\ f.blocks = Top.blocks /\ f \in FrameType
  BY <1>2, <1>4, <1>5 DEF FrameType
<1>9. NoGroups \in GroupMaps /\ DOMAIN NoGroups = {} /\ consumed(NoGroups) = {}
  BY NoGroupsIs
<1>10. r \in Nat
  BY <1>2
<1> HIDE DEF r
<1>11. /\ g.run = r /\ g.groups = NoGroups /\ g.inline = FALSE /\ g.entries = {e}
       /\ g.blocks = Top.groups[e] /\ g \in FrameType
  <2> HIDE DEF NoGroups
  <2> QED
    BY <1>4, <1>6, <1>9, <1>10 DEF Frame, FrameType
<1>12. /\ \A t : t \in Held(f) <=> t \in Top.blocks \/ \E x \in D \ {e} : t \in Top.groups[x]
       /\ Held(g) = Top.groups[e]
       /\ \A t : t \in Held(Top) <=> t \in Top.blocks \/ \E x \in D : t \in Top.groups[x]
  BY <1>4, <1>8, <1>9, <1>11 DEF Held, consumed
<1>13. /\ Within(Edges, Top)
       /\ GroupsOK(Edges, Top) /\ (Arming(Top) => ArmsWait(runs, Top))
       /\ TreeOK(runs)
  BY <1>2 DEF JInv, EdgesInv, ArmsInv, IInv, StackInv, FrameOK
<1>14. /\ \A y \in D : \A x \in Top.groups[y] : \A t \in Block : <<x, t>> \in Edges =>
             /\ t \in Top.blocks => t \in Top.entries
             /\ \A z \in D : t \in Top.groups[z] => z = y
       /\ \A x \in Top.blocks : \A t \in Block : <<x, t>> \in Edges =>
             \A z \in D : t \notin Top.groups[z]
  BY <1>4, <1>13 DEF Within, consumed
<1>15. Edges' = Edges /\ Fewer
  BY <1>1 DEF Edges, Fewer
<1>16. HandsPart(f, g)
  <2>1. Within(Edges, f)
    BY <1>4, <1>8, <1>14 DEF Within, consumed
  <2>2. Within(Edges, g)
    BY <1>9, <1>11 DEF Within
  <2>3. Held(g) \subseteq Block /\ Held(f) \subseteq Block
    BY <1>2, <1>4, <1>12
  <2>4. ASSUME NEW x \in Held(f), NEW t \in Held(g), <<x, t>> \in Edges
        PROVE  FALSE
    <3>1. t \in Block /\ t \in Top.groups[e]
      BY <1>12, <2>3
    <3>2. CASE x \in Top.blocks
      BY <1>4, <1>14, <2>4, <3>1, <3>2
    <3>3. CASE \E y \in D \ {e} : x \in Top.groups[y]
      BY <1>4, <1>14, <2>4, <3>1, <3>3
    <3> QED
      BY <1>12, <3>2, <3>3
  <2>5. ASSUME NEW x \in Held(g), NEW t \in Held(f), <<x, t>> \in Edges
        PROVE  t \in f.entries
    <3>1. t \in Block /\ x \in Top.groups[e]
      BY <1>12, <2>3
    <3>2. \A z \in D : t \in Top.groups[z] => z = e
      BY <1>4, <1>14, <2>5, <3>1
    <3>3. t \in Top.blocks
      BY <1>12, <3>2
    <3> QED
      BY <1>4, <1>8, <1>14, <2>5, <3>1, <3>3
  <2> QED
    BY <1>15, <2>1, <2>2, <2>4, <2>5 DEF HandsPart
<1>17. HidesHeads(f, g)
  <2>1. cut' = cut
    BY <1>1
  <2>2. ASSUME NEW t \in Held(f), t \in Held(g)
        PROVE  FALSE
    <3>1. t \in Top.groups[e]
      BY <1>12, <2>2
    <3>2. /\ Top.groups[e] \cap Top.blocks = {}
          /\ \A x \in D : e # x => Top.groups[e] \cap Top.groups[x] = {}
      BY <1>4, <1>13 DEF GroupsOK
    <3>3. CASE t \in Top.blocks
      BY <3>1, <3>2, <3>3
    <3>4. CASE \E x \in D \ {e} : t \in Top.groups[x]
      BY <3>1, <3>2, <3>4
    <3> QED
      BY <1>12, <2>2, <3>3, <3>4
  <2> QED
    BY <2>1, <2>2 DEF HidesHeads
<1>18. NewWants
  <2>1. \A k \in {Len(stack), Len(stack) + 1} : k \in Ahead
    BY <1>2, <1>7, <1>8, <1>11, PrefixCalls
  <2>2. stack'[Len(stack)] = f /\ stack'[Len(stack) + 1] = g
    BY <1>2, <1>7, <1>8, <1>11, PrefixCalls
  <2> SUFFICES ASSUME NEW t \in Wanted(Top)
               PROVE  \/ f.run = q /\ t \in Wanted(f)
                      \/ g.run = q /\ t \in Wanted(g)
    BY <2>1, <2>2 DEF NewWants
  <2>3. CASE t \in Top.entries
    BY <1>8, <2>3 DEF Wanted
  <2>4. CASE Top.inline /\ t \in D
    <3>1. CASE t = e
      BY <1>11, <2>4, <3>1 DEF Wanted, r
    <3>2. CASE t # e
      BY <1>4, <1>8, <2>4, <3>2 DEF Wanted
    <3> QED
      BY <3>1, <3>2
  <2> QED
    BY <1>4, <2>3, <2>4 DEF Wanted
<1>21. /\ Prefix /\ \A k \in Ahead : stack'[k] = f \/ (stack'[k] = g /\ \A l \in DOMAIN stack' : l <= k)
       /\ ~Empty(runs, q) /\ Top.head = 0 /\ f.head = 0 /\ g.head = 0
  <2>1. /\ Prefix /\ Ahead = {Len(stack), Len(stack) + 1}
        /\ stack'[Len(stack)] = f /\ stack'[Len(stack) + 1] = g
    BY <1>2, <1>7, <1>8, <1>11, PrefixCalls
  <2>2. \A l \in DOMAIN stack' : l <= Len(stack) + 1
    <3>1. Len(stack) \in Nat
      BY <1>2
    <3>2. \A l \in DOMAIN stack' : l \in Nat /\ (l < Len(stack) \/ l = Len(stack) \/ l = Len(stack) + 1)
      BY <2>1 DEF Prefix, Below
    <3> QED
      BY ONLY <3>1, <3>2
  <2>3. ~Empty(runs, q) /\ Top.head = 0
    BY <1>2 DEF KInv, FreshInv, FreshOK
  <2>4. f.head = 0
    BY <1>2, <1>5, <2>3 DEF FrameType
  <2>5. g.head = 0
    BY <1>6 DEF Frame
  <2> QED
    BY <2>1, <2>2, <2>3, <2>4, <2>5
<1>22. /\ \A t \in Held(f) : BeginsRun(runs, Top, t) => t \in DOMAIN f.groups /\ ~Top.inline
       /\ \A t \in Held(g) : BeginsRun(runs, Top, t) => t \in g.entries /\ ~Top.inline
  <2>1. \A x \in D : x \in Top.groups[x] /\ \A y \in D : x # y => Top.groups[x] \cap Top.groups[y] = {}
    BY <1>4, <1>13 DEF GroupsOK, Span
  <2>2. \A t : BeginsRun(runs, Top, t) => t \in D /\ ~Top.inline
    BY <1>4, <1>21 DEF BeginsRun
  <2>3. ASSUME NEW t \in Held(f), t \in D
        PROVE  t \in DOMAIN f.groups
    <3>1. t # e
      BY <1>4, <1>12, <1>17, <2>1, <2>3 DEF HidesHeads
    <3> QED
      BY <1>4, <1>8, <2>3, <3>1
  <2>4. ASSUME NEW t \in Held(g), t \in D
        PROVE  t = e
    BY <1>4, <1>12, <2>1, <2>4
  <2> QED
    BY <1>11, <2>2, <2>3, <2>4
<1>23. NewFirst
  BY <1>21 DEF NewFirst
<1>24. /\ Len(stack) + 1 \in DOMAIN stack' /\ stack'[Len(stack) + 1] = g
       /\ \A k \in Ahead : stack'[k] = f \/ stack'[k] = g
  BY <1>2, <1>7, <1>8, <1>11, PrefixCalls DEF Ahead
<1>19. CASE Top.inline
  <2>1. runs' = runs /\ r = q
    BY <1>1, <1>19 DEF r
  <2>2. Grows(runs, runs') /\ TreeOK(runs') /\ Placed(runs') = Placed(runs)
    BY <1>13, <2>1 DEF Grows, Same
  <2>3. NewShapes /\ NewArm
    BY <1>19, <2>1 DEF NewShapes, NewArm, Arming
  <2>4. CallsOn(f, g)
    <3>1. ~Arming(f) /\ ~Arming(g)
      BY <1>8, <1>9, <1>11, <1>19 DEF Arming
    <3>2. q \in Inside(runs', q)
      BY <1>2, <2>1, InsideSelf
    <3>3. Held(f) \subseteq Held(Top) /\ Held(g) \subseteq Held(Top)
      BY <1>4, <1>12
    <3> QED
      BY <1>1, <1>7, <1>8, <1>11, <2>1, <3>1, <3>2, <3>3 DEF CallsOn
  <2>5. JInv'
    BY <1>16, <1>17, <1>18, <2>1, <2>2, <2>3, <2>4, CallsKeeps
  <2>6. \A r1 \in DOMAIN runs' : \A i \in DOMAIN runs'[r1] : Old(r1, i)
    BY <2>1 DEF Old
  <2>7. NewFresh
    BY <1>8, <1>11, <1>19, <1>21, <2>1 DEF NewFresh, FreshOK, Empty
  <2>8. NewBegun
    BY <1>19, <1>21, <1>22, <2>4, <2>6 DEF NewBegun, CallsOn, BeginsRun
  <2>9. NewEntries /\ NewStates
    BY <1>1, <2>6 DEF NewEntries, NewStates, IInv, TypeInv
  <2>10. KInv'
    BY <1>21, <2>2, <2>7, <2>8, <2>9, GroupStep, KKeeps
  <2>11. OnlyTop
    BY <1>8, <1>11, <1>24, <2>1 DEF OnlyTop
  <2>12. NewLaid
    <3>1. ASSUME NEW r1 \in DOMAIN runs, NEW i \in DOMAIN runs[r1]
          PROVE  Old(r1, i)
      BY DEF Old
    <3> QED
      BY <2>1, <3>1 DEF NewLaid
  <2>13. NewEnds
    BY <1>8, <1>9, <1>11, <1>19, <1>24 DEF NewEnds, ArmsEnd, Arming
  <2> QED
    BY <1>21, <1>23, <2>2, <2>3, <2>5, <2>10, <2>11, <2>12, <2>13, LKeeps
<1>20. CASE ~Top.inline
  <2>1. runs' = Append(AddArm(q, e, new), <<>>) /\ r = new
    BY <1>1, <1>20 DEF r
  <2>2. Arming(Top) /\ ArmsWait(runs, Top)
    BY <1>4, <1>13, <1>20 DEF Arming
  <2>3. runs[q] # <<>> /\ \A x \in D : x \notin DOMAIN runs[q][Len(runs[q])].arms
    BY <1>4, <2>2 DEF ArmsWait
  <2>4. /\ Grows(runs, runs') /\ TreeOK(runs') /\ DOMAIN runs' = DOMAIN runs \cup {new}
        /\ runs'[new] = <<>> /\ new \notin DOMAIN runs
        /\ \A s \in DOMAIN runs : DOMAIN runs'[s] = DOMAIN runs[s]
        /\ \A s \in DOMAIN runs : s # q => runs'[s] = runs[s]
        /\ \A j \in DOMAIN runs[q] : j # Len(runs[q]) => runs'[q][j] = runs[q][j]
        /\ DOMAIN runs'[q][Len(runs[q])].arms = DOMAIN runs[q][Len(runs[q])].arms \cup {e}
        /\ runs'[q][Len(runs[q])].arms[e] = new
        /\ \A x \in DOMAIN runs[q][Len(runs[q])].arms :
              runs'[q][Len(runs[q])].arms[x] = runs[q][Len(runs[q])].arms[x]
        /\ new \in Bodies(runs'[q][Len(runs[q])])
    <3> DEFINE rs == runs'
    <3>1. GetsArm(q, e, rs)
      BY <1>2, <1>4, <1>13, <2>1, <2>3 DEF GetsArm
    <3> HIDE DEF rs, q
    <3>2. GotArm(q, e, rs)
      BY <3>1, ArmGrows
    <3> QED
      BY <3>2 DEF rs, GotArm, q
  <2> HIDE DEF new
  <2>5. Placed(runs') = Placed(runs)
    <3>1. ASSUME NEW b, NEW s, NEW i
          PROVE  PlacedIn(runs', b, s, i) <=> PlacedIn(runs, b, s, i)
      <4>1. CASE s \in DOMAIN runs /\ i \in DOMAIN runs[s]
        BY <2>4, <4>1 DEF PlacedIn, Grows, Same
      <4>2. CASE ~(s \in DOMAIN runs /\ i \in DOMAIN runs[s])
        BY <2>4, <4>2 DEF PlacedIn
      <4> QED
        BY <4>1, <4>2
    <3> QED
      BY <3>1, PlacedSame
  <2>6. NewShapes
    BY <2>4 DEF NewShapes
  <2>7. Len(runs'[q]) = Len(runs[q]) /\ runs'[q] # <<>> /\ Len(runs[q]) \in DOMAIN runs'[q]
    <3>0. runs[q] \in Seq(ShapeType)
      BY <1>2
    <3>1. PICK s : s = runs[q]
      OBVIOUS
    <3>2. PICK u : u = runs'[q]
      OBVIOUS
    <3>3. runs' \in Seq(Seq(ShapeType))
      <4>1. IInv'
        BY GroupStep
      <4> QED
        BY <4>1 DEF IInv, TypeInv
    <3>4. s \in Seq(ShapeType) /\ u \in Seq(ShapeType) /\ DOMAIN s = DOMAIN u /\ s # <<>>
      <4>1. q \in DOMAIN runs' /\ DOMAIN runs'[q] = DOMAIN runs[q]
        BY <1>2, <2>4
      <4>2. runs'[q] \in Seq(ShapeType)
        BY ONLY <3>3, <4>1
      <4> QED
        BY <2>3, <3>0, <3>1, <3>2, <4>1, <4>2
    <3>5. Len(u) = Len(s) /\ u # <<>> /\ Len(s) \in DOMAIN u
      BY ONLY <3>4
    <3> QED
      BY <3>1, <3>2, <3>5
  <2>8. Arming(f) => ArmsWait(runs', f)
    BY <1>4, <1>8, <2>3, <2>4, <2>7 DEF ArmsWait
  <2>9. NewArm
    <3>1. Len(stack) \in Ahead /\ stack'[Len(stack)] = f
      BY <1>2, <1>7, <1>8, <1>11, PrefixCalls
    <3> SUFFICES ASSUME NEW t \in D
                 PROVE  \/ t \in DOMAIN runs'[q][Len(runs[q])].arms
                        \/ Arming(f) /\ t \in DOMAIN f.groups /\ f.run = q
      BY <1>4, <2>7, <3>1 DEF NewArm
    <3>2. CASE t = e
      BY <2>4, <3>2
    <3>3. CASE t # e
      BY <1>4, <1>8, <1>20, <3>3 DEF Arming
    <3> QED
      BY <3>2, <3>3
  <2>10. new \in Inside(runs', q)
    <3>1. q \in Inside(runs', q)
      BY <1>2, <2>4, InsideSelf
    <3> DEFINE rs == runs'
               i == Len(runs[q])
    <3>2. HeldLater(rs) /\ q \in Inside(rs, q) /\ i \in DOMAIN rs[q] /\ new \in Bodies(rs[q][i])
      BY <2>4, <2>7, <3>1 DEF TreeOK
    <3> HIDE DEF rs, i, q
    <3>3. new \in Inside(rs, q)
      BY <3>2, InsideKid
    <3> QED
      BY <3>3 DEF rs
  <2>11. CallsOn(f, g)
    <3>1. ~Arming(g)
      BY <1>9, <1>11 DEF Arming
    <3>2. Held(f) \subseteq Held(Top) /\ Held(g) \subseteq Held(Top)
      BY <1>4, <1>12
    <3>3. g.run # f.run
      BY <1>2, <1>8, <1>11, <2>1, <2>4
    <3> QED
      BY <1>1, <1>7, <1>8, <1>11, <2>1, <2>4, <2>8, <2>10, <3>1, <3>2, <3>3 DEF CallsOn
  <2>12. JInv'
    BY <1>16, <1>17, <1>18, <2>4, <2>5, <2>6, <2>9, <2>11, CallsKeeps
  <2>13. \A r1 \in DOMAIN runs' : \A i \in DOMAIN runs'[r1] : Old(r1, i)
    BY <2>4 DEF Old
  <2>14. Empty(runs', new) /\ ~Empty(runs', q) /\ Single({e})
    BY <1>2, <1>21, <2>4 DEF Empty, Single
  <2>15. NewFresh
    BY <1>8, <1>9, <1>11, <1>21, <2>1, <2>14 DEF NewFresh, FreshOK
  <2>16. NewBegun
    <3>1. \A t \in Held(f) : BeginsRun(runs, Top, t) => BeginsRun(runs', f, t)
      BY <1>8, <1>20, <1>22 DEF BeginsRun
    <3>2. \A t \in Held(g) : BeginsRun(runs, Top, t) => BeginsRun(runs', g, t)
      BY <1>11, <1>22, <2>1, <2>14 DEF BeginsRun
    <3> QED
      BY <1>21, <2>11, <2>13, <3>1, <3>2 DEF NewBegun, CallsOn
  <2>17. NewEntries /\ NewStates
    BY <1>1, <2>13 DEF NewEntries, NewStates, IInv, TypeInv
  <2>18. KInv'
    BY <1>21, <2>4, <2>15, <2>16, <2>17, GroupStep, KKeeps
  <2>19. OnlyTop
    BY <1>8, <1>11, <1>24, <2>1, <2>4 DEF OnlyTop
  <2>20. NewLaid
    <3>1. Begins(runs', stack', new, {e}, 0)
      BY <1>11, <1>21, <1>24, <2>1, <2>4, <2>14 DEF Begins
    <3>2. ASSUME NEW s \in DOMAIN runs, NEW i \in DOMAIN runs[s], NEW x \in DOMAIN runs'[s][i].arms
          PROVE  \/ x \in DOMAIN runs[s][i].arms /\ runs'[s][i].arms[x] = runs[s][i].arms[x]
                 \/ /\ runs[s][i].kind # "loop"
                    /\ Begins(runs', stack', runs'[s][i].arms[x], {x}, 0)
      <4>1. CASE s # q \/ i # Len(runs[q])
        BY <2>4, <4>1
      <4>2. CASE s = q /\ i = Len(runs[q])
        <5>1. runs[q][Len(runs[q])].kind # "loop"
          BY <1>2, <2>2 DEF LInv, ArmsEnd
        <5>2. x = e \/ x \in DOMAIN runs[q][Len(runs[q])].arms
          BY <2>4, <3>2, <4>2
        <5>3. CASE x = e
          BY <2>4, <3>1, <4>2, <5>1, <5>3
        <5>4. CASE x \in DOMAIN runs[q][Len(runs[q])].arms
          BY <2>4, <4>2, <5>4
        <5> QED
          BY <5>2, <5>3, <5>4
      <4> QED
        BY <4>1, <4>2
    <3>3. \A s \in DOMAIN runs' : \A i \in DOMAIN runs'[s] :
              Old(s, i) /\ s \in DOMAIN runs /\ i \in DOMAIN runs[s]
      BY <2>13 DEF Old
    <3> QED
      BY <3>2, <3>3 DEF NewLaid
  <2>21. NewEnds
    <3>1. runs'[q][Len(runs'[q])].kind = runs[q][Len(runs[q])].kind
      BY <1>2, <2>4, <2>7 DEF Grows, Same
    <3>2. runs[q][Len(runs[q])].kind # "loop"
      BY <1>2, <2>2 DEF LInv, ArmsEnd
    <3>3. ~Arming(g)
      BY <1>9, <1>11 DEF Arming
    <3> QED
      BY <1>8, <1>24, <3>1, <3>2, <3>3 DEF NewEnds, ArmsEnd
  <2> QED
    BY <1>21, <1>23, <2>4, <2>9, <2>12, <2>18, <2>19, <2>20, <2>21, LKeeps
<1> QED
  BY <1>19, <1>20

LEMMA LoopKeeps ==
    ASSUME IInv, JInv, KInv, LInv, stack # <<>>, make_loop
    PROVE  JInv' /\ KInv' /\ LInv'
<1> DEFINE q == Top.run
           E == Top.entries
           B == Top.blocks
           inner == loop_blocks(E, B)
           new == Len(runs) + 1
           state == fresh_state(E)
           shape == Loop(E, state, new)
<1>1. /\ DOMAIN Top.groups = {} /\ graph' = graph
      /\ cut' = cut \cup {edge \in inner \X E : edge[2] \in graph.succ[edge[1]]}
      /\ runs' = Append(Grown(runs, q, shape), <<>>)
      /\ stack' = Calls(Frame(q, NoGroups, FALSE, 0, leaving(B, inner), B \ inner),
                        Frame(new, NoGroups, FALSE, state, E, inner))
      /\ states' = IF state = 0 THEN states ELSE state
      /\ E # {}
  BY TopFacts DEF make_loop, Turn, Place, Grown
<1>2. /\ Top \in FrameType /\ q \in DOMAIN runs /\ runs \in Seq(Seq(ShapeType)) /\ graph \in Graph
      /\ B \in SUBSET Block /\ q \in Nat /\ E \subseteq B /\ Span(Edges, E, B)
      /\ Held(Top) = B /\ TreeOK(runs) /\ stack \in Seq(FrameType) /\ states \in Nat /\ new \in Nat
  BY <1>1, TopFacts DEF JInv, IInv, TypeInv
<1>3. state \in Nat
  BY <1>2 DEF fresh_state
<1>4. PICK G : G = inner
  OBVIOUS
<1>5. PICK k : k = state
  OBVIOUS
<1>6. /\ E \subseteq G /\ G \subseteq B
      /\ \A x \in B \ G : \A y \in G : <<x, y>> \notin Edges
      /\ leaving(B, G) = {y \in B \ G : \E x \in G : <<x, y>> \in Edges}
  <2>1. G = loop_blocks(E, B)
    BY <1>4
  <2> HIDE DEF E, B
  <2>2. EnteredAt(Edges, E, B, G)
    BY <1>2, <2>1, LoopBlocks
  <2>3. \A x \in B \ G : \A y \in G : <<x, y>> \notin Edges
    BY <1>2, <2>1, LoopEntered
  <2>4. G \in SUBSET B
    BY <2>2 DEF EnteredAt
  <2>5. leaving(B, G) = {y \in B \ G : \E x \in G : <<x, y>> \in Edges}
    BY <1>2, <2>4, Leaving
  <2> QED
    BY <2>2, <2>3, <2>5 DEF EnteredAt
<1>7. PICK f : f = Frame(q, NoGroups, FALSE, 0, leaving(B, G), B \ G)
  OBVIOUS
<1>8. PICK g : g = Frame(new, NoGroups, FALSE, k, E, G)
  OBVIOUS
<1>9. stack' = Calls(f, g)
  BY <1>1, <1>4, <1>5, <1>7, <1>8
<1>10. shape = Loop(E, k, new) /\ k \in Nat
       /\ states' = (IF k = 0 THEN states ELSE k) /\ (k = 0 \/ k = states + 1) /\ (Single(E) \/ k # 0)
       /\ cut' = cut \cup {edge \in G \X E : edge[2] \in graph.succ[edge[1]]}
  <2>1. state = 0 \/ state = states + 1
    BY DEF fresh_state
  <2>2. Single(E) \/ state # 0
    BY <1>2 DEF fresh_state
  <2> QED
    BY <1>1, <1>3, <1>4, <1>5, <2>1, <2>2
<1> HIDE DEF inner, state
<1>11. NoGroups \in GroupMaps /\ DOMAIN NoGroups = {} /\ consumed(NoGroups) = {}
  BY NoGroupsIs
<1>12. /\ f.run = q /\ f.groups = NoGroups /\ f.entries = leaving(B, G) /\ f.blocks = B \ G
       /\ f \in FrameType /\ Held(f) = B \ G
       /\ g.run = new /\ g.groups = NoGroups /\ g.entries = E /\ g.blocks = G
       /\ g \in FrameType /\ Held(g) = G
  <2> DEFINE L == leaving(B, G)
             C == B \ G
  <2>1. /\ L \in SUBSET Block /\ C \in SUBSET Block /\ E \in SUBSET Block /\ G \in SUBSET Block
        /\ f = Frame(q, NoGroups, FALSE, 0, L, C)
    BY <1>2, <1>6, <1>7
  <2> HIDE DEF L, C, NoGroups, E, B, q, new
  <2>2. /\ f.run = q /\ f.groups = NoGroups /\ f.entries = L /\ f.blocks = C /\ f \in FrameType
    BY <1>2, <1>11, <2>1 DEF Frame, FrameType
  <2>3. /\ g.run = new /\ g.groups = NoGroups /\ g.entries = E /\ g.blocks = G /\ g \in FrameType
    BY <1>2, <1>8, <1>10, <1>11, <2>1 DEF Frame, FrameType
  <2>4. Held(f) = C /\ Held(g) = G
    BY <1>11, <2>2, <2>3 DEF Held
  <2> QED
    BY <2>2, <2>3, <2>4 DEF L, C
<1>13. /\ shape \in ShapeType /\ shape.body = new /\ DOMAIN shape.arms = {} /\ shape.kind = "loop"
       /\ shape.entries = E /\ shape.state = k
  <2>1. NoArms \in UNION {[S -> Nat] : S \in SUBSET Block} /\ DOMAIN NoArms = {}
    BY DEF NoArms
  <2>2. E \in SUBSET Block
    BY <1>2
  <2> HIDE DEF NoArms, E, B, new
  <2> QED
    BY <1>2, <1>10, <2>1, <2>2 DEF Loop, Shape, ShapeType
<1> HIDE DEF shape
<1>14. GotLoop(runs, q, shape, runs')
  <2> DEFINE rs == runs'
  <2>1. GetsLoop(runs, q, shape, rs)
    BY <1>1, <1>2, <1>13 DEF GetsLoop
  <2> HIDE DEF rs
  <2>2. GotLoop(runs, q, shape, rs)
    BY <2>1, LoopGrows
  <2> QED
    BY <2>2 DEF rs
<1>15. /\ Grows(runs, runs') /\ TreeOK(runs') /\ DOMAIN runs' = DOMAIN runs \cup {new}
       /\ runs'[new] = <<>> /\ new \notin DOMAIN runs
       /\ \A r \in DOMAIN runs : r # q => runs'[r] = runs[r]
       /\ Len(runs[q]) + 1 \in DOMAIN runs'[q] /\ Len(runs[q]) + 1 \notin DOMAIN runs[q]
       /\ runs'[q][Len(runs[q]) + 1] = shape
       /\ \A i \in DOMAIN runs'[q] : i \in DOMAIN runs[q] \/ i = Len(runs[q]) + 1
  BY <1>14 DEF GotLoop, GrownBy
<1>16. ASSUME NEW r \in DOMAIN runs', NEW i \in DOMAIN runs'[r],
              ~(r \in DOMAIN runs /\ i \in DOMAIN runs[r])
       PROVE  runs'[r][i].kind # "simple"
  <2>1. r # new
    BY <1>15
  <2>2. r = q /\ i = Len(runs[q]) + 1
    BY <1>15, <1>16, <2>1
  <2> QED
    BY <1>13, <1>15, <2>2
<1> DEFINE n == Len(runs[q]) + 1
<1>17. /\ n \in DOMAIN runs'[q] /\ runs'[q][n].kind = "loop" /\ runs'[q][n].entries = E
       /\ runs'[q][n].body = new /\ q \in DOMAIN runs' /\ new \in Bodies(runs'[q][n])
  <2>1. new # 0
    BY <1>2
  <2> QED
    BY <1>2, <1>13, <1>15, <2>1 DEF Bodies
<1> HIDE DEF new
<1>18. Placed(runs') = Placed(runs)
  <2>1. ASSUME NEW b, NEW s, NEW i
        PROVE  PlacedIn(runs', b, s, i) <=> PlacedIn(runs, b, s, i)
    <3>1. CASE s \in DOMAIN runs /\ i \in DOMAIN runs[s]
      BY <1>15, <3>1 DEF PlacedIn, Grows, Same
    <3>2. CASE ~(s \in DOMAIN runs /\ i \in DOMAIN runs[s])
      BY <1>16, <3>2 DEF PlacedIn
    <3> QED
      BY <3>1, <3>2
  <2> QED
    BY <2>1, PlacedSame
<1>19. NewShapes /\ NewArm
  BY <1>1, <1>16 DEF NewShapes, NewArm, Arming
<1>20. NewWants
  BY <1>1, <1>15, <1>17, WantsShape
<1>21. new \in Inside(runs', new) /\ new \in Inside(runs', q)
  <2> DEFINE rs == runs'
  <2>1. /\ HeldLater(rs) /\ q \in DOMAIN rs /\ new \in DOMAIN rs
        /\ n \in DOMAIN rs[q] /\ new \in Bodies(rs[q][n])
    BY <1>15, <1>17 DEF TreeOK
  <2> HIDE DEF rs, n, q
  <2>2. new \in Inside(rs, new) /\ q \in Inside(rs, q)
    BY <2>1, InsideSelf
  <2>3. new \in Inside(rs, q)
    BY <2>1, <2>2, InsideKid
  <2> QED
    BY <2>2, <2>3 DEF rs
<1>22. \A x, t \in Block : <<x, t>> \in cut' <=>
           <<x, t>> \in cut \/ (x \in G /\ t \in E /\ t \in graph.succ[x])
  BY <1>10
<1>23. HidesHeads(f, g)
  <2>1. \A t \in E : Hidden(runs', new, t)
    BY <1>17, <1>21 DEF Hidden
  <2>2. Block \ Held(g) = Block \ G /\ Held(f) \cap Held(g) = {} /\ Held(g) \subseteq Block
    BY <1>2, <1>6, <1>12
  <2> QED
    BY <1>12, <1>22, <2>1, <2>2 DEF HidesHeads
<1>24. Fewer
  BY <1>1, <1>22 DEF Fewer, Edges
<1>25. HandsPart(f, g)
  <2>1. Within(Edges', f) /\ Within(Edges', g)
    BY <1>11, <1>12 DEF Within
  <2>2. Held(f) \subseteq Block /\ Held(g) \subseteq Block
    BY <1>2, <1>6, <1>12
  <2>3. \A x \in Held(f) : \A t \in Held(g) : <<x, t>> \notin Edges'
    BY <1>6, <1>12, <1>24, <2>2 DEF Fewer
  <2>4. \A x \in Held(g) : \A t \in Held(f) : <<x, t>> \in Edges' => t \in f.entries
    BY <1>6, <1>12, <1>24, <2>2 DEF Fewer
  <2> QED
    BY <1>24, <2>1, <2>2, <2>3, <2>4 DEF HandsPart
<1>26. CallsOn(f, g)
  <2>1. ~Arming(f) /\ ~Arming(g)
    BY <1>11, <1>12 DEF Arming
  <2>2. Held(f) \subseteq Held(Top) /\ Held(g) \subseteq Held(Top)
    BY <1>2, <1>6, <1>12
  <2> QED
    BY <1>1, <1>9, <1>12, <1>15, <1>21, <2>1, <2>2 DEF CallsOn
<1>27. JInv'
  BY <1>15, <1>18, <1>19, <1>20, <1>23, <1>25, <1>26, CallsKeeps
<1>28. /\ Prefix /\ \A l \in Ahead : stack'[l] = f \/ (stack'[l] = g /\ \A j \in DOMAIN stack' : j <= l)
  <2>1. /\ Prefix /\ Ahead = {Len(stack), Len(stack) + 1}
        /\ stack'[Len(stack)] = f /\ stack'[Len(stack) + 1] = g
    BY <1>2, <1>9, <1>12, PrefixCalls
  <2>2. \A l \in DOMAIN stack' : l <= Len(stack) + 1
    <3>1. Len(stack) \in Nat
      BY <1>2
    <3>2. \A l \in DOMAIN stack' : l \in Nat /\ (l < Len(stack) \/ l = Len(stack) \/ l = Len(stack) + 1)
      BY <2>1 DEF Prefix, Below
    <3> QED
      BY ONLY <3>1, <3>2
  <2> QED
    BY <2>1, <2>2
<1>29. ASSUME NEW r \in DOMAIN runs', NEW i \in DOMAIN runs'[r], ~Old(r, i)
       PROVE  Next1(r, i) /\ runs'[r][i] = shape
  <2>1. r # new
    BY <1>15
  <2> QED
    BY <1>15, <1>29, <2>1 DEF Old, Next1
<1>30. NewEntries
  BY <1>1, <1>13, <1>29 DEF NewEntries
<1>31. NewStates
  <2>1. states <= states' /\ k <= states'
    BY <1>2, <1>10
  <2> QED
    BY <1>10, <1>13, <1>29, <2>1 DEF NewStates
<1>32. NewFresh
  <2>1. f.head = 0 /\ g.head = k
    BY <1>7, <1>8 DEF Frame
  <2>2. ~Empty(runs', q) /\ Empty(runs', new)
    BY <1>15 DEF Empty
  <2>3. DOMAIN g.groups = {} /\ g.entries = E /\ E # {} /\ f.run = q /\ g.run = new
    BY <1>1, <1>11, <1>12
  <2> HIDE DEF E, q
  <2> QED
    BY <1>10, <1>28, <2>1, <2>2, <2>3 DEF NewFresh, FreshOK
<1>33. NewBegun
  <2>1. Empty(runs', new)
    BY <1>15 DEF Empty
  <2>2. \A t : BeginsRun(runs, Top, t) => t \in E
    BY <1>1 DEF BeginsRun
  <2>3. \A t \in Held(g) : t \in E => BeginsRun(runs', g, t)
    BY <1>12, <2>1 DEF BeginsRun
  <2>4. \A t \in Held(f) : t \notin E
    BY <1>6, <1>12
  <2>5. \A r \in DOMAIN runs' : \A i \in DOMAIN runs'[r] : ~Old(r, i) => runs'[r][i].entries = E
    BY <1>13, <1>29
  <2> HIDE DEF E, q
  <2> QED
    BY <1>26, <1>28, <2>2, <2>3, <2>4, <2>5 DEF NewBegun, CallsOn
<1>34. KInv'
  BY <1>15, <1>28, <1>30, <1>31, <1>32, <1>33, LoopStep, KKeeps
<1>35. LInv'
  <2>1. /\ Len(stack) + 1 \in DOMAIN stack' /\ stack'[Len(stack) + 1] = g
        /\ \A l \in Ahead : stack'[l] = f \/ stack'[l] = g
    BY <1>2, <1>9, <1>12, PrefixCalls DEF Ahead
  <2>2. f.run = q /\ g.run = new /\ ~Arming(f) /\ ~Arming(g) /\ g.entries = E /\ g.head = k
    BY <1>8, <1>11, <1>12 DEF Arming, Frame
  <2>3. Empty(runs', new) /\ new \in DOMAIN runs'
    BY <1>15 DEF Empty
  <2>4. Begins(runs', stack', new, E, k)
    BY <2>1, <2>2, <2>3 DEF Begins
  <2>5. OnlyTop
    BY <1>15, <2>1, <2>2 DEF OnlyTop
  <2>6. NewFirst
    <3>1. SUFFICES ASSUME Empty(runs, q)
                   PROVE  1 \in DOMAIN runs'[q] /\ runs'[q][1] = shape /\ k = Top.head
      BY <1>13 DEF NewFirst
    <3>2. n = 1
      BY <1>2, <3>1, EmptyRun
    <3>3. Top.head = 0
      BY DEF make_loop
    <3>4. Single(E)
      BY <3>1, <3>3, TopFacts DEF KInv, FreshInv, FreshOK
    <3>5. k = 0
      BY <1>5, <3>4 DEF state, fresh_state
    <3> QED
      BY <1>15, <3>2, <3>3, <3>5
  <2>7. NewLaid
    <3>1. ASSUME NEW r \in DOMAIN runs', NEW i \in DOMAIN runs'[r], ~Old(r, i)
          PROVE  Laid(runs', stack', r, i)
      <4>1. runs'[r][i] = shape
        BY <1>29, <3>1
      <4> QED
        BY <1>13, <2>4, <4>1 DEF Laid
    <3>2. ASSUME NEW r \in DOMAIN runs, NEW i \in DOMAIN runs[r]
          PROVE  runs'[r][i] = runs[r][i]
      BY <1>14, <1>15 DEF GotLoop, GrownBy
    <3> QED
      BY <3>1, <3>2 DEF NewLaid, Old
  <2>8. NewEnds
    BY <2>1, <2>2 DEF NewEnds, ArmsEnd
  <2> QED
    BY <1>15, <1>19, <1>28, <2>5, <2>6, <2>7, <2>8, LKeeps
<1> QED
  BY <1>27, <1>34, <1>35

LEMMA ReturnKeeps ==
    ASSUME IInv, JInv, KInv, LInv, stack # <<>>, return
    PROVE  JInv' /\ KInv' /\ LInv'
<1>1. /\ DOMAIN Top.groups = {} /\ Here(Top) = {} /\ stack' = SubSeq(stack, 1, Len(stack) - 1)
      /\ UNCHANGED <<graph, cut, runs, states>>
  BY DEF return, Turn
<1>2. /\ RunsOf /\ TreeOK(runs) /\ stack \in Seq(FrameType) /\ Top.entries = {}
      /\ \A k \in DOMAIN stack : Held(stack[k]) \subseteq Block
      /\ Span(Edges, Top.entries, Top.blocks) /\ Held(Top) = Top.blocks
  BY <1>1, TopFacts DEF JInv
<1>3. Prefix /\ Ahead = {}
  <2>1. PICK n : n = Len(stack)
    OBVIOUS
  <2>2. PICK s : s = stack
    OBVIOUS
  <2>3. s \in Seq(FrameType) /\ s # <<>> /\ n = Len(s)
    BY <1>2, <2>1, <2>2
  <2>4. /\ n \in Nat /\ n # 0 /\ DOMAIN s = 1 .. n
        /\ DOMAIN SubSeq(s, 1, n - 1) = 1 .. n - 1
        /\ \A k \in 1 .. n - 1 : SubSeq(s, 1, n - 1)[k] = s[k]
    BY ONLY <2>3
  <2>5. DOMAIN stack = 1 .. n /\ DOMAIN stack' = 1 .. n - 1 /\ \A k \in 1 .. n - 1 : stack'[k] = stack[k]
    BY <1>1, <2>1, <2>2, <2>4
  <2>6. Below = 1 .. n - 1 /\ Ahead = {}
    BY <2>1, <2>4, <2>5 DEF Below, Ahead
  <2> QED
    BY <2>1, <2>4, <2>5, <2>6 DEF Prefix, Top
<1>4. Grows(runs, runs') /\ TreeOK(runs') /\ Edges' = Edges /\ cut' = cut
  BY <1>1, <1>2 DEF Grows, Same, Edges
<1>5. ChainInv'
  <2>1. NewChain
    BY <1>3 DEF NewChain
  <2> QED
    BY <1>2, <1>3, <1>4, <2>1, ChainStep DEF JInv
<1>6. CutInv'
  <2>1. NewCut
    BY <1>3 DEF NewCut
  <2>2. \A k \in Below : Held(stack[k]) \subseteq Block \ Held(Top)
    BY <1>2, <1>3 DEF IInv, StackInv, Below, Prefix
  <2>3. \A x \in Block \ Held(Top) : \A t \in Block : <<x, t>> \in cut' => <<x, t>> \in cut
    BY <1>4
  <2> QED
    BY <1>2, <1>3, <1>4, <2>1, <2>2, <2>3, CutStep DEF JInv
<1>7. EdgesInv'
  <2>1. NewEdges({}) /\ Fewer
    BY <1>3, <1>4 DEF NewEdges, Fewer
  <2>2. Placed(runs') = Placed(runs) \cup {} /\ {} \subseteq Held(Top)
    BY <1>1
  <2> QED
    BY <1>2, <1>3, <2>1, <2>2, EdgesStep DEF JInv
<1>8. OnlyTop /\ NewArms
  BY <1>1, <1>3 DEF OnlyTop, NewArms
<1>9. ArmsInv'
  BY <1>2, <1>3, <1>8, ArmsStep DEF JInv
<1>10. NewWants /\ NewArm /\ NewShapes
  BY <1>1, <1>2 DEF NewWants, NewArm, NewShapes, Wanted, Arming
<1>11. ServedInv'
  BY <1>1, <1>2, <1>3, <1>4, <1>8, <1>10, ServedStep DEF JInv
<1>12. JInv'
  BY <1>4, <1>5, <1>6, <1>7, <1>9, <1>11 DEF JInv
<1>13. \A r \in DOMAIN runs' : \A i \in DOMAIN runs'[r] : Old(r, i)
  BY <1>1 DEF Old
<1>14. NewEntries /\ NewStates
  BY <1>1, <1>13 DEF NewEntries, NewStates, IInv, TypeInv
<1>15. NewFresh /\ NewBegun
  BY <1>3 DEF NewFresh, NewBegun
<1>16. KInv'
  BY <1>3, <1>4, <1>14, <1>15, ReturnStep, KKeeps
<1>17. LInv'
  <2>1. Top.head = 0 /\ ~Single(Top.entries)
    BY <1>2 DEF return, Single
  <2>2. NewFirst
    BY <2>1, TopFacts DEF KInv, FreshInv, FreshOK, NewFirst
  <2>3. NewLaid /\ NewEnds
    BY <1>1, <1>3, <1>13 DEF NewLaid, NewEnds
  <2> QED
    BY <1>3, <1>4, <1>8, <1>10, <2>2, <2>3, LKeeps
<1> QED
  BY <1>12, <1>16, <1>17

-----------------------------------------------------------------------------
LEMMA InitKeeps ==
    ASSUME Init
    PROVE  JInv /\ KInv /\ LInv
<1> DEFINE f == Frame(1, NoGroups, FALSE, 0, {0}, Block)
<1>1. /\ graph \in Graph /\ cut = {} /\ runs = << <<>> >> /\ stack = <<f>>
  BY GraphsAssumption DEF Init
<1>2. /\ DOMAIN runs = {1} /\ DOMAIN runs[1] = {} /\ DOMAIN stack = {1} /\ stack[1] = f
  BY <1>1
<1>3. DOMAIN NoGroups = {} /\ consumed(NoGroups) = {}
  BY DEF NoGroups, consumed
<1>4. f.run = 1 /\ f.groups = NoGroups /\ Held(f) = Block /\ f.inline = FALSE
  BY <1>3 DEF Frame, Held
<1> HIDE DEF f
<1>5. TreeOK(runs)
  BY <1>2 DEF TreeOK, HeldLater, HeldOnce, LoopBody
<1>6. Placed(runs) = {}
  BY <1>2 DEF Placed, PlacedIn
<1>7. EdgesInv
  <2>1. Within(Edges, f)
    BY <1>3, <1>4 DEF Within
  <2> QED
    BY <1>2, <1>6, <2>1 DEF EdgesInv
<1>8. CutInv
  BY <1>1 DEF CutInv
<1>9. ChainInv
  BY <1>2, <1>4, InsideSelf DEF ChainInv
<1>10. ArmsInv
  BY <1>2, <1>3, <1>4 DEF ArmsInv, Arming
<1>11. ServedInv
  BY <1>2 DEF ServedInv
<1>12. KInv
  <2>1. f.head = 0 /\ f.entries = {0} /\ Single({0})
    BY DEF f, Frame, Single
  <2>2. FreshInv
    <3>1. FreshOK(runs, stack, 1)
      <4>1. \A l \in DOMAIN stack : l <= 1
        BY <1>2
      <4>2. stack[1].groups = NoGroups /\ Single(stack[1].entries) /\ stack[1].head = 0
        BY <1>2, <1>4, <2>1
      <4> QED
        BY <1>3, <4>1, <4>2 DEF FreshOK
    <3> QED
      BY <1>2, <3>1 DEF FreshInv
  <2>3. BegunInv /\ EntriesOnce(runs) /\ StatesOnce(runs, states)
    BY <1>2 DEF BegunInv, EntriesOnce, StatesOnce
  <2> QED
    BY <2>2, <2>3 DEF KInv
<1>13. LInv
  <2>1. f.head = 0 /\ f.entries = {0}
    BY DEF f, Frame
  <2>2. Begins(runs, stack, 1, {0}, 0)
    BY <1>2, <1>4, <2>1 DEF Begins, Empty
  <2>3. ArmsEnd(runs, f)
    BY <1>3, <1>4 DEF ArmsEnd, Arming
  <2> QED
    BY <1>2, <2>2, <2>3 DEF LInv
<1> QED
  BY <1>5, <1>7, <1>8, <1>9, <1>10, <1>11, <1>12, <1>13 DEF JInv

LEMMA NextKeeps ==
    ASSUME IInv, JInv, KInv, LInv, [Next]_vars
    PROVE  JInv' /\ KInv' /\ LInv'
<1>1. CASE UNCHANGED vars
  <2>1. /\ Edges' = Edges /\ graph' = graph /\ cut' = cut /\ runs' = runs /\ stack' = stack
        /\ states' = states
    BY <1>1 DEF vars, Edges
  <2>2. JInv'
    BY <2>1 DEF JInv, EdgesInv, CutInv, ChainInv, ArmsInv, ServedInv
  <2>3. KInv'
    BY <2>1 DEF KInv, FreshInv, FreshOK, BegunInv, BeginsRun, Empty
  <2>4. LInv'
    BY <2>1 DEF LInv
  <2> QED
    BY <2>2, <2>3, <2>4
<1>2. CASE stack # <<>> /\ Process
  BY <1>2, SimpleKeeps, MultipleKeeps, GroupKeeps, LoopKeeps, DispatchKeeps, ReturnKeeps DEF Process
<1> QED
  BY <1>1, <1>2 DEF Next, Process

(* What is kept from the first step of the relooper to the last.           *)
PlanInv == IInv /\ JInv /\ KInv /\ LInv

THEOREM PlanInvariant == Spec => []PlanInv
<1>1. Init => PlanInv
  BY InitInv, InitKeeps DEF PlanInv
<1>2. PlanInv /\ [Next]_vars => PlanInv'
  BY NextInv, NextKeeps DEF PlanInv
<1> QED
  BY <1>1, <1>2, PTL DEF Spec

-----------------------------------------------------------------------------
(* A function of the runs defined along the way to the root: its value at  *)
(* a run comes from that at the run it stands in.                          *)
LEMMA LeastNat ==
    ASSUME NEW S \in SUBSET Nat, S # {}
    PROVE  \E n \in S : \A m \in S : ~(m < n)
<1>1. \A i, j \in Nat : i < j => <<i, j>> \in OpToRel(<, Nat)
  BY DEF OpToRel
<1>2. PICK n \in S : \A m \in S : ~(<<m, n>> \in OpToRel(<, Nat))
  BY NatLessThanWellFounded, WFMin
<1>3. \A m \in S : ~(m < n)
  BY <1>1, <1>2
<1> QED
  BY <1>3

ClimbsTo(f, m, U, base, F, h) ==
    /\ f = [q \in 1 .. m |-> f[q]]
    /\ \A q \in 1 .. m : f[q] \in U[q] /\ f[q] = IF q = 1 THEN base ELSE F[q][f[h[q]]]

LEMMA Climb ==
    ASSUME NEW n \in Nat, NEW U, NEW base, NEW F, NEW h, base \in U[1],
           \A q \in 2 .. n : h[q] \in 1 .. q - 1 /\ \A v \in U[h[q]] : F[q][v] \in U[q]
    PROVE  \E f : ClimbsTo(f, n, U, base, F, h)
<1> DEFINE Good(m) == \E f : ClimbsTo(f, m, U, base, F, h)
           Bad == {m \in 0 .. n : ~Good(m)}
<1> SUFFICES ASSUME Bad # {}
             PROVE  FALSE
  BY DEF Bad
<1>1. PICK m \in Bad : \A k \in Bad : ~(k < m)
  <2>1. Bad \in SUBSET Nat
    OBVIOUS
  <2> HIDE DEF Bad
  <2> QED
    BY <2>1, LeastNat
<1>2. m \in 0 .. n /\ ~Good(m)
  OBVIOUS
<1>3. m # 0
  <2>1. ClimbsTo([q \in {} |-> 0], 0, U, base, F, h)
    BY DEF ClimbsTo
  <2> QED
    BY <1>2, <2>1
<1>4. m - 1 \in 0 .. n /\ m - 1 < m
  BY <1>2, <1>3
<1>5. Good(m - 1)
  BY <1>1, <1>4
<1> HIDE DEF Bad
<1>6. PICK f : ClimbsTo(f, m - 1, U, base, F, h)
  BY <1>5
<1> DEFINE last == IF m = 1 THEN base ELSE F[m][f[h[m]]]
           g == [q \in 1 .. m |-> IF q = m THEN last ELSE f[q]]
<1>7. last \in U[m]
  <2>1. CASE m = 1
    BY <2>1
  <2>2. CASE m # 1
    <3>1. m \in 2 .. n
      BY <1>2, <1>3, <2>2
    <3>2. h[m] \in 1 .. m - 1
      BY <3>1
    <3>3. f[h[m]] \in U[h[m]]
      BY <1>6, <3>2 DEF ClimbsTo
    <3> QED
      BY <2>2, <3>1, <3>3
  <2> QED
    BY <2>1, <2>2
<1>8. ASSUME NEW q \in 1 .. m
      PROVE  g[q] \in U[q] /\ g[q] = IF q = 1 THEN base ELSE F[q][g[h[q]]]
  <2>1. ASSUME q # 1
        PROVE  h[q] \in 1 .. q - 1 /\ g[h[q]] = f[h[q]]
    <3>1. q \in 2 .. n
      BY <1>2, <2>1
    <3>2. h[q] \in 1 .. q - 1
      BY <3>1
    <3>3. h[q] \in 1 .. m /\ h[q] # m
      BY <1>2, <3>2
    <3> QED
      BY <3>2, <3>3
  <2>2. CASE q = m
    <3>1. g[q] = last
      BY <2>2
    <3> QED
      BY <1>7, <2>1, <2>2, <3>1
  <2>3. CASE q # m
    <3>1. q \in 1 .. m - 1 /\ g[q] = f[q]
      BY <1>2, <2>3
    <3>2. f[q] \in U[q] /\ f[q] = IF q = 1 THEN base ELSE F[q][f[h[q]]]
      BY <1>6, <3>1 DEF ClimbsTo
    <3> HIDE DEF g
    <3> QED
      BY <2>1, <3>1, <3>2
  <2> QED
    BY <2>2, <2>3
<1>9. g = [q \in 1 .. m |-> g[q]]
  OBVIOUS
<1> HIDE DEF g
<1>10. ClimbsTo(g, m, U, base, F, h)
  BY <1>8, <1>9 DEF ClimbsTo
<1> QED
  BY <1>2, <1>10

(* The shape a run stands in.                                              *)
RunsGood == runs \in Seq(Seq(ShapeType)) /\ TreeOK(runs)
ParentIs(q, h) ==
    /\ h \in Places /\ Holds(h, q) /\ h = <<h[1], h[2]>>
    /\ h[1] \in DOMAIN runs /\ h[2] \in DOMAIN runs[h[1]] /\ h[1] < q
    /\ \A p \in Places : Holds(p, q) => p = h

LEMMA PlaceIs ==
    ASSUME NEW p
    PROVE  p \in Places <=> \E q \in DOMAIN runs : \E i \in DOMAIN runs[q] : p = <<q, i>>
BY DEF Places

LEMMA HolderIs ==
    ASSUME RunsGood, NEW q \in DOMAIN runs, q # 1
    PROVE  ParentIs(q, Holder(q))
<1>1. PICK r \in DOMAIN runs : \E i \in DOMAIN runs[r] : q \in Bodies(runs[r][i])
  BY DEF RunsGood, TreeOK, HeldOnce
<1>2. PICK i \in DOMAIN runs[r] : q \in Bodies(runs[r][i])
  BY <1>1
<1>3. <<r, i>> \in Places /\ Holds(<<r, i>>, q)
  BY <1>2, PlaceIs DEF Holds, At
<1>4. Holder(q) \in Places /\ Holds(Holder(q), q)
  BY <1>3 DEF Holder
<1> HIDE DEF Holder
<1>5. ASSUME NEW p \in Places, Holds(p, q)
      PROVE  p = <<r, i>>
  <2>1. PICK s \in DOMAIN runs : \E j \in DOMAIN runs[s] : p = <<s, j>>
    BY PlaceIs
  <2>2. PICK j \in DOMAIN runs[s] : p = <<s, j>>
    BY <2>1
  <2>3. q \in Bodies(runs[s][j])
    BY <1>5, <2>2 DEF Holds, At
  <2> QED
    BY <1>2, <2>2, <2>3 DEF RunsGood, TreeOK, HeldOnce
<1>6. Holder(q) = <<r, i>>
  BY <1>4, <1>5
<1>7. r < q
  BY <1>2 DEF RunsGood, TreeOK, HeldLater
<1> QED
  BY <1>3, <1>5, <1>6, <1>7 DEF ParentIs

-----------------------------------------------------------------------------
(* What holds of a run when it holds of the run it stands in.              *)
LEMMA ClimbIn ==
    ASSUME NEW n \in Nat, NEW f, NEW U, NEW h, 1 \in 1 .. n => f[1] \in U[1],
           \A q \in 2 .. n : h[q] \in 1 .. q - 1 /\ (f[h[q]] \in U[h[q]] => f[q] \in U[q])
    PROVE  \A q \in 1 .. n : f[q] \in U[q]
<1> DEFINE Bad == {q \in 1 .. n : f[q] \notin U[q]}
<1> SUFFICES ASSUME Bad # {}
             PROVE  FALSE
  BY DEF Bad
<1>1. PICK q \in Bad : \A k \in Bad : ~(k < q)
  <2>1. Bad \in SUBSET Nat
    OBVIOUS
  <2> HIDE DEF Bad
  <2> QED
    BY <2>1, LeastNat
<1>2. q \in 1 .. n /\ f[q] \notin U[q]
  OBVIOUS
<1>3. q # 1
  BY <1>2
<1>4. q \in 2 .. n
  BY <1>2, <1>3
<1>5. h[q] \in 1 .. q - 1 /\ f[h[q]] \notin U[h[q]]
  BY <1>2, <1>4
<1>6. h[q] \in 1 .. n /\ h[q] < q
  BY <1>4, <1>5
<1>7. h[q] \in Bad
  BY <1>5, <1>6
<1> HIDE DEF Bad
<1> QED
  BY <1>1, <1>6, <1>7

Parent == [q \in 2 .. Len(runs) |-> Holder(q)[1]]
ParentsGood ==
    /\ Len(runs) \in Nat /\ DOMAIN runs = 1 .. Len(runs)
    /\ \A q \in 2 .. Len(runs) :
          /\ q \in DOMAIN runs /\ q # 1
          /\ Parent[q] = Holder(q)[1] /\ Parent[q] \in 1 .. q - 1 /\ Parent[q] \in DOMAIN runs
    /\ \A q \in DOMAIN runs : q # 1 => q \in 2 .. Len(runs)

LEMMA ParentsAre ==
    ASSUME RunsGood
    PROVE  ParentsGood
<1>1. Len(runs) \in Nat /\ DOMAIN runs = 1 .. Len(runs)
  BY DEF RunsGood
<1>2. ASSUME NEW q \in 2 .. Len(runs)
      PROVE  /\ q \in DOMAIN runs /\ q # 1
             /\ Parent[q] = Holder(q)[1] /\ Parent[q] \in 1 .. q - 1 /\ Parent[q] \in DOMAIN runs
  <2>1. q \in DOMAIN runs /\ q # 1
    BY <1>1
  <2>2. ParentIs(q, Holder(q))
    BY <2>1, HolderIs
  <2>3. Holder(q)[1] \in DOMAIN runs /\ Holder(q)[1] < q
    BY <2>2 DEF ParentIs
  <2>4. Parent[q] = Holder(q)[1]
    BY DEF Parent
  <2>5. Parent[q] \in 1 .. q - 1
    BY <1>1, <2>3, <2>4
  <2> QED
    BY <2>1, <2>3, <2>4, <2>5
<1>3. \A q \in DOMAIN runs : q # 1 => q \in 2 .. Len(runs)
  BY <1>1
<1> QED
  BY <1>1, <1>2, <1>3 DEF ParentsGood

(* A function of the runs that is defined at a run from its value at the   *)
(* run it stands in exists, and what passes on to a run holds of all.      *)
OfParent(f, U, base, F) ==
    /\ f = [q \in DOMAIN runs |-> f[q]]
    /\ \A q \in DOMAIN runs :
          f[q] \in U[q] /\ f[q] = IF q = 1 THEN base ELSE F[q][f[Holder(q)[1]]]

LEMMA ParentFunction ==
    ASSUME RunsGood, NEW U, NEW base, base \in U[1], NEW F,
           \A q \in DOMAIN runs : q # 1 => \A v \in U[Holder(q)[1]] : F[q][v] \in U[q]
    PROVE  \E f : OfParent(f, U, base, F)
<1> DEFINE n == Len(runs)
<1>1. ParentsGood
  BY ParentsAre
<1>2. n \in Nat /\ DOMAIN runs = 1 .. n
  BY <1>1 DEF ParentsGood
<1>3. \A q \in 2 .. n : Parent[q] \in 1 .. q - 1 /\ \A v \in U[Parent[q]] : F[q][v] \in U[q]
  BY <1>1 DEF ParentsGood
<1> HIDE DEF n
<1>4. PICK f : ClimbsTo(f, n, U, base, F, Parent)
  BY <1>2, <1>3, Climb
<1>5. \A q \in 2 .. n : Parent[q] = Holder(q)[1]
  BY <1>1 DEF ParentsGood, n
<1>6. \A q \in 1 .. n : q # 1 => q \in 2 .. n
  BY <1>2
<1>7. OfParent(f, U, base, F)
  BY <1>2, <1>4, <1>5, <1>6 DEF OfParent, ClimbsTo
<1> QED
  BY <1>7

LEMMA ParentInduction ==
    ASSUME RunsGood, NEW f, NEW U, 1 \in DOMAIN runs => f[1] \in U[1],
           \A q \in DOMAIN runs : (q # 1 /\ f[Holder(q)[1]] \in U[Holder(q)[1]]) => f[q] \in U[q]
    PROVE  \A q \in DOMAIN runs : f[q] \in U[q]
<1> DEFINE n == Len(runs)
<1>1. ParentsGood
  BY ParentsAre
<1>2. n \in Nat /\ DOMAIN runs = 1 .. n
  BY <1>1 DEF ParentsGood
<1>3. \A q \in 2 .. n : Parent[q] \in 1 .. q - 1 /\ (f[Parent[q]] \in U[Parent[q]] => f[q] \in U[q])
  BY <1>1 DEF ParentsGood
<1> HIDE DEF n
<1> QED
  BY <1>2, <1>3, ClimbIn

(* The runs around a run hold it, and those around the run it stands in.   *)
AroundEq(f) ==
    f = [q \in DOMAIN runs |-> {q} \cup IF q = 1 THEN {} ELSE f[Holder(q)[1]]]
RunsAroundGood ==
    \A q \in DOMAIN runs :
        /\ q \in RunsAround[q] /\ RunsAround[q] \subseteq DOMAIN runs
        /\ q # 1 => RunsAround[q] = {q} \cup RunsAround[Holder(q)[1]]

LEMMA RunsAroundIs ==
    ASSUME RunsGood
    PROVE  RunsAroundGood
<1> DEFINE V == SUBSET (DOMAIN runs \cup {1})
           U == [q \in DOMAIN runs \cup {1} |-> V]
           F == [q \in DOMAIN runs |-> [v \in V |-> {q} \cup v]]
<1>1. \A q \in DOMAIN runs : q # 1 => Holder(q)[1] \in DOMAIN runs
  BY HolderIs DEF ParentIs
<1>2. \E f : OfParent(f, U, {1}, F)
  <2>1. {1} \in U[1]
    OBVIOUS
  <2>2. \A q \in DOMAIN runs : q # 1 => \A v \in U[Holder(q)[1]] : F[q][v] \in U[q]
    BY <1>1
  <2> HIDE DEF U, F
  <2> QED
    BY <2>1, <2>2, ParentFunction
<1>3. PICK f : OfParent(f, U, {1}, F)
  BY <1>2
<1>4. \A q \in DOMAIN runs : f[q] = {q} \cup IF q = 1 THEN {} ELSE f[Holder(q)[1]]
  BY <1>1, <1>3 DEF OfParent
<1>5. AroundEq(f)
  BY <1>3, <1>4 DEF AroundEq, OfParent
<1>6. RunsAround = CHOOSE g : AroundEq(g)
  BY DEF RunsAround, AroundEq
<1>7. AroundEq(RunsAround)
  BY <1>5, <1>6
<1>8. \A q \in DOMAIN runs : RunsAround[q] = {q} \cup IF q = 1 THEN {} ELSE RunsAround[Holder(q)[1]]
  BY <1>7 DEF AroundEq
<1> HIDE DEF U, F
<1> DEFINE W == [q \in DOMAIN runs |-> SUBSET DOMAIN runs]
<1>9. 1 \in DOMAIN runs => RunsAround[1] \in W[1]
  BY <1>8
<1>10. \A q \in DOMAIN runs :
           (q # 1 /\ RunsAround[Holder(q)[1]] \in W[Holder(q)[1]]) => RunsAround[q] \in W[q]
  BY <1>1, <1>8
<1>11. \A q \in DOMAIN runs : RunsAround[q] \in W[q]
  <2> HIDE DEF W
  <2> QED
    BY <1>9, <1>10, ParentInduction
<1> QED
  BY <1>8, <1>11 DEF RunsAroundGood

-----------------------------------------------------------------------------
(* An exit is that of a loop, or of a shape something can be left for, in  *)
(* a run around: control falls there, or a jump leaves a construct for it. *)
Source(q, E) ==
    \E y \in Places : y[1] \in RunsAround[q] /\ E = exit(At(y)) /\ (IsLoop(y) \/ 1 < y[2])
Exits == [targets : SUBSET Block, state : Nat]
ExitOf(q, E) == E \in Exits /\ (E = Nowhere \/ Source(q, E))

LEMMA PlaceShape ==
    ASSUME RunsGood, NEW p \in Places
    PROVE  /\ p = <<p[1], p[2]>> /\ p[1] \in DOMAIN runs /\ p[2] \in DOMAIN runs[p[1]]
           /\ At(p) = runs[p[1]][p[2]] /\ At(p) \in ShapeType /\ exit(At(p)) \in Exits
           /\ p[2] \in Nat /\ 1 <= p[2] /\ p[2] <= Len(runs[p[1]]) /\ runs[p[1]] \in Seq(ShapeType)
<1>1. PICK q \in DOMAIN runs : \E i \in DOMAIN runs[q] : p = <<q, i>>
  BY PlaceIs
<1>2. PICK i \in DOMAIN runs[q] : p = <<q, i>>
  BY <1>1
<1>3. runs[q] \in Seq(ShapeType)
  BY DEF RunsGood
<1>4. runs[q][i] \in ShapeType /\ i \in Nat /\ 1 <= i /\ i <= Len(runs[q])
  BY <1>2, <1>3
<1>5. exit(runs[q][i]) \in Exits
  BY <1>4 DEF exit, Exit, Exits, ShapeType
<1> QED
  BY <1>2, <1>3, <1>4, <1>5 DEF At

LEMMA SourceUp ==
    ASSUME RunsGood, NEW q \in DOMAIN runs, q # 1, NEW E, Source(Holder(q)[1], E)
    PROVE  Source(q, E)
BY RunsAroundIs DEF Source, RunsAroundGood

LEMMA SourceAt ==
    ASSUME RunsGood, NEW p \in Places, NEW q \in DOMAIN runs, p[1] \in RunsAround[q],
           IsLoop(p) \/ 1 < p[2]
    PROVE  ExitOf(q, exit(At(p)))
BY PlaceShape DEF ExitOf, Source

LEMMA FallFromOf ==
    ASSUME RunsGood, NEW p \in Places, NEW E, ExitOf(p[1], E)
    PROVE  ExitOf(p[1], FallFrom(p, E))
<1>1. CASE After(p) \in Places
  <2>1. p[1] \in DOMAIN runs /\ p[1] \in RunsAround[p[1]]
    BY PlaceShape, RunsAroundIs DEF RunsAroundGood
  <2>2. After(p)[1] = p[1] /\ After(p)[2] = p[2] + 1 /\ 1 < p[2] + 1
    BY PlaceShape DEF After
  <2>3. ExitOf(p[1], exit(At(After(p))))
    BY <1>1, <2>1, <2>2, SourceAt
  <2> QED
    BY <1>1, <2>3 DEF FallFrom
<1>2. CASE After(p) \notin Places
  BY <1>2 DEF FallFrom
<1> QED
  BY <1>1, <1>2

LEMMA ExitUp ==
    ASSUME RunsGood, NEW q \in DOMAIN runs, q # 1, NEW E, ExitOf(Holder(q)[1], E)
    PROVE  ExitOf(q, E)
BY SourceUp DEF ExitOf

FallAt(q, E) == IF IsLoop(Holder(q)) THEN exit(At(Holder(q))) ELSE FallFrom(Holder(q), E)
FallEq(f) == f = [q \in DOMAIN runs |-> IF q = 1 THEN Nowhere ELSE FallAt(q, f[Holder(q)[1]])]

LEMMA FallAtOf ==
    ASSUME RunsGood, NEW q \in DOMAIN runs, q # 1, NEW E, ExitOf(Holder(q)[1], E)
    PROVE  ExitOf(q, FallAt(q, E))
<1>1. /\ Holder(q) \in Places /\ Holder(q)[1] \in DOMAIN runs
      /\ Holder(q)[1] \in RunsAround[Holder(q)[1]]
  BY HolderIs, RunsAroundIs DEF ParentIs, RunsAroundGood
<1>2. ExitOf(Holder(q)[1], FallAt(q, E))
  BY <1>1, FallFromOf, SourceAt DEF FallAt
<1> QED
  BY <1>2, ExitUp

RunFallGood ==
    \A q \in DOMAIN runs :
        /\ ExitOf(q, RunFall[q])
        /\ q # 1 => RunFall[q] = FallAt(q, RunFall[Holder(q)[1]])

LEMMA RunFallIs ==
    ASSUME RunsGood
    PROVE  RunFallGood
<1> DEFINE U == [q \in DOMAIN runs \cup {1} |-> {E \in Exits : ExitOf(q, E)}]
           F == [q \in DOMAIN runs |-> [E \in Exits |-> FallAt(q, E)]]
<1>1. \A q \in DOMAIN runs : q # 1 => Holder(q)[1] \in DOMAIN runs
  BY HolderIs DEF ParentIs
<1>2. ExitOf(1, Nowhere)
  BY DEF ExitOf, Nowhere, Exit, Exits
<1>3. \A q \in DOMAIN runs : \A E : E \in U[q] <=> ExitOf(q, E)
  BY DEF ExitOf
<1>4. \E f : OfParent(f, U, Nowhere, F)
  <2>1. Nowhere \in U[1]
    BY <1>2 DEF ExitOf
  <2>2. ASSUME NEW q \in DOMAIN runs, q # 1, NEW E \in U[Holder(q)[1]]
        PROVE  F[q][E] \in U[q]
    <3>1. ExitOf(Holder(q)[1], E)
      BY <1>1, <1>3, <2>2
    <3>2. E \in Exits /\ ExitOf(q, FallAt(q, E))
      BY <2>2, <3>1, FallAtOf DEF ExitOf
    <3> QED
      BY <1>3, <3>2
  <2> HIDE DEF U, F
  <2> QED
    BY <2>1, <2>2, ParentFunction
<1>5. PICK f : OfParent(f, U, Nowhere, F)
  BY <1>4
<1>6. ASSUME NEW q \in DOMAIN runs
      PROVE  f[q] = IF q = 1 THEN Nowhere ELSE FallAt(q, f[Holder(q)[1]])
  <2>1. CASE q = 1
    BY <1>5, <2>1 DEF OfParent
  <2>2. CASE q # 1
    <3>1. f[Holder(q)[1]] \in Exits
      BY <1>1, <1>3, <1>5, <2>2 DEF OfParent, ExitOf
    <3> QED
      BY <1>5, <2>2, <3>1 DEF OfParent
  <2> QED
    BY <2>1, <2>2
<1> HIDE DEF U, F
<1>7. FallEq(f)
  BY <1>5, <1>6 DEF FallEq, OfParent
<1>8. RunFall = CHOOSE g : FallEq(g)
  BY DEF RunFall, FallEq, FallAt
<1>9. FallEq(RunFall)
  BY <1>7, <1>8
<1>10. \A q \in DOMAIN runs : RunFall[q] = IF q = 1 THEN Nowhere ELSE FallAt(q, RunFall[Holder(q)[1]])
  BY <1>9 DEF FallEq
<1>11. \A q \in DOMAIN runs : RunFall[q] \in U[q]
  <2>1. 1 \in DOMAIN runs => RunFall[1] \in U[1]
    BY <1>2, <1>3, <1>10
  <2>2. ASSUME NEW q \in DOMAIN runs, q # 1, RunFall[Holder(q)[1]] \in U[Holder(q)[1]]
        PROVE  RunFall[q] \in U[q]
    BY <1>1, <1>3, <1>10, <2>2, FallAtOf
  <2> QED
    BY <2>1, <2>2, ParentInduction
<1> QED
  BY <1>3, <1>10, <1>11 DEF RunFallGood

LEMMA FallOf ==
    ASSUME RunsGood, NEW p \in Places
    PROVE  ExitOf(p[1], Fall(p))
BY PlaceShape, RunFallIs, FallFromOf DEF RunFallGood, Fall

-----------------------------------------------------------------------------
(* The scopes: what a jump from a run can leave goes to an exit around it, *)
(* and a block to leave ends where a shape begins.                         *)
ScopeType == [how : {"block", "break", "continue"}, exit : Exits, to : Nat \X Nat]
ScopesIn(q) ==
    {x \in ScopeType :
        /\ ExitOf(q, x.exit)
        /\ x.how = "block" => x.to \in Places /\ 1 < x.to[2] /\ x.exit = exit(At(x.to))
        /\ x.how = "break" => \E h \in Places : x.exit = Fall(h) /\ x.to = After(h)
        /\ x.how = "continue" =>
              \E r \in DOMAIN runs : /\ r # 1 /\ IsLoop(Holder(r)) /\ x.to = <<r, 1>>
                                    /\ x.exit = exit(At(Holder(r)))}

(* Some scope of s arrives at t.                                           *)
Arrives(s, t) == \E k \in DOMAIN s : t \in s[k].exit.targets

LEMMA ArrivesEither ==
    ASSUME NEW A, NEW r \in Seq(A), NEW s \in Seq(A), NEW t
    PROVE  r \o s \in Seq(A) /\ (Arrives(r \o s, t) <=> Arrives(r, t) \/ Arrives(s, t))
<1>1. r \o s \in Seq(A)
  OBVIOUS
<1>2. /\ DOMAIN (r \o s) = 1 .. Len(r) + Len(s) /\ DOMAIN r = 1 .. Len(r) /\ DOMAIN s = 1 .. Len(s)
      /\ Len(r) \in Nat /\ Len(s) \in Nat
      /\ \A k \in 1 .. Len(r) : (r \o s)[k] = r[k]
      /\ \A k \in 1 .. Len(s) : (r \o s)[k + Len(r)] = s[k]
  OBVIOUS
<1> DEFINE w == r \o s
           m == Len(r)
           n == Len(s)
<1>3. /\ DOMAIN w = 1 .. m + n /\ DOMAIN r = 1 .. m /\ DOMAIN s = 1 .. n /\ m \in Nat /\ n \in Nat
      /\ \A k \in 1 .. m : w[k] = r[k]
      /\ \A k \in 1 .. n : w[k + m] = s[k]
  BY <1>2
<1> HIDE DEF w, m, n
<1>4. Arrives(r, t) => Arrives(w, t)
  BY ONLY <1>3 DEF Arrives
<1>5. Arrives(s, t) => Arrives(w, t)
  <2> SUFFICES ASSUME NEW k \in DOMAIN s, t \in s[k].exit.targets
               PROVE  Arrives(w, t)
    BY DEF Arrives
  <2>1. k + m \in DOMAIN w /\ w[k + m] = s[k]
    BY ONLY <1>3
  <2> QED
    BY <2>1 DEF Arrives
<1>6. Arrives(w, t) => Arrives(r, t) \/ Arrives(s, t)
  <2> SUFFICES ASSUME NEW k \in DOMAIN w, t \in w[k].exit.targets
               PROVE  Arrives(r, t) \/ Arrives(s, t)
    BY DEF Arrives
  <2>1. CASE k \in 1 .. m
    BY <1>3, <2>1 DEF Arrives
  <2>2. CASE k \notin 1 .. m
    <3>1. k - m \in 1 .. n /\ w[(k - m) + m] = s[k - m] /\ (k - m) + m = k
      BY <1>3, <2>2
    <3>2. k - m \in DOMAIN s /\ w[k] = s[k - m]
      BY ONLY <1>3, <3>1
    <3> QED
      BY <3>2 DEF Arrives
  <2> QED
    BY <2>1, <2>2
<1> QED
  BY <1>1, <1>4, <1>5, <1>6 DEF w

LEMMA LaterOf ==
    ASSUME RunsGood, NEW p \in Places
    PROVE  /\ Later(p) \in Seq(ScopesIn(p[1]))
           /\ \A t : Beyond(runs, p[1], p[2], t) => Arrives(Later(p), t)
<1> DEFINE n == Len(runs[p[1]])
           place(k) == <<p[1], n + 1 - k>>
           s == Later(p)
<1>1. /\ p[1] \in DOMAIN runs /\ p[1] \in Nat /\ p[1] \in RunsAround[p[1]]
      /\ p[2] \in Nat /\ 1 <= p[2] /\ p[2] <= n /\ n \in Nat
      /\ DOMAIN runs[p[1]] = 1 .. n
  <2>1. runs[p[1]] \in Seq(ShapeType) /\ DOMAIN runs \subseteq Nat
    BY PlaceShape DEF RunsGood
  <2> QED
    BY <2>1, PlaceShape, RunsAroundIs DEF RunsAroundGood
<1>2. s = [k \in 1 .. n - p[2] |-> Scope("block", exit(At(place(k))), place(k))]
  BY DEF Later
<1> HIDE DEF n, s
<1>3. ASSUME NEW k \in 1 .. n - p[2]
      PROVE  s[k] \in ScopesIn(p[1]) /\ s[k].exit = exit(At(place(k)))
  <2>1. n + 1 - k \in Nat /\ 1 < n + 1 - k /\ n + 1 - k \in 1 .. n
    BY <1>1, <1>3
  <2>2. place(k) \in Places /\ place(k) \in Nat \X Nat /\ place(k)[1] = p[1] /\ 1 < place(k)[2]
    BY <1>1, <2>1, PlaceIs
  <2>3. s[k] = Scope("block", exit(At(place(k))), place(k))
    BY <1>2
  <2> HIDE DEF place
  <2>4. exit(At(place(k))) \in Exits /\ ExitOf(p[1], exit(At(place(k))))
    BY <1>1, <2>2, PlaceShape, SourceAt
  <2> QED
    BY <2>2, <2>3, <2>4 DEF Scope, ScopesIn, ScopeType
<1>4. s \in Seq(ScopesIn(p[1]))
  <2>1. n - p[2] \in Nat
    BY <1>1
  <2>2. DOMAIN s = 1 .. n - p[2] /\ s = [k \in 1 .. n - p[2] |-> s[k]]
    BY <1>2
  <2>3. \A k \in 1 .. n - p[2] : s[k] \in ScopesIn(p[1])
    BY <1>3
  <2> DEFINE m == n - p[2]
             A == ScopesIn(p[1])
  <2>4. m \in Nat /\ s = [k \in 1 .. m |-> s[k]] /\ \A k \in 1 .. m : s[k] \in A
    BY <2>1, <2>2, <2>3
  <2> HIDE DEF m, A
  <2>5. s \in Seq(A)
    BY ONLY <2>4
  <2> QED
    BY <2>5 DEF A
<1>5. ASSUME NEW t, Beyond(runs, p[1], p[2], t)
      PROVE  Arrives(s, t)
  <2>1. PICK j \in DOMAIN runs[p[1]] : p[2] < j /\ t \in runs[p[1]][j].entries
    BY <1>5 DEF Beyond
  <2>2. j \in 1 .. n
    BY <1>1, <2>1
  <2>3. n + 1 - j \in 1 .. n - p[2] /\ n + 1 - (n + 1 - j) = j
    BY <1>1, <2>1, <2>2
  <2>4. place(n + 1 - j) = <<p[1], j>>
    BY <2>3
  <2> HIDE DEF place
  <2>5. At(place(n + 1 - j)) = runs[p[1]][j]
    BY <2>4 DEF At
  <2>6. n + 1 - j \in DOMAIN s
    BY <1>2, <2>3
  <2>7. s[n + 1 - j].exit = exit(runs[p[1]][j])
    BY <1>3, <2>3, <2>5
  <2>8. s[n + 1 - j].exit.targets = runs[p[1]][j].entries
    BY <2>7 DEF exit, Exit
  <2> QED
    BY <2>1, <2>6, <2>8 DEF Arrives
<1> QED
  BY <1>4, <1>5 DEF s

(* The scopes around a run, from those around the run it stands in.        *)
HeadScopes(q) ==
    IF IsLoop(Holder(q))
    THEN << Scope("break", Fall(Holder(q)), After(Holder(q))),
            Scope("continue", exit(At(Holder(q))), <<q, 1>>) >>
    ELSE <<>>
ScopesAt(q, s) == s \o Later(Holder(q)) \o HeadScopes(q)
ScopesEq(f) == f = [q \in DOMAIN runs |-> IF q = 1 THEN <<>> ELSE ScopesAt(q, f[Holder(q)[1]])]

LEMMA ScopesUp ==
    ASSUME RunsGood, NEW q \in DOMAIN runs, q # 1
    PROVE  ScopesIn(Holder(q)[1]) \subseteq ScopesIn(q)
BY ExitUp DEF ScopesIn

LEMMA HeadScopesOf ==
    ASSUME RunsGood, NEW q \in DOMAIN runs, q # 1
    PROVE  /\ HeadScopes(q) \in Seq(ScopesIn(q))
           /\ \A t : (IsLoop(Holder(q)) /\ t \in At(Holder(q)).entries) => Arrives(HeadScopes(q), t)
<1>1. CASE ~IsLoop(Holder(q))
  <2>1. HeadScopes(q) = <<>>
    BY <1>1 DEF HeadScopes
  <2> QED
    BY <1>1, <2>1
<1>2. CASE IsLoop(Holder(q))
  <2> DEFINE h == Holder(q)
             a == Scope("break", Fall(h), After(h))
             b == Scope("continue", exit(At(h)), <<q, 1>>)
  <2>1. h \in Places /\ h[1] \in DOMAIN runs /\ h[1] \in RunsAround[h[1]]
    BY HolderIs, RunsAroundIs DEF ParentIs, RunsAroundGood
  <2>2. h[1] \in Nat /\ h[2] \in Nat /\ q \in Nat
    BY <2>1, PlaceShape DEF RunsGood
  <2>3. ExitOf(h[1], Fall(h)) /\ ExitOf(h[1], exit(At(h)))
    BY <1>2, <2>1, FallOf, SourceAt
  <2>4. ExitOf(q, Fall(h)) /\ ExitOf(q, exit(At(h)))
    BY <2>3, ExitUp
  <2>5. After(h) \in Nat \X Nat /\ <<q, 1>> \in Nat \X Nat
    BY <2>2 DEF After
  <2>6. HeadScopes(q) = <<a, b>>
    BY <1>2 DEF HeadScopes
  <2> HIDE DEF h
  <2>7. a \in ScopesIn(q) /\ b \in ScopesIn(q)
    <3>1. IsLoop(h) /\ h = Holder(q)
      BY <1>2 DEF h
    <3> QED
      BY <2>1, <2>4, <2>5, <3>1 DEF Scope, ScopesIn, ScopeType, ExitOf
  <2>8. ASSUME NEW t, t \in At(h).entries
        PROVE  Arrives(<<a, b>>, t)
    <3>1. t \in b.exit.targets
      BY <2>8 DEF Scope, exit, Exit
    <3> HIDE DEF a, b
    <3>2. 2 \in DOMAIN <<a, b>> /\ <<a, b>>[2] = b
      OBVIOUS
    <3> QED
      BY <3>1, <3>2 DEF Arrives
  <2> HIDE DEF a, b
  <2>9. <<a, b>> \in Seq(ScopesIn(q))
    BY <2>7
  <2> QED
    BY <2>6, <2>8, <2>9 DEF h
<1> QED
  BY <1>1, <1>2

LEMMA ScopesAtOf ==
    ASSUME RunsGood, NEW q \in DOMAIN runs, q # 1, NEW s \in Seq(ScopesIn(Holder(q)[1]))
    PROVE  /\ ScopesAt(q, s) \in Seq(ScopesIn(q))
           /\ \A t : (\/ Arrives(s, t)
                      \/ Beyond(runs, Holder(q)[1], Holder(q)[2], t)
                      \/ IsLoop(Holder(q)) /\ t \in At(Holder(q)).entries)
                     => Arrives(ScopesAt(q, s), t)
<1> DEFINE h == Holder(q)
           A == ScopesIn(q)
           later == Later(h)
           head == HeadScopes(q)
<1>1. h \in Places
  BY HolderIs DEF ParentIs
<1>2. ScopesIn(h[1]) \subseteq A
  BY ScopesUp
<1>3. Later(h) \in Seq(ScopesIn(h[1])) /\ \A t : Beyond(runs, h[1], h[2], t) => Arrives(Later(h), t)
  BY <1>1, LaterOf
<1>4. head \in Seq(A) /\ \A t : (IsLoop(h) /\ t \in At(h).entries) => Arrives(head, t)
  BY HeadScopesOf
<1>5. ScopesAt(q, s) = s \o later \o head
  BY DEF ScopesAt
<1>6. s \in Seq(A) /\ later \in Seq(A)
  <2>1. s \in Seq(ScopesIn(h[1]))
    OBVIOUS
  <2> HIDE DEF h, A
  <2> QED
    BY <1>2, <1>3, <2>1, SeqMonotonic
<1> HIDE DEF A, later, head
<1>7. s \o later \in Seq(A) /\ \A t : Arrives(s \o later, t) <=> Arrives(s, t) \/ Arrives(later, t)
  BY <1>6, ArrivesEither
<1> DEFINE all == s \o later
<1> HIDE DEF all
<1>8. all \o head \in Seq(A) /\ \A t : Arrives(all \o head, t) <=> Arrives(all, t) \/ Arrives(head, t)
  BY <1>4, <1>7, ArrivesEither DEF all
<1>9. \A t : Beyond(runs, h[1], h[2], t) => Arrives(later, t)
  BY <1>3 DEF later
<1>10. \A t : Arrives(all, t) <=> Arrives(s, t) \/ Arrives(later, t)
  BY <1>7 DEF all
<1>11. ScopesAt(q, s) = all \o head
  BY <1>5 DEF all
<1> DEFINE whole == all \o head
<1> HIDE DEF whole
<1>12. whole \in Seq(A) /\ \A t : Arrives(whole, t) <=> Arrives(all, t) \/ Arrives(head, t)
  BY <1>8 DEF whole
<1>13. ScopesAt(q, s) = whole
  BY <1>11 DEF whole
<1> QED
  BY <1>4, <1>9, <1>10, <1>12, <1>13 DEF A

RunScopesGood ==
    \A q \in DOMAIN runs :
        /\ RunScopes[q] \in Seq(ScopesIn(q))
        /\ q # 1 => RunScopes[q] = ScopesAt(q, RunScopes[Holder(q)[1]])

LEMMA RunScopesIs ==
    ASSUME RunsGood
    PROVE  RunScopesGood
<1> DEFINE V == Seq(ScopeType)
           U == [q \in DOMAIN runs \cup {1} |-> Seq(ScopesIn(q))]
           F == [q \in DOMAIN runs |-> [s \in V |-> ScopesAt(q, s)]]
<1>1. \A q \in DOMAIN runs : q # 1 => Holder(q)[1] \in DOMAIN runs
  BY HolderIs DEF ParentIs
<1>2. \A q \in DOMAIN runs \cup {1} : \A s : s \in U[q] <=> s \in Seq(ScopesIn(q))
  OBVIOUS
<1>3. \A q : \A s \in Seq(ScopesIn(q)) : s \in V
  <2> SUFFICES ASSUME NEW q, NEW s \in Seq(ScopesIn(q))
               PROVE  s \in V
    OBVIOUS
  <2>1. ScopesIn(q) \subseteq ScopeType
    BY DEF ScopesIn
  <2> QED
    BY <2>1, SeqMonotonic
<1>4. <<>> \in U[1]
  <2>1. <<>> \in Seq(ScopesIn(1))
    OBVIOUS
  <2> QED
    BY <1>2, <2>1
<1>5. \A q \in DOMAIN runs : \A s \in V : F[q][s] = ScopesAt(q, s)
  OBVIOUS
<1> HIDE DEF U, F, V
<1>6. \A q \in DOMAIN runs : q # 1 => \A s \in U[Holder(q)[1]] : F[q][s] \in U[q]
  <2> SUFFICES ASSUME NEW q \in DOMAIN runs, q # 1, NEW s \in U[Holder(q)[1]]
               PROVE  F[q][s] \in U[q]
    OBVIOUS
  <2>1. s \in Seq(ScopesIn(Holder(q)[1])) /\ s \in V
    BY <1>1, <1>2, <1>3
  <2>2. ScopesAt(q, s) \in Seq(ScopesIn(q))
    BY <2>1, ScopesAtOf
  <2> QED
    BY <1>2, <1>5, <2>1, <2>2
<1>7. PICK f : OfParent(f, U, <<>>, F)
  BY <1>4, <1>6, ParentFunction
<1>8. ASSUME NEW q \in DOMAIN runs
      PROVE  f[q] = IF q = 1 THEN <<>> ELSE ScopesAt(q, f[Holder(q)[1]])
  <2>1. CASE q = 1
    BY <1>7, <2>1 DEF OfParent
  <2>2. CASE q # 1
    <3>1. Holder(q)[1] \in DOMAIN runs
      BY <1>1, <2>2
    <3>2. f[Holder(q)[1]] \in U[Holder(q)[1]] /\ f[q] = F[q][f[Holder(q)[1]]]
      BY <1>7, <2>2, <3>1 DEF OfParent
    <3>3. f[Holder(q)[1]] \in V
      BY <1>2, <1>3, <3>1, <3>2
    <3> QED
      BY <1>5, <2>2, <3>2, <3>3
  <2> QED
    BY <2>1, <2>2
<1>9. ScopesEq(f)
  BY <1>7, <1>8 DEF ScopesEq, OfParent
<1>10. RunScopes = CHOOSE g : ScopesEq(g)
  BY DEF RunScopes, ScopesEq, ScopesAt, HeadScopes
<1>11. ScopesEq(RunScopes)
  BY <1>9, <1>10
<1>12. \A q \in DOMAIN runs :
           RunScopes[q] = IF q = 1 THEN <<>> ELSE ScopesAt(q, RunScopes[Holder(q)[1]])
  BY <1>11 DEF ScopesEq
<1>13. 1 \in DOMAIN runs => RunScopes[1] \in U[1]
  BY <1>4, <1>12
<1>14. \A q \in DOMAIN runs :
           (q # 1 /\ RunScopes[Holder(q)[1]] \in U[Holder(q)[1]]) => RunScopes[q] \in U[q]
  <2> SUFFICES ASSUME NEW q \in DOMAIN runs, q # 1, RunScopes[Holder(q)[1]] \in U[Holder(q)[1]]
               PROVE  RunScopes[q] \in U[q]
    OBVIOUS
  <2>1. RunScopes[Holder(q)[1]] \in Seq(ScopesIn(Holder(q)[1]))
    BY <1>1, <1>2
  <2>2. ScopesAt(q, RunScopes[Holder(q)[1]]) \in Seq(ScopesIn(q))
    BY <2>1, ScopesAtOf
  <2> QED
    BY <1>2, <1>12, <2>2
<1>15. \A q \in DOMAIN runs : RunScopes[q] \in U[q]
  BY <1>13, <1>14, ParentInduction
<1> QED
  BY <1>2, <1>12, <1>15 DEF RunScopesGood

-----------------------------------------------------------------------------
(* What escapes a run is arrived at by one of its scopes.                  *)
LEMMA AroundArrives ==
    ASSUME RunsGood, NEW q \in DOMAIN runs, NEW t, Around(runs, q, t)
    PROVE  Arrives(RunScopes[q], t)
<1> DEFINE T == {x \in DOMAIN runs : Arrives(RunScopes[x], t)}
<1>1. ASSUME NEW r \in DOMAIN runs, NEW j \in DOMAIN runs[r], NEW b \in Bodies(runs[r][j]),
             \/ Arrives(RunScopes[r], t) \/ Beyond(runs, r, j, t)
             \/ runs[r][j].kind = "loop" /\ t \in runs[r][j].entries
      PROVE  b \in T
  <2>1. b \in DOMAIN runs /\ r < b /\ r \in Nat /\ 1 <= r
    BY DEF RunsGood, TreeOK, HeldLater
  <2>2. b # 1
    BY <2>1
  <2>3. <<r, j>> \in Places /\ Holds(<<r, j>>, b)
    BY PlaceIs DEF Holds, At
  <2>4. Holder(b) = <<r, j>>
    BY <2>1, <2>2, <2>3, HolderIs DEF ParentIs
  <2>5. /\ Holder(b)[1] = r /\ Holder(b)[2] = j /\ At(Holder(b)) = runs[r][j]
        /\ IsLoop(Holder(b)) <=> runs[r][j].kind = "loop"
    BY <2>4 DEF At, IsLoop
  <2>6. /\ RunScopes[r] \in Seq(ScopesIn(r))
        /\ RunScopes[b] = ScopesAt(b, RunScopes[r])
    BY <2>1, <2>2, <2>5, RunScopesIs DEF RunScopesGood
  <2>7. Arrives(ScopesAt(b, RunScopes[r]), t)
    BY <1>1, <2>1, <2>2, <2>5, <2>6, ScopesAtOf
  <2> QED
    BY <2>1, <2>6, <2>7
<1> HIDE DEF T
<1>2. T \in SUBSET DOMAIN runs /\ \A x \in T : Arrives(RunScopes[x], t)
  BY DEF T
<1>3. Nested(runs, T)
  BY <1>1, <1>2 DEF Nested
<1>4. PICK r \in DOMAIN runs : \E j \in DOMAIN runs[r] : \E b \in Bodies(runs[r][j]) :
          /\ q \in Inside(runs, b)
          /\ Beyond(runs, r, j, t) \/ (runs[r][j].kind = "loop" /\ t \in runs[r][j].entries)
  BY DEF Around
<1>5. PICK j \in DOMAIN runs[r] : \E b \in Bodies(runs[r][j]) :
          /\ q \in Inside(runs, b)
          /\ Beyond(runs, r, j, t) \/ (runs[r][j].kind = "loop" /\ t \in runs[r][j].entries)
  BY <1>4
<1>6. PICK b \in Bodies(runs[r][j]) :
          /\ q \in Inside(runs, b)
          /\ Beyond(runs, r, j, t) \/ (runs[r][j].kind = "loop" /\ t \in runs[r][j].entries)
  BY <1>5
<1>7. b \in T
  BY <1>1, <1>6
<1>8. q \in T
  BY <1>2, <1>3, <1>6, <1>7 DEF Inside
<1> QED
  BY <1>2, <1>8

ScopesGood(p) ==
    /\ Scopes(p) \in Seq(ScopesIn(p[1]))
    /\ \A t : Escapes(runs, p[1], p[2], t) => Arrives(Scopes(p), t)

LEMMA ScopesAre ==
    ASSUME RunsGood, NEW p \in Places
    PROVE  ScopesGood(p)
<1> DEFINE A == ScopesIn(p[1])
           around == RunScopes[p[1]]
           later == Later(p)
<1>1. p[1] \in DOMAIN runs
  BY PlaceShape
<1>2. around \in Seq(A) /\ \A t : Around(runs, p[1], t) => Arrives(around, t)
  BY <1>1, RunScopesIs, AroundArrives DEF RunScopesGood
<1>3. later \in Seq(A) /\ \A t : Beyond(runs, p[1], p[2], t) => Arrives(later, t)
  BY LaterOf
<1>4. Scopes(p) = around \o later
  BY DEF Scopes
<1> HIDE DEF A, around, later
<1>5. around \o later \in Seq(A) /\ \A t : Arrives(around \o later, t) <=> Arrives(around, t) \/ Arrives(later, t)
  BY <1>2, <1>3, ArrivesEither
<1> DEFINE whole == around \o later
<1> HIDE DEF whole
<1>6. whole \in Seq(A) /\ \A t : Arrives(whole, t) <=> Arrives(around, t) \/ Arrives(later, t)
  BY <1>5 DEF whole
<1>7. Scopes(p) = whole
  BY <1>4 DEF whole
<1>8. \A t : Escapes(runs, p[1], p[2], t) => Arrives(whole, t)
  BY <1>2, <1>3, <1>6 DEF Escapes
<1> QED
  BY <1>6, <1>7, <1>8 DEF ScopesGood, A

LEMMA PlanRuns ==
    ASSUME PlanInv
    PROVE  RunsGood /\ EntriesOnce(runs) /\ StatesOnce(runs, states)
BY DEF PlanInv, RunsGood, IInv, TypeInv, JInv, KInv

(* Every jump has a construct to leave.                                    *)
JumpIs(j) ==
    /\ j[1] \in Places /\ ScopesGood(j[1])
    /\ Arrives(Scopes(j[1]), j[2])

LEMMA JumpsArrive ==
    ASSUME PlanInv, Recovered, NEW j \in Jumps
    PROVE  JumpIs(j)
<1> DEFINE p == j[1]
           t == j[2]
<1>1. /\ p \in Places /\ IsSimple(p)
      /\ t \in graph.succ[BlockOf(p)] \ DOMAIN At(p).arms
  BY DEF Jumps
<1>2. /\ p[1] \in DOMAIN runs /\ p[2] \in DOMAIN runs[p[1]] /\ At(p) = runs[p[1]][p[2]]
  BY <1>1, PlanRuns, PlaceShape
<1>3. At(p).entries # {}
  BY <1>2, PlanRuns DEF EntriesOnce
<1>4. BlockOf(p) \in At(p).entries
  BY <1>3 DEF BlockOf
<1> HIDE DEF p, t
<1>5. Served(runs, stack, p[1], p[2], t)
  BY <1>1, <1>2, <1>4 DEF PlanInv, JInv, ServedInv, IsSimple
<1>6. DOMAIN stack = {}
  BY DEF Recovered
<1>7. Escapes(runs, p[1], p[2], t)
  BY <1>5, <1>6 DEF Served
<1>8. ScopesGood(p)
  BY <1>1, PlanRuns, ScopesAre
<1> QED
  BY <1>1, <1>7, <1>8 DEF ScopesGood, JumpIs, p, t

LEMMA AllResolve ==
    ASSUME PlanInv, Recovered
    PROVE  resolves
<1> SUFFICES ASSUME NEW j \in Jumps
             PROVE  Arriving(j[1], j[2]) # {}
  BY DEF resolves
<1>1. Arrives(Scopes(j[1]), j[2])
  BY JumpsArrive DEF JumpIs
<1> QED
  BY <1>1 DEF Arrives, Arriving

-----------------------------------------------------------------------------
(* The scope a jump leaves.                                                *)
LEMMA MaxIn ==
    ASSUME NEW n \in Nat, NEW S \in SUBSET (1 .. n), S # {}
    PROVE  Max(S) \in S
<1> DEFINE T == {n - k : k \in S}
<1>1. T \in SUBSET Nat /\ T # {}
  <2>1. \A k \in S : n - k \in Nat
    OBVIOUS
  <2> QED
    BY <2>1
<1> HIDE DEF T
<1>2. PICK m \in T : \A x \in T : ~(x < m)
  BY <1>1, LeastNat
<1>3. PICK k \in S : m = n - k
  BY <1>2 DEF T
<1>4. \A l \in S : n - l \in T
  BY DEF T
<1>5. \A l \in S : k >= l
  BY <1>2, <1>3, <1>4
<1> QED
  BY <1>5 DEF Max

LEMMA LeastIn ==
    ASSUME NEW S \in SUBSET Block, S # {}
    PROVE  Least(S) \in S
<1>1. S \in SUBSET Nat /\ \A x, y \in S : ~(x < y) => y <= x
  BY NAssumption DEF Block
<1>2. PICK n \in S : \A m \in S : ~(m < n)
  BY <1>1, LeastNat
<1>3. \A m \in S : n <= m
  BY <1>1, <1>2
<1> QED
  BY <1>3 DEF Least

LEMMA LeftIs ==
    ASSUME PlanInv, Recovered, NEW j \in Jumps
    PROVE  Left(j[1], j[2]) \in ScopesIn(j[1][1]) /\ j[2] \in Left(j[1], j[2]).exit.targets
<1> DEFINE p == j[1]
           s == Scopes(p)
           S == Arriving(p, j[2])
           A == ScopesIn(p[1])
<1>1. s \in Seq(A) /\ Arrives(s, j[2])
  BY JumpsArrive DEF JumpIs, ScopesGood
<1>2. S \subseteq DOMAIN s /\ S # {}
  BY <1>1 DEF Arriving, Arrives
<1>3. Left(p, j[2]) = s[Max(S)]
  BY DEF Left
<1> HIDE DEF p, s, S, A
<1>4. Len(s) \in Nat /\ DOMAIN s = 1 .. Len(s) /\ \A k \in DOMAIN s : s[k] \in A
  BY <1>1
<1>5. Max(S) \in S
  BY <1>2, <1>4, MaxIn
<1>6. j[2] \in s[Max(S)].exit.targets
  BY <1>5 DEF S, Arriving, s
<1> QED
  BY <1>2, <1>3, <1>4, <1>5, <1>6 DEF p, A

(* The labelled blocks by key and by place are the same ones.              *)
LEMMA KeyIn ==
    ASSUME PlanInv, NEW p \in Places
    PROVE  label_key(p) \in At(p).entries
<1>1. /\ p[1] \in DOMAIN runs /\ p[2] \in DOMAIN runs[p[1]]
      /\ At(p) = runs[p[1]][p[2]] /\ At(p) \in ShapeType
  BY PlanRuns, PlaceShape
<1>2. At(p).entries # {}
  BY <1>1, PlanRuns DEF EntriesOnce
<1>3. At(p).entries \in SUBSET Block
  BY <1>1 DEF ShapeType
<1> QED
  BY <1>2, <1>3, LeastIn DEF label_key, exit, Exit

LEMMA KeyOnce ==
    ASSUME PlanInv, NEW p \in Places, 1 < p[2], NEW r \in Places, 1 < r[2], label_key(p) = label_key(r)
    PROVE  p = r
<1>1. label_key(p) \in At(p).entries /\ label_key(p) \in At(r).entries
  BY KeyIn
<1>2. /\ p = <<p[1], p[2]>> /\ p[1] \in DOMAIN runs /\ p[2] \in DOMAIN runs[p[1]] /\ At(p) = runs[p[1]][p[2]]
      /\ r = <<r[1], r[2]>> /\ r[1] \in DOMAIN runs /\ r[2] \in DOMAIN runs[r[1]] /\ At(r) = runs[r[1]][r[2]]
  BY PlanRuns, PlaceShape
<1>3. p[1] = r[1] /\ p[2] = r[2]
  BY <1>1, <1>2, PlanRuns DEF EntriesOnce
<1> QED
  BY <1>2, <1>3

LEMMA AllLabelsAgree ==
    ASSUME PlanInv
    PROVE  LabelsAgree
<1> SUFFICES ASSUME Recovered, NEW p \in Places, p[2] > 1
             PROVE  label_key(p) \in labelled <=> p \in used_labels
  BY DEF LabelsAgree
<1>1. p \in used_labels => label_key(p) \in labelled
  BY DEF labelled, used_labels
<1>2. ASSUME label_key(p) \in labelled
      PROVE  p \in used_labels
  <2>1. PICK s \in Broken : s.how = "block" /\ label_key(p) = label_key(s.to)
    BY <1>2 DEF labelled
  <2>2. PICK j \in Jumps : s = Left(j[1], j[2])
    BY DEF Broken
  <2>3. s \in ScopesIn(j[1][1])
    BY <2>2, LeftIs
  <2>4. s.to \in Places /\ 1 < s.to[2]
    BY <2>1, <2>3 DEF ScopesIn
  <2>5. 1 < p[2]
    BY PlanRuns, PlaceShape
  <2>6. p = s.to
    BY <2>1, <2>4, <2>5, KeyOnce
  <2> QED
    BY <2>1, <2>6 DEF used_labels
<1> QED
  BY <1>1, <1>2

-----------------------------------------------------------------------------
(* What a jump assigns is declared around it, and nowhere in between.      *)
LEMMA WriteSource ==
    ASSUME PlanInv, Recovered, NEW w \in Writes
    PROVE  w[2].state # 0 /\ Source(w[1], w[2])
<1>1. PICK j \in Jumps : w = <<j[1][1], ArrivesAt(j[1], j[2])>> /\ w[2].state # 0
  BY DEF Writes
<1> DEFINE p == j[1]
           E == ArrivesAt(p, j[2])
<1>2. p \in Places
  BY DEF Jumps
<1>3. ExitOf(p[1], Fall(p))
  BY <1>2, PlanRuns, FallOf
<1>4. ExitOf(p[1], Left(p, j[2]).exit)
  BY LeftIs DEF ScopesIn
<1>5. E = Fall(p) \/ E = Left(p, j[2]).exit
  BY DEF ArrivesAt
<1> HIDE DEF E, p
<1>6. ExitOf(p[1], E)
  BY <1>3, <1>4, <1>5
<1>7. E.state # 0 /\ w = <<p[1], E>>
  BY <1>1 DEF E, p
<1>8. Nowhere.state = 0
  BY DEF Nowhere, Exit
<1>9. Source(p[1], E)
  BY <1>6, <1>7, <1>8 DEF ExitOf
<1> QED
  BY <1>7, <1>9

LEMMA LoopOfState ==
    ASSUME PlanInv, NEW y \in Places, At(y).state # 0, IsLoop(y) \/ 1 < y[2]
    PROVE  IsLoop(y)
<1>1. y[1] \in DOMAIN runs /\ y[2] \in DOMAIN runs[y[1]] /\ At(y) = runs[y[1]][y[2]]
  BY PlanRuns, PlaceShape
<1> QED
  BY <1>1, PlanRuns DEF StatesOnce, IsLoop

LEMMA DeclaresOnce ==
    ASSUME PlanInv, NEW h \in Places, IsLoop(h), At(h).state # 0,
           NEW q \in DOMAIN runs, At(h).state \in Declares(q)
    PROVE  q = h[1]
<1>1. PICK i \in DOMAIN runs[q] : IsLoop(<<q, i>>) /\ At(h).state = runs[q][i].state
  BY DEF Declares
<1>2. h[1] \in DOMAIN runs /\ h[2] \in DOMAIN runs[h[1]] /\ At(h) = runs[h[1]][h[2]]
  BY PlanRuns, PlaceShape
<1>3. runs[q][i].kind = "loop"
  BY <1>1 DEF IsLoop, At
<1> QED
  BY <1>1, <1>2, <1>3, PlanRuns DEF StatesOnce, IsLoop

LEMMA AllEntriesInScope ==
    ASSUME PlanInv
    PROVE  EntryInScope
<1> SUFFICES ASSUME Recovered, NEW w \in Writes
             PROVE  \E h \in Places :
                        /\ IsLoop(h) /\ exit(At(h)) = w[2]
                        /\ h[1] \in RunsAround[w[1]]
                        /\ \A q \in RunsAround[w[1]] \ RunsAround[h[1]] : w[2].state \notin Declares(q)
                        /\ w[2].state \notin Declares(At(h).body)
  BY DEF EntryInScope
<1>1. w[2].state # 0 /\ Source(w[1], w[2])
  BY WriteSource
<1>2. PICK h \in Places : h[1] \in RunsAround[w[1]] /\ w[2] = exit(At(h)) /\ (IsLoop(h) \/ 1 < h[2])
  BY <1>1 DEF Source
<1>3. At(h).state = w[2].state
  BY <1>2 DEF exit, Exit
<1>4. IsLoop(h)
  BY <1>1, <1>2, <1>3, LoopOfState
<1>5. h[1] \in DOMAIN runs /\ h[2] \in DOMAIN runs[h[1]] /\ At(h) = runs[h[1]][h[2]]
  BY PlanRuns, PlaceShape
<1>6. h[1] \in RunsAround[h[1]]
  BY <1>5, PlanRuns, RunsAroundIs DEF RunsAroundGood
<1>7. w[1] \in DOMAIN runs
  <2>1. PICK j \in Jumps : w[1] = j[1][1]
    BY DEF Writes
  <2>2. j[1] \in Places
    BY DEF Jumps
  <2> QED
    BY <2>1, <2>2, PlanRuns, PlaceShape
<1>8. RunsAround[w[1]] \subseteq DOMAIN runs
  BY <1>7, PlanRuns, RunsAroundIs DEF RunsAroundGood
<1>9. \A q \in RunsAround[w[1]] \ RunsAround[h[1]] : w[2].state \notin Declares(q)
  BY <1>1, <1>3, <1>4, <1>6, <1>8, DeclaresOnce
<1>10. w[2].state \notin Declares(At(h).body)
  <2>1. At(h).body # 0 /\ At(h).body \in Bodies(At(h))
    BY <1>4, <1>5, PlanRuns DEF RunsGood, TreeOK, LoopBody, IsLoop, Bodies
  <2>2. At(h).body \in DOMAIN runs /\ h[1] < At(h).body
    BY <1>5, <2>1, PlanRuns DEF RunsGood, TreeOK, HeldLater
  <2>3. h[1] # At(h).body
    BY <1>5, <2>2, PlanRuns DEF RunsGood
  <2> QED
    BY <1>1, <1>3, <1>4, <2>2, <2>3, DeclaresOnce
<1> QED
  BY <1>2, <1>4, <1>9, <1>10

(* The labelled blocks `nesting` counts by key are those the code          *)
(* generator opens, and each state variable a jump assigns is in scope.    *)
THEOREM LabelsAlwaysAgree == Spec => []LabelsAgree
<1>1. PlanInv => LabelsAgree
  BY AllLabelsAgree
<1> QED
  BY <1>1, PlanInvariant, PTL

THEOREM EntryAlwaysInScope == Spec => []EntryInScope
<1>1. PlanInv => EntryInScope
  BY AllEntriesInScope
<1> QED
  BY <1>1, PlanInvariant, PTL

-----------------------------------------------------------------------------
(* The walk of the tree gets to every run.                                 *)
WalksFrom(f, k) ==
    /\ f = [q \in k .. Len(runs) |-> f[q]]
    /\ \A q \in k .. Len(runs) : f[q] = {q} \cup UNION {f[b] : b \in Inner(q)}

LEMMA InnerLater ==
    ASSUME RunsGood, NEW q \in DOMAIN runs, NEW b \in Inner(q)
    PROVE  b \in DOMAIN runs /\ q < b
BY DEF Inner, RunsGood, TreeOK, HeldLater

LEMMA WalkExists ==
    ASSUME RunsGood
    PROVE  \E f : WalksFrom(f, 1)
<1> DEFINE n == Len(runs)
           Bad == {m \in 0 .. n : ~ \E f : WalksFrom(f, n + 1 - m)}
<1>0. n \in Nat /\ DOMAIN runs = 1 .. n
  BY DEF RunsGood
<1> HIDE DEF n
<1>1. ASSUME Bad # {}
      PROVE  FALSE
  <2>1. Bad \in SUBSET Nat
    BY <1>0
  <2>2. PICK m \in Bad : \A k \in Bad : ~(k < m)
    <3> HIDE DEF Bad
    <3> QED
      BY <1>1, <2>1, LeastNat
  <2>3. m \in 0 .. n /\ ~ \E f : WalksFrom(f, n + 1 - m)
    OBVIOUS
  <2>4. m # 0
    <3>1. WalksFrom([q \in {} |-> 0], n + 1)
      <4>1. n + 1 .. n = {}
        BY <1>0
      <4> QED
        BY <4>1 DEF WalksFrom, n
    <3> QED
      BY <1>0, <2>3, <3>1
  <2>5. m - 1 \in 0 .. n /\ m - 1 < m
    BY <1>0, <2>3, <2>4
  <2> DEFINE k == n + 1 - m
  <2>6. k \in 1 .. n /\ n + 1 - (m - 1) = k + 1
    BY <1>0, <2>3, <2>4
  <2>7. \E f : WalksFrom(f, k + 1)
    BY <2>2, <2>5, <2>6
  <2>8. PICK f : WalksFrom(f, k + 1)
    BY <2>7
  <2>9. ~ \E g : WalksFrom(g, k)
    BY <2>3
  <2> HIDE DEF k, Bad
  <2> DEFINE first == {k} \cup UNION {f[b] : b \in Inner(k)}
             g == [q \in k .. n |-> IF q = k THEN first ELSE f[q]]
  <2>10. ASSUME NEW q \in k .. n
         PROVE  g[q] = {q} \cup UNION {g[b] : b \in Inner(q)}
    <3>1. \A b \in Inner(q) : b \in k .. n /\ b # k /\ b \in k + 1 .. n
      <4>1. q \in DOMAIN runs
        BY <1>0, <2>6
      <4>2. \A b \in Inner(q) : b \in 1 .. n /\ q < b
        BY <1>0, <4>1, InnerLater
      <4> QED
        BY <1>0, <2>6, <4>2
    <3>2. \A b \in Inner(q) : g[b] = f[b]
      BY <3>1
    <3>3. {q} \cup UNION {g[b] : b \in Inner(q)} = {q} \cup UNION {f[b] : b \in Inner(q)}
      BY <3>2
    <3>4. CASE q = k
      <4>1. g[q] = first
        BY <3>4
      <4> QED
        BY <3>3, <3>4, <4>1
    <3>5. CASE q # k
      <4>1. q \in k + 1 .. n /\ g[q] = f[q]
        BY <1>0, <2>6, <3>5
      <4>2. f[q] = {q} \cup UNION {f[b] : b \in Inner(q)}
        BY <2>8, <4>1 DEF WalksFrom, n
      <4> QED
        BY <3>3, <4>1, <4>2
    <3> QED
      BY <3>4, <3>5
  <2>11. g = [q \in k .. n |-> g[q]]
    OBVIOUS
  <2> HIDE DEF g
  <2>12. WalksFrom(g, k)
    BY <2>10, <2>11 DEF WalksFrom, n
  <2> QED
    BY <2>9, <2>12
<1>2. n \in 0 .. n /\ n + 1 - n = 1
  BY <1>0
<1>3. n \notin Bad
  BY <1>1
<1> QED
  BY <1>2, <1>3

WalkEq(f) == f = [q \in DOMAIN runs |-> {q} \cup UNION {f[b] : b \in Inner(q)}]

LEMMA AllWalked ==
    ASSUME RunsGood
    PROVE  DOMAIN runs \subseteq Walked
<1> DEFINE walk == CHOOSE f : WalkEq(f)
<1>1. DOMAIN runs = 1 .. Len(runs)
  BY DEF RunsGood
<1>2. PICK f : WalksFrom(f, 1)
  BY WalkExists
<1>3. WalkEq(f)
  BY <1>1, <1>2 DEF WalkEq, WalksFrom
<1>4. WalkEq(walk)
  BY <1>3
<1>5. Walked = walk[1]
  BY DEF Walked, WalkEq
<1> HIDE DEF walk
<1>6. \A q \in DOMAIN runs : walk[q] = {q} \cup UNION {walk[b] : b \in Inner(q)}
  BY <1>4 DEF WalkEq
<1> DEFINE U == [q \in DOMAIN runs |-> SUBSET walk[1]]
<1>7. ASSUME NEW q \in DOMAIN runs, q # 1, walk[Holder(q)[1]] \in U[Holder(q)[1]]
      PROVE  walk[q] \in U[q]
  <2>1. ParentIs(q, Holder(q))
    BY <1>7, HolderIs
  <2>2. Holder(q)[1] \in DOMAIN runs /\ q \in Inner(Holder(q)[1])
    BY <2>1 DEF ParentIs, Holds, At, Inner
  <2>3. walk[q] \subseteq walk[Holder(q)[1]]
    BY <1>6, <2>2
  <2> QED
    BY <1>7, <2>2, <2>3
<1>8. 1 \in DOMAIN runs => walk[1] \in U[1]
  OBVIOUS
<1>9. \A q \in DOMAIN runs : walk[q] \in U[q]
  <2> HIDE DEF U
  <2> QED
    BY <1>7, <1>8, ParentInduction
<1> QED
  BY <1>5, <1>6, <1>9

LEMMA AllCounted ==
    ASSUME PlanInv, Recovered, EveryBlockOnce, NEW b \in Block
    PROVE  count_blocks(b) = 1
<1> DEFINE here == {p \in Places : p[1] \in Walked /\ IsSimple(p) /\ b \in At(p).entries}
<1>1. PICK q \in DOMAIN runs : \E i \in DOMAIN runs[q] : PlacedAt(b, q, i)
  BY DEF EveryBlockOnce
<1>2. PICK i \in DOMAIN runs[q] : PlacedAt(b, q, i)
  BY <1>1
<1>3. <<q, i>> \in here
  <2>1. <<q, i>> \in Places /\ q \in Walked
    BY PlaceIs, AllWalked, PlanRuns
  <2> QED
    BY <1>2, <2>1 DEF PlacedAt, IsSimple, At
<1>4. ASSUME NEW p \in here
      PROVE  p = <<q, i>>
  <2>1. p = <<p[1], p[2]>> /\ p[1] \in DOMAIN runs /\ p[2] \in DOMAIN runs[p[1]] /\ At(p) = runs[p[1]][p[2]]
    BY PlanRuns, PlaceShape
  <2>2. PlacedAt(b, p[1], p[2])
    BY <1>4, <2>1 DEF PlacedAt, IsSimple
  <2>3. p[1] = q /\ p[2] = i
    BY <1>2, <2>1, <2>2 DEF EveryBlockOnce
  <2> QED
    BY <2>1, <2>3
<1> HIDE DEF here
<1>5. here = {<<q, i>>}
  BY <1>3, <1>4
<1>6. Cardinality(here) = 1
  BY <1>5, FS_Singleton
<1> QED
  BY <1>6 DEF count_blocks, here

(* What `plan` checks of its shapes always holds.                          *)
THEOREM ChecksHold == Spec => []ChecksNeverFail
<1>1. PlanInv /\ EveryBlockOnce => ChecksNeverFail
  BY AllResolve, AllCounted DEF ChecksNeverFail
<1> QED
  BY <1>1, PlanInvariant, NoBlockLost, PTL

-----------------------------------------------------------------------------
(* The generated code running.  A place where control may stand: where a   *)
(* shape begins, or the end of a run.  Control there is on its way to one  *)
(* of the blocks the place leads to, and the state variable read on the    *)
(* way, when there is one, holds that block.                               *)
Positions == UNION {{q} \X (1 .. Len(runs[q]) + 1) : q \in DOMAIN runs}
PosExit(p) == IF p \in Places THEN exit(At(p)) ELSE RunFall[p[1]]
Reaches(p, values, t) ==
    /\ t \in PosExit(p).targets
    /\ PosExit(p).state # 0 => values[PosExit(p).state] = t
Standing(p, values, b, t) ==
    /\ p \in Positions /\ DOMAIN values = 1 .. states
    /\ t # NoBlock => Reaches(p, values, t)
    /\ t = NoBlock => p \in Places /\ IsSimple(p) /\ b = BlockOf(p)

RunInv ==
    /\ pos = NotCalled => at = NoBlock /\ next = NoBlock
    /\ pos # NotCalled =>
          /\ Recovered
          /\ \/ pos = Machine /\ (next \in Block \/ (next = NoBlock /\ at \in Block))
             \/ pos = Returned
             \/ code = shape_seq /\ Standing(pos, entry, at, next)

(* What control finds once the relooper is done.                           *)
First(b, E, s) == b \in DOMAIN runs /\ <<b, 1>> \in Places /\ exit(At(<<b, 1>>)) = Exit(E, s)
Finished(p) ==
    /\ IsSimple(p) => Single(At(p).entries)
    /\ IsLoop(p) => DOMAIN At(p).arms = {} /\ First(At(p).body, At(p).entries, At(p).state)
    /\ \A e \in DOMAIN At(p).arms : First(At(p).arms[e], {e}, 0)
    /\ At(p).kind = "dispatch" => At(p).state # 0 /\ At(p).entries \subseteq DOMAIN At(p).arms

LEMMA FirstIs ==
    ASSUME RunsGood, Recovered, NEW b, NEW E, NEW s, Begins(runs, stack, b, E, s)
    PROVE  First(b, E, s)
<1>1. DOMAIN stack = {}
  BY DEF Recovered
<1>2. b \in DOMAIN runs /\ 1 \in DOMAIN runs[b] /\ runs[b][1].entries = E /\ runs[b][1].state = s
  BY <1>1 DEF Begins
<1>3. <<b, 1>> \in Places
  BY <1>2, PlaceIs
<1> QED
  BY <1>2, <1>3 DEF First, At, exit

LEMMA AllFinished ==
    ASSUME PlanInv, Recovered
    PROVE  First(1, {0}, 0) /\ \A p \in Places : Finished(p)
<1>1. First(1, {0}, 0)
  BY FirstIs, PlanRuns DEF PlanInv, LInv
<1>2. ASSUME NEW p \in Places
      PROVE  Finished(p)
  <2>1. p[1] \in DOMAIN runs /\ p[2] \in DOMAIN runs[p[1]] /\ At(p) = runs[p[1]][p[2]]
    BY PlanRuns, PlaceShape
  <2>2. Laid(runs, stack, p[1], p[2])
    BY <2>1 DEF PlanInv, LInv
  <2>3. IsSimple(p) => Single(At(p).entries)
    BY <2>1, <2>2 DEF Laid, IsSimple
  <2>4. IsLoop(p) => DOMAIN At(p).arms = {} /\ First(At(p).body, At(p).entries, At(p).state)
    BY <2>1, <2>2, FirstIs, PlanRuns DEF Laid, IsLoop
  <2>5. \A e \in DOMAIN At(p).arms : First(At(p).arms[e], {e}, 0)
    BY <2>1, <2>2, FirstIs, PlanRuns DEF Laid
  <2>6. At(p).kind = "dispatch" => At(p).state # 0 /\ At(p).entries \subseteq DOMAIN At(p).arms
    <3>1. DOMAIN stack = {}
      BY DEF Recovered
    <3> QED
      BY <2>1, <2>2, <3>1 DEF Laid
  <2> QED
    BY <2>3, <2>4, <2>5, <2>6 DEF Finished
<1> QED
  BY <1>1, <1>2

-----------------------------------------------------------------------------
(* Control that goes to a place for a block arrives there on its way to    *)
(* it: the place leads where the jump goes, and no declaration made there  *)
(* takes back the state variable the jump has set.                         *)
Lands(to, E) ==
    /\ to \in Positions /\ PosExit(to) = E
    /\ E.state # 0 => E.state \in 1 .. states
    /\ to[2] = 1 => \A i \in Declared(to[1]) : runs[to[1]][i].state # E.state

LEMMA PositionIs ==
    ASSUME RunsGood, NEW q \in DOMAIN runs, NEW i \in DOMAIN runs[q]
    PROVE  <<q, i>> \in Positions /\ <<q, i + 1>> \in Positions /\ i + 1 # 1
<1>1. runs[q] \in Seq(ShapeType)
  BY DEF RunsGood
<1>2. PICK s : s = runs[q]
  OBVIOUS
<1>3. s \in Seq(ShapeType) /\ i \in DOMAIN s
  BY <1>1, <1>2
<1>4. i \in 1 .. Len(s) + 1 /\ i + 1 \in 1 .. Len(s) + 1 /\ i + 1 # 1
  BY ONLY <1>3
<1>5. \A j \in 1 .. Len(runs[q]) + 1 : <<q, j>> \in Positions
  BY DEF Positions
<1> QED
  BY <1>2, <1>4, <1>5

LEMMA StateIn ==
    ASSUME PlanInv, NEW q, NEW E, ExitOf(q, E), E.state # 0
    PROVE  E.state \in 1 .. states
<1>1. E # Nowhere
  BY DEF Nowhere, Exit
<1>2. PICK y \in Places : E = exit(At(y)) /\ (IsLoop(y) \/ 1 < y[2])
  BY <1>1 DEF ExitOf, Source
<1>3. At(y).state = E.state
  BY <1>2 DEF exit, Exit
<1>4. IsLoop(y)
  BY <1>2, <1>3, LoopOfState
<1>5. y[1] \in DOMAIN runs /\ y[2] \in DOMAIN runs[y[1]] /\ At(y) = runs[y[1]][y[2]]
  BY PlanRuns, PlaceShape
<1>6. E.state <= states
  BY <1>3, <1>4, <1>5, PlanRuns DEF StatesOnce, IsLoop
<1>7. E.state \in Nat /\ states \in Nat
  BY DEF ExitOf, Exits, PlanInv, IInv, TypeInv
<1> QED
  BY <1>6, <1>7

(* Off the end of a shape that is not the last one of its run.             *)
LEMMA LandsNext ==
    ASSUME PlanInv, NEW p \in Places
    PROVE  Lands(After(p), Fall(p))
<1>1. p[1] \in DOMAIN runs /\ p[2] \in DOMAIN runs[p[1]]
  BY PlanRuns, PlaceShape
<1>2. After(p) \in Positions /\ After(p)[1] = p[1] /\ After(p)[2] # 1
  BY <1>1, PlanRuns, PositionIs DEF After
<1>3. PosExit(After(p)) = Fall(p)
  BY <1>2 DEF PosExit, Fall, FallFrom
<1>4. Fall(p).state # 0 => Fall(p).state \in 1 .. states
  BY PlanRuns, FallOf, StateIn
<1> QED
  BY <1>2, <1>3, <1>4 DEF Lands

(* Out of the labelled block that ends where a shape begins.               *)
LEMMA LandsAt ==
    ASSUME PlanInv, NEW p \in Places, 1 < p[2]
    PROVE  Lands(p, exit(At(p)))
<1>1. p[1] \in DOMAIN runs /\ p[2] \in DOMAIN runs[p[1]] /\ p = <<p[1], p[2]>> /\ p[2] \in Nat
  BY PlanRuns, PlaceShape
<1>2. p \in Positions /\ p[2] # 1
  <2>1. <<p[1], p[2]>> \in Positions
    BY <1>1, PlanRuns, PositionIs
  <2>2. p[2] # 1
    BY <1>1
  <2> QED
    BY <1>1, <2>1, <2>2
<1>3. ExitOf(p[1], exit(At(p)))
  BY <1>1, PlanRuns, RunsAroundIs, SourceAt DEF RunsAroundGood
<1>4. exit(At(p)).state # 0 => exit(At(p)).state \in 1 .. states
  BY <1>3, StateIn
<1> QED
  BY <1>2, <1>4 DEF Lands, PosExit

(* Into the body of a loop, from its head or by a `continue`.              *)
LEMMA LandsLoop ==
    ASSUME PlanInv, Recovered, NEW q \in DOMAIN runs, q # 1, IsLoop(Holder(q))
    PROVE  Lands(<<q, 1>>, exit(At(Holder(q)))) /\ q = At(Holder(q)).body
<1> DEFINE h == Holder(q)
<1>1. h \in Places /\ q \in Bodies(At(h)) /\ h[1] \in DOMAIN runs /\ h[1] < q
  BY PlanRuns, HolderIs DEF ParentIs, Holds
<1>2. IsLoop(h)
  OBVIOUS
<1> HIDE DEF h
<1>3. DOMAIN At(h).arms = {} /\ First(At(h).body, At(h).entries, At(h).state)
  BY <1>1, <1>2, AllFinished DEF Finished
<1>4. q = At(h).body
  BY <1>1, <1>3 DEF Bodies
<1>5. <<q, 1>> \in Places /\ exit(At(<<q, 1>>)) = exit(At(h))
  BY <1>3, <1>4 DEF First, exit
<1>6. <<q, 1>> \in Positions
  <2>1. 1 \in DOMAIN runs[q]
    BY <1>5, PlanRuns, PlaceShape
  <2> QED
    BY <2>1, PlanRuns, PositionIs
<1>7. exit(At(h)).state = At(h).state
  BY DEF exit, Exit
<1>8. At(h).state # 0 => At(h).state \in 1 .. states
  <2>1. ExitOf(h[1], exit(At(h)))
    BY <1>1, <1>2, PlanRuns, RunsAroundIs, SourceAt DEF RunsAroundGood
  <2> QED
    BY <1>7, <2>1, StateIn
<1>9. ASSUME NEW i \in Declared(q), runs[q][i].state = At(h).state
      PROVE  FALSE
  <2>1. i \in DOMAIN runs[q] /\ runs[q][i].kind = "loop" /\ runs[q][i].state # 0
    BY DEF Declared
  <2>2. At(h).state \in Declares(q)
    BY <1>9, <2>1 DEF Declares, IsLoop, At
  <2>3. q = h[1]
    BY <1>1, <1>2, <1>9, <2>1, <2>2, DeclaresOnce
  <2>4. q \in Nat
    BY PlanRuns DEF RunsGood
  <2> QED
    BY <1>1, <2>3, <2>4
<1> QED
  BY <1>4, <1>5, <1>6, <1>7, <1>8, <1>9 DEF Lands, PosExit, h

(* Into a run that no state variable chooses: the function's, or an arm.   *)
LEMMA LandsFirst ==
    ASSUME PlanInv, NEW b, NEW E, First(b, E, 0)
    PROVE  Lands(<<b, 1>>, Exit(E, 0))
<1>1. b \in DOMAIN runs /\ <<b, 1>> \in Places /\ exit(At(<<b, 1>>)) = Exit(E, 0)
  BY DEF First
<1>2. <<b, 1>> \in Positions
  <2>1. 1 \in DOMAIN runs[b]
    BY <1>1, PlanRuns, PlaceShape
  <2> QED
    BY <1>1, <2>1, PlanRuns, PositionIs
<1>3. Exit(E, 0).state = 0
  BY DEF Exit
<1>4. \A i \in Declared(b) : runs[b][i].state # 0
  BY DEF Declared
<1> QED
  BY <1>1, <1>2, <1>3, <1>4 DEF Lands, PosExit

LEMMA LandsArm ==
    ASSUME PlanInv, Recovered, NEW p \in Places, NEW e \in DOMAIN At(p).arms
    PROVE  Lands(<<At(p).arms[e], 1>>, Exit({e}, 0))
BY AllFinished, LandsFirst DEF Finished

(* Off the end of a run: round the loop, or past the statement.            *)
LEMMA LandsEnd ==
    ASSUME PlanInv, Recovered, NEW q \in DOMAIN runs, q # 1
    PROVE  Lands(OffEnd(q), RunFall[q])
<1> DEFINE h == Holder(q)
<1>1. h \in Places /\ RunFall[q] = FallAt(q, RunFall[h[1]])
  BY PlanRuns, HolderIs, RunFallIs DEF ParentIs, RunFallGood
<1>2. CASE IsLoop(h)
  BY <1>1, <1>2, LandsLoop DEF OffEnd, FallAt
<1>3. CASE ~IsLoop(h)
  <2>1. OffEnd(q) = After(h) /\ RunFall[q] = Fall(h)
    BY <1>1, <1>3 DEF OffEnd, FallAt, Fall
  <2> HIDE DEF h
  <2> QED
    BY <1>1, <2>1, LandsNext
<1> QED
  BY <1>2, <1>3

(* Out of what a jump leaves.                                              *)
LEMMA LandsLeft ==
    ASSUME PlanInv, Recovered, NEW j \in Jumps
    PROVE  Lands(Left(j[1], j[2]).to, Left(j[1], j[2]).exit)
<1> DEFINE s == Left(j[1], j[2])
<1>1. s \in ScopesIn(j[1][1])
  BY LeftIs
<1> HIDE DEF s
<1>2. CASE s.how = "block"
  <2>1. s.to \in Places /\ 1 < s.to[2] /\ s.exit = exit(At(s.to))
    BY <1>1, <1>2 DEF ScopesIn
  <2> QED
    BY <2>1, LandsAt DEF s
<1>3. CASE s.how = "break"
  <2>1. PICK h \in Places : s.exit = Fall(h) /\ s.to = After(h)
    BY <1>1, <1>3 DEF ScopesIn
  <2> QED
    BY <2>1, LandsNext DEF s
<1>4. CASE s.how = "continue"
  <2>1. PICK q \in DOMAIN runs : /\ q # 1 /\ IsLoop(Holder(q)) /\ s.to = <<q, 1>>
                                 /\ s.exit = exit(At(Holder(q)))
    BY <1>1, <1>4 DEF ScopesIn
  <2> QED
    BY <2>1, LandsLoop DEF s
<1>5. s.how \in {"block", "break", "continue"}
  BY <1>1 DEF ScopesIn, ScopeType
<1> QED
  BY <1>2, <1>3, <1>4, <1>5

(* What entering a place leaves of the state variables.                    *)
LEMMA Entering ==
    ASSUME NEW to, NEW E, Lands(to, E), NEW values, DOMAIN values = 1 .. states,
           NEW t \in E.targets, t # NoBlock, E.state # 0 => values[E.state] = t, NEW b
    PROVE  Standing(to, Bound(to, values), b, t)
<1> DEFINE v == Bound(to, values)
<1>1. DOMAIN v = 1 .. states
  BY DEF Bound
<1>2. ASSUME E.state # 0
      PROVE  v[E.state] = t
  <2>1. E.state \in DOMAIN values
    BY <1>2 DEF Lands
  <2>2. CASE to[2] # 1
    BY <1>2, <2>2 DEF Bound
  <2>3. CASE to[2] = 1
    <3>1. ~ \E i \in Declared(to[1]) : runs[to[1]][i].state = E.state
      BY <2>3 DEF Lands
    <3> QED
      BY <1>2, <2>1, <2>3, <3>1 DEF Bound
  <2> QED
    BY <2>2, <2>3
<1> HIDE DEF v
<1>3. Reaches(to, v, t)
  BY <1>2 DEF Reaches, Lands
<1>4. Standing(to, v, b, t)
  BY <1>1, <1>3 DEF Standing, Lands
<1> QED
  BY <1>4 DEF v
-----------------------------------------------------------------------------
(* A block stands in one Simple, and its jumps land where they are to.     *)
LEMMA SimpleAtIs ==
    ASSUME PlanInv, Recovered, NEW p \in Places, IsSimple(p)
    PROVE  /\ BlockOf(p) \in Block /\ At(p).entries = {BlockOf(p)}
           /\ SimpleAt(BlockOf(p)) = p
<1>1. /\ p[1] \in DOMAIN runs /\ p[2] \in DOMAIN runs[p[1]] /\ p = <<p[1], p[2]>>
      /\ At(p) = runs[p[1]][p[2]] /\ At(p) \in ShapeType
  BY PlanRuns, PlaceShape
<1>2. PICK b \in At(p).entries : At(p).entries = {b}
  BY AllFinished DEF Finished, Single
<1>3. BlockOf(p) = b /\ b \in Block
  BY <1>1, <1>2 DEF BlockOf, ShapeType
<1>4. ASSUME NEW r \in Places, IsSimple(r), BlockOf(r) = b
      PROVE  r = p
  <2>1. /\ r[1] \in DOMAIN runs /\ r[2] \in DOMAIN runs[r[1]] /\ r = <<r[1], r[2]>>
        /\ At(r) = runs[r[1]][r[2]]
    BY PlanRuns, PlaceShape
  <2>2. b \in At(r).entries
    BY <1>4, AllFinished DEF Finished, Single, BlockOf
  <2>3. PlacedIn(runs, b, r[1], r[2]) /\ PlacedIn(runs, b, p[1], p[2])
    BY <1>1, <1>2, <1>4, <2>1, <2>2 DEF PlacedIn, IsSimple
  <2>4. r[1] = p[1] /\ r[2] = p[2]
    BY <1>1, <1>3, <2>1, <2>3 DEF PlanInv, IInv, PlacedOnce
  <2> QED
    BY <1>1, <2>1, <2>4
<1>5. SimpleAt(b) = p
  BY <1>3, <1>4 DEF SimpleAt
<1> QED
  BY <1>2, <1>3, <1>5

LEMMA BranchLands ==
    ASSUME PlanInv, Recovered, NEW p \in Places, IsSimple(p), NEW t \in graph.succ[BlockOf(p)]
    PROVE  /\ t \in Block
           /\ \E E : /\ Lands(enter_shape(p, t).to, E) /\ t \in E.targets
                     /\ enter_shape(p, t).state = E.state
<1>1. t \in Block
  BY SimpleAtIs DEF PlanInv, IInv, TypeInv, Graph
<1>2. CASE t \in DOMAIN At(p).arms
  <2>1. Lands(<<At(p).arms[t], 1>>, Exit({t}, 0))
    BY <1>2, LandsArm
  <2>2. enter_shape(p, t) = Go(<<At(p).arms[t], 1>>, 0)
    BY <1>2 DEF enter_shape
  <2>3. t \in Exit({t}, 0).targets /\ Exit({t}, 0).state = 0
    BY DEF Exit
  <2> QED
    BY <1>1, <2>1, <2>2, <2>3 DEF Go
<1>3. CASE t \notin DOMAIN At(p).arms /\ FallsTo(p, t)
  <2>1. Lands(After(p), Fall(p)) /\ t \in Fall(p).targets
    BY <1>3, LandsNext DEF FallsTo
  <2>2. enter_shape(p, t) = Go(After(p), Fall(p).state)
    BY <1>3 DEF enter_shape
  <2> QED
    BY <1>1, <2>1, <2>2 DEF Go
<1>4. CASE t \notin DOMAIN At(p).arms /\ ~FallsTo(p, t)
  <2> DEFINE j == <<p, t>>
             s == Left(p, t)
  <2>1. j \in Jumps /\ j[1] = p /\ j[2] = t
    BY <1>1, <1>4 DEF Jumps
  <2>2. Lands(s.to, s.exit) /\ t \in s.exit.targets
    BY <2>1, LandsLeft, LeftIs
  <2>3. enter_shape(p, t) = Go(s.to, s.exit.state)
    BY <1>4 DEF enter_shape
  <2> HIDE DEF s
  <2> QED
    BY <1>1, <2>2, <2>3 DEF Go
<1> QED
  BY <1>2, <1>3, <1>4

-----------------------------------------------------------------------------
(* Once the code runs, the shapes it was made from stay.                   *)
LEMMA ShapesStay ==
    ASSUME UNCHANGED vars
    PROVE  /\ graph' = graph /\ runs' = runs /\ stack' = stack /\ states' = states
           /\ Places' = Places /\ RunFall' = RunFall
BY DEF vars, RunFall, Holder, Holds, Places, At, Bodies, IsLoop, exit, FallFrom, After,
       Exit, Nowhere

LEMMA CodeStays ==
    ASSUME UNCHANGED vars
    PROVE  shape_seq' = shape_seq
<1>1. graph' = graph /\ runs' = runs /\ Places' = Places /\ RunFall' = RunFall
  BY ShapesStay
<1>2. \A q : Holder(q)' = Holder(q)
  BY <1>1 DEF Holder, Holds, At, Bodies
<1>3. \A p : /\ After(p)' = After(p) /\ At(p)' = At(p) /\ IsLoop(p)' = IsLoop(p)
            /\ IsSimple(p)' = IsSimple(p) /\ BlockOf(p)' = BlockOf(p)
            /\ Fall(p)' = Fall(p) /\ Later(p)' = Later(p)
  BY <1>1 DEF After, At, IsLoop, IsSimple, BlockOf, Fall, FallFrom, exit, Exit, Later, Scope
<1>4. RunScopes' = RunScopes
  BY <1>1, <1>2, <1>3 DEF RunScopes, Scope, exit, Exit
<1>5. \A p, t : Left(p, t)' = Left(p, t)
  BY <1>1, <1>3, <1>4 DEF Left, Arriving, Scopes
<1>6. \A p, t : enter_shape(p, t)' = enter_shape(p, t)
  BY <1>3, <1>5 DEF enter_shape, Go, FallsTo
<1>7. \A b : SimpleAt(b)' = SimpleAt(b)
  BY <1>1, <1>3 DEF SimpleAt
<1>8. \A q : OffEnd(q)' = OffEnd(q)
  BY <1>2, <1>3 DEF OffEnd
<1> QED
  BY <1>1, <1>6, <1>7, <1>8 DEF shape_seq

LEMMA RunStays ==
    ASSUME Recovered, UNCHANGED vars, pos' # NotCalled,
           \/ pos' = Machine /\ (next' \in Block \/ (next' = NoBlock /\ at' \in Block))
           \/ pos' = Returned
           \/ code' = shape_seq /\ Standing(pos', entry', at', next')
    PROVE  RunInv'
<1>1. /\ graph' = graph /\ runs' = runs /\ stack' = stack /\ states' = states
      /\ Places' = Places /\ RunFall' = RunFall
  BY ShapesStay
<1>2. shape_seq' = shape_seq
  BY CodeStays
<1>3. Recovered'
  BY <1>1 DEF Recovered
<1>4. ASSUME Standing(pos', entry', at', next')
      PROVE  Standing(pos, entry, at, next)'
  <2>1. Positions' = Positions
    BY <1>1 DEF Positions
  <2>2. PosExit(pos') = PosExit(pos)'
    BY <1>1 DEF PosExit, exit, At, Exit
  <2>3. pos' \in Places => (IsSimple(pos') <=> IsSimple(pos)') /\ BlockOf(pos') = BlockOf(pos)'
    BY <1>1 DEF IsSimple, BlockOf, At
  <2> QED
    BY <1>1, <1>4, <2>1, <2>2, <2>3 DEF Standing, Reaches
<1>5. code' = shape_seq => code' = shape_seq'
  BY <1>2
<1>6. Block' = Block
  BY <1>1 DEF Block
<1> QED
  BY <1>3, <1>4, <1>5, <1>6 DEF RunInv

(* What the steps of the graph are, as the graph stays.                    *)
Steps == Cfg!CfgNext \/ UNCHANGED <<graph.succ, at, next>>

LEMMA NotShapes ==
    ASSUME RunsGood
    PROVE  /\ Machine \notin Positions /\ Returned \notin Positions /\ NotCalled \notin Positions
           /\ Places \subseteq Positions
<1>1. \A p \in Positions : p[1] \in DOMAIN runs /\ p = <<p[1], p[2]>>
  BY DEF Positions
<1>2. \A q \in DOMAIN runs : q # 0
  BY DEF RunsGood
<1>3. ASSUME NEW p \in Places
      PROVE  p \in Positions
  <2>1. p[1] \in DOMAIN runs /\ p[2] \in DOMAIN runs[p[1]] /\ p = <<p[1], p[2]>>
    BY PlaceShape
  <2>2. <<p[1], p[2]>> \in Positions
    BY <2>1, PositionIs
  <2> QED
    BY <2>1, <2>2
<1>4. Machine \notin Positions /\ Returned \notin Positions
  BY <1>1, <1>2 DEF Machine, Returned
<1>5. NotCalled \notin Positions
  BY DEF Positions, NotCalled
<1> QED
  BY <1>3, <1>4, <1>5

-----------------------------------------------------------------------------
(* Each step keeps the code on its way to the block the graph chose.       *)
LEMMA InShape ==
    ASSUME PlanInv, RunInv, pos \in Positions
    PROVE  /\ Recovered /\ code = shape_seq /\ Standing(pos, entry, at, next)
           /\ pos # NotCalled /\ pos # Machine /\ pos # Returned
BY PlanRuns, NotShapes DEF RunInv

LEMMA NoBlockIs ==
    ASSUME NEW b \in Block
    PROVE  b # NoBlock
BY NAssumption DEF Block, NoBlock

LEMMA EnterKeeps ==
    ASSUME PlanInv, Recovered, UNCHANGED vars, code' = shape_seq,
           NEW to, NEW E, Lands(to, E), NEW values, DOMAIN values = 1 .. states,
           Enter(to, values), next' \in E.targets, next' # NoBlock,
           E.state # 0 => values[E.state] = next'
    PROVE  RunInv'
<1>1. pos' = to /\ entry' = Bound(to, values)
  BY DEF Enter
<1>2. Standing(to, Bound(to, values), at', next')
  BY Entering
<1>3. to \in Positions
  BY DEF Lands
<1>4. pos' # NotCalled
  BY <1>1, <1>3, PlanRuns, NotShapes
<1> QED
  BY <1>1, <1>2, <1>4, RunStays

LEMMA PlanningRuns ==
    ASSUME PlanInv, RunInv, Process, UNCHANGED runvars
    PROVE  RunInv' /\ Steps
<1>1. pos = NotCalled
  BY DEF Process, RunInv, Recovered
<1>2. graph' = graph
  BY DEF Process, make_simple, make_multiple, process_group, make_loop, make_dispatch, return
<1> QED
  BY <1>1, <1>2 DEF RunInv, runvars, Steps

LEMMA CallRuns ==
    ASSUME PlanInv, RunInv, Call
    PROVE  RunInv' /\ Steps
<1>1. Recovered /\ UNCHANGED vars /\ at = NoBlock /\ next = NoBlock /\ next' = 0 /\ at' = at
  BY DEF Call, RunInv
<1>2. 0 \in Block
  BY NAssumption DEF Block
<1>3. Cfg!Begin
  BY <1>1 DEF Cfg!Begin, Cfg!NoBlock, NoBlock, vars
<1>4. CASE planned
  <2>1. code' = shape_seq
    BY <1>4 DEF Call
  <2>2. shape_seq # NoCode
    <3>1. DOMAIN shape_seq.edges = Block
      BY DEF shape_seq
    <3>2. DOMAIN NoCode.edges = {}
      BY DEF NoCode
    <3> QED
      BY <1>2, <3>1, <3>2
  <2> DEFINE none == [k \in 1 .. states |-> NoBlock]
  <2>3. Enter(<<1, 1>>, none)
    BY <2>1, <2>2 DEF Call
  <2>4. DOMAIN none = 1 .. states
    OBVIOUS
  <2>5. Lands(<<1, 1>>, Exit({0}, 0)) /\ 0 \in Exit({0}, 0).targets /\ Exit({0}, 0).state = 0
    BY <1>1, AllFinished, LandsFirst DEF Exit
  <2> HIDE DEF none
  <2>6. next' # NoBlock
    BY <1>1, <1>2, NoBlockIs
  <2>7. RunInv'
    BY <1>1, <2>1, <2>3, <2>4, <2>5, <2>6, EnterKeeps
  <2> QED
    BY <1>3, <2>7 DEF Steps, Cfg!CfgNext
<1>5. CASE ~planned
  <2>1. code' = NoCode
    BY <1>5 DEF Call
  <2>2. pos' = Machine
    BY <2>1 DEF Call
  <2>3. pos' # NotCalled
    BY <2>2 DEF Machine, NotCalled
  <2>4. RunInv'
    BY <1>1, <1>2, <2>2, <2>3, RunStays
  <2> QED
    BY <1>3, <2>4 DEF Steps, Cfg!CfgNext
<1> QED
  BY <1>4, <1>5

LEMMA RunBlockRuns ==
    ASSUME PlanInv, RunInv, RunBlock
    PROVE  RunInv' /\ Steps
<1>1. /\ pos \in Places /\ next # NoBlock /\ IsSimple(pos)
      /\ at' = BlockOf(pos) /\ next' = NoBlock /\ pos' = pos /\ entry' = entry /\ code' = code
      /\ UNCHANGED vars
  BY DEF RunBlock, InShapes, Moving
<1>2. /\ pos \in Positions /\ Recovered /\ code = shape_seq /\ Standing(pos, entry, at, next)
      /\ pos # NotCalled
  BY <1>1, PlanRuns, NotShapes, InShape
<1>3. next \in At(pos).entries
  BY <1>1, <1>2 DEF Standing, Reaches, PosExit, exit, Exit
<1>4. next = BlockOf(pos)
  BY <1>1, <1>2, <1>3, SimpleAtIs
<1>5. Standing(pos, entry, at', next')
  BY <1>1, <1>2 DEF Standing
<1>6. RunInv'
  BY <1>1, <1>2, <1>5, RunStays
<1>7. Cfg!Arrive
  BY <1>1, <1>4 DEF Cfg!Arrive, Cfg!NoBlock, NoBlock, vars
<1> QED
  BY <1>6, <1>7 DEF Steps, Cfg!CfgNext

LEMMA BranchRuns ==
    ASSUME PlanInv, RunInv, Branch
    PROVE  RunInv' /\ Steps
<1>1. pos \in Places /\ next = NoBlock /\ UNCHANGED vars /\ code' = code /\ at' = at
  BY DEF Branch, InShapes, Moving
<1>2. pos \in Positions /\ Recovered /\ code = shape_seq /\ Standing(pos, entry, at, next)
  BY <1>1, PlanRuns, NotShapes, InShape
<1>3. IsSimple(pos) /\ at = BlockOf(pos) /\ DOMAIN entry = 1 .. states
  BY <1>1, <1>2 DEF Standing
<1>4. BlockOf(pos) \in Block /\ SimpleAt(BlockOf(pos)) = pos
  BY <1>1, <1>2, <1>3, SimpleAtIs
<1>5. PICK t \in graph.succ[BlockOf(pos)] :
         LET go == code.edges[BlockOf(pos)][t]
         IN  /\ next' = t
             /\ Enter(go.to, IF go.state = 0 THEN entry
                             ELSE [entry EXCEPT ![go.state] = t])
  BY DEF Branch
<1> DEFINE go == enter_shape(pos, t)
           values == IF go.state = 0 THEN entry ELSE [entry EXCEPT ![go.state] = t]
<1>6. code.edges[BlockOf(pos)][t] = go
  BY <1>2, <1>4 DEF shape_seq
<1>7. next' = t /\ Enter(go.to, values)
  BY <1>5, <1>6
<1>8. PICK E : Lands(go.to, E) /\ t \in E.targets /\ go.state = E.state
  BY <1>1, <1>2, <1>3, BranchLands
<1>9. t \in Block
  BY <1>1, <1>2, <1>3, BranchLands
<1> HIDE DEF go
<1>10. DOMAIN values = 1 .. states
  BY <1>3
<1>11. ASSUME E.state # 0
       PROVE  values[E.state] = t
  <2>1. E.state \in 1 .. states
    BY <1>8, <1>11 DEF Lands
  <2> QED
    BY <1>3, <1>8, <1>11, <2>1
<1> HIDE DEF values
<1>12. t # NoBlock
  BY <1>9, NoBlockIs
<1>13. RunInv'
  BY <1>1, <1>2, <1>7, <1>8, <1>10, <1>11, <1>12, EnterKeeps
<1>14. at # NoBlock
  BY <1>3, <1>4, NoBlockIs
<1>15. Cfg!Choose
  BY <1>1, <1>3, <1>5, <1>7, <1>14 DEF Cfg!Choose, Cfg!NoBlock, NoBlock, vars
<1> QED
  BY <1>13, <1>15 DEF Steps, Cfg!CfgNext

LEMMA ReturnRuns ==
    ASSUME PlanInv, RunInv, Return
    PROVE  RunInv' /\ Steps
<1>1. pos' = Returned /\ UNCHANGED <<vars, code, entry, at, next>>
  BY DEF Return
<1>2. Recovered
  <2>1. pos # NotCalled
    BY PlanRuns, NotShapes DEF Return, InShapes, Machine, NotCalled
  <2> QED
    BY <2>1 DEF RunInv
<1>3. Returned # NotCalled
  BY DEF Returned, NotCalled
<1>4. RunInv'
  BY <1>1, <1>2, <1>3, RunStays
<1> QED
  BY <1>1, <1>4 DEF Steps, vars

LEMMA EnterLoopRuns ==
    ASSUME PlanInv, RunInv, EnterLoop
    PROVE  RunInv' /\ Steps
<1> DEFINE q == At(pos).body
<1>1. /\ pos \in Places /\ next # NoBlock /\ IsLoop(pos) /\ Enter(<<q, 1>>, entry)
      /\ UNCHANGED vars /\ code' = code /\ at' = at /\ next' = next
  BY DEF EnterLoop, InShapes, Moving
<1>2. pos \in Positions /\ Recovered /\ code = shape_seq /\ Standing(pos, entry, at, next)
  BY <1>1, PlanRuns, NotShapes, InShape
<1>3. First(q, At(pos).entries, At(pos).state)
  BY <1>1, <1>2, AllFinished DEF Finished
<1>4. q \in DOMAIN runs /\ q # 0
  BY <1>3, PlanRuns DEF First, RunsGood
<1>5. Holds(pos, q)
  BY <1>4 DEF Holds, Bodies
<1>6. q # 1
  <2>1. pos[1] \in DOMAIN runs /\ pos[2] \in DOMAIN runs[pos[1]] /\ At(pos) = runs[pos[1]][pos[2]]
    BY <1>1, PlanRuns, PlaceShape
  <2>2. pos[1] < q
    BY <1>5, <2>1, PlanRuns DEF RunsGood, TreeOK, HeldLater, Holds
  <2>3. pos[1] \in Nat \ {0}
    BY <2>1, PlanRuns DEF RunsGood
  <2> HIDE DEF q
  <2> QED
    BY <2>2, <2>3
<1>7. Holder(q) = pos
  BY <1>1, <1>4, <1>5, <1>6, PlanRuns, HolderIs DEF ParentIs
<1> HIDE DEF q
<1>8. Lands(<<q, 1>>, exit(At(pos)))
  BY <1>1, <1>2, <1>4, <1>6, <1>7, LandsLoop
<1>9. /\ next \in exit(At(pos)).targets /\ DOMAIN entry = 1 .. states
      /\ exit(At(pos)).state # 0 => entry[exit(At(pos)).state] = next
  BY <1>1, <1>2 DEF Standing, Reaches, PosExit
<1>10. RunInv'
  BY <1>1, <1>2, <1>8, <1>9, EnterKeeps
<1> QED
  BY <1>1, <1>10 DEF Steps, vars

LEMMA EnterArmRuns ==
    ASSUME PlanInv, RunInv, EnterArm
    PROVE  RunInv' /\ Steps
<1> DEFINE arms == At(pos).arms
           value == entry[At(pos).state]
           arm == IF value \in DOMAIN arms THEN value ELSE Max(DOMAIN arms)
<1>1. /\ pos \in Places /\ next # NoBlock /\ At(pos).kind = "dispatch"
      /\ Enter(<<arms[arm], 1>>, entry)
      /\ UNCHANGED vars /\ code' = code /\ at' = at /\ next' = next
  BY DEF EnterArm, InShapes, Moving
<1>2. pos \in Positions /\ Recovered /\ code = shape_seq /\ Standing(pos, entry, at, next)
  BY <1>1, PlanRuns, NotShapes, InShape
<1>3. At(pos).state # 0 /\ At(pos).entries \subseteq DOMAIN arms
  BY <1>1, <1>2, AllFinished DEF Finished
<1>4. next \in At(pos).entries /\ value = next /\ DOMAIN entry = 1 .. states
  BY <1>1, <1>2, <1>3 DEF Standing, Reaches, PosExit, exit, Exit
<1>5. next \in DOMAIN arms /\ arm = next
  BY <1>3, <1>4
<1>6. Lands(<<arms[next], 1>>, Exit({next}, 0))
  BY <1>1, <1>2, <1>5, LandsArm
<1>7. Enter(<<arms[next], 1>>, entry)
  BY <1>1, <1>5
<1>8. next \in Exit({next}, 0).targets /\ Exit({next}, 0).state = 0
  BY DEF Exit
<1> HIDE DEF arms, value, arm
<1>9. RunInv'
  BY <1>1, <1>2, <1>4, <1>6, <1>7, <1>8, EnterKeeps
<1> QED
  BY <1>1, <1>9 DEF Steps, vars

LEMMA FallOffRuns ==
    ASSUME PlanInv, RunInv, FallOff
    PROVE  RunInv' /\ Steps
<1> DEFINE q == pos[1]
<1>1. /\ next # NoBlock /\ q \in 2 .. Len(runs) /\ pos[2] = Len(runs[q]) + 1
      /\ Enter(code.ends[q], entry)
      /\ UNCHANGED vars /\ code' = code /\ at' = at /\ next' = next
  BY DEF FallOff, Moving
<1>2. /\ Recovered /\ code = shape_seq /\ Standing(pos, entry, at, next)
  <2>1. pos # NotCalled
    BY <1>1 DEF RunInv
  <2>2. pos # Machine /\ pos # Returned
    BY <1>1 DEF Machine, Returned
  <2> QED
    BY <2>1, <2>2 DEF RunInv
<1>3. q \in DOMAIN runs /\ q # 1
  BY <1>1, PlanRuns DEF RunsGood
<1>4. code.ends[q] = OffEnd(q)
  BY <1>1, <1>2 DEF shape_seq
<1>5. pos \notin Places
  <2>1. runs[q] \in Seq(ShapeType)
    BY <1>3, PlanRuns DEF RunsGood
  <2>2. pos[2] \notin DOMAIN runs[q]
    BY <1>1, <2>1
  <2> QED
    BY <2>2, PlanRuns, PlaceShape
<1> HIDE DEF q
<1>6. /\ next \in RunFall[q].targets /\ DOMAIN entry = 1 .. states
      /\ RunFall[q].state # 0 => entry[RunFall[q].state] = next
  BY <1>1, <1>2, <1>5 DEF Standing, Reaches, PosExit, q
<1>7. Lands(OffEnd(q), RunFall[q])
  BY <1>2, <1>3, LandsEnd
<1>8. RunInv'
  BY <1>1, <1>2, <1>4, <1>6, <1>7, EnterKeeps
<1> QED
  BY <1>1, <1>8 DEF Steps, vars

LEMMA MachineRuns ==
    ASSUME PlanInv, RunInv, MachineRun
    PROVE  RunInv' /\ Steps
<1>1. pos = Machine /\ UNCHANGED <<vars, code, pos, entry>>
  BY DEF MachineRun
<1>2. pos # NotCalled /\ pos # Returned /\ pos \notin Positions
  BY <1>1, PlanRuns, NotShapes DEF Machine, NotCalled, Returned
<1>3. Recovered /\ (next \in Block \/ (next = NoBlock /\ at \in Block))
  BY <1>1, <1>2 DEF RunInv, Standing
<1>4. CASE next # NoBlock
  <2>1. at' = next /\ next' = NoBlock /\ next \in Block
    BY <1>3, <1>4 DEF MachineRun, Moving
  <2>2. Cfg!Arrive
    BY <1>1, <1>4, <2>1 DEF Cfg!Arrive, Cfg!NoBlock, NoBlock, vars
  <2>3. RunInv'
    BY <1>1, <1>2, <1>3, <2>1, RunStays
  <2> QED
    BY <2>2, <2>3 DEF Steps, Cfg!CfgNext
<1>5. CASE next = NoBlock
  <2>1. at \in Block
    BY <1>3, <1>5, NoBlockIs
  <2>2. at' = at /\ next' \in graph.succ[at] /\ at # NoBlock
    BY <1>5, <2>1, NoBlockIs DEF MachineRun, Moving
  <2>3. next' \in Block
    BY <2>1, <2>2 DEF PlanInv, IInv, TypeInv, Graph
  <2>4. Cfg!Choose
    BY <1>1, <1>5, <2>2 DEF Cfg!Choose, Cfg!NoBlock, NoBlock, vars
  <2>5. RunInv'
    BY <1>1, <1>2, <1>3, <2>3, RunStays
  <2> QED
    BY <2>4, <2>5 DEF Steps, Cfg!CfgNext
<1> QED
  BY <1>4, <1>5

LEMMA RestRuns ==
    ASSUME PlanInv, RunInv, UNCHANGED allvars
    PROVE  RunInv' /\ Steps
<1>1. UNCHANGED vars /\ UNCHANGED runvars
  BY DEF allvars
<1>2. Steps
  BY <1>1 DEF Steps, vars, runvars
<1>3. /\ code' = code /\ pos' = pos /\ entry' = entry /\ at' = at /\ next' = next
  BY <1>1 DEF runvars
<1>4. CASE pos = NotCalled
  <2>1. RunInv'
    BY <1>3, <1>4 DEF RunInv
  <2> QED
    BY <1>2, <2>1
<1>5. CASE pos # NotCalled
  <2>1. /\ Recovered
        /\ \/ pos = Machine /\ (next \in Block \/ (next = NoBlock /\ at \in Block))
           \/ pos = Returned
           \/ code = shape_seq /\ Standing(pos, entry, at, next)
    BY <1>5 DEF RunInv
  <2>2. RunInv'
    BY <1>1, <1>3, <1>5, <2>1, RunStays
  <2> QED
    BY <1>2, <2>2
<1> QED
  BY <1>4, <1>5

(* A step of the running program is a step of the relooper or leaves its   *)
(* variables alone.                                                        *)
LEMMA RunIsNext ==
    ASSUME [RNext]_allvars
    PROVE  [Next]_vars
BY DEF RNext, allvars, Next, Call, Run, RunBlock, Branch, Return, EnterLoop, EnterArm, FallOff,
       MachineRun

LEMMA RunNext ==
    ASSUME PlanInv, RunInv, [RNext]_allvars
    PROVE  RunInv' /\ Steps
<1>1. CASE Process /\ UNCHANGED runvars
  BY <1>1, PlanningRuns
<1>2. CASE Call
  BY <1>2, CallRuns
<1>3. CASE Run
  BY <1>3, RunBlockRuns, BranchRuns, ReturnRuns, EnterLoopRuns, EnterArmRuns, FallOffRuns,
     MachineRuns DEF Run
<1>4. CASE UNCHANGED allvars
  BY <1>4, RestRuns
<1> QED
  BY <1>1, <1>2, <1>3, <1>4 DEF RNext

(* The invariant of the code shape_seq emits, from the relooper's first    *)
(* step to the function's return: control stands where it can reach the    *)
(* block it has left for, and the state variables say which that is.       *)
THEOREM RunInvariant == RSpec => [](PlanInv /\ RunInv)
<1>1. RInit => PlanInv /\ RunInv
  BY InitInv, InitKeeps DEF RInit, PlanInv, RunInv
<1>2. PlanInv /\ RunInv /\ [RNext]_allvars => (PlanInv /\ RunInv)'
  <2>1. PlanInv /\ [Next]_vars => PlanInv'
    BY NextInv, NextKeeps DEF PlanInv
  <2> QED
    BY <2>1, RunIsNext, RunNext
<1> QED
  BY <1>1, <1>2, PTL DEF RSpec

(* The emitted shapes run the graph (shape_seq, enter_shape): after every  *)
(* block runs a block its terminator chose, nothing in between and nothing *)
(* skipped, through every fall off an arm, `break`, `continue` and `match` *)
(* on a state variable - and so does the state machine when the plan is    *)
(* given up.  That the chosen block is reached at all is left to TLC.      *)
THEOREM ShapesRunTheGraph == RSpec => Cfg!CfgSteps
<1>1. RInit => Cfg!Start
  BY DEF RInit, Cfg!Start, Cfg!NoBlock, NoBlock
<1>2. PlanInv /\ RunInv /\ [RNext]_allvars => [Cfg!CfgNext]_Cfg!cfgvars
  BY RunNext DEF Steps, Cfg!cfgvars
<1> QED
  BY <1>1, <1>2, RunInvariant, PTL DEF RSpec, Cfg!CfgSteps
=============================================================================
