-------------------------- MODULE DeclarationProofs --------------------------
(***************************************************************************)
(* What the code makes of a unit, for any units: in whichever scopes two   *)
(* names are, sema takes them for one thing exactly when C has them mean   *)
(* the same; the tables it fills say of each what its declarations say     *)
(* together; and the object file has the symbols that C says it has, with  *)
(* everything that what it holds needs.                                    *)
(***************************************************************************)
EXTENDS Declarations, NaturalsInduction, WellFoundedInduction, TLAPS

-----------------------------------------------------------------------------
(* The greatest of some numbers.                                           *)

LEMMA Least ==
    ASSUME NEW S \in SUBSET Nat, S # {}
    PROVE  \E n \in S : \A m \in S : n <= m
<1>1. \A i, j \in Nat : i < j => <<i, j>> \in OpToRel(<, Nat)
  BY DEF OpToRel
<1>2. PICK n \in S : \A m \in S : ~(<<m, n>> \in OpToRel(<, Nat))
  BY NatLessThanWellFounded, WFMin
<1>3. \A m \in S : ~(m < n)
  BY <1>1, <1>2
<1> QED
  BY <1>3

LEMMA Greatest ==
    ASSUME NEW n \in Nat, NEW S \in SUBSET (0 .. n), S # {}
    PROVE  Max(S) \in S /\ Max(S) \in 0 .. n /\ \A k \in S : k <= Max(S)
<1> DEFINE Rest == {n - k : k \in S}
<1>1. Rest \in SUBSET Nat /\ Rest # {}
  <2>1. \A k \in S : k \in Nat /\ k <= n /\ n - k \in Nat
    OBVIOUS
  <2> QED
    BY <2>1
<1>2. PICK r \in Rest : \A q \in Rest : r <= q
  <2> HIDE DEF Rest
  <2> QED
    BY <1>1, Least
<1>3. PICK m \in S : r = n - m
  BY <1>2
<1>4. \A k \in S : m >= k
  BY <1>2, <1>3
<1>5. Max(S) \in S /\ \A k \in S : Max(S) >= k
  BY <1>4 DEF Max
<1> QED
  BY <1>5

-----------------------------------------------------------------------------
(* Sequences.                                                              *)

LEMMA Appended ==
    ASSUME NEW S, NEW s \in Seq(S), NEW e \in S
    PROVE  /\ Append(s, e) \in Seq(S)
           /\ Len(s) \in Nat /\ Len(Append(s, e)) = Len(s) + 1
           /\ DOMAIN s = 1 .. Len(s) /\ DOMAIN Append(s, e) = 1 .. Len(s) + 1
           /\ \A i \in 1 .. Len(s) : Append(s, e)[i] = s[i]
           /\ Append(s, e)[Len(s) + 1] = e
OBVIOUS

LEMMA SequenceIs ==
    ASSUME NEW S, NEW n \in Nat, NEW s \in [1 .. n -> S]
    PROVE  s \in Seq(S) /\ Len(s) = n
OBVIOUS

LEMMA Fronted ==
    ASSUME NEW S, NEW s \in Seq(S), Len(s) >= 1
    PROVE  /\ Front(s) \in Seq(S)
           /\ Len(s) \in Nat /\ Len(Front(s)) = Len(s) - 1
           /\ DOMAIN s = 1 .. Len(s) /\ DOMAIN Front(s) = 1 .. Len(s) - 1
           /\ \A i \in 1 .. Len(s) - 1 : Front(s)[i] = s[i]
BY DEF Front

-----------------------------------------------------------------------------
(* What is known of a unit u that has been read, with the scopes b that are*)
(* open, and of what sema has made of it: the scopes ss, and for each name *)
(* written what it was taken for, m.                                       *)

Denotation == {"nothing", "object", "function", "constant", "typedef"} \X Nat
Entity == Name \X Nat
DeclarationEntry ==
    [what : {"object", "function", "constant", "typedef"}, name : Name,
     storage : Storages, inline : BOOLEAN, defines : BOOLEAN,
     inits : Name \cup {NoInit, Value}, scope : Nat \X Int,
     link : {"none", "internal", "external"}, entity : Entity]
UseEntry == [what : Hows, name : Name, entity : Entity, from : Entity \cup {<<>>}]
Entry == DeclarationEntry \cup UseEntry

IsDeclaration(u, j) == j \in DOMAIN u /\ Declares(u[j])
In(u, b, j, k) == IsDeclaration(u, j) /\ k \in DOMAIN b /\ u[j].scope = <<k, b[k]>>

Typed(u, b, ss, m) ==
    /\ u \in Seq(Entry) /\ b \in Seq(Int) /\ ss \in Seq([Name -> Denotation]) /\ m \in Seq(Denotation)
    /\ Len(m) = Len(u) /\ Len(ss) = Len(b) /\ Len(b) >= 1

(* What was declared in a scope comes after what was in those around it.   *)
Scoped(u, b) ==
    /\ b[1] = 0 /\ (Len(b) >= 2 => b[2] \in DOMAIN u)
    /\ \A k \in 2 .. Len(b) : b[k] # 0 /\ -(Len(u) + 1) <= b[k] /\ b[k] <= Len(u) + 1
    /\ \A j \in DOMAIN u : Declares(u[j]) =>
           /\ -j <= u[j].scope[2] /\ u[j].scope[2] <= j
           /\ u[j].scope[1] = 1 => u[j].scope = FileScope
    /\ \A i, j \in DOMAIN u, k, l \in DOMAIN b : In(u, b, j, k) /\ In(u, b, i, l) /\ k < l => j < i

Local(d) ==
    \/ d.what \in {"constant", "typedef"}
    \/ d.what = "object" /\ d.scope[1] # 1 /\ d.storage # "extern"
EntityAt(d, j) == <<d.name, IF d.link = "none" THEN j ELSE 0>>
Linkages(u) ==
    \A j \in DOMAIN u :
        IF Declares(u[j])
        THEN /\ u[j].link = "none" <=> Local(u[j])
             /\ u[j].entity = EntityAt(u[j], j)
        ELSE \E i \in 1 .. j - 1 : Declares(u[i]) /\ u[j].entity = u[i].entity

(* As CUnit!Agrees has it of the last.                                     *)
Agree(d, e) ==
    /\ d.scope = e.scope => Linked(d) /\ Linked(e)
    /\ Linked(d) /\ Linked(e) => d.what = e.what /\ d.link = e.link /\ ~(d.defines /\ e.defines)
Allowed(u) ==
    \A i, j \in DOMAIN u :
        i < j /\ Declares(u[i]) /\ Declares(u[j]) /\ u[i].name = u[j].name => Agree(u[i], u[j])

(* A function is in the file scope alone, and in a block where it was      *)
(* declared nothing hides it.                                              *)
InItsScope(d, k) == k = 1 \/ d.what # "function"
Denoted(u, b, ss, m) ==
    /\ \A j \in DOMAIN u : m[j] # Nothing
    /\ \A j \in DOMAIN u : Declares(u[j]) =>
           /\ m[j][1] = u[j].what
           /\ u[j].link # "none" => ss[1][u[j].name] = m[j]
    /\ \A j \in DOMAIN u, k \in DOMAIN b : In(u, b, j, k) =>
           IF InItsScope(u[j], k) THEN ss[k][u[j].name] = m[j]
           ELSE \A l \in 2 .. k : ss[l][u[j].name] = Nothing
    /\ \A k \in DOMAIN b, n \in Name : ss[k][n] # Nothing =>
           \E j \in DOMAIN u :
               /\ Declares(u[j]) /\ u[j].name = n /\ m[j] = ss[k][n]
               /\ \/ In(u, b, j, k) /\ InItsScope(u[j], k)
                  \/ k = 1 /\ u[j].link # "none"

(* One meaning for one entity.                                             *)
Told(u, m) == \A i, j \in DOMAIN u : (m[i] = m[j]) = (u[i].entity = u[j].entity)

(* The numbers of objects, functions and the others are given out once.    *)
Numbered(u, m, no, nf) ==
    /\ no \in Nat /\ nf \in Nat
    /\ \A j \in DOMAIN u :
           /\ m[j][1] = "object" => m[j][2] \in 1 .. no
           /\ m[j][1] = "function" => m[j][2] \in 1 .. nf
           /\ m[j][1] \in {"constant", "typedef"} => m[j][2] \in 1 .. Len(u)

Good(u, b, ss, m, no, nf) ==
    /\ Typed(u, b, ss, m) /\ Scoped(u, b) /\ Linkages(u) /\ Allowed(u)
    /\ Denoted(u, b, ss, m) /\ Told(u, m) /\ Numbered(u, m, no, nf)


-----------------------------------------------------------------------------
(* One more declaration e, for which the meaning x is noted.  It is new, or*)
(* that of a declaration of the same name when both have linkage.  A name  *)
(* with linkage is put in the file scope, and an object's in the innermost *)
(* one as well; any other in the innermost one.                            *)

SameNamed(u, e) == {i \in DOMAIN u : Declares(u[i]) /\ u[i].name = e.name}
Known(u, e) == {i \in SameNamed(u, e) : u[i].link # "none"}

Entered(ss, ss2, e, x, t) ==
    /\ ss2 \in Seq([Name -> Denotation]) /\ Len(ss2) = Len(ss)
    /\ \A k \in DOMAIN ss, n \in Name : n # e.name \/ k \notin {1, t} => ss2[k][n] = ss[k][n]
    /\ e.link # "none" => ss2[1][e.name] = x
    /\ e.link = "none" /\ t # 1 => ss2[1][e.name] = ss[1][e.name]
    /\ InItsScope(e, t) => ss2[t][e.name] = x
    /\ ~InItsScope(e, t) => \A l \in 2 .. t : ss2[l][e.name] = Nothing /\ ss[l][e.name] = Nothing

Fits(u, b, e) ==
    /\ e \in DeclarationEntry
    /\ e.scope = <<Len(b), b[Len(b)]>>
    /\ e.link = "none" <=> Local(e)
    /\ e.entity = EntityAt(e, Len(u) + 1)
    /\ \A i \in SameNamed(u, e) : Agree(u[i], e)
    /\ \A i \in SameNamed(u, e) :
           u[i].scope = FileScope \/ u[i].link # "none" =>
               (e.scope = FileScope \/ e.link # "none" => u[i].link # "none" /\ e.link # "none")
Adds(u, b, ss, m, no, nf, e, x, ss2, no2, nf2) ==
    /\ Fits(u, b, e) /\ x \in Denotation /\ x[1] = e.what
    /\ \/ \E i \in Known(u, e) : e.link # "none" /\ x = m[i]
       \/ (e.link = "none" \/ Known(u, e) = {}) /\ \A i \in DOMAIN u : m[i] # x
    /\ Entered(ss, ss2, e, x, Len(b))
    /\ no2 \in Nat /\ no <= no2 /\ nf2 \in Nat /\ nf <= nf2
    /\ x[1] = "object" => x[2] \in 1 .. no2
    /\ x[1] = "function" => x[2] \in 1 .. nf2
    /\ x[1] \in {"constant", "typedef"} => x[2] \in 1 .. Len(u) + 1

LEMMA UnitGrows ==
    ASSUME NEW u \in Seq(Entry), NEW m \in Seq(Denotation), Len(m) = Len(u),
           NEW e \in Entry, NEW x \in Denotation
    PROVE  LET u2 == Append(u, e)
               m2 == Append(m, x)
           IN  /\ u2 \in Seq(Entry) /\ m2 \in Seq(Denotation)
               /\ Len(u) \in Nat /\ Len(u2) = Len(u) + 1 /\ Len(m2) = Len(u) + 1
               /\ DOMAIN u = 1 .. Len(u) /\ DOMAIN u2 = 1 .. Len(u) + 1
               /\ \A i \in 1 .. Len(u) : u2[i] = u[i] /\ m2[i] = m[i]
               /\ u2[Len(u) + 1] = e /\ m2[Len(u) + 1] = x
BY Appended

LEMMA DeclaresEntry ==
    ASSUME NEW e \in DeclarationEntry
    PROVE  /\ Declares(e) /\ e \in Entry /\ e.name \in Name
           /\ e.link \in {"none", "internal", "external"} /\ e.entity \in Entity
BY DEF DeclarationEntry, Declares, Entry

LEMMA UsesEntry ==
    ASSUME NEW e \in UseEntry
    PROVE  ~Declares(e) /\ e \in Entry /\ e.name \in Name /\ e.entity \in Entity
BY DEF UseEntry, Declares, Entry, Hows

LEMMA EntryIs ==
    ASSUME NEW e \in Entry, Declares(e)
    PROVE  e \in DeclarationEntry
BY DEF UseEntry, Declares, Entry, Hows

LEMMA AddsScoped ==
    ASSUME NEW u, NEW b, NEW ss, NEW m, NEW no, NEW nf, NEW e, NEW x, NEW ss2, NEW no2, NEW nf2,
           Typed(u, b, ss, m), Scoped(u, b), Adds(u, b, ss, m, no, nf, e, x, ss2, no2, nf2)
    PROVE  Scoped(Append(u, e), b)
<1> DEFINE u2 == Append(u, e)
<1>1. e \in DeclarationEntry /\ e.scope = <<Len(b), b[Len(b)]>>
  BY DEF Adds, Fits
<1>2. /\ Len(u) \in Nat /\ Len(u2) = Len(u) + 1
      /\ DOMAIN u = 1 .. Len(u) /\ DOMAIN u2 = 1 .. Len(u) + 1
      /\ \A i \in 1 .. Len(u) : u2[i] = u[i]
      /\ u2[Len(u) + 1] = e
      /\ Len(b) \in Nat /\ Len(b) >= 1 /\ DOMAIN b = 1 .. Len(b) /\ \A k \in 1 .. Len(b) : b[k] \in Int
  BY <1>1, UnitGrows, DeclaresEntry DEF Typed
<1> HIDE DEF u2
<1>3. \A k \in 2 .. Len(b) : b[k] # 0 /\ -(Len(u2) + 1) <= b[k] /\ b[k] <= Len(u2) + 1
  BY <1>2 DEF Scoped
<1>4. \A j \in DOMAIN u2 : Declares(u2[j]) =>
          /\ -j <= u2[j].scope[2] /\ u2[j].scope[2] <= j
          /\ u2[j].scope[1] = 1 => u2[j].scope = FileScope
  <2> TAKE j \in DOMAIN u2
  <2>1. CASE j \in 1 .. Len(u)
    BY <1>2, <2>1 DEF Scoped
  <2>2. CASE j = Len(u) + 1
    <3>1. u2[j].scope[2] = b[Len(b)]
      BY <1>1, <1>2, <2>2
    <3>2. -j <= b[Len(b)] /\ b[Len(b)] <= j
      BY <1>2, <2>2 DEF Scoped
    <3>3. u2[j].scope[1] = 1 => u2[j].scope = FileScope
      BY <1>1, <1>2, <2>2 DEF Scoped, FileScope
    <3> QED
      BY <3>1, <3>2, <3>3
  <2> QED
    BY <1>2, <2>1, <2>2
<1>5. ASSUME NEW i \in DOMAIN u2, NEW j \in DOMAIN u2, NEW k \in DOMAIN b, NEW l \in DOMAIN b,
             In(u2, b, j, k), In(u2, b, i, l), k < l
      PROVE  j < i
  <2>1. CASE i = Len(u) + 1
    <3>1. j # i
      <4>1. u2[j].scope = <<k, b[k]>> /\ u2[i].scope = <<l, b[l]>>
        BY <1>5 DEF In
      <4>2. k # l
        BY <1>2, <1>5
      <4> QED
        BY <4>1, <4>2
    <3> QED
      BY <1>2, <2>1, <3>1
  <2>2. CASE j = Len(u) + 1
    <3>1. k = Len(b)
      BY <1>1, <1>2, <1>5, <2>2 DEF In
    <3> QED
      BY <1>2, <1>5, <3>1
  <2>3. CASE i \in 1 .. Len(u) /\ j \in 1 .. Len(u)
    <3>1. In(u, b, j, k) /\ In(u, b, i, l)
      BY <1>2, <1>5, <2>3 DEF In, IsDeclaration
    <3> QED
      BY <1>2, <1>5, <2>3, <3>1 DEF Scoped
  <2> QED
    BY <1>2, <2>1, <2>2, <2>3
<1>6. b[1] = 0 /\ (Len(b) >= 2 => b[2] \in DOMAIN u2)
  BY <1>2 DEF Scoped
<1> QED
  BY <1>3, <1>4, <1>5, <1>6 DEF Scoped, u2

LEMMA AddsLinkages ==
    ASSUME NEW u, NEW b, NEW ss, NEW m, NEW no, NEW nf, NEW e, NEW x, NEW ss2, NEW no2, NEW nf2,
           Typed(u, b, ss, m), Linkages(u), Adds(u, b, ss, m, no, nf, e, x, ss2, no2, nf2)
    PROVE  Linkages(Append(u, e))
<1> DEFINE u2 == Append(u, e)
<1>1. /\ e \in DeclarationEntry /\ Declares(e)
      /\ e.link = "none" <=> Local(e)
      /\ e.entity = EntityAt(e, Len(u) + 1)
  BY DeclaresEntry DEF Adds, Fits
<1>2. /\ Len(u) \in Nat
      /\ DOMAIN u = 1 .. Len(u) /\ DOMAIN u2 = 1 .. Len(u) + 1
      /\ \A i \in 1 .. Len(u) : u2[i] = u[i]
      /\ u2[Len(u) + 1] = e
  BY <1>1, UnitGrows, DeclaresEntry DEF Typed
<1> HIDE DEF u2
<1>3. ASSUME NEW j \in DOMAIN u2
      PROVE  IF Declares(u2[j])
             THEN (u2[j].link = "none" <=> Local(u2[j])) /\ u2[j].entity = EntityAt(u2[j], j)
             ELSE \E i \in 1 .. j - 1 : Declares(u2[i]) /\ u2[j].entity = u2[i].entity
  <2>1. CASE j = Len(u) + 1
    BY <1>1, <1>2, <2>1
  <2>2. CASE j \in 1 .. Len(u)
    <3>1. \A i \in 1 .. j - 1 : u2[i] = u[i]
      BY <1>2, <2>2
    <3>2. u2[j] = u[j] /\ j \in DOMAIN u
      BY <1>2, <2>2
    <3> QED
      BY <3>1, <3>2 DEF Linkages
  <2> QED
    BY <1>2, <2>1, <2>2
<1> QED
  BY <1>3 DEF Linkages, u2

LEMMA AddsAllowed ==
    ASSUME NEW u, NEW b, NEW ss, NEW m, NEW no, NEW nf, NEW e, NEW x, NEW ss2, NEW no2, NEW nf2,
           Typed(u, b, ss, m), Allowed(u), Adds(u, b, ss, m, no, nf, e, x, ss2, no2, nf2)
    PROVE  Allowed(Append(u, e))
<1> DEFINE u2 == Append(u, e)
<1>1. e \in DeclarationEntry /\ \A i \in SameNamed(u, e) : Agree(u[i], e)
  BY DEF Adds, Fits
<1>2. /\ Len(u) \in Nat
      /\ DOMAIN u = 1 .. Len(u) /\ DOMAIN u2 = 1 .. Len(u) + 1
      /\ \A i \in 1 .. Len(u) : u2[i] = u[i]
      /\ u2[Len(u) + 1] = e
  BY <1>1, UnitGrows, DeclaresEntry DEF Typed
<1> HIDE DEF u2
<1>3. ASSUME NEW i \in DOMAIN u2, NEW j \in DOMAIN u2, i < j,
             Declares(u2[i]), Declares(u2[j]), u2[i].name = u2[j].name
      PROVE  Agree(u2[i], u2[j])
  <2>1. i \in 1 .. Len(u) /\ u2[i] = u[i] /\ i \in DOMAIN u
    BY <1>2, <1>3
  <2>2. CASE j = Len(u) + 1
    <3>1. u2[j] = e
      BY <1>2, <2>2
    <3>2. i \in SameNamed(u, e)
      BY <1>3, <2>1, <3>1 DEF SameNamed
    <3> QED
      BY <1>1, <2>1, <3>1, <3>2
  <2>3. CASE j \in 1 .. Len(u)
    <3>1. u2[j] = u[j] /\ j \in DOMAIN u
      BY <1>2, <2>3
    <3> QED
      BY <1>3, <2>1, <3>1 DEF Allowed
  <2> QED
    BY <1>2, <2>2, <2>3
<1> QED
  BY <1>3 DEF Allowed, u2


(* What the parts below need of Adds, with the new unit and meanings.      *)
Grown(u, b, ss, m, e, x, u2, m2) ==
    /\ Len(u) \in Nat /\ Len(b) \in Nat /\ Len(b) >= 1
    /\ DOMAIN b = 1 .. Len(b) /\ DOMAIN ss = 1 .. Len(b)
    /\ DOMAIN u = 1 .. Len(u) /\ DOMAIN u2 = 1 .. Len(u) + 1
    /\ \A i \in 1 .. Len(u) : u2[i] = u[i] /\ m2[i] = m[i]
    /\ u2[Len(u) + 1] = e /\ m2[Len(u) + 1] = x
    /\ Declares(e) /\ e.name \in Name /\ e.scope = <<Len(b), b[Len(b)]>>
    /\ Len(b) = 1 => e.scope = FileScope
    /\ \A i \in 1 .. Len(u), k \in 1 .. Len(b) : In(u2, b, i, k) <=> In(u, b, i, k)
    /\ \A i \in SameNamed(u, e) : i \in 1 .. Len(u) /\ Declares(u[i]) /\ u[i].name = e.name
    /\ \A i \in Known(u, e) : m[i] = ss[1][e.name]
    /\ e.link # "none" => \A i \in Known(u, e) : m[i] = x
LEMMA AddsFacts ==
    ASSUME NEW u, NEW b, NEW ss, NEW m, NEW no, NEW nf, NEW e, NEW x, NEW ss2, NEW no2, NEW nf2,
           Typed(u, b, ss, m), Scoped(u, b), Denoted(u, b, ss, m),
           Adds(u, b, ss, m, no, nf, e, x, ss2, no2, nf2)
    PROVE  Grown(u, b, ss, m, e, x, Append(u, e), Append(m, x))
<1> DEFINE u2 == Append(u, e)
           m2 == Append(m, x)
<1>1. e \in DeclarationEntry /\ x \in Denotation /\ e.scope = <<Len(b), b[Len(b)]>>
  BY DEF Adds, Fits
<1>2. /\ Len(u) \in Nat /\ DOMAIN u = 1 .. Len(u) /\ DOMAIN u2 = 1 .. Len(u) + 1
      /\ \A i \in 1 .. Len(u) : u2[i] = u[i] /\ m2[i] = m[i]
      /\ u2[Len(u) + 1] = e /\ m2[Len(u) + 1] = x
  BY <1>1, UnitGrows, DeclaresEntry DEF Typed
<1>3. Len(b) \in Nat /\ Len(b) >= 1 /\ DOMAIN b = 1 .. Len(b) /\ DOMAIN ss = 1 .. Len(b)
  BY DEF Typed
<1>4. Declares(e) /\ e.name \in Name
  BY <1>1, DeclaresEntry
<1> HIDE DEF u2, m2
<1>5. Len(b) = 1 => e.scope = FileScope
  BY <1>1 DEF FileScope, Scoped
<1>6. \A i \in 1 .. Len(u), k \in 1 .. Len(b) : In(u2, b, i, k) <=> In(u, b, i, k)
  <2> TAKE i \in 1 .. Len(u), k \in 1 .. Len(b)
  <2>1. u2[i] = u[i] /\ i \in DOMAIN u /\ i \in DOMAIN u2
    BY <1>2
  <2> QED
    BY <2>1 DEF In, IsDeclaration
<1>7. \A i \in SameNamed(u, e) : i \in 1 .. Len(u) /\ Declares(u[i]) /\ u[i].name = e.name
  BY <1>2 DEF SameNamed
<1>8. \A i \in Known(u, e) : m[i] = ss[1][e.name]
  BY DEF Known, SameNamed, Denoted
<1>9. e.link # "none" => \A i \in Known(u, e) : m[i] = x
  BY <1>8 DEF Adds, Fits
<1> QED
  BY <1>1, <1>2, <1>3, <1>4, <1>5, <1>6, <1>7, <1>8, <1>9 DEF Grown, u2, m2

LEMMA AddsDenoted ==
    ASSUME NEW u, NEW b, NEW ss, NEW m, NEW no, NEW nf, NEW e, NEW x, NEW ss2, NEW no2, NEW nf2,
           Typed(u, b, ss, m), Scoped(u, b), Denoted(u, b, ss, m),
           Adds(u, b, ss, m, no, nf, e, x, ss2, no2, nf2)
    PROVE  Denoted(Append(u, e), b, ss2, Append(m, x))
<1> DEFINE u2 == Append(u, e)
           m2 == Append(m, x)
           t == Len(b)
           n == e.name
           l == Len(u) + 1
<1>0. Grown(u, b, ss, m, e, x, u2, m2)
  BY AddsFacts
<1> HIDE DEF u2, m2
<1>1. /\ Len(u) \in Nat /\ t \in Nat /\ t >= 1 /\ DOMAIN b = 1 .. t /\ DOMAIN ss = 1 .. t
      /\ DOMAIN u = 1 .. Len(u) /\ DOMAIN u2 = 1 .. l
      /\ \A i \in 1 .. Len(u) : u2[i] = u[i] /\ m2[i] = m[i]
      /\ u2[l] = e /\ m2[l] = x
      /\ Declares(e) /\ e.name \in Name /\ e.scope = <<t, b[t]>>
      /\ t = 1 => e.scope = FileScope
  BY <1>0 DEF Grown
<1>2. \A i \in 1 .. Len(u), k \in 1 .. t : In(u2, b, i, k) <=> In(u, b, i, k)
  BY <1>0 DEF Grown
<1>3. /\ \A i \in Known(u, e) : m[i] = ss[1][n]
      /\ e.link # "none" => \A i \in Known(u, e) : m[i] = x
  BY <1>0 DEF Grown
<1>4. Entered(ss, ss2, e, x, t) /\ x[1] = e.what /\ x[1] # "nothing"
  BY DEF Adds, Fits, DeclarationEntry
<1>5. \A i \in SameNamed(u, e) :
          /\ Agree(u[i], e)
          /\ u[i].scope = FileScope \/ u[i].link # "none" =>
                 (e.scope = FileScope \/ e.link # "none" => u[i].link # "none" /\ e.link # "none")
  BY DEF Adds, Fits
<1>6. ASSUME NEW j \in 1 .. Len(u), NEW k \in 1 .. t, Declares(u[j]), u[j].name # n
      PROVE  ss2[k][u[j].name] = ss[k][u[j].name]
  <2>1. u[j].name \in Name
    BY <1>1, <1>6, EntryIs, DeclaresEntry DEF Typed
  <2> QED
    BY <1>1, <1>4, <1>6, <2>1 DEF Entered
<1>7. \A j \in DOMAIN u2 : m2[j] # Nothing
  BY <1>1, <1>4 DEF Denoted, Nothing
<1>8. ASSUME NEW j \in DOMAIN u2, Declares(u2[j])
      PROVE  m2[j][1] = u2[j].what /\ (u2[j].link # "none" => ss2[1][u2[j].name] = m2[j])
  <2>1. CASE j = l
    BY <1>1, <1>4, <2>1 DEF Entered
  <2>2. CASE j \in 1 .. Len(u)
    <3>1. u2[j] = u[j] /\ m2[j] = m[j] /\ j \in DOMAIN u
      BY <1>1, <2>2
    <3>2. m[j][1] = u[j].what /\ (u[j].link # "none" => ss[1][u[j].name] = m[j])
      BY <1>8, <3>1 DEF Denoted
    <3>3. ASSUME u[j].link # "none" PROVE ss2[1][u[j].name] = m[j]
      <4>1. CASE u[j].name # n
        <5>1. ss2[1][u[j].name] = ss[1][u[j].name]
          BY <1>1, <1>6, <1>8, <2>2, <3>1, <4>1
        <5> QED
          BY <3>2, <3>3, <5>1
      <4>2. CASE u[j].name = n
        <5>1. j \in SameNamed(u, e) /\ j \in Known(u, e)
          BY <1>8, <3>1, <3>3, <4>2 DEF SameNamed, Known
        <5>2. CASE e.link # "none"
          BY <1>3, <1>4, <4>2, <5>1, <5>2 DEF Entered
        <5>3. CASE e.link = "none"
          <6>1. t # 1
            BY <1>1, <1>5, <3>3, <5>1, <5>3
          <6> QED
            BY <1>4, <3>2, <3>3, <4>2, <5>3, <6>1 DEF Entered
        <5> QED
          BY <5>2, <5>3
      <4> QED
        BY <4>1, <4>2
    <3> QED
      BY <3>1, <3>2, <3>3
  <2> QED
    BY <1>1, <2>1, <2>2
<1>9. ASSUME NEW j \in DOMAIN u2, NEW k \in DOMAIN b, In(u2, b, j, k)
      PROVE  IF InItsScope(u2[j], k) THEN ss2[k][u2[j].name] = m2[j]
             ELSE \A q \in 2 .. k : ss2[q][u2[j].name] = Nothing
  <2>1. k \in 1 .. t /\ Declares(u2[j]) /\ u2[j].scope = <<k, b[k]>>
    BY <1>1, <1>9 DEF In, IsDeclaration
  <2>2. CASE j = l
    <3>1. k = t
      BY <1>1, <2>1, <2>2
    <3> QED
      BY <1>1, <1>4, <2>2, <3>1 DEF Entered
  <2>3. CASE j \in 1 .. Len(u)
    <3>1. u2[j] = u[j] /\ m2[j] = m[j] /\ j \in DOMAIN u /\ In(u, b, j, k)
      BY <1>1, <1>2, <1>9, <2>1, <2>3
    <3>2. IF InItsScope(u[j], k) THEN ss[k][u[j].name] = m[j]
          ELSE \A q \in 2 .. k : ss[q][u[j].name] = Nothing
      BY <1>1, <2>1, <3>1 DEF Denoted
    <3>3. CASE u[j].name # n
      <4>1. \A q \in 1 .. k : ss2[q][u[j].name] = ss[q][u[j].name]
        BY <1>1, <1>6, <2>1, <2>3, <3>1, <3>3
      <4> QED
        BY <2>1, <3>1, <3>2, <4>1
    <3>4. CASE u[j].name = n
      <4>1. j \in SameNamed(u, e)
        BY <2>1, <3>1, <3>4 DEF SameNamed
      <4>2. CASE k = t
        <5>1. u[j].link # "none" /\ e.link # "none" /\ u[j].what = e.what
          BY <1>1, <1>5, <2>1, <3>1, <4>1, <4>2 DEF Agree, Linked
        <5>2. m[j] = x
          BY <1>3, <4>1, <5>1 DEF Known
        <5> QED
          BY <1>4, <3>1, <3>4, <4>2, <5>1, <5>2 DEF Entered, InItsScope
      <4>3. CASE k # t /\ k # 1
        <5>1. \A q \in 2 .. k : ss2[q][n] = ss[q][n]
          BY <1>1, <1>4, <2>1, <4>3 DEF Entered
        <5> QED
          BY <2>1, <3>1, <3>2, <3>4, <4>3, <5>1
      <4>4. CASE k # t /\ k = 1
        <5>1. u[j].scope = FileScope /\ InItsScope(u[j], k) /\ t # 1
          BY <2>1, <3>1, <4>4 DEF FileScope, Scoped, InItsScope
        <5>2. CASE e.link = "none"
          BY <1>4, <3>1, <3>2, <3>4, <4>4, <5>1, <5>2 DEF Entered
        <5>3. CASE e.link # "none"
          <6>1. u[j].link # "none"
            BY <1>5, <4>1, <5>1, <5>3
          <6>2. m[j] = x
            BY <1>3, <4>1, <5>3, <6>1 DEF Known
          <6> QED
            BY <1>4, <3>1, <3>4, <4>4, <5>1, <5>3, <6>2 DEF Entered
        <5> QED
          BY <5>2, <5>3
      <4> QED
        BY <4>2, <4>3, <4>4
    <3> QED
      BY <3>3, <3>4
  <2> QED
    BY <1>1, <2>2, <2>3
<1>10. ASSUME NEW k \in DOMAIN b, NEW a \in Name, ss2[k][a] # Nothing
       PROVE  \E j \in DOMAIN u2 :
                  /\ Declares(u2[j]) /\ u2[j].name = a /\ m2[j] = ss2[k][a]
                  /\ \/ In(u2, b, j, k) /\ InItsScope(u2[j], k)
                     \/ k = 1 /\ u2[j].link # "none"
  <2>1. CASE ss2[k][a] = ss[k][a]
    <3>1. PICK j \in DOMAIN u :
                  /\ Declares(u[j]) /\ u[j].name = a /\ m[j] = ss[k][a]
                  /\ \/ In(u, b, j, k) /\ InItsScope(u[j], k)
                     \/ k = 1 /\ u[j].link # "none"
      BY <1>10, <2>1 DEF Denoted
    <3>2. j \in DOMAIN u2 /\ u2[j] = u[j] /\ m2[j] = m[j]
      BY <1>1
    <3>3. In(u, b, j, k) => In(u2, b, j, k)
      BY <1>1, <1>2
    <3> QED
      BY <2>1, <3>1, <3>2, <3>3
  <2>2. CASE ss2[k][a] # ss[k][a]
    <3>1. a = n /\ k \in {1, t}
      BY <1>1, <1>4, <2>2 DEF Entered
    <3>2. l \in DOMAIN u2 /\ u2[l] = e /\ m2[l] = x /\ Declares(e)
      BY <1>1
    <3>3. In(u2, b, l, t)
      BY <1>1, <3>2 DEF In, IsDeclaration
    <3>4. CASE k = t
      <4>1. InItsScope(e, t)
        BY <1>1, <1>4, <1>10, <3>1, <3>4 DEF Entered, InItsScope
      <4>2. ss2[k][a] = x
        BY <1>4, <3>1, <3>4, <4>1 DEF Entered
      <4> QED
        BY <3>1, <3>2, <3>3, <3>4, <4>1, <4>2
    <3>5. CASE k # t /\ k = 1
      <4>1. e.link # "none"
        BY <1>4, <2>2, <3>1, <3>5 DEF Entered
      <4>2. ss2[k][a] = x
        BY <1>4, <3>1, <3>5, <4>1 DEF Entered
      <4> QED
        BY <3>1, <3>2, <3>5, <4>1, <4>2
    <3> QED
      BY <3>1, <3>4, <3>5
  <2> QED
    BY <2>1, <2>2
<1> QED
  BY <1>7, <1>8, <1>9, <1>10 DEF Denoted, u2, m2


(* What an entity is known by: the first declaration with its name that has*)
(* linkage, or the one declaration.                                        *)
LEMMA EntityOf ==
    ASSUME NEW u \in Seq(Entry), Linkages(u), NEW j \in DOMAIN u
    PROVE  \E i \in DOMAIN u : Declares(u[i]) /\ i <= j /\ u[j].entity = u[i].entity
                               /\ u[i].entity = EntityAt(u[i], i)
<1>1. DOMAIN u = 1 .. Len(u) /\ Len(u) \in Nat
  OBVIOUS
<1>2. CASE Declares(u[j])
  BY <1>1, <1>2 DEF Linkages
<1>3. CASE ~Declares(u[j])
  <2>1. PICK i \in 1 .. j - 1 : Declares(u[i]) /\ u[j].entity = u[i].entity
    BY <1>3 DEF Linkages
  <2>2. i \in DOMAIN u /\ i <= j
    BY <1>1, <2>1
  <2> QED
    BY <2>1, <2>2 DEF Linkages
<1> QED
  BY <1>2, <1>3

LEMMA AddsTold ==
    ASSUME NEW u, NEW b, NEW ss, NEW m, NEW no, NEW nf, NEW e, NEW x, NEW ss2, NEW no2, NEW nf2,
           Typed(u, b, ss, m), Scoped(u, b), Denoted(u, b, ss, m), Linkages(u), Told(u, m),
           Adds(u, b, ss, m, no, nf, e, x, ss2, no2, nf2)
    PROVE  Told(Append(u, e), Append(m, x))
<1> DEFINE u2 == Append(u, e)
           m2 == Append(m, x)
           l == Len(u) + 1
<1>0. Grown(u, b, ss, m, e, x, u2, m2)
  BY AddsFacts
<1> HIDE DEF u2, m2
<1>1. /\ Len(u) \in Nat /\ DOMAIN u = 1 .. Len(u) /\ DOMAIN u2 = 1 .. l
      /\ \A i \in 1 .. Len(u) : u2[i] = u[i] /\ m2[i] = m[i]
      /\ u2[l] = e /\ m2[l] = x
  BY <1>0 DEF Grown
<1>2. ASSUME NEW j \in 1 .. Len(u) PROVE (x = m[j]) = (e.entity = u[j].entity)
  <2>1. PICK i \in DOMAIN u : Declares(u[i]) /\ i <= j /\ u[j].entity = u[i].entity
                              /\ u[i].entity = EntityAt(u[i], i)
    BY <1>1, EntityOf DEF Typed
  <2>2. e.entity = EntityAt(e, l)
    BY DEF Adds, Fits
  <2>3. CASE \E q \in Known(u, e) : e.link # "none" /\ x = m[q]
    <3>1. PICK q \in Known(u, e) : e.link # "none" /\ x = m[q]
      BY <2>3
    <3>2. q \in DOMAIN u /\ Declares(u[q]) /\ u[q].link # "none" /\ u[q].name = e.name
      BY <3>1 DEF Known, SameNamed
    <3>3. u[q].entity = EntityAt(u[q], q)
      BY <3>2 DEF Linkages
    <3>4. u[q].entity = e.entity
      BY <2>2, <3>1, <3>2, <3>3 DEF EntityAt
    <3> QED
      BY <1>1, <3>1, <3>2, <3>4 DEF Told
  <2>4. CASE (e.link = "none" \/ Known(u, e) = {}) /\ \A q \in DOMAIN u : m[q] # x
    <3>1. x # m[j]
      BY <1>1, <2>4
    <3>2. CASE e.link = "none"
      BY <1>1, <2>1, <2>2, <3>1, <3>2 DEF EntityAt
    <3>3. CASE e.link # "none" /\ Known(u, e) = {}
      <4>1. ASSUME e.entity = u[j].entity PROVE FALSE
        <5>1. u[i].name = e.name /\ u[i].link # "none"
          BY <1>1, <2>1, <2>2, <3>3, <4>1 DEF EntityAt
        <5> QED
          BY <2>1, <3>3, <5>1 DEF Known, SameNamed
      <4> QED
        BY <3>1, <4>1
    <3> QED
      BY <2>4, <3>2, <3>3
  <2> QED
    BY <2>3, <2>4 DEF Adds, Fits
<1>3. ASSUME NEW i \in DOMAIN u2, NEW j \in DOMAIN u2
      PROVE  (m2[i] = m2[j]) = (u2[i].entity = u2[j].entity)
  <2>1. CASE i = l /\ j = l
    BY <2>1
  <2>2. CASE i = l /\ j \in 1 .. Len(u)
    BY <1>1, <1>2, <2>2
  <2>3. CASE i \in 1 .. Len(u) /\ j = l
    BY <1>1, <1>2, <2>3
  <2>4. CASE i \in 1 .. Len(u) /\ j \in 1 .. Len(u)
    BY <1>1, <2>4 DEF Told
  <2> QED
    BY <1>1, <2>1, <2>2, <2>3, <2>4
<1> QED
  BY <1>3 DEF Told, u2, m2

LEMMA AddsGood ==
    ASSUME NEW u, NEW b, NEW ss, NEW m, NEW no, NEW nf, NEW e, NEW x, NEW ss2, NEW no2, NEW nf2,
           Good(u, b, ss, m, no, nf), Adds(u, b, ss, m, no, nf, e, x, ss2, no2, nf2)
    PROVE  Good(Append(u, e), b, ss2, Append(m, x), no2, nf2)
<1> DEFINE u2 == Append(u, e)
           m2 == Append(m, x)
<1>1. /\ Typed(u, b, ss, m) /\ Scoped(u, b) /\ Linkages(u) /\ Allowed(u)
      /\ Denoted(u, b, ss, m) /\ Told(u, m) /\ Numbered(u, m, no, nf)
  BY DEF Good
<1>2. Typed(u2, b, ss2, m2)
  <2>1. e \in Entry /\ x \in Denotation /\ ss2 \in Seq([Name -> Denotation]) /\ Len(ss2) = Len(ss)
    BY DeclaresEntry DEF Adds, Fits, Entered
  <2> QED
    BY <1>1, <2>1, UnitGrows DEF Typed
<1>3. Numbered(u2, m2, no2, nf2)
  <2>1. Grown(u, b, ss, m, e, x, u2, m2)
    BY <1>1, AddsFacts
  <2> HIDE DEF u2, m2
  <2>2. /\ Len(u) \in Nat /\ DOMAIN u = 1 .. Len(u) /\ DOMAIN u2 = 1 .. Len(u) + 1
        /\ \A i \in 1 .. Len(u) : m2[i] = m[i]
        /\ m2[Len(u) + 1] = x
    BY <2>1 DEF Grown
  <2>3. Len(u2) = Len(u) + 1
    BY <1>1, DeclaresEntry, UnitGrows DEF Adds, Fits, Typed, u2
  <2>4. /\ no2 \in Nat /\ no <= no2 /\ nf2 \in Nat /\ nf <= nf2
        /\ x[1] = "object" => x[2] \in 1 .. no2
        /\ x[1] = "function" => x[2] \in 1 .. nf2
        /\ x[1] \in {"constant", "typedef"} => x[2] \in 1 .. Len(u) + 1
    BY DEF Adds, Fits
  <2>5. ASSUME NEW j \in DOMAIN u2
        PROVE  /\ m2[j][1] = "object" => m2[j][2] \in 1 .. no2
               /\ m2[j][1] = "function" => m2[j][2] \in 1 .. nf2
               /\ m2[j][1] \in {"constant", "typedef"} => m2[j][2] \in 1 .. Len(u2)
    <3>1. CASE j = Len(u) + 1
      BY <2>2, <2>3, <2>4, <3>1
    <3>2. CASE j \in 1 .. Len(u)
      <4>1. m2[j] = m[j] /\ j \in DOMAIN u
        BY <2>2, <3>2
      <4> QED
        BY <1>1, <2>2, <2>3, <2>4, <4>1 DEF Numbered
    <3> QED
      BY <2>2, <3>1, <3>2
  <2> QED
    BY <2>4, <2>5 DEF Numbered
<1> QED
  BY <1>1, <1>2, <1>3, AddsScoped, AddsLinkages, AddsAllowed, AddsDenoted, AddsTold DEF Good

-----------------------------------------------------------------------------
(* One more use e of what the declaration v gave a meaning.                *)

LEMMA UseGood ==
    ASSUME NEW u, NEW b, NEW ss, NEW m, NEW no, NEW nf, NEW e \in UseEntry, NEW v,
           Good(u, b, ss, m, no, nf), IsDeclaration(u, v), e.entity = u[v].entity
    PROVE  Good(Append(u, e), b, ss, Append(m, m[v]), no, nf)
<1> DEFINE u2 == Append(u, e)
           m2 == Append(m, m[v])
           l == Len(u) + 1
<1>1. /\ Typed(u, b, ss, m) /\ Scoped(u, b) /\ Linkages(u) /\ Allowed(u)
      /\ Denoted(u, b, ss, m) /\ Told(u, m) /\ Numbered(u, m, no, nf)
  BY DEF Good
<1>2. e \in Entry /\ ~Declares(e)
  BY UsesEntry
<1>3. v \in DOMAIN u /\ v \in DOMAIN m /\ Declares(u[v]) /\ m[v] \in Denotation
  BY <1>1 DEF IsDeclaration, Typed
<1>4. Typed(u2, b, ss, m2)
  BY <1>1, <1>2, <1>3, UnitGrows DEF Typed
<1>5. /\ Len(u) \in Nat /\ Len(u2) = l
      /\ DOMAIN u = 1 .. Len(u) /\ DOMAIN u2 = 1 .. l
      /\ \A i \in 1 .. Len(u) : u2[i] = u[i] /\ m2[i] = m[i]
      /\ u2[l] = e /\ m2[l] = m[v]
  BY <1>1, <1>2, <1>3, UnitGrows DEF Typed
<1>6. DOMAIN b = 1 .. Len(b) /\ Len(b) \in Nat /\ \A k \in 1 .. Len(b) : b[k] \in Int
  BY <1>1 DEF Typed
<1> HIDE DEF u2, m2
<1>7. ASSUME NEW j \in DOMAIN u2, Declares(u2[j])
      PROVE  j \in 1 .. Len(u) /\ j \in DOMAIN u /\ u2[j] = u[j] /\ m2[j] = m[j]
  BY <1>2, <1>5, <1>7
<1>8. ASSUME NEW j \in DOMAIN u2, NEW k \in DOMAIN b, In(u2, b, j, k)
      PROVE  In(u, b, j, k) /\ j \in DOMAIN u
  BY <1>7, <1>8 DEF In, IsDeclaration
<1>9. Scoped(u2, b)
  <2>1. \A k \in 2 .. Len(b) : b[k] # 0 /\ -(Len(u2) + 1) <= b[k] /\ b[k] <= Len(u2) + 1
    BY <1>1, <1>5, <1>6 DEF Scoped
  <2>2. \A j \in DOMAIN u2 : Declares(u2[j]) =>
            /\ -j <= u2[j].scope[2] /\ u2[j].scope[2] <= j
            /\ u2[j].scope[1] = 1 => u2[j].scope = FileScope
    BY <1>1, <1>7 DEF Scoped
  <2>3. \A i, j \in DOMAIN u2, k, q \in DOMAIN b : In(u2, b, j, k) /\ In(u2, b, i, q) /\ k < q => j < i
    BY <1>1, <1>8 DEF Scoped
  <2>4. b[1] = 0 /\ (Len(b) >= 2 => b[2] \in DOMAIN u2)
    BY <1>1, <1>5 DEF Scoped
  <2> QED
    BY <1>1, <2>1, <2>2, <2>3, <2>4 DEF Scoped
<1>10. Linkages(u2)
  <2>1. ASSUME NEW j \in DOMAIN u2
        PROVE  IF Declares(u2[j])
               THEN (u2[j].link = "none" <=> Local(u2[j])) /\ u2[j].entity = EntityAt(u2[j], j)
               ELSE \E i \in 1 .. j - 1 : Declares(u2[i]) /\ u2[j].entity = u2[i].entity
    <3>1. CASE j = l
      <4>1. v \in 1 .. j - 1 /\ u2[v] = u[v]
        BY <1>3, <1>5, <3>1
      <4> QED
        BY <1>2, <1>3, <1>5, <3>1, <4>1
    <3>2. CASE j \in 1 .. Len(u)
      <4>1. \A i \in 1 .. j - 1 : u2[i] = u[i]
        BY <1>5, <3>2
      <4>2. u2[j] = u[j] /\ j \in DOMAIN u
        BY <1>5, <3>2
      <4> QED
        BY <1>1, <4>1, <4>2 DEF Linkages
    <3> QED
      BY <1>5, <3>1, <3>2
  <2> QED
    BY <2>1 DEF Linkages
<1>11. Allowed(u2)
  BY <1>1, <1>7 DEF Allowed
<1>12. Denoted(u2, b, ss, m2)
  <2>1. \A j \in DOMAIN u2 : m2[j] # Nothing
    BY <1>1, <1>3, <1>5 DEF Denoted
  <2>2. \A j \in DOMAIN u2 : Declares(u2[j]) =>
            m2[j][1] = u2[j].what /\ (u2[j].link # "none" => ss[1][u2[j].name] = m2[j])
    BY <1>1, <1>7 DEF Denoted
  <2>3. ASSUME NEW j \in DOMAIN u2, NEW k \in DOMAIN b, In(u2, b, j, k)
        PROVE  IF InItsScope(u2[j], k) THEN ss[k][u2[j].name] = m2[j]
               ELSE \A q \in 2 .. k : ss[q][u2[j].name] = Nothing
    <3>1. In(u, b, j, k) /\ j \in DOMAIN u
      BY <1>8, <2>3
    <3>2. u2[j] = u[j] /\ m2[j] = m[j]
      BY <1>5, <3>1
    <3> QED
      BY <1>1, <3>1, <3>2 DEF Denoted
  <2>4. ASSUME NEW k \in DOMAIN b, NEW a \in Name, ss[k][a] # Nothing
        PROVE  \E j \in DOMAIN u2 :
                   /\ Declares(u2[j]) /\ u2[j].name = a /\ m2[j] = ss[k][a]
                   /\ \/ In(u2, b, j, k) /\ InItsScope(u2[j], k)
                      \/ k = 1 /\ u2[j].link # "none"
    <3>1. PICK j \in DOMAIN u :
                  /\ Declares(u[j]) /\ u[j].name = a /\ m[j] = ss[k][a]
                  /\ \/ In(u, b, j, k) /\ InItsScope(u[j], k)
                     \/ k = 1 /\ u[j].link # "none"
      BY <1>1, <2>4 DEF Denoted
    <3>2. j \in DOMAIN u2 /\ u2[j] = u[j] /\ m2[j] = m[j]
      BY <1>5
    <3>3. In(u, b, j, k) => In(u2, b, j, k)
      BY <3>2 DEF In, IsDeclaration
    <3> QED
      BY <3>1, <3>2, <3>3
  <2> QED
    BY <2>1, <2>2, <2>3, <2>4 DEF Denoted
<1>13. Told(u2, m2)
  <2>1. ASSUME NEW i \in DOMAIN u2
        PROVE  \E q \in DOMAIN u : m2[i] = m[q] /\ u2[i].entity = u[q].entity
    <3>1. CASE i = l
      BY <1>3, <1>5, <3>1
    <3>2. CASE i \in DOMAIN u
      BY <1>5, <3>2
    <3> QED
      BY <1>5, <3>1, <3>2
  <2>2. ASSUME NEW i \in DOMAIN u2, NEW j \in DOMAIN u2
        PROVE  (m2[i] = m2[j]) = (u2[i].entity = u2[j].entity)
    <3>1. PICK q \in DOMAIN u : m2[i] = m[q] /\ u2[i].entity = u[q].entity
      BY <2>1
    <3>2. PICK r \in DOMAIN u : m2[j] = m[r] /\ u2[j].entity = u[r].entity
      BY <2>1
    <3> QED
      BY <1>1, <3>1, <3>2 DEF Told
  <2> QED
    BY <2>2 DEF Told
<1>14. Numbered(u2, m2, no, nf)
  <2>1. ASSUME NEW i \in DOMAIN u2 PROVE \E q \in DOMAIN u : m2[i] = m[q]
    <3>1. CASE i = l
      BY <1>3, <1>5, <3>1
    <3>2. CASE i \in DOMAIN u
      BY <1>5, <3>2
    <3> QED
      BY <1>5, <3>1, <3>2
  <2>2. ASSUME NEW i \in DOMAIN u2
        PROVE  /\ m2[i][1] = "object" => m2[i][2] \in 1 .. no
               /\ m2[i][1] = "function" => m2[i][2] \in 1 .. nf
               /\ m2[i][1] \in {"constant", "typedef"} => m2[i][2] \in 1 .. Len(u2)
    <3>1. PICK q \in DOMAIN u : m2[i] = m[q]
      BY <2>1
    <3> QED
      BY <1>1, <1>5, <3>1 DEF Numbered
  <2> QED
    BY <1>1, <2>2 DEF Numbered
<1> QED
  BY <1>4, <1>9, <1>10, <1>11, <1>12, <1>13, <1>14 DEF Good, u2, m2


-----------------------------------------------------------------------------
(* Scopes that are opened and closed.                                      *)

LEMMA EmptyIs ==
    /\ EmptyScope \in [Name -> Denotation]
    /\ \A n \in Name : EmptyScope[n] = Nothing
BY DEF EmptyScope, Nothing, Denotation

(* The scope opened is one in which nothing has been declared.             *)
LEMMA PushGood ==
    ASSUME NEW u, NEW b, NEW ss, NEW m, NEW no, NEW nf, NEW z \in Int,
           Good(u, b, ss, m, no, nf),
           z # 0, -(Len(u) + 1) <= z, z <= Len(u) + 1, Len(b) = 1 => z \in DOMAIN u,
           \A j \in DOMAIN u : Declares(u[j]) => u[j].scope # <<Len(b) + 1, z>>
    PROVE  Good(u, Append(b, z), Append(ss, EmptyScope), m, no, nf)
<1> DEFINE b2 == Append(b, z)
           s2 == Append(ss, EmptyScope)
           t == Len(b)
<1>1. /\ Typed(u, b, ss, m) /\ Scoped(u, b) /\ Linkages(u) /\ Allowed(u)
      /\ Denoted(u, b, ss, m) /\ Told(u, m) /\ Numbered(u, m, no, nf)
  BY DEF Good
<1>2. /\ b2 \in Seq(Int) /\ t \in Nat /\ t >= 1 /\ Len(b2) = t + 1
      /\ DOMAIN b = 1 .. t /\ DOMAIN b2 = 1 .. t + 1
      /\ \A k \in 1 .. t : b2[k] = b[k]
      /\ b2[t + 1] = z
  BY <1>1, Appended DEF Typed
<1>3. /\ s2 \in Seq([Name -> Denotation]) /\ Len(s2) = t + 1
      /\ \A k \in 1 .. t : s2[k] = ss[k]
      /\ s2[t + 1] = EmptyScope
  <2>1. ss \in Seq([Name -> Denotation]) /\ Len(ss) = t
    BY <1>1 DEF Typed
  <2>2. EmptyScope \in [Name -> Denotation]
    BY EmptyIs
  <2> QED
    BY <2>1, <2>2, Appended
<1>4. DOMAIN u = 1 .. Len(u) /\ Len(u) \in Nat
  BY <1>1 DEF Typed
<1> HIDE DEF b2, s2
<1>5. ASSUME NEW j \in DOMAIN u, NEW k \in DOMAIN b2, In(u, b2, j, k)
      PROVE  k \in 1 .. t /\ k \in DOMAIN b /\ In(u, b, j, k)
  <2>1. Declares(u[j]) /\ u[j].scope = <<k, b2[k]>>
    BY <1>5 DEF In, IsDeclaration
  <2>2. k # t + 1
    BY <1>2, <2>1
  <2>3. k \in 1 .. t
    BY <1>2, <2>2
  <2> QED
    BY <1>2, <2>1, <2>3 DEF In, IsDeclaration
<1>6. ASSUME NEW j \in DOMAIN u, NEW k \in DOMAIN b, In(u, b, j, k)
      PROVE  k \in DOMAIN b2 /\ In(u, b2, j, k)
  BY <1>2, <1>6 DEF In, IsDeclaration
<1>7. Typed(u, b2, s2, m)
  BY <1>1, <1>2, <1>3 DEF Typed
<1>8. Scoped(u, b2)
  <2>1. b2[1] = 0 /\ (Len(b2) >= 2 => b2[2] \in DOMAIN u)
    BY <1>1, <1>2 DEF Scoped
  <2>2. ASSUME NEW k \in 2 .. Len(b2)
        PROVE  b2[k] # 0 /\ -(Len(u) + 1) <= b2[k] /\ b2[k] <= Len(u) + 1
    <3>1. CASE k = t + 1
      BY <1>2, <3>1
    <3>2. CASE k \in 2 .. t
      <4>1. \A q \in 2 .. t : b[q] # 0 /\ -(Len(u) + 1) <= b[q] /\ b[q] <= Len(u) + 1
        BY <1>1, <1>2 DEF Scoped
      <4>2. b2[k] = b[k]
        BY <1>2, <3>2
      <4> QED
        BY <3>2, <4>1, <4>2
    <3> QED
      BY <1>2, <3>1, <3>2
  <2>3. \A i, j \in DOMAIN u, k, q \in DOMAIN b2 : In(u, b2, j, k) /\ In(u, b2, i, q) /\ k < q => j < i
    BY <1>1, <1>5 DEF Scoped
  <2> QED
    BY <1>1, <2>1, <2>2, <2>3 DEF Scoped
<1>9. Denoted(u, b2, s2, m)
  <2>1. \A j \in DOMAIN u : Declares(u[j]) =>
            m[j][1] = u[j].what /\ (u[j].link # "none" => s2[1][u[j].name] = m[j])
    <3>1. \A j \in DOMAIN u : Declares(u[j]) =>
              m[j][1] = u[j].what /\ (u[j].link # "none" => ss[1][u[j].name] = m[j])
      BY <1>1 DEF Denoted
    <3>2. s2[1] = ss[1]
      BY <1>1, <1>2, <1>3
    <3> QED
      BY <3>1, <3>2
  <2>2. ASSUME NEW j \in DOMAIN u, NEW k \in DOMAIN b2, In(u, b2, j, k)
        PROVE  IF InItsScope(u[j], k) THEN s2[k][u[j].name] = m[j]
               ELSE \A q \in 2 .. k : s2[q][u[j].name] = Nothing
    <3>1. k \in 1 .. t /\ k \in DOMAIN b /\ In(u, b, j, k)
      BY <1>5, <2>2
    <3>2. \A q \in 1 .. k : s2[q] = ss[q]
      BY <1>2, <1>3, <3>1
    <3> QED
      BY <1>1, <3>1, <3>2 DEF Denoted
  <2>3. ASSUME NEW k \in DOMAIN b2, NEW a \in Name, s2[k][a] # Nothing
        PROVE  \E j \in DOMAIN u :
                   /\ Declares(u[j]) /\ u[j].name = a /\ m[j] = s2[k][a]
                   /\ \/ In(u, b2, j, k) /\ InItsScope(u[j], k)
                      \/ k = 1 /\ u[j].link # "none"
    <3>1. k \in DOMAIN b /\ s2[k] = ss[k]
      BY <1>2, <1>3, <2>3, EmptyIs
    <3>2. PICK j \in DOMAIN u :
                  /\ Declares(u[j]) /\ u[j].name = a /\ m[j] = ss[k][a]
                  /\ \/ In(u, b, j, k) /\ InItsScope(u[j], k)
                     \/ k = 1 /\ u[j].link # "none"
      BY <1>1, <2>3, <3>1 DEF Denoted
    <3> QED
      BY <1>6, <3>1, <3>2
  <2> QED
    BY <1>1, <2>1, <2>2, <2>3 DEF Denoted
<1> QED
  BY <1>1, <1>7, <1>8, <1>9 DEF Good, b2, s2

LEMMA PopGood ==
    ASSUME NEW u, NEW b, NEW ss, NEW m, NEW no, NEW nf,
           Good(u, b, ss, m, no, nf), Len(b) >= 2
    PROVE  Good(u, Front(b), Front(ss), m, no, nf)
<1> DEFINE b2 == Front(b)
           s2 == Front(ss)
           t == Len(b)
<1>1. /\ Typed(u, b, ss, m) /\ Scoped(u, b) /\ Linkages(u) /\ Allowed(u)
      /\ Denoted(u, b, ss, m) /\ Told(u, m) /\ Numbered(u, m, no, nf)
  BY DEF Good
<1>2. /\ b2 \in Seq(Int) /\ t \in Nat /\ t >= 2 /\ Len(b2) = t - 1
      /\ DOMAIN b = 1 .. t /\ DOMAIN b2 = 1 .. t - 1
      /\ \A k \in 1 .. t - 1 : b2[k] = b[k]
  BY <1>1, Fronted DEF Typed
<1>3. /\ s2 \in Seq([Name -> Denotation]) /\ Len(s2) = t - 1
      /\ \A k \in 1 .. t - 1 : s2[k] = ss[k]
  <2>1. ss \in Seq([Name -> Denotation]) /\ Len(ss) = t /\ Len(ss) >= 1
    BY <1>1, <1>2 DEF Typed
  <2> QED
    BY <2>1, Fronted
<1> HIDE DEF b2, s2
<1>4. ASSUME NEW j \in DOMAIN u, NEW k \in DOMAIN b2
      PROVE  k \in 1 .. t - 1 /\ k \in DOMAIN b /\ (In(u, b2, j, k) <=> In(u, b, j, k))
  BY <1>2 DEF In, IsDeclaration
<1>5. Typed(u, b2, s2, m)
  BY <1>1, <1>2, <1>3 DEF Typed
<1>6. Scoped(u, b2)
  <2>1. b2[1] = 0 /\ (Len(b2) >= 2 => b2[2] \in DOMAIN u)
    BY <1>1, <1>2 DEF Scoped
  <2>2. ASSUME NEW k \in 2 .. Len(b2)
        PROVE  b2[k] # 0 /\ -(Len(u) + 1) <= b2[k] /\ b2[k] <= Len(u) + 1
    <3>1. k \in 2 .. Len(b) /\ b2[k] = b[k]
      BY <1>2
    <3> QED
      BY <1>1, <3>1 DEF Scoped
  <2>3. \A i, j \in DOMAIN u, k, q \in DOMAIN b2 : In(u, b2, j, k) /\ In(u, b2, i, q) /\ k < q => j < i
    BY <1>1, <1>4 DEF Scoped
  <2> QED
    BY <1>1, <2>1, <2>2, <2>3 DEF Scoped
<1>7. Denoted(u, b2, s2, m)
  <2>1. \A j \in DOMAIN u : Declares(u[j]) =>
            m[j][1] = u[j].what /\ (u[j].link # "none" => s2[1][u[j].name] = m[j])
    BY <1>1, <1>2, <1>3 DEF Denoted
  <2>2. ASSUME NEW j \in DOMAIN u, NEW k \in DOMAIN b2, In(u, b2, j, k)
        PROVE  IF InItsScope(u[j], k) THEN s2[k][u[j].name] = m[j]
               ELSE \A q \in 2 .. k : s2[q][u[j].name] = Nothing
    <3>1. k \in 1 .. t - 1 /\ k \in DOMAIN b /\ In(u, b, j, k)
      BY <1>4, <2>2
    <3>2. \A q \in 1 .. k : s2[q] = ss[q]
      BY <1>2, <1>3, <3>1
    <3> QED
      BY <1>1, <3>1, <3>2 DEF Denoted
  <2>3. ASSUME NEW k \in DOMAIN b2, NEW a \in Name, s2[k][a] # Nothing
        PROVE  \E j \in DOMAIN u :
                   /\ Declares(u[j]) /\ u[j].name = a /\ m[j] = s2[k][a]
                   /\ \/ In(u, b2, j, k) /\ InItsScope(u[j], k)
                      \/ k = 1 /\ u[j].link # "none"
    <3>1. k \in DOMAIN b /\ s2[k] = ss[k]
      BY <1>2, <1>3
    <3>2. PICK j \in DOMAIN u :
                  /\ Declares(u[j]) /\ u[j].name = a /\ m[j] = ss[k][a]
                  /\ \/ In(u, b, j, k) /\ InItsScope(u[j], k)
                     \/ k = 1 /\ u[j].link # "none"
      BY <1>1, <2>3, <3>1 DEF Denoted
    <3> QED
      BY <1>4, <3>1, <3>2
  <2> QED
    BY <1>1, <2>1, <2>2, <2>3 DEF Denoted
<1> QED
  BY <1>1, <1>5, <1>6, <1>7 DEF Good, b2, s2

-----------------------------------------------------------------------------
(* What is visible in C is what a lookup in sema's scopes finds.           *)

LEMMA LookupFinds ==
    ASSUME NEW ss, NEW n, NEW t \in Nat, DOMAIN ss = 1 .. t, NEW k \in 1 .. t, ss[k][n] # Nothing,
           \A q \in 1 .. t : k < q => ss[q][n] = Nothing
    PROVE  Lookup(ss, n) = ss[k][n]
<1> DEFINE in == {q \in DOMAIN ss : ss[q][n] # Nothing}
<1>1. in \in SUBSET (0 .. t) /\ in # {} /\ k \in in /\ \A q \in in : q <= k /\ q \in 1 .. t
  OBVIOUS
<1> HIDE DEF in
<1>2. Max(in) \in in /\ Max(in) \in 0 .. t /\ \A q \in in : q <= Max(in)
  BY <1>1, Greatest
<1>3. k <= Max(in) /\ Max(in) <= k
  BY <1>1, <1>2
<1>4. Max(in) = k
  BY <1>2, <1>3
<1> QED
  BY <1>1, <1>4 DEF Lookup, in

LEMMA VisibleIs ==
    ASSUME NEW u \in Seq(Entry), NEW n
    PROVE  LET v == Visible(u, n)
           IN  /\ v \in 0 .. Len(u)
               /\ v # 0 => \E k \in DOMAIN blocks : In(u, blocks, v, k) /\ u[v].name = n
               /\ \A j \in DOMAIN u, k \in DOMAIN blocks : In(u, blocks, j, k) /\ u[j].name = n => j <= v
<1> DEFINE S == {j \in DOMAIN u : /\ Declares(u[j]) /\ u[j].name = n
                                  /\ \E k \in DOMAIN blocks : u[j].scope = <<k, blocks[k]>>}
<1>1. Len(u) \in Nat /\ DOMAIN u = 1 .. Len(u)
  OBVIOUS
<1>2. {0} \cup S \in SUBSET (0 .. Len(u)) /\ {0} \cup S # {}
  BY <1>1
<1>3. Visible(u, n) = Max({0} \cup S)
  BY DEF Visible
<1>4. \A j \in S : j \in DOMAIN u /\ u[j].name = n /\ \E k \in DOMAIN blocks : In(u, blocks, j, k)
  BY DEF In, IsDeclaration
<1>5. \A j \in DOMAIN u, k \in DOMAIN blocks : In(u, blocks, j, k) /\ u[j].name = n => j \in S
  BY DEF In, IsDeclaration
<1> HIDE DEF S
<1>6. /\ Max({0} \cup S) \in {0} \cup S /\ Max({0} \cup S) \in 0 .. Len(u)
      /\ \A k \in {0} \cup S : k <= Max({0} \cup S)
  BY <1>1, <1>2, Greatest
<1> QED
  BY <1>3, <1>4, <1>5, <1>6

LEMMA LookupVisible ==
    ASSUME NEW u, NEW ss, NEW m, NEW no, NEW nf, NEW n \in Name,
           Good(u, blocks, ss, m, no, nf), Visible(u, n) # 0
    PROVE  LET v == Visible(u, n)
           IN  /\ IsDeclaration(u, v) /\ u[v].name = n
               /\ \E k \in DOMAIN blocks : In(u, blocks, v, k)
               /\ Lookup(ss, n) = m[v] /\ m[v] # Nothing
<1> DEFINE v == Visible(u, n)
           t == Len(blocks)
<1>1. /\ Typed(u, blocks, ss, m) /\ Scoped(u, blocks) /\ Linkages(u) /\ Denoted(u, blocks, ss, m)
  BY DEF Good
<1>2. /\ t \in Nat /\ DOMAIN blocks = 1 .. t /\ DOMAIN ss = 1 .. t
      /\ u \in Seq(Entry) /\ DOMAIN u = 1 .. Len(u) /\ Len(u) \in Nat
  BY <1>1 DEF Typed
<1>3. PICK k \in DOMAIN blocks : In(u, blocks, v, k) /\ u[v].name = n
  BY <1>2, VisibleIs
<1>4. \A j \in DOMAIN u, q \in DOMAIN blocks : In(u, blocks, j, q) /\ u[j].name = n => j <= v
  BY <1>2, VisibleIs
<1> HIDE DEF v, t
<1>5. v \in DOMAIN u /\ IsDeclaration(u, v) /\ Declares(u[v])
  BY <1>3 DEF In, IsDeclaration
<1>6. m[v] # Nothing
  BY <1>1, <1>5 DEF Denoted
<1>7. ASSUME NEW q \in 1 .. t, k < q PROVE ss[q][n] = Nothing
  <2>1. SUFFICES ASSUME ss[q][n] # Nothing PROVE FALSE
    OBVIOUS
  <2>2. q # 1 /\ q \in DOMAIN blocks
    BY <1>2, <1>3, <1>7
  <2>3. PICK j \in DOMAIN u : u[j].name = n /\ In(u, blocks, j, q)
    BY <1>1, <2>1, <2>2 DEF Denoted
  <2>4. v < j
    BY <1>1, <1>3, <1>5, <1>7, <2>2, <2>3 DEF Scoped
  <2> QED
    BY <1>2, <1>4, <1>5, <2>2, <2>3, <2>4
<1>8. CASE InItsScope(u[v], k)
  <2>1. ss[k][n] = m[v]
    BY <1>1, <1>3, <1>5, <1>8 DEF Denoted
  <2>2. k \in 1 .. t /\ ss[k][n] # Nothing
    BY <1>2, <1>6, <2>1
  <2>3. Lookup(ss, n) = ss[k][n]
    BY <1>2, <1>7, <2>2, LookupFinds
  <2> QED
    BY <1>3, <1>5, <1>6, <2>1, <2>3 DEF v
<1>9. CASE ~InItsScope(u[v], k)
  <2>1. \A q \in 2 .. k : ss[q][n] = Nothing
    BY <1>1, <1>3, <1>5, <1>9 DEF Denoted
  <2>2. u[v].what = "function"
    BY <1>9 DEF InItsScope
  <2>3. u[v].link # "none"
    BY <1>1, <1>5, <2>2 DEF Linkages, Local
  <2>4. ss[1][n] = m[v]
    BY <1>1, <1>3, <1>5, <2>3 DEF Denoted
  <2>5. \A q \in 1 .. t : 1 < q => ss[q][n] = Nothing
    BY <1>2, <1>3, <1>7, <2>1
  <2>6. Lookup(ss, n) = ss[1][n]
    BY <1>2, <1>3, <1>6, <2>4, <2>5, LookupFinds
  <2> QED
    BY <1>3, <1>5, <1>6, <2>4, <2>6 DEF v
<1> QED
  BY <1>8, <1>9


(* A function that C sees in a block is hidden by nothing in sema's scopes.*)
LEMMA NothingHides ==
    ASSUME NEW u, NEW ss, NEW m, NEW no, NEW nf, NEW n \in Name,
           Good(u, blocks, ss, m, no, nf),
           Visible(u, n) # 0 => u[Visible(u, n)].what = "function",
           NEW l \in 2 .. Len(blocks)
    PROVE  ss[l][n] = Nothing
<1> DEFINE v == Visible(u, n)
           t == Len(blocks)
<1>1. /\ Typed(u, blocks, ss, m) /\ Scoped(u, blocks) /\ Denoted(u, blocks, ss, m)
  BY DEF Good
<1>2. /\ t \in Nat /\ DOMAIN blocks = 1 .. t /\ DOMAIN ss = 1 .. t
      /\ u \in Seq(Entry) /\ DOMAIN u = 1 .. Len(u) /\ Len(u) \in Nat
  BY <1>1 DEF Typed
<1>3. SUFFICES ASSUME ss[l][n] # Nothing PROVE FALSE
  OBVIOUS
<1>4. l # 1 /\ l \in DOMAIN blocks
  BY <1>2
<1>5. PICK j \in DOMAIN u : u[j].name = n /\ In(u, blocks, j, l) /\ InItsScope(u[j], l)
  BY <1>1, <1>3, <1>4 DEF Denoted
<1>6. u[j].what # "function"
  BY <1>4, <1>5 DEF InItsScope
<1>7. j <= v /\ v \in 0 .. Len(u)
  BY <1>2, <1>4, <1>5, VisibleIs
<1>8. v # 0
  BY <1>2, <1>7
<1>9. PICK k \in DOMAIN blocks : In(u, blocks, v, k) /\ u[v].name = n
  BY <1>2, <1>8, VisibleIs
<1>10. u[v].what = "function" /\ v \in DOMAIN u
  BY <1>8, <1>9 DEF In, IsDeclaration
<1> HIDE DEF v, t
<1>11. j < v
  BY <1>2, <1>6, <1>7, <1>10
<1>12. ~(k < l)
  BY <1>1, <1>2, <1>4, <1>5, <1>9, <1>10, <1>11 DEF Scoped
<1>13. l \in 2 .. k /\ k # 1
  BY <1>2, <1>4, <1>9, <1>12
<1>14. ss[l][n] = Nothing
  BY <1>1, <1>9, <1>10, <1>13 DEF Denoted, InItsScope
<1> QED
  BY <1>3, <1>14

-----------------------------------------------------------------------------
(* What the parser knows.  The names that are types somewhere matter: the  *)
(* parser has a scope for each of sema's but those of statements, in which *)
(* no such name is declared.                                               *)

Types(a) == {d.name : d \in {c \in a.items : c.what = "typedef"}}
Reading(e) == IF e = Nothing THEN "nothing" ELSE IF e[1] = "typedef" THEN "typedef" ELSE "ordinary"
Symbols == [Name -> {"nothing", "ordinary", "typedef"}]

Aligned(a, f, b, ss, sy) ==
    /\ f \in [DOMAIN sy -> DOMAIN b]
    /\ \A i, j \in DOMAIN sy : i < j => f[i] < f[j]
    /\ \A k \in DOMAIN b : b[k] >= 0 => \E i \in DOMAIN sy : f[i] = k
    /\ \A i \in DOMAIN sy : b[f[i]] >= 0 /\ \A n \in Types(a) : sy[i][n] = Reading(ss[f[i]][n])
    /\ \A k \in DOMAIN b, n \in Types(a) : b[k] < 0 => ss[k][n] = Nothing
Parsed(a, b, ss, sy) ==
    /\ sy \in Seq(Symbols) /\ Len(sy) >= 1
    /\ \E f : Aligned(a, f, b, ss, sy)
    /\ \A n \in Name \ Types(a) :
           /\ \A i \in DOMAIN sy : sy[i][n] # "typedef"
           /\ \A k \in DOMAIN ss : ss[k][n][1] # "typedef"
    /\ ~a.stmts => \A k \in DOMAIN b : b[k] >= 0

LEMMA ReadsAlike ==
    ASSUME NEW a, NEW b \in Seq(Int), NEW ss \in Seq([Name -> Denotation]), Len(ss) = Len(b),
           NEW sy, Parsed(a, b, ss, sy), NEW n \in Name
    PROVE  IsTypedefName(sy, n) = (Lookup(ss, n)[1] = "typedef")
<1> DEFINE is == {i \in DOMAIN sy : sy[i][n] # "nothing"}
           ks == {k \in DOMAIN ss : ss[k][n] # Nothing}
<1>1. /\ Len(b) \in Nat /\ Len(sy) \in Nat /\ DOMAIN b = 1 .. Len(b) /\ DOMAIN ss = 1 .. Len(b)
      /\ DOMAIN sy = 1 .. Len(sy) /\ \A k \in 1 .. Len(b) : b[k] \in Int
  BY DEF Parsed
<1>2. is \in SUBSET (0 .. Len(sy)) /\ ks \in SUBSET (0 .. Len(b))
  BY <1>1
<1>3. \A i \in is : i \in DOMAIN sy /\ sy[i][n] # "nothing"
  OBVIOUS
<1>4. \A k \in ks : k \in DOMAIN ss /\ ss[k][n] # Nothing
  OBVIOUS
<1>5. /\ \A i \in DOMAIN sy : sy[i][n] # "nothing" => i \in is
      /\ \A k \in DOMAIN ss : ss[k][n] # Nothing => k \in ks
  OBVIOUS
<1>6. /\ IsTypedefName(sy, n) = (is # {} /\ sy[Max(is)][n] = "typedef")
      /\ Lookup(ss, n) = IF ks = {} THEN Nothing ELSE ss[Max(ks)][n]
  BY DEF IsTypedefName, Lookup
<1> HIDE DEF is, ks
<1>7. is # {} => Max(is) \in is /\ Max(is) \in 0 .. Len(sy) /\ \A i \in is : i <= Max(is)
  BY <1>1, <1>2, Greatest
<1>8. ks # {} => Max(ks) \in ks /\ Max(ks) \in 0 .. Len(b) /\ \A k \in ks : k <= Max(ks)
  BY <1>1, <1>2, Greatest
<1>9. CASE n \notin Types(a)
  <2>1. ~(is # {} /\ sy[Max(is)][n] = "typedef")
    BY <1>3, <1>7, <1>9 DEF Parsed
  <2>2. Lookup(ss, n)[1] # "typedef"
    <3>1. CASE ks = {}
      BY <1>6, <3>1 DEF Nothing
    <3>2. CASE ks # {}
      <4>1. Max(ks) \in DOMAIN ss
        BY <1>4, <1>8, <3>2
      <4>2. ss[Max(ks)][n][1] # "typedef"
        BY <1>9, <4>1 DEF Parsed
      <4> QED
        BY <1>6, <3>2, <4>2
    <3> QED
      BY <3>1, <3>2
  <2> QED
    BY <1>6, <2>1, <2>2
<1>10. CASE n \in Types(a)
  <2>1. PICK f : Aligned(a, f, b, ss, sy)
    BY DEF Parsed
  <2>2. \A i \in DOMAIN sy : f[i] \in 1 .. Len(b) /\ sy[i][n] = Reading(ss[f[i]][n])
    BY <1>1, <1>10, <2>1 DEF Aligned
  <2>3. CASE ks = {}
    <3>1. \A i \in DOMAIN sy : ss[f[i]][n] = Nothing
      BY <1>1, <1>5, <2>2, <2>3
    <3>2. is = {}
      BY <1>3, <2>2, <3>1 DEF Reading
    <3> QED
      BY <1>6, <2>3, <3>2 DEF Nothing
  <2>4. CASE ks # {}
    <3>1. PICK k : k = Max(ks)
      OBVIOUS
    <3>2. k \in 1 .. Len(b) /\ ss[k][n] # Nothing /\ \A q \in ks : q <= k
      BY <1>1, <1>4, <1>8, <2>4, <3>1
    <3>3. b[k] >= 0
      <4>1. k \in DOMAIN b /\ b[k] \in Int
        BY <1>1, <3>2
      <4>2. ~(b[k] < 0)
        BY <1>10, <2>1, <3>2, <4>1 DEF Aligned
      <4> QED
        BY <4>1, <4>2
    <3>4. PICK i \in DOMAIN sy : f[i] = k
      BY <1>1, <2>1, <3>2, <3>3 DEF Aligned
    <3>5. i \in is
      BY <1>5, <2>2, <3>2, <3>4 DEF Reading
    <3>6. \A j \in is : j <= i
      <4>1. SUFFICES ASSUME NEW j \in is, i < j PROVE FALSE
        BY <1>1, <1>3
      <4>2. f[i] < f[j] /\ j \in DOMAIN sy
        BY <1>3, <2>1, <4>1 DEF Aligned
      <4>3. f[j] \in ks
        BY <1>1, <1>3, <1>5, <2>2, <4>2 DEF Reading
      <4> QED
        BY <2>2, <3>2, <3>4, <4>2, <4>3
    <3>7. Max(is) = i
      BY <1>1, <1>3, <1>7, <3>5, <3>6
    <3>8. (sy[i][n] = "typedef") = (ss[k][n][1] = "typedef")
      BY <2>2, <3>2, <3>4 DEF Reading
    <3> QED
      BY <1>6, <2>4, <3>1, <3>5, <3>7, <3>8
  <2> QED
    BY <2>3, <2>4
<1> QED
  BY <1>9, <1>10


LEMMA LastAligned ==
    ASSUME NEW a, NEW f, NEW b \in Seq(Int), NEW ss, NEW sy \in Seq(Symbols), Len(sy) >= 1,
           Aligned(a, f, b, ss, sy), Len(b) >= 1, b[Len(b)] >= 0
    PROVE  f[Len(sy)] = Len(b)
<1>1. /\ Len(b) \in Nat /\ Len(sy) \in Nat /\ DOMAIN b = 1 .. Len(b) /\ DOMAIN sy = 1 .. Len(sy)
  OBVIOUS
<1>2. PICK i \in DOMAIN sy : f[i] = Len(b)
  <2>1. \A k \in DOMAIN b : b[k] >= 0 => \E i \in DOMAIN sy : f[i] = k
    BY DEF Aligned
  <2>2. Len(b) \in DOMAIN b
    BY <1>1
  <2> QED
    BY <2>1, <2>2
<1>3. Len(sy) \in DOMAIN sy /\ f[Len(sy)] \in 1 .. Len(b)
  BY <1>1 DEF Aligned
<1>4. i < Len(sy) => f[i] < f[Len(sy)]
  BY <1>2, <1>3 DEF Aligned
<1> QED
  BY <1>1, <1>2, <1>3, <1>4

LEMMA ParsedDeclares ==
    ASSUME NEW a, NEW b \in Seq(Int), NEW ss \in Seq([Name -> Denotation]), Len(ss) = Len(b),
           Len(b) >= 1, NEW ss2 \in Seq([Name -> Denotation]), Len(ss2) = Len(b),
           NEW sy, Parsed(a, b, ss, sy), Types(a) \subseteq Name,
           NEW n \in Name, NEW kind \in {"ordinary", "typedef"},
           \A k \in DOMAIN ss, c \in Name : c # n => ss2[k][c] = ss[k][c],
           n \notin Types(a) => kind = "ordinary" /\ \A k \in DOMAIN ss : ss2[k][n][1] # "typedef",
           n \in Types(a) =>
               /\ b[Len(b)] >= 0 /\ Reading(ss2[Len(b)][n]) = kind
               /\ \A k \in 1 .. Len(b) - 1 : ss2[k][n] = ss[k][n]
    PROVE  Parsed(a, b, ss2, [sy EXCEPT ![Len(sy)][n] = kind])
<1> DEFINE sy2 == [sy EXCEPT ![Len(sy)][n] = kind]
<1>1. /\ Len(b) \in Nat /\ Len(sy) \in Nat /\ DOMAIN b = 1 .. Len(b) /\ DOMAIN sy = 1 .. Len(sy)
      /\ DOMAIN ss = 1 .. Len(b) /\ DOMAIN ss2 = 1 .. Len(b) /\ Len(sy) >= 1 /\ sy \in Seq(Symbols)
  BY DEF Parsed
<1>2. /\ sy2 \in Seq(Symbols) /\ Len(sy2) = Len(sy) /\ DOMAIN sy2 = 1 .. Len(sy)
      /\ \A i \in 1 .. Len(sy), c \in Name :
             sy2[i][c] = IF i = Len(sy) /\ c = n THEN kind ELSE sy[i][c]
  <2>1. \A i \in 1 .. Len(sy) : sy[i] \in Symbols
    BY <1>1
  <2>2. \A i \in 1 .. Len(sy) : sy2[i] = IF i = Len(sy) THEN [sy[i] EXCEPT ![n] = kind] ELSE sy[i]
    BY <1>1
  <2>3. \A i \in 1 .. Len(sy) : sy2[i] \in Symbols
    BY <2>1, <2>2 DEF Symbols
  <2>4. DOMAIN sy2 = 1 .. Len(sy) /\ Len(sy2) = Len(sy) /\ sy2 \in Seq(Symbols)
    <3>1. DOMAIN sy2 = 1 .. Len(sy) /\ sy2 = [i \in 1 .. Len(sy) |-> sy2[i]]
      BY <1>1
    <3> HIDE DEF sy2
    <3>2. sy2 \in [1 .. Len(sy) -> Symbols]
      BY <2>3, <3>1
    <3> QED
      BY <1>1, <3>1, <3>2, SequenceIs
  <2> QED
    BY <2>1, <2>2, <2>4 DEF Symbols
<1>3. PICK f : Aligned(a, f, b, ss, sy)
  BY DEF Parsed
<1> HIDE DEF sy2
<1>4. ASSUME NEW c \in Types(a)
      PROVE  /\ \A i \in DOMAIN sy2 : sy2[i][c] = Reading(ss2[f[i]][c])
             /\ \A k \in DOMAIN b : b[k] < 0 => ss2[k][c] = Nothing
  <2>0. c \in Types(a) /\ \A i \in 1 .. Len(sy) : f[i] \in 1 .. Len(b)
    BY <1>1, <1>3, <1>4 DEF Aligned
  <2>1. CASE c # n /\ c \in Name
    <3>1. \A k \in 1 .. Len(b) : ss2[k][c] = ss[k][c]
      BY <1>1, <2>1
    <3>2. \A i \in 1 .. Len(sy) : sy2[i][c] = sy[i][c] /\ sy[i][c] = Reading(ss[f[i]][c])
      BY <1>1, <1>2, <1>3, <2>0, <2>1 DEF Aligned
    <3>3. \A k \in DOMAIN b : b[k] < 0 => ss[k][c] = Nothing
      BY <1>3, <2>0 DEF Aligned
    <3> QED
      BY <1>1, <1>2, <2>0, <3>1, <3>2, <3>3
  <2>2. CASE c = n
    <3>1. f[Len(sy)] = Len(b)
      BY <1>1, <1>3, <1>4, <2>2, LastAligned
    <3>2. ASSUME NEW i \in 1 .. Len(sy) PROVE sy2[i][c] = Reading(ss2[f[i]][c])
      <4>1. CASE i = Len(sy)
        BY <1>2, <1>4, <2>2, <3>1, <4>1
      <4>2. CASE i # Len(sy)
        <5>1. f[i] < Len(b) /\ sy2[i][c] = sy[i][c]
          <6>1. i < Len(sy) /\ i \in DOMAIN sy /\ Len(sy) \in DOMAIN sy
            <7>1. Len(sy) \in 1 .. Len(sy)
              BY <1>1
            <7>2. i <= Len(sy) /\ i \in Nat
              BY <1>1
            <7>3. i < Len(sy)
              BY <4>2, <7>1, <7>2
            <7>4. DOMAIN sy = 1 .. Len(sy)
              BY <1>1
            <7> QED
              BY <7>1, <7>3, <7>4
          <6>2. f[i] < f[Len(sy)]
            BY <1>3, <6>1 DEF Aligned
          <6> QED
            BY <1>2, <2>2, <3>1, <4>2, <6>2
        <5>2. f[i] \in 1 .. Len(b) - 1
          BY <1>1, <2>0, <5>1
        <5>3. ss2[f[i]][c] = ss[f[i]][c]
          BY <1>4, <2>2, <5>2
        <5>4. i \in DOMAIN sy /\ sy[i][c] = Reading(ss[f[i]][c])
          <6>1. \A j \in DOMAIN sy : \A q \in Types(a) : sy[j][q] = Reading(ss[f[j]][q])
            BY <1>3 DEF Aligned
          <6>2. i \in DOMAIN sy
            BY <1>1
          <6> QED
            BY <1>4, <6>1, <6>2
        <5> QED
          BY <5>1, <5>3, <5>4
      <4> QED
        BY <4>1, <4>2
    <3>3. ASSUME NEW k \in DOMAIN b, b[k] < 0 PROVE ss2[k][c] = Nothing
      <4>1. k # Len(b)
        BY <1>1, <1>4, <2>2, <3>3
      <4>2. k \in 1 .. Len(b) - 1
        BY <1>1, <4>1
      <4> QED
        BY <1>3, <1>4, <2>2, <3>3, <4>2 DEF Aligned
    <3> QED
      BY <1>2, <3>2, <3>3
  <2> QED
    BY <1>4, <2>1, <2>2
<1>5. Aligned(a, f, b, ss2, sy2)
  BY <1>1, <1>2, <1>3, <1>4 DEF Aligned
<1>6. ASSUME NEW c \in Name \ Types(a)
      PROVE  /\ \A i \in DOMAIN sy2 : sy2[i][c] # "typedef"
             /\ \A k \in DOMAIN ss2 : ss2[k][c][1] # "typedef"
  <2>1. /\ \A i \in DOMAIN sy : sy[i][c] # "typedef"
        /\ \A k \in DOMAIN ss : ss[k][c][1] # "typedef"
    BY <1>6 DEF Parsed
  <2>2. CASE c # n
    BY <1>1, <1>2, <2>1, <2>2
  <2>3. CASE c = n
    BY <1>1, <1>2, <1>6, <2>1, <2>3
  <2> QED
    BY <2>2, <2>3
<1> QED
  BY <1>1, <1>2, <1>5, <1>6 DEF Parsed, sy2


LEMMA ParsedOpens ==
    ASSUME NEW a, NEW b \in Seq(Int), NEW ss \in Seq([Name -> Denotation]), Len(ss) = Len(b),
           NEW sy, Parsed(a, b, ss, sy), Types(a) \subseteq Name, NEW z \in Int,
           z < 0 => a.stmts
    PROVE  Parsed(a, Append(b, z), Append(ss, EmptyScope), IF z < 0 THEN sy ELSE Append(sy, NoSyms))
<1> DEFINE b2 == Append(b, z)
           s2 == Append(ss, EmptyScope)
           y2 == IF z < 0 THEN sy ELSE Append(sy, NoSyms)
           t == Len(b)
           y == Len(sy)
<1>1. /\ t \in Nat /\ y \in Nat /\ y >= 1 /\ DOMAIN b = 1 .. t /\ DOMAIN sy = 1 .. y
      /\ DOMAIN ss = 1 .. t /\ sy \in Seq(Symbols) /\ \A k \in 1 .. t : b[k] \in Int
  BY DEF Parsed
<1>2. DOMAIN b2 = 1 .. t + 1 /\ b2[t + 1] = z /\ \A k \in 1 .. t : b2[k] = b[k]
  BY Appended
<1>3. DOMAIN s2 = 1 .. t + 1 /\ s2[t + 1] = EmptyScope /\ \A k \in 1 .. t : s2[k] = ss[k]
  <2>1. EmptyScope \in [Name -> Denotation]
    BY EmptyIs
  <2> QED
    BY <2>1, Appended
<1>4. /\ y2 \in Seq(Symbols) /\ Len(y2) = (IF z < 0 THEN y ELSE y + 1)
      /\ DOMAIN y2 = 1 .. Len(y2)
      /\ \A i \in 1 .. y : y2[i] = sy[i]
      /\ z >= 0 => y2[y + 1] = NoSyms
  <2>1. NoSyms \in Symbols
    BY DEF NoSyms, Symbols
  <2>2. CASE z < 0
    BY <1>1, <2>2
  <2>3. CASE ~(z < 0)
    BY <1>1, <2>1, <2>3, Appended
  <2> QED
    BY <2>2, <2>3
<1>5. PICK f : Aligned(a, f, b, ss, sy)
  BY DEF Parsed
<1>6. PICK g : g = [i \in DOMAIN y2 |-> IF i \in 1 .. y THEN f[i] ELSE t + 1]
  OBVIOUS
<1>7. \A i \in 1 .. y : f[i] \in 1 .. t
  BY <1>1, <1>5 DEF Aligned
<1> HIDE DEF b2, s2, y2
<1>8. \A i \in 1 .. y : i \in DOMAIN y2 /\ g[i] = f[i]
  BY <1>1, <1>4, <1>6
<1>9. \A i \in DOMAIN y2 : i \in 1 .. y \/ (i = y + 1 /\ z >= 0 /\ g[i] = t + 1)
  BY <1>1, <1>4, <1>6
<1>10. g \in [DOMAIN y2 -> DOMAIN b2]
  BY <1>1, <1>2, <1>6, <1>7
<1>11. ASSUME NEW i \in DOMAIN y2, NEW j \in DOMAIN y2, i < j PROVE g[i] < g[j]
  <2>1. CASE j \in 1 .. y
    <3>1. i \in 1 .. y
      BY <1>1, <1>9, <1>11, <2>1
    <3>2. f[i] < f[j]
      BY <1>1, <1>5, <1>11, <2>1, <3>1 DEF Aligned
    <3> QED
      BY <1>8, <2>1, <3>1, <3>2
  <2>2. CASE j \notin 1 .. y
    <3>1. j = y + 1 /\ g[j] = t + 1
      BY <1>9, <2>2
    <3>2. i \in 1 .. y
      BY <1>1, <1>9, <1>11, <3>1
    <3>3. f[i] \in 1 .. t /\ g[i] = f[i]
      BY <1>7, <1>8, <3>2
    <3> QED
      BY <1>1, <3>1, <3>3
  <2> QED
    BY <2>1, <2>2
<1>12. ASSUME NEW k \in DOMAIN b2, b2[k] >= 0 PROVE \E i \in DOMAIN y2 : g[i] = k
  <2>1. CASE k \in 1 .. t
    <3>1. PICK i \in DOMAIN sy : f[i] = k
      BY <1>1, <1>2, <1>5, <1>12, <2>1 DEF Aligned
    <3> QED
      BY <1>1, <1>8, <3>1
  <2>2. CASE k = t + 1
    <3>1. z >= 0 /\ y + 1 \in DOMAIN y2
      BY <1>1, <1>2, <1>4, <1>12, <2>2
    <3>2. g[y + 1] = t + 1
      BY <1>1, <1>9, <3>1
    <3> QED
      BY <2>2, <3>1, <3>2
  <2> QED
    BY <1>1, <1>2, <2>1, <2>2
<1>13. ASSUME NEW i \in DOMAIN y2
       PROVE  b2[g[i]] >= 0 /\ \A n \in Types(a) : y2[i][n] = Reading(s2[g[i]][n])
  <2>1. CASE i \in 1 .. y
    <3>1. g[i] = f[i] /\ f[i] \in 1 .. t /\ b2[f[i]] = b[f[i]] /\ s2[f[i]] = ss[f[i]] /\ y2[i] = sy[i]
      BY <1>2, <1>3, <1>4, <1>7, <1>8, <2>1
    <3>2. b[f[i]] >= 0 /\ \A n \in Types(a) : sy[i][n] = Reading(ss[f[i]][n])
      BY <1>1, <1>5, <2>1 DEF Aligned
    <3> QED
      BY <3>1, <3>2
  <2>2. CASE i \notin 1 .. y
    <3>1. i = y + 1 /\ z >= 0 /\ g[i] = t + 1 /\ b2[g[i]] = z /\ s2[g[i]] = EmptyScope /\ y2[i] = NoSyms
      BY <1>2, <1>3, <1>4, <1>9, <2>2
    <3>2. \A n \in Types(a) : NoSyms[n] = Reading(EmptyScope[n])
      BY EmptyIs DEF NoSyms, Reading
    <3> QED
      BY <3>1, <3>2
  <2> QED
    BY <2>1, <2>2
<1>14. ASSUME NEW k \in DOMAIN b2, NEW n \in Types(a), b2[k] < 0 PROVE s2[k][n] = Nothing
  <2>1. CASE k \in 1 .. t
    BY <1>1, <1>2, <1>3, <1>5, <1>14, <2>1 DEF Aligned
  <2>2. CASE k = t + 1
    <3>1. n \in Name
      OBVIOUS
    <3> QED
      BY <1>3, <2>2, <3>1, EmptyIs
  <2> QED
    BY <1>1, <1>2, <2>1, <2>2
<1>15. Aligned(a, g, b2, s2, y2)
  BY <1>10, <1>11, <1>12, <1>13, <1>14 DEF Aligned
<1>16. ASSUME NEW n \in Name \ Types(a)
       PROVE  /\ \A i \in DOMAIN y2 : y2[i][n] # "typedef"
              /\ \A k \in DOMAIN s2 : s2[k][n][1] # "typedef"
  <2>1. /\ \A i \in DOMAIN sy : sy[i][n] # "typedef"
        /\ \A k \in DOMAIN ss : ss[k][n][1] # "typedef"
    BY <1>16 DEF Parsed
  <2>2. ASSUME NEW i \in DOMAIN y2 PROVE y2[i][n] # "typedef"
    <3>1. CASE i \in 1 .. y
      BY <1>1, <1>4, <2>1, <3>1
    <3>2. CASE i \notin 1 .. y
      <4>1. y2[i] = NoSyms
        BY <1>4, <1>9, <3>2
      <4> QED
        BY <4>1 DEF NoSyms
    <3> QED
      BY <3>1, <3>2
  <2>3. ASSUME NEW k \in DOMAIN s2 PROVE s2[k][n][1] # "typedef"
    <3>1. CASE k \in 1 .. t
      BY <1>1, <1>3, <2>1, <3>1
    <3>2. CASE k = t + 1
      BY <1>3, <3>2, EmptyIs DEF Nothing
    <3> QED
      BY <1>1, <1>3, <3>1, <3>2
  <2> QED
    BY <2>2, <2>3
<1>17. ~a.stmts => \A k \in DOMAIN b2 : b2[k] >= 0
  <2>1. SUFFICES ASSUME ~a.stmts, NEW k \in DOMAIN b2 PROVE b2[k] >= 0
    OBVIOUS
  <2>2. CASE k \in 1 .. t
    BY <1>1, <1>2, <2>1, <2>2 DEF Parsed
  <2>3. CASE k = t + 1
    BY <1>2, <2>1, <2>3
  <2> QED
    BY <1>1, <1>2, <2>2, <2>3
<1>18. Len(y2) >= 1
  BY <1>1, <1>4
<1> QED
  BY <1>4, <1>15, <1>16, <1>17, <1>18 DEF Parsed, b2, s2, y2

LEMMA ParsedCloses ==
    ASSUME NEW a, NEW b \in Seq(Int), NEW ss \in Seq([Name -> Denotation]), Len(ss) = Len(b),
           Len(b) >= 2, b[1] = 0, NEW sy, Parsed(a, b, ss, sy)
    PROVE  Parsed(a, Front(b), Front(ss), IF b[Len(b)] < 0 THEN sy ELSE Front(sy))
<1> DEFINE b2 == Front(b)
           s2 == Front(ss)
           y2 == IF b[Len(b)] < 0 THEN sy ELSE Front(sy)
<1>0. PICK t, y : t = Len(b) /\ y = Len(sy)
  OBVIOUS
<1>1. /\ t \in Nat /\ t >= 2 /\ y \in Nat /\ y >= 1 /\ DOMAIN b = 1 .. t /\ DOMAIN sy = 1 .. y
      /\ DOMAIN ss = 1 .. t /\ sy \in Seq(Symbols) /\ \A k \in 1 .. t : b[k] \in Int
  BY <1>0 DEF Parsed
<1>2. DOMAIN b2 = 1 .. t - 1 /\ \A k \in 1 .. t - 1 : b2[k] = b[k]
  BY <1>0, <1>1, Fronted
<1>3. DOMAIN s2 = 1 .. t - 1 /\ \A k \in 1 .. t - 1 : s2[k] = ss[k]
  BY <1>0, <1>1, Fronted
<1>4. PICK f : Aligned(a, f, b, ss, sy)
  BY DEF Parsed
<1>5. /\ \A i \in 1 .. y : f[i] \in 1 .. t
      /\ \A i, j \in 1 .. y : i < j => f[i] < f[j]
  BY <1>1, <1>4 DEF Aligned
<1>6. b[t] >= 0 => y >= 2 /\ f[y] = t
  <2>1. SUFFICES ASSUME b[t] >= 0 PROVE y >= 2 /\ f[y] = t
    OBVIOUS
  <2>2. f[y] = t
    BY <1>0, <1>1, <1>4, <2>1, LastAligned
  <2>3. 1 \in DOMAIN b /\ b[1] >= 0
    BY <1>1
  <2>4. PICK i \in 1 .. y : f[i] = 1
    BY <1>1, <1>4, <2>3 DEF Aligned
  <2>5. i # y
    BY <1>1, <2>2, <2>4
  <2> QED
    BY <1>1, <2>2, <2>4, <2>5
<1>7. /\ y2 \in Seq(Symbols) /\ Len(y2) = (IF b[t] < 0 THEN y ELSE y - 1)
      /\ DOMAIN y2 = 1 .. Len(y2) /\ Len(y2) >= 1
      /\ \A i \in DOMAIN y2 : y2[i] = sy[i]
  <2>1. CASE b[t] < 0
    BY <1>0, <1>1, <2>1
  <2>2. CASE ~(b[t] < 0)
    <3>1. b[t] >= 0
      BY <1>1, <2>2
    <3>2. y2 = Front(sy) /\ Len(sy) >= 1
      BY <1>0, <1>1, <2>2
    <3>3. /\ y2 \in Seq(Symbols) /\ Len(y2) = y - 1 /\ DOMAIN y2 = 1 .. y - 1
          /\ \A i \in 1 .. y - 1 : y2[i] = sy[i]
      BY <1>0, <1>1, <3>2, Fronted
    <3> HIDE DEF y2
    <3> QED
      BY <1>1, <1>6, <2>2, <3>1, <3>3
  <2> QED
    BY <2>1, <2>2
<1> HIDE DEF b2, s2, y2
<1>8. ASSUME NEW i \in DOMAIN y2 PROVE i \in 1 .. y /\ f[i] \in 1 .. t - 1
  <2>1. i \in 1 .. y
    BY <1>1, <1>7
  <2>2. f[i] # t
    <3>1. CASE b[t] < 0
      <4>1. b[f[i]] >= 0
        BY <1>1, <1>4, <2>1 DEF Aligned
      <4> QED
        BY <1>1, <3>1, <4>1
    <3>2. CASE ~(b[t] < 0)
      <4>1. i < y /\ y \in 1 .. y
        BY <1>1, <1>7, <3>2
      <4>2. f[i] < f[y] /\ f[y] = t
        BY <1>1, <1>5, <1>6, <2>1, <3>2, <4>1
      <4> QED
        BY <1>1, <4>2
    <3> QED
      BY <3>1, <3>2
  <2> QED
    BY <1>1, <1>5, <2>1, <2>2
<1>9. PICK g : g = [i \in DOMAIN y2 |-> f[i]]
  OBVIOUS
<1>10. g \in [DOMAIN y2 -> DOMAIN b2] /\ \A i \in DOMAIN y2 : g[i] = f[i]
  BY <1>2, <1>8, <1>9
<1>11. \A i, j \in DOMAIN y2 : i < j => g[i] < g[j]
  BY <1>5, <1>8, <1>10
<1>12. ASSUME NEW k \in DOMAIN b2, b2[k] >= 0 PROVE \E i \in DOMAIN y2 : g[i] = k
  <2>1. k \in 1 .. t - 1 /\ k \in DOMAIN b /\ b[k] >= 0
    BY <1>1, <1>2, <1>12
  <2>2. PICK i \in DOMAIN sy : f[i] = k
    BY <1>4, <2>1 DEF Aligned
  <2>3. i \in DOMAIN y2
    <3>1. CASE b[t] < 0
      BY <1>1, <1>7, <3>1
    <3>2. CASE ~(b[t] < 0)
      <4>1. i # y
        BY <1>1, <1>6, <2>1, <2>2, <3>2
      <4> QED
        BY <1>1, <1>7, <3>2, <4>1
    <3> QED
      BY <3>1, <3>2
  <2> QED
    BY <1>10, <2>2, <2>3
<1>13. ASSUME NEW i \in DOMAIN y2
       PROVE  b2[g[i]] >= 0 /\ \A n \in Types(a) : y2[i][n] = Reading(s2[g[i]][n])
  <2>1. g[i] = f[i] /\ b2[f[i]] = b[f[i]] /\ s2[f[i]] = ss[f[i]] /\ y2[i] = sy[i] /\ i \in DOMAIN sy
    BY <1>1, <1>2, <1>3, <1>7, <1>8, <1>10
  <2>2. b[f[i]] >= 0 /\ \A n \in Types(a) : sy[i][n] = Reading(ss[f[i]][n])
    BY <1>4, <2>1 DEF Aligned
  <2> QED
    BY <2>1, <2>2
<1>14. ASSUME NEW k \in DOMAIN b2, NEW n \in Types(a), b2[k] < 0 PROVE s2[k][n] = Nothing
  <2>1. k \in DOMAIN b /\ b[k] < 0 /\ s2[k] = ss[k]
    BY <1>1, <1>2, <1>3, <1>14
  <2> QED
    BY <1>4, <2>1 DEF Aligned
<1>15. Aligned(a, g, b2, s2, y2)
  BY <1>10, <1>11, <1>12, <1>13, <1>14 DEF Aligned
<1>16. ASSUME NEW n \in Name \ Types(a)
       PROVE  /\ \A i \in DOMAIN y2 : y2[i][n] # "typedef"
              /\ \A k \in DOMAIN s2 : s2[k][n][1] # "typedef"
  <2>1. \A i \in DOMAIN y2 : y2[i][n] # "typedef"
    BY <1>1, <1>7, <1>8, <1>16 DEF Parsed
  <2>2. \A k \in DOMAIN s2 : k \in DOMAIN ss /\ s2[k] = ss[k]
    BY <1>1, <1>3
  <2> QED
    BY <1>16, <2>1, <2>2 DEF Parsed
<1>17. ~a.stmts => \A k \in DOMAIN b2 : b2[k] >= 0
  <2>1. \A k \in DOMAIN b2 : k \in DOMAIN b /\ b2[k] = b[k]
    BY <1>1, <1>2
  <2> QED
    BY <2>1 DEF Parsed
<1> QED
  BY <1>7, <1>15, <1>16, <1>17 DEF Parsed, b2, s2, y2


-----------------------------------------------------------------------------
(* What is written.                                                        *)

(* No name of a type or of an enumerator is a function's, or an object's   *)
(* that is declared `extern`; and one that is both a type's and an         *)
(* enumerator's is in no unit with statements, and is no enumerator's      *)
(* value.  What happens otherwise is in the README.                        *)
NamesApart ==
    \A a \in Alphabets : \A d, e \in a.items :
        d.what \in {"constant", "typedef"} /\ e.name = d.name =>
            /\ e.what # "function" /\ ~(e.what = "object" /\ e.storage = "extern")
            /\ d.what = "typedef" /\ e.what = "constant" => ~a.stmts /\ e.inits # e.name

Introduced(a, u) ==
    \A j \in DOMAIN u : Declares(u[j]) =>
        \E d \in a.items : d.what = u[j].what /\ d.name = u[j].name /\ d.storage = u[j].storage

LEMMA ItemIs ==
    ASSUME NEW a \in Alphabets, NEW d \in a.items
    PROVE  /\ d.name \in Name
           /\ Declares(d) =>
                  /\ d.what \in {"object", "function", "constant", "typedef"}
                  /\ d.storage \in Storages /\ d.inline \in BOOLEAN /\ d.defines \in BOOLEAN
                  /\ d.inits \in Name \cup {NoInit, Value}
                  /\ d.what = "function" \/ d.storage = "extern" => d.inits = NoInit
                  /\ d.what = "object" => d.defines = (d.inits # NoInit)
                  /\ d.what \in {"constant", "typedef"} => d.inits # NoInit
                  /\ d.what = "typedef" => d.inits = Value
<1>1. Written(a.items)
  BY AlphabetsAssumption
<1>2. d.name \in Name
  BY <1>1 DEF Written
<1>3. /\ NoInit # Value /\ NoInit \notin Name /\ Value \notin Name
      /\ {"none", "static", "extern"} = Storages
  BY AlphabetsAssumption DEF NoInit, Value, Storages
<1>4. CASE \E s \in Storages, i \in Name \cup {NoInit, Value} :
               d = Object(d.name, s, i) /\ (s = "extern" => i = NoInit)
  <2>1. PICK s \in Storages, i \in Name \cup {NoInit, Value} :
                d = Object(d.name, s, i) /\ (s = "extern" => i = NoInit)
    BY <1>4
  <2>2. /\ d.what = "object" /\ d.storage = s /\ d.inline = FALSE
        /\ d.defines = (i # NoInit) /\ d.inits = i
    BY <2>1 DEF Object, Declaration
  <2> QED
    BY <1>2, <2>1, <2>2
<1>5. CASE \E s \in Storages, i, b \in BOOLEAN : d = Function(d.name, s, i, b)
  <2>1. PICK s \in Storages, i \in BOOLEAN, b \in BOOLEAN : d = Function(d.name, s, i, b)
    BY <1>5
  <2>2. /\ d.what = "function" /\ d.storage = s /\ d.inline = i
        /\ d.defines = b /\ d.inits = NoInit
    BY <2>1 DEF Function, Declaration
  <2> QED
    BY <1>2, <2>1, <2>2
<1>6. CASE \E i \in Name \cup {Value} : d = Constant(d.name, i)
  <2>1. PICK i \in Name \cup {Value} : d = Constant(d.name, i)
    BY <1>6
  <2>2. /\ d.what = "constant" /\ d.storage = "none" /\ d.inline = FALSE
        /\ d.defines = TRUE /\ d.inits = i
    BY <2>1 DEF Constant, Declaration
  <2>3. i # NoInit
    BY <1>3, <2>1
  <2> QED
    BY <1>2, <1>3, <2>1, <2>2, <2>3
<1>7. CASE d = Typedef(d.name)
  <2>1. /\ d.what = "typedef" /\ d.storage = "none" /\ d.inline = FALSE
        /\ d.defines = TRUE /\ d.inits = Value
    BY <1>7 DEF Typedef, Declaration
  <2> QED
    BY <1>2, <1>3, <2>1
<1>8. CASE \E how \in Hows \cup {"asm"} : d = Use(d.name, how)
  <2>1. PICK how \in Hows \cup {"asm"} : d = Use(d.name, how)
    BY <1>8
  <2> QED
    BY <1>2, <2>1 DEF Use, Hows, Declares
<1> QED
  BY <1>1, <1>4, <1>5, <1>6, <1>7, <1>8 DEF Written

LEMMA TypesAreNames ==
    ASSUME NEW a \in Alphabets
    PROVE  Types(a) \subseteq Name
BY ItemIs DEF Types

EntryOf(u, d) ==
    [what |-> d.what, name |-> d.name, storage |-> d.storage,
     inline |-> d.inline, defines |-> d.defines, inits |-> d.inits,
     scope |-> Here, link |-> Linkage(u, d),
     entity |-> <<d.name, IF Linkage(u, d) = "none" THEN Len(u) + 1 ELSE 0>>]

LEMMA DeclaredIs ==
    ASSUME NEW u, NEW d
    PROVE  Declared(u, d) = Append(u, EntryOf(u, d))
BY DEF Declared, EntryOf

LEMMA AtFileScopeIs ==
    ASSUME NEW u, NEW ss, NEW m, Typed(u, blocks, ss, m), Scoped(u, blocks)
    PROVE  /\ AtFileScope <=> Len(blocks) = 1
           /\ Len(blocks) = 1 => Here = FileScope
           /\ Len(blocks) \in Nat /\ Len(blocks) >= 1 /\ Here \in Nat \X Int
           /\ Here = <<Len(blocks), blocks[Len(blocks)]>>
<1>1. PICK t : t = Len(blocks)
  OBVIOUS
<1>2. t \in Nat /\ t >= 1 /\ blocks[t] \in Int
  BY <1>1 DEF Typed
<1>3. t = 1 \/ t \in 2 .. Len(blocks)
  BY <1>1, <1>2
<1>4. t = 1 => blocks[t] = 0
  BY DEF Scoped
<1>5. t # 1 => blocks[t] # 0
  BY <1>3 DEF Scoped
<1> QED
  BY <1>1, <1>2, <1>4, <1>5 DEF AtFileScope, Scope, Here, FileScope

LEMMA LinkageIs ==
    ASSUME NEW u, NEW ss, NEW m, NEW no, NEW nf, Good(u, blocks, ss, m, no, nf),
           NEW d, Declares(d), d.storage \in Storages
    PROVE  /\ Linkage(u, d) \in {"none", "internal", "external"}
           /\ Linkage(u, d) = "none" <=> Local(EntryOf(u, d))
<1>1. Typed(u, blocks, ss, m) /\ Scoped(u, blocks)
  BY DEF Good
<1>2. AtFileScope <=> Len(blocks) = 1
  BY <1>1, AtFileScopeIs
<1>3. /\ EntryOf(u, d).what = d.what /\ EntryOf(u, d).storage = d.storage
      /\ EntryOf(u, d).scope[1] = Len(blocks)
  BY DEF EntryOf, Here
<1>4. Visible(u, d.name) # 0 => u[Visible(u, d.name)].link \in {"none", "internal", "external"}
  <2>1. SUFFICES ASSUME Visible(u, d.name) # 0
                 PROVE  u[Visible(u, d.name)].link \in {"none", "internal", "external"}
    OBVIOUS
  <2>2. PICK k \in DOMAIN blocks : In(u, blocks, Visible(u, d.name), k)
    BY <1>1, <2>1, VisibleIs DEF Typed
  <2>3. Visible(u, d.name) \in DOMAIN u /\ Declares(u[Visible(u, d.name)])
    BY <2>2 DEF In, IsDeclaration
  <2>4. u[Visible(u, d.name)] \in Entry
    BY <1>1, <2>3 DEF Typed
  <2> QED
    BY <2>3, <2>4, EntryIs, DeclaresEntry
<1> QED
  BY <1>2, <1>3, <1>4 DEF Linkage, Local, Declares, Storages


(* What C allows of d, as the entry that is added for it.                  *)
LEMMA NewEntry ==
    ASSUME NEW u, NEW ss, NEW m, NEW no, NEW nf, Good(u, blocks, ss, m, no, nf),
           NamesApart, NEW a \in Alphabets, Introduced(a, u),
           NEW d \in a.items, Declares(d), Agrees(Declared(u, d))
    PROVE  Fits(u, blocks, EntryOf(u, d))
<1> DEFINE e == EntryOf(u, d)
<1>1. Typed(u, blocks, ss, m) /\ Scoped(u, blocks) /\ Linkages(u)
  BY DEF Good
<1>2. /\ e.what = d.what /\ e.name = d.name /\ e.storage = d.storage /\ e.inline = d.inline
      /\ e.defines = d.defines /\ e.inits = d.inits /\ e.scope = Here /\ e.link = Linkage(u, d)
      /\ e.entity = <<d.name, IF Linkage(u, d) = "none" THEN Len(u) + 1 ELSE 0>>
  BY DEF EntryOf
<1>3. Linkage(u, d) \in {"none", "internal", "external"} /\ (Linkage(u, d) = "none" <=> Local(e))
  BY ItemIs, LinkageIs
<1>4. /\ AtFileScope <=> Len(blocks) = 1
      /\ Len(blocks) = 1 => Here = FileScope
      /\ Here \in Nat \X Int /\ Here = <<Len(blocks), blocks[Len(blocks)]>>
  BY <1>1, AtFileScopeIs
<1>5. e \in DeclarationEntry
  <2>1. Len(u) \in Nat
    BY <1>1 DEF Typed
  <2>2. e.entity \in Entity
    BY <1>2, <2>1, ItemIs DEF Entity
  <2>3. e = [what |-> d.what, name |-> d.name, storage |-> d.storage,
             inline |-> d.inline, defines |-> d.defines, inits |-> d.inits,
             scope |-> Here, link |-> Linkage(u, d), entity |-> e.entity]
    BY DEF EntryOf
  <2> HIDE DEF e
  <2> QED
    BY <1>3, <1>4, <2>2, <2>3, ItemIs DEF DeclarationEntry
<1> HIDE DEF e
<1>6. ASSUME NEW i \in SameNamed(u, e) PROVE Agree(u[i], e)
  <2>1. /\ i \in 1 .. Len(u) /\ Declares(u[i]) /\ u[i].name = d.name /\ e \in Entry
    BY <1>1, <1>2, <1>5, <1>6, DeclaresEntry DEF SameNamed, Typed
  <2>2. /\ Len(u) \in Nat /\ Len(Append(u, e)) = Len(u) + 1
        /\ Append(u, e)[i] = u[i] /\ Append(u, e)[Len(u) + 1] = e
    BY <1>1, <2>1, Appended DEF Typed
  <2>3. Agrees(Append(u, e))
    BY DeclaredIs DEF e
  <2>4. i \in 1 .. Len(Append(u, e)) - 1
    BY <2>1, <2>2
  <2> QED
    BY <1>2, <2>1, <2>2, <2>3, <2>4 DEF Agrees, Agree
<1>7. e.scope[1] = 1 => e.scope = FileScope
  BY <1>2, <1>4
<1>8. ASSUME NEW i \in SameNamed(u, e),
             u[i].scope = FileScope \/ u[i].link # "none", e.scope = FileScope \/ e.link # "none"
      PROVE  u[i].link # "none" /\ e.link # "none"
  <2>1. /\ i \in DOMAIN u /\ Declares(u[i]) /\ u[i].name = d.name /\ Agree(u[i], e)
        /\ u[i].link = "none" <=> Local(u[i])
        /\ u[i].scope[1] = 1 => u[i].scope = FileScope
    BY <1>1, <1>2, <1>6, <1>8 DEF SameNamed, Scoped, Linkages
  <2>2. PICK c \in a.items : c.what = u[i].what /\ c.name = d.name /\ c.storage = u[i].storage
    BY <2>1 DEF Introduced
  <2>3. /\ d.what \in {"constant", "typedef"} =>
               c.what # "function" /\ ~(c.what = "object" /\ c.storage = "extern")
        /\ c.what \in {"constant", "typedef"} =>
               d.what # "function" /\ ~(d.what = "object" /\ d.storage = "extern")
    BY <2>2 DEF NamesApart
  <2>4. /\ d.what \in {"object", "function", "constant", "typedef"}
        /\ u[i].what \in {"object", "function", "constant", "typedef"}
    BY <2>1 DEF Declares
  <2>5. FileScope[1] = 1
    BY DEF FileScope
  <2>6. u[i].scope = e.scope => u[i].link # "none" /\ e.link # "none"
    BY <2>1 DEF Agree, Linked
  <2>7. e.link = "none" <=> \/ d.what \in {"constant", "typedef"}
                            \/ d.what = "object" /\ e.scope[1] # 1 /\ d.storage # "extern"
    BY <1>2, <1>3 DEF Local
  <2>8. u[i].link = "none" <=> \/ u[i].what \in {"constant", "typedef"}
                               \/ u[i].what = "object" /\ u[i].scope[1] # 1 /\ u[i].storage # "extern"
    BY <2>1 DEF Local
  <2>9. CASE u[i].link = "none"
    <3>1. u[i].scope = FileScope /\ u[i].what \in {"constant", "typedef"}
      BY <1>8, <2>5, <2>8, <2>9
    <3>2. e.scope # FileScope
      BY <2>6, <2>9, <3>1
    <3>3. e.link # "none" /\ e.scope[1] # 1
      BY <1>7, <1>8, <3>2
    <3> QED
      BY <2>2, <2>3, <2>4, <2>7, <3>1, <3>3
  <2>10. CASE e.link = "none" /\ u[i].link # "none"
    <3>1. e.scope = FileScope /\ d.what \in {"constant", "typedef"}
      BY <1>8, <2>5, <2>7, <2>10
    <3>2. u[i].scope # FileScope
      BY <2>6, <2>10, <3>1
    <3>3. u[i].scope[1] # 1
      BY <2>1, <3>2
    <3> QED
      BY <2>2, <2>3, <2>4, <2>8, <2>10, <3>1, <3>3
  <2> QED
    BY <2>9, <2>10
<1>9. (e.link = "none" <=> Local(e)) /\ e.entity = EntityAt(e, Len(u) + 1)
  BY <1>2, <1>3 DEF EntityAt
<1> QED
  BY <1>2, <1>4, <1>5, <1>6, <1>8, <1>9 DEF Fits, e

(* A name in sema's file scope is one declared before with linkage, if the *)
(* new one is to be there as well; and where a name without linkage is to  *)
(* be, there is nothing of it.                                             *)
LEMMA FileName ==
    ASSUME NEW u, NEW b, NEW ss, NEW m, NEW no, NEW nf, Good(u, b, ss, m, no, nf),
           NEW e, Fits(u, b, e), e.scope = FileScope \/ e.link # "none"
    PROVE  /\ ss[1][e.name] = Nothing => Known(u, e) = {}
           /\ ss[1][e.name] # Nothing =>
                  /\ e.link # "none" /\ ss[1][e.name][1] = e.what
                  /\ \E i \in Known(u, e) : ss[1][e.name] = m[i]
<1>1. Typed(u, b, ss, m) /\ Scoped(u, b) /\ Denoted(u, b, ss, m)
  BY DEF Good
<1>2. \A i \in Known(u, e) : m[i] = ss[1][e.name] /\ m[i] # Nothing /\ m[i][1] = u[i].what
  BY <1>1 DEF Known, SameNamed, Denoted
<1>3. ASSUME ss[1][e.name] # Nothing
      PROVE  e.link # "none" /\ \E i \in Known(u, e) : ss[1][e.name] = m[i]
  <2>1. 1 \in DOMAIN b /\ e.name \in Name
    BY <1>1, DeclaresEntry DEF Typed, Fits
  <2>2. PICK j \in DOMAIN u :
            /\ Declares(u[j]) /\ u[j].name = e.name /\ m[j] = ss[1][e.name]
            /\ In(u, b, j, 1) \/ u[j].link # "none"
    BY <1>1, <1>3, <2>1 DEF Denoted
  <2>3. u[j].scope = FileScope \/ u[j].link # "none"
    BY <1>1, <2>2 DEF In, Scoped, FileScope
  <2>4. j \in SameNamed(u, e)
    BY <2>2 DEF SameNamed
  <2>5. u[j].link # "none" /\ e.link # "none"
    BY <2>3, <2>4 DEF Fits
  <2>6. j \in Known(u, e)
    BY <2>4, <2>5 DEF Known
  <2> QED
    BY <2>2, <2>5, <2>6
<1>4. ASSUME NEW i \in Known(u, e), e.link # "none" PROVE u[i].what = e.what
  BY <1>4 DEF Known, SameNamed, Fits, Agree, Linked, DeclarationEntry, Declares
<1> QED
  BY <1>2, <1>3, <1>4

LEMMA NoRedefinition ==
    ASSUME NEW u, NEW b, NEW ss, NEW m, NEW no, NEW nf, Good(u, b, ss, m, no, nf),
           NEW e, Fits(u, b, e), e.link = "none"
    PROVE  ss[Len(b)][e.name] = Nothing
<1>1. Typed(u, b, ss, m) /\ Scoped(u, b) /\ Denoted(u, b, ss, m)
  BY DEF Good
<1>2. PICK t : t = Len(b)
  OBVIOUS
<1>3. t \in DOMAIN b /\ e.name \in Name /\ e.scope = <<t, b[t]>> /\ Declares(e)
  BY <1>1, <1>2, DeclaresEntry DEF Typed, Fits
<1>4. CASE t = 1
  <2>1. e.scope = FileScope
    BY <1>1, <1>3, <1>4 DEF Scoped, FileScope
  <2> QED
    BY <1>2, <1>4, <2>1, FileName
<1>5. CASE t # 1
  <2>1. SUFFICES ASSUME ss[t][e.name] # Nothing PROVE FALSE
    BY <1>2
  <2>2. PICK j \in DOMAIN u : Declares(u[j]) /\ u[j].name = e.name /\ In(u, b, j, t)
    BY <1>1, <1>3, <1>5, <2>1 DEF Denoted
  <2>3. j \in SameNamed(u, e) /\ u[j].scope = e.scope
    BY <1>3, <2>2 DEF SameNamed, In
  <2> QED
    BY <2>3 DEF Fits, Agree, Linked
<1> QED
  BY <1>4, <1>5


(* Some declaration that defines it was taken for x.                       *)
Given(u, m, x) == \E j \in DOMAIN u : Declares(u[j]) /\ u[j].defines /\ m[j] = x

LEMMA OnceOnly ==
    ASSUME NEW u, NEW b, NEW ss, NEW m, NEW no, NEW nf, Good(u, b, ss, m, no, nf),
           NEW e, Fits(u, b, e), NEW i \in Known(u, e), e.link # "none", Given(u, m, m[i])
    PROVE  ~e.defines
<1>1. Typed(u, b, ss, m) /\ Linkages(u) /\ Told(u, m)
  BY DEF Good
<1>2. i \in DOMAIN u /\ Declares(u[i]) /\ u[i].name = e.name /\ u[i].link # "none"
  BY DEF Known, SameNamed
<1>3. PICK j \in DOMAIN u : Declares(u[j]) /\ u[j].defines /\ m[j] = m[i]
  BY DEF Given
<1>4. u[j].entity = u[i].entity
  BY <1>1, <1>2, <1>3 DEF Told
<1>5. /\ u[i].entity = <<e.name, 0>>
      /\ u[j].entity = <<u[j].name, IF u[j].link = "none" THEN j ELSE 0>>
  BY <1>1, <1>2, <1>3 DEF Linkages, EntityAt
<1>6. j # 0
  BY <1>1 DEF Typed
<1>7. u[j].name = e.name /\ u[j].link # "none"
  BY <1>4, <1>5, <1>6
<1>8. j \in SameNamed(u, e)
  BY <1>3, <1>7 DEF SameNamed
<1>9. Declares(e)
  BY DeclaresEntry DEF Fits
<1> QED
  BY <1>3, <1>7, <1>8, <1>9 DEF Fits, Agree, Linked

LEMMA FreshMeaning ==
    ASSUME NEW u, NEW m, NEW no, NEW nf, Numbered(u, m, no, nf), Len(u) \in Nat,
           NEW x \in {AnObject(no + 1), AFunction(nf + 1), AConstant(Len(u) + 1), AType(Len(u) + 1)}
    PROVE  \A i \in DOMAIN u : m[i] # x
<1> SUFFICES ASSUME NEW i \in DOMAIN u, m[i] = x PROVE FALSE
  OBVIOUS
<1>1. CASE x = AnObject(no + 1)
  BY <1>1 DEF Numbered, AnObject
<1>2. CASE x = AFunction(nf + 1)
  BY <1>2 DEF Numbered, AFunction
<1>3. CASE x = AConstant(Len(u) + 1)
  BY <1>3 DEF Numbered, AConstant
<1>4. CASE x = AType(Len(u) + 1)
  BY <1>4 DEF Numbered, AType
<1> QED
  BY <1>1, <1>2, <1>3, <1>4

(* A name put into one of the scopes.                                      *)
Put(ss, ss2, q, n, x) ==
    /\ ss2 \in Seq([Name -> Denotation]) /\ Len(ss2) = Len(ss)
    /\ DOMAIN ss = 1 .. Len(ss) /\ DOMAIN ss2 = 1 .. Len(ss)
    /\ ss2[q][n] = x
    /\ \A k \in 1 .. Len(ss), c \in Name : c # n \/ k # q => ss2[k][c] = ss[k][c]

LEMMA PutIs ==
    ASSUME NEW ss \in Seq([Name -> Denotation]), NEW q \in 1 .. Len(ss), NEW n \in Name,
           NEW x \in Denotation
    PROVE  Put(ss, [ss EXCEPT ![q][n] = x], q, n, x)
<1> DEFINE s2 == [ss EXCEPT ![q][n] = x]
<1>0. PICK t : t = Len(ss)
  OBVIOUS
<1>1. t \in Nat /\ DOMAIN ss = 1 .. t /\ \A k \in 1 .. t : ss[k] \in [Name -> Denotation]
  BY <1>0
<1>2. /\ \A k \in 1 .. t : s2[k] = IF k = q THEN [ss[k] EXCEPT ![n] = x] ELSE ss[k]
      /\ DOMAIN s2 = 1 .. t /\ s2 = [k \in 1 .. t |-> s2[k]]
  BY <1>0, <1>1
<1>3. \A k \in 1 .. t : s2[k] \in [Name -> Denotation]
  BY <1>1, <1>2
<1> HIDE DEF s2
<1>4. s2 \in [1 .. t -> [Name -> Denotation]]
  BY <1>2, <1>3
<1>5. s2 \in Seq([Name -> Denotation]) /\ Len(s2) = t
  BY <1>1, <1>4, SequenceIs
<1>6. s2[q][n] = x /\ \A k \in 1 .. t, c \in Name : c # n \/ k # q => s2[k][c] = ss[k][c]
  BY <1>0, <1>1, <1>2
<1> QED
  BY <1>0, <1>1, <1>2, <1>5, <1>6 DEF Put, s2

(* A name in no inner scope is what the file scope says.                   *)
LEMMA LookupOutermost ==
    ASSUME NEW ss, NEW t \in Nat, t >= 1, DOMAIN ss = 1 .. t, NEW n,
           \A l \in 2 .. t : ss[l][n] = Nothing
    PROVE  Lookup(ss, n) = ss[1][n]
<1>1. CASE ss[1][n] = Nothing
  <2>1. \A k \in DOMAIN ss : k = 1 \/ k \in 2 .. t
    OBVIOUS
  <2>2. {k \in DOMAIN ss : ss[k][n] # Nothing} = {}
    BY <1>1, <2>1
  <2> QED
    BY <1>1, <2>2 DEF Lookup
<1>2. CASE ss[1][n] # Nothing
  <2>1. \A q \in 1 .. t : 1 < q => ss[q][n] = Nothing
    OBVIOUS
  <2> QED
    BY <1>2, <2>1, LookupFinds
<1> QED
  BY <1>1, <1>2

-----------------------------------------------------------------------------
(* A use, as both readings have it.                                        *)

Kept(u, m, u2, m2) ==
    \A j \in DOMAIN u : j \in DOMAIN u2 /\ u2[j] = u[j] /\ m2[j] = m[j]

LEMMA KeptIs ==
    ASSUME NEW u, NEW m, NEW u2, NEW m2, NEW n \in Nat, DOMAIN u = 1 .. n, DOMAIN u2 = 1 .. n + 1,
           \A i \in 1 .. n : u2[i] = u[i] /\ m2[i] = m[i]
    PROVE  Kept(u, m, u2, m2)
BY DEF Kept

LEMMA GivenKept ==
    ASSUME NEW u, NEW m, NEW u2, NEW m2, Kept(u, m, u2, m2), NEW x, Given(u, m, x)
    PROVE  Given(u2, m2, x)
BY DEF Kept, Given

UseRead(a, u, ss, m, no, nf, n, u2, m2) ==
    /\ Good(u2, blocks, ss, m2, no, nf) /\ Introduced(a, u2) /\ Kept(u, m, u2, m2)
    /\ Lookup(ss, n) # Nothing /\ Lookup(ss, n) \in Denotation

LEMMA UseOf ==
    ASSUME NEW a, NEW u, NEW ss, NEW m, NEW no, NEW nf, Good(u, blocks, ss, m, no, nf), Introduced(a, u),
           NEW n \in Name, NEW how \in Hows, Usable(u, n, how), NEW from \in Entity \cup {<<>>}
    PROVE  UseRead(a, u, ss, m, no, nf, n, Used(u, n, how, from), Append(m, Lookup(ss, n)))
<1> DEFINE v == Visible(u, n)
           e == [what |-> how, name |-> n, entity |-> u[v].entity, from |-> from]
<1>1. Typed(u, blocks, ss, m)
  BY DEF Good
<1>2. IsDeclaration(u, v) /\ Lookup(ss, n) = m[v] /\ m[v] # Nothing
  BY LookupVisible DEF Usable
<1>3. u[v] \in DeclarationEntry /\ m[v] \in Denotation
  BY <1>1, <1>2, EntryIs DEF IsDeclaration, Typed
<1>4. u[v].entity \in Entity
  BY <1>3, DeclaresEntry
<1>5. e \in UseEntry
  BY <1>4 DEF UseEntry
<1>6. Used(u, n, how, from) = Append(u, e)
  BY DEF Used
<1>7. e.entity = u[v].entity
  OBVIOUS
<1> HIDE DEF e, v
<1>8. Good(Append(u, e), blocks, ss, Append(m, m[v]), no, nf)
  BY <1>2, <1>5, <1>7, UseGood
<1>9. ~Declares(e) /\ e \in Entry
  BY <1>5, UsesEntry
<1>10. /\ DOMAIN u = 1 .. Len(u) /\ Len(u) \in Nat /\ DOMAIN Append(u, e) = 1 .. Len(u) + 1
       /\ \A i \in 1 .. Len(u) : Append(u, e)[i] = u[i] /\ Append(m, m[v])[i] = m[i]
       /\ Append(u, e)[Len(u) + 1] = e
  BY <1>1, <1>3, <1>9, UnitGrows DEF Typed
<1>11. Kept(u, m, Append(u, e), Append(m, m[v]))
  BY <1>10, KeptIs
<1>12. Introduced(a, Append(u, e))
  <2>1. \A j \in DOMAIN Append(u, e) :
            Declares(Append(u, e)[j]) => j \in DOMAIN u /\ Append(u, e)[j] = u[j]
    BY <1>9, <1>10
  <2> QED
    BY <2>1 DEF Introduced
<1> QED
  BY <1>2, <1>3, <1>6, <1>8, <1>11, <1>12 DEF UseRead

LEMMA BodyIs ==
    ASSUME NEW u, NEW ss, NEW m, Typed(u, blocks, ss, m), Scoped(u, blocks)
    PROVE  Body(u) \in Entity \cup {<<>>}
<1>1. CASE AtFileScope
  BY <1>1 DEF Body
<1>2. CASE ~AtFileScope
  <2>1. Len(blocks) >= 2
    <3>1. PICK t : t = Len(blocks)
      OBVIOUS
    <3>2. t \in Nat /\ t >= 1 /\ t # 1
      BY <1>2, <3>1, AtFileScopeIs
    <3> QED
      BY <3>1, <3>2
  <2>2. blocks[2] \in DOMAIN u
    BY <2>1 DEF Scoped
  <2>3. u[blocks[2]] \in Entry
    BY <2>2 DEF Typed
  <2>4. u[blocks[2]].entity \in Entity
    BY <2>3, UsesEntry, DeclaresEntry DEF Entry
  <2> QED
    BY <1>2, <2>4 DEF Body
<1> QED
  BY <1>1, <1>2


-----------------------------------------------------------------------------
(* A declaration, as both readings have it.                                *)

LEMMA LastOf ==
    ASSUME NEW u \in Seq(Entry), NEW e \in Entry
    PROVE  Last(Append(u, e)) = e
BY Appended DEF Last

LEMMA MeantIs ==
    ASSUME means \in Seq(Denotation), NEW x \in Denotation, NEW ss, NEW d
    PROVE  /\ ~NamesAnother(d) => Meant(x, ss, d) = Append(means, x)
           /\ NamesAnother(d) /\ Lookup(ss, d.inits) \in Denotation =>
                  Meant(x, ss, d) = Append(Append(means, x), Lookup(ss, d.inits))
BY DEF Meant

EntryAdded(a, u, ss2, m, no2, nf2, e, x) ==
    /\ Good(Append(u, e), blocks, ss2, Append(m, x), no2, nf2)
    /\ Introduced(a, Append(u, e)) /\ Kept(u, m, Append(u, e), Append(m, x))
    /\ e.defines => Given(Append(u, e), Append(m, x), x)

LEMMA AddsEntry ==
    ASSUME NEW a, NEW u, NEW ss, NEW m, NEW no, NEW nf, Good(u, blocks, ss, m, no, nf), Introduced(a, u),
           NEW d \in a.items, NEW x, NEW ss2, NEW no2, NEW nf2,
           Adds(u, blocks, ss, m, no, nf, EntryOf(u, d), x, ss2, no2, nf2)
    PROVE  EntryAdded(a, u, ss2, m, no2, nf2, EntryOf(u, d), x)
<1> DEFINE e == EntryOf(u, d)
<1>1. e.what = d.what /\ e.name = d.name /\ e.storage = d.storage
  BY DEF EntryOf
<1> HIDE DEF e
<1>2. Typed(u, blocks, ss, m) /\ e \in DeclarationEntry /\ x \in Denotation
  BY DEF Good, Adds, Fits, e
<1>3. Declares(e) /\ e \in Entry
  BY <1>2, DeclaresEntry
<1>4. /\ DOMAIN u = 1 .. Len(u) /\ Len(u) \in Nat /\ DOMAIN Append(u, e) = 1 .. Len(u) + 1
      /\ \A i \in 1 .. Len(u) : Append(u, e)[i] = u[i] /\ Append(m, x)[i] = m[i]
      /\ Append(u, e)[Len(u) + 1] = e /\ Append(m, x)[Len(u) + 1] = x
  BY <1>2, <1>3, UnitGrows DEF Typed
<1>5. Good(Append(u, e), blocks, ss2, Append(m, x), no2, nf2)
  BY AddsGood DEF e
<1>6. Kept(u, m, Append(u, e), Append(m, x))
  BY <1>4, KeptIs
<1>7. Introduced(a, Append(u, e))
  <2>1. \A j \in DOMAIN Append(u, e) :
            (j \in DOMAIN u /\ Append(u, e)[j] = u[j]) \/ Append(u, e)[j] = e
    BY <1>4
  <2> QED
    BY <1>1, <2>1 DEF Introduced
<1>8. e.defines => Given(Append(u, e), Append(m, x), x)
  <2>1. Len(u) + 1 \in DOMAIN Append(u, e)
    BY <1>4
  <2> QED
    BY <1>3, <1>4, <2>1 DEF Given
<1> QED
  BY <1>5, <1>6, <1>7, <1>8 DEF EntryAdded, e

Uses == SUBSET (Denotation \X Hows)
DeclarationRead(u2, m2, ss2, no2, nf2, d, x) ==
    /\ Good(u2, blocks, ss2, m2, no2, nf2) /\ Introduced(alphabet, u2)
    /\ Kept(unit, means, u2, m2)
    /\ ~Unresolved(ss2, d) /\ Refers(ss2, d) \in Uses
    /\ d.defines => Given(u2, m2, x)

LEMMA DeclaresBoth ==
    ASSUME NEW no, NEW nf, Good(unit, blocks, scopes, means, no, nf),
           alphabet \in Alphabets, Introduced(alphabet, unit),
           NEW d \in alphabet.items, Declares(d), NEW c, CDeclares(d, c),
           NEW x, NEW ss2, NEW no2, NEW nf2,
           Adds(unit, blocks, scopes, means, no, nf, EntryOf(unit, d), x, ss2, no2, nf2)
    PROVE  DeclarationRead(unit', Meant(x, ss2, d), ss2, no2, nf2, d, x)
<1> DEFINE e == EntryOf(unit, d)
           u1 == Append(unit, e)
           m1 == Append(means, x)
<1>1. /\ Good(u1, blocks, ss2, m1, no2, nf2) /\ Introduced(alphabet, u1) /\ Kept(unit, means, u1, m1)
      /\ e.defines => Given(u1, m1, x)
  BY AddsEntry DEF EntryAdded
<1>2. Declared(unit, d) = u1
  BY DeclaredIs
<1>3. e.defines = d.defines /\ e.entity = <<d.name, IF Linkage(unit, d) = "none" THEN Len(unit) + 1 ELSE 0>>
  BY DEF EntryOf
<1>4. /\ unit \in Seq(Entry) /\ means \in Seq(Denotation) /\ x \in Denotation
      /\ e \in DeclarationEntry /\ e \in Entry /\ e.entity \in Entity
  BY DeclaresEntry DEF Good, Typed, Adds, Fits
<1>5. d.inits \in Name \cup {NoInit, Value}
  BY ItemIs
<1>6. Last(u1) = e
  BY <1>4, LastOf
<1> HIDE DEF e, u1, m1
<1>7. CASE ~NamesAnother(d)
  <2>1. unit' = u1 /\ Meant(x, ss2, d) = m1
    BY <1>2, <1>4, <1>7, MeantIs DEF CDeclares, m1
  <2>2. ~Unresolved(ss2, d) /\ Refers(ss2, d) \in Uses
    BY <1>7 DEF Unresolved, Refers, Uses
  <2> QED
    BY <1>1, <1>3, <2>1, <2>2 DEF DeclarationRead
<1>8. CASE NamesAnother(d)
  <2>1. d.inits \in Name
    BY <1>5, <1>8 DEF NamesAnother
  <2>2. Usable(u1, d.inits, "address") /\ unit' = Used(u1, d.inits, "address", Owner(u1))
    BY <1>2, <1>8 DEF CDeclares
  <2>3. Owner(u1) \in Entity \cup {<<>>}
    <3>1. Body(u1) \in Entity \cup {<<>>}
      BY <1>1, BodyIs DEF Good
    <3> QED
      BY <1>4, <1>6, <3>1 DEF Owner
  <2>4. UseRead(alphabet, u1, ss2, m1, no2, nf2, d.inits, unit', Append(m1, Lookup(ss2, d.inits)))
    <3>1. "address" \in Hows
      BY DEF Hows
    <3> QED
      BY <1>1, <2>1, <2>2, <2>3, <3>1, UseOf
  <2>5. Meant(x, ss2, d) = Append(m1, Lookup(ss2, d.inits))
    BY <1>4, <1>8, <2>4, MeantIs DEF UseRead, m1
  <2>6. /\ Good(unit', blocks, ss2, Meant(x, ss2, d), no2, nf2) /\ Introduced(alphabet, unit')
        /\ Kept(u1, m1, unit', Meant(x, ss2, d)) /\ Lookup(ss2, d.inits) \in Denotation
        /\ Lookup(ss2, d.inits) # Nothing
    BY <2>4, <2>5 DEF UseRead
  <2>7. Kept(unit, means, unit', Meant(x, ss2, d))
    BY <1>1, <2>6 DEF Kept
  <2>8. d.defines => Given(unit', Meant(x, ss2, d), x)
    BY <1>1, <1>3, <2>6, GivenKept
  <2>9. ~Unresolved(ss2, d) /\ Refers(ss2, d) \in Uses
    BY <1>8, <2>6 DEF Unresolved, Refers, Uses, Hows
  <2> QED
    BY <2>6, <2>7, <2>8, <2>9 DEF DeclarationRead
<1> QED
  BY <1>7, <1>8


-----------------------------------------------------------------------------
(* What holds while sema reads the unit, whatever was written: the objects *)
(* and functions are numbered as they are declared, one that has been      *)
(* given a value or a body was declared with it, and the parser is where   *)
(* sema is.                                                                *)

ObjectRow == [name : Name, storage : {"automatic", "static", "extern", "exported"}]
FunctionRow ==
    [name : Name, is_static : BOOLEAN, is_inline : BOOLEAN, body : BOOLEAN, uses : Uses,
     all_inline : BOOLEAN, any_extern : BOOLEAN, inline_only : BOOLEAN]

Values(u, m, init) == \A id \in init : Given(u, m, AnObject(id))
Bodies(u, m, fs, w) ==
    \A id \in DOMAIN fs : fs[id].body \/ id = w => Given(u, m, AFunction(id))
Read(u, b, sy, ss, m, os, fs, init, w) ==
    /\ Good(u, b, ss, m, Len(os), Len(fs)) /\ Introduced(alphabet, u)
    /\ Parsed(alphabet, b, ss, sy)
    /\ os \in Seq(ObjectRow) /\ fs \in Seq(FunctionRow)
    /\ Len(b) >= 2 => w \in DOMAIN fs
    /\ w # 0 => w \in DOMAIN fs
    /\ Values(u, m, init) /\ Bodies(u, m, fs, w)

Reads ==
    /\ alphabet \in Alphabets /\ ~rejected
    /\ Read(unit, blocks, syms, scopes, means, objects, functions, initialized, within)

LEMMA ReadsFacts ==
    ASSUME Reads
    PROVE  /\ Good(unit, blocks, scopes, means, Len(objects), Len(functions))
           /\ Typed(unit, blocks, scopes, means) /\ Scoped(unit, blocks)
           /\ Denoted(unit, blocks, scopes, means)
           /\ Numbered(unit, means, Len(objects), Len(functions))
           /\ Introduced(alphabet, unit) /\ Parsed(alphabet, blocks, scopes, syms)
           /\ objects \in Seq(ObjectRow) /\ functions \in Seq(FunctionRow)
           /\ Len(objects) \in Nat /\ Len(functions) \in Nat /\ Len(unit) \in Nat
           /\ DOMAIN objects = 1 .. Len(objects) /\ DOMAIN functions = 1 .. Len(functions)
           /\ Len(blocks) >= 2 => within \in DOMAIN functions
           /\ within # 0 => within \in DOMAIN functions
           /\ Values(unit, means, initialized) /\ Bodies(unit, means, functions, within)
           /\ blocks \in Seq(Int) /\ scopes \in Seq([Name -> Denotation]) /\ Len(scopes) = Len(blocks)
           /\ Len(blocks) \in Nat /\ Len(blocks) >= 1 /\ Len(blocks) \in DOMAIN blocks
           /\ DOMAIN scopes = 1 .. Len(blocks) /\ DOMAIN blocks = 1 .. Len(blocks)
BY DEF Reads, Read, Good, Typed

LEMMA ReadsMeans ==
    ASSUME Reads
    PROVE  MeansTheSame
<1>1. Told(unit, means) /\ ~rejected
  BY DEF Reads, Read, Good
<1> QED
  BY <1>1 DEF MeansTheSame, Told

LEMMA InitReads ==
    ASSUME Init
    PROVE  Reads
<1>1. EmptyScope \in [Name -> Denotation] /\ NoSyms \in Symbols
  BY EmptyIs DEF NoSyms, Symbols
<1>2. /\ unit = <<>> /\ DOMAIN unit = {} /\ Len(unit) = 0 /\ blocks = <<0>> /\ DOMAIN blocks = {1}
      /\ blocks[1] = 0 /\ Len(blocks) = 1 /\ scopes = <<EmptyScope>> /\ DOMAIN scopes = {1}
      /\ scopes[1] = EmptyScope /\ Len(scopes) = 1 /\ syms = <<NoSyms>> /\ DOMAIN syms = {1}
      /\ syms[1] = NoSyms /\ Len(syms) = 1 /\ means = <<>> /\ Len(means) = 0
      /\ objects = <<>> /\ Len(objects) = 0 /\ functions = <<>> /\ Len(functions) = 0
      /\ DOMAIN functions = {} /\ initialized = {} /\ alphabet \in Alphabets /\ rejected = FALSE
      /\ within = 0
  BY DEF Init
<1>3. Typed(unit, blocks, scopes, means)
  BY <1>1, <1>2 DEF Typed
<1>4. Scoped(unit, blocks)
  BY <1>2 DEF Scoped
<1>5. Linkages(unit) /\ Allowed(unit) /\ Told(unit, means)
  BY <1>2 DEF Linkages, Allowed, Told
<1>6. Denoted(unit, blocks, scopes, means)
  BY <1>2, EmptyIs DEF Denoted
<1>7. Numbered(unit, means, Len(objects), Len(functions))
  BY <1>2 DEF Numbered
<1>8. Parsed(alphabet, blocks, scopes, syms)
  <2>1. Aligned(alphabet, [i \in {1} |-> 1], blocks, scopes, syms)
    <3>1. \A n \in Types(alphabet) : n \in Name
      BY <1>2, TypesAreNames
    <3>2. \A n \in Name : NoSyms[n] = Reading(EmptyScope[n])
      BY EmptyIs DEF NoSyms, Reading
    <3> QED
      BY <1>2, <3>1, <3>2 DEF Aligned
  <2>2. /\ \A n \in Name : NoSyms[n] # "typedef"
        /\ \A n \in Name : EmptyScope[n][1] # "typedef"
    BY EmptyIs DEF NoSyms, Nothing
  <2>3. syms \in Seq(Symbols)
    BY <1>1, <1>2
  <2> QED
    BY <1>2, <2>1, <2>2, <2>3 DEF Parsed
<1>9. Values(unit, means, initialized) /\ Bodies(unit, means, functions, within)
  BY <1>2 DEF Values, Bodies
<1>10. Introduced(alphabet, unit)
  BY <1>2 DEF Introduced
<1> QED
  BY <1>2, <1>3, <1>4, <1>5, <1>6, <1>7, <1>8, <1>9, <1>10 DEF Reads, Read, Good


-----------------------------------------------------------------------------
(* Where sema and the parser put a name.                                   *)

LEMMA EnterOne ==
    ASSUME NEW ss, NEW s2, NEW t \in Nat, t >= 1, t = Len(ss), NEW e, NEW x, Put(ss, s2, t, e.name, x),
           e.name \in Name, e.what # "function" \/ t = 1, e.link # "none" /\ t # 1 => ss[1][e.name] = x
    PROVE  Entered(ss, s2, e, x, t)
<1>1. /\ s2 \in Seq([Name -> Denotation]) /\ Len(s2) = t /\ DOMAIN ss = 1 .. t /\ DOMAIN s2 = 1 .. t
      /\ s2[t][e.name] = x
      /\ \A k \in 1 .. t, c \in Name : c # e.name \/ k # t => s2[k][c] = ss[k][c]
  BY DEF Put
<1>2. t # 1 => s2[1][e.name] = ss[1][e.name]
  BY <1>1
<1>3. \A k \in DOMAIN ss, n \in Name : n # e.name \/ k \notin {1, t} => s2[k][n] = ss[k][n]
  BY <1>1
<1>4. InItsScope(e, t)
  BY DEF InItsScope
<1> QED
  BY <1>1, <1>2, <1>3, <1>4 DEF Entered

LEMMA EnterBoth ==
    ASSUME NEW ss, NEW s1, NEW s2, NEW t \in Nat, t >= 1, t = Len(ss), NEW e, NEW x,
           Put(ss, s1, 1, e.name, x), Put(s1, s2, t, e.name, x),
           e.name \in Name, e.what # "function", e.link # "none"
    PROVE  Entered(ss, s2, e, x, t)
<1>1. /\ s2 \in Seq([Name -> Denotation]) /\ Len(s2) = t /\ DOMAIN ss = 1 .. t
      /\ s2[t][e.name] = x /\ s1[1][e.name] = x
      /\ \A k \in 1 .. t, c \in Name : c # e.name \/ k # t => s2[k][c] = s1[k][c]
      /\ \A k \in 1 .. t, c \in Name : c # e.name \/ k # 1 => s1[k][c] = ss[k][c]
  BY DEF Put
<1>2. s2[1][e.name] = x
  BY <1>1
<1>3. \A k \in DOMAIN ss, n \in Name : n # e.name \/ k \notin {1, t} => s2[k][n] = ss[k][n]
  BY <1>1
<1>4. InItsScope(e, t)
  BY DEF InItsScope
<1> QED
  BY <1>1, <1>2, <1>3, <1>4 DEF Entered

LEMMA EnterFile ==
    ASSUME NEW ss \in Seq([Name -> Denotation]), NEW s2, NEW t \in Nat, t >= 1, t = Len(ss), NEW e, NEW x,
           Put(ss, s2, 1, e.name, x) \/ (s2 = ss /\ ss[1][e.name] = x),
           e.name \in Name, e.link # "none",
           t = 1 \/ (e.what = "function" /\ \A l \in 2 .. t : ss[l][e.name] = Nothing)
    PROVE  Entered(ss, s2, e, x, t)
<1>1. /\ s2 \in Seq([Name -> Denotation]) /\ Len(s2) = t /\ DOMAIN ss = 1 .. t
      /\ s2[1][e.name] = x
      /\ \A k \in 1 .. t, c \in Name : c # e.name \/ k # 1 => s2[k][c] = ss[k][c]
  BY DEF Put
<1>2. \A k \in DOMAIN ss, n \in Name : n # e.name \/ k \notin {1, t} => s2[k][n] = ss[k][n]
  BY <1>1
<1>3. InItsScope(e, t) => t = 1
  BY DEF InItsScope
<1>4. t = 1 => InItsScope(e, t)
  BY DEF InItsScope
<1>5. t # 1 => \A l \in 2 .. t : s2[l][e.name] = Nothing /\ ss[l][e.name] = Nothing
  BY <1>1
<1> QED
  BY <1>1, <1>2, <1>3, <1>4, <1>5 DEF Entered

KindOf(d) == IF d.what = "typedef" THEN "typedef" ELSE "ordinary"

LEMMA ParsedOf ==
    ASSUME Reads, NamesApart, NEW d \in alphabet.items, Declares(d), InStatement => d.what = "constant",
           NEW u, Fits(u, blocks, EntryOf(u, d)), NEW x \in Denotation, x[1] = d.what,
           NEW s2, Entered(scopes, s2, EntryOf(u, d), x, Len(blocks))
    PROVE  Parsed(alphabet, blocks, s2, Declare(d.name, KindOf(d)))
<1> DEFINE e == EntryOf(u, d)
           n == d.name
<1>1. /\ e.what = d.what /\ e.name = n /\ e.storage = d.storage
      /\ e.link = "none" <=> Local(e)
      /\ e.scope = <<Len(blocks), blocks[Len(blocks)]>>
  BY DEF EntryOf, Fits
<1> HIDE DEF e
<1>2. PICK t : t = Len(blocks)
  OBVIOUS
<1>3. /\ blocks \in Seq(Int) /\ scopes \in Seq([Name -> Denotation]) /\ Len(scopes) = t
      /\ t \in Nat /\ t >= 1 /\ t \in DOMAIN blocks /\ blocks[t] \in Int
      /\ DOMAIN scopes = 1 .. t /\ Parsed(alphabet, blocks, scopes, syms)
      /\ DOMAIN blocks = 1 .. t /\ alphabet \in Alphabets
  BY <1>2, ReadsFacts DEF Reads
<1>4. n \in Name /\ Types(alphabet) \subseteq Name /\ d.what \in {"object", "function", "constant", "typedef"}
  BY <1>3, ItemIs, TypesAreNames
<1>5. /\ s2 \in Seq([Name -> Denotation]) /\ Len(s2) = t
      /\ \A k \in 1 .. t, c \in Name : c # n \/ k \notin {1, t} => s2[k][c] = scopes[k][c]
      /\ e.link # "none" => s2[1][n] = x
      /\ e.link = "none" /\ t # 1 => s2[1][n] = scopes[1][n]
      /\ InItsScope(e, t) => s2[t][n] = x
      /\ ~InItsScope(e, t) => \A l \in 2 .. t : s2[l][n] = Nothing
  BY <1>1, <1>2, <1>3 DEF Entered, e
<1>6. InItsScope(e, t) <=> t = 1 \/ d.what # "function"
  BY <1>1 DEF InItsScope
<1>7. ASSUME n \notin Types(alphabet)
      PROVE  KindOf(d) = "ordinary" /\ \A k \in DOMAIN scopes : s2[k][n][1] # "typedef"
  <2>1. d.what # "typedef"
    BY <1>7 DEF Types
  <2>2. ASSUME NEW k \in 1 .. t PROVE s2[k][n][1] # "typedef"
    <3>1. scopes[k][n][1] # "typedef" /\ x[1] # "typedef" /\ Nothing[1] # "typedef"
      BY <1>3, <1>4, <1>7, <2>1 DEF Parsed, Nothing
    <3>2. CASE k \notin {1, t}
      BY <1>4, <1>5, <3>1, <3>2
    <3>3. CASE k = t
      BY <1>3, <1>5, <1>6, <3>1, <3>3
    <3>4. CASE k = 1 /\ t # 1
      BY <1>5, <3>1, <3>4
    <3> QED
      BY <3>2, <3>3, <3>4
  <2> QED
    BY <1>3, <2>1, <2>2 DEF KindOf
<1>8. ASSUME n \in Types(alphabet)
      PROVE  /\ blocks[t] >= 0 /\ Reading(s2[t][n]) = KindOf(d)
             /\ \A k \in 1 .. t - 1 : s2[k][n] = scopes[k][n]
  <2>1. PICK c \in alphabet.items : c.what = "typedef" /\ c.name = n
    BY <1>8 DEF Types
  <2>2. /\ d.what # "function" /\ ~(d.what = "object" /\ d.storage = "extern")
        /\ d.what = "constant" => ~alphabet.stmts
    BY <1>3, <2>1 DEF NamesApart
  <2>3. ~(blocks[t] < 0)
    <3>1. CASE d.what = "constant"
      <4>1. ~alphabet.stmts => \A k \in DOMAIN blocks : blocks[k] >= 0
        BY ONLY <1>3 DEF Parsed
      <4>2. \A k \in DOMAIN blocks : blocks[k] >= 0
        BY ONLY <2>2, <3>1, <4>1
      <4>3. blocks[t] \in Int /\ blocks[t] >= 0
        BY ONLY <1>3, <4>2
      <4> QED
        BY ONLY <4>3
    <3>2. CASE d.what # "constant"
      <4>1. ~InStatement
        BY ONLY <3>2, InStatement => d.what = "constant"
      <4> QED
        BY ONLY <1>2, <4>1 DEF InStatement, Scope
    <3> QED
      BY <3>1, <3>2
  <2>4. s2[t][n] = x
    BY <1>5, <1>6, <2>2
  <2>5. x # Nothing
    BY <1>4 DEF Nothing
  <2>6. Reading(s2[t][n]) = KindOf(d)
    BY <2>4, <2>5 DEF Reading, KindOf
  <2>7. t # 1 => e.link = "none"
    BY <1>1, <1>2, <1>4, <2>2 DEF Local
  <2>8. ASSUME NEW k \in 1 .. t - 1 PROVE s2[k][n] = scopes[k][n]
    <3>1. k \in 1 .. t /\ k # t /\ t # 1
      BY <1>3
    <3>2. CASE k = 1
      BY <1>5, <2>7, <3>1, <3>2
    <3>3. CASE k # 1
      BY <1>4, <1>5, <3>1, <3>3
    <3> QED
      BY <3>2, <3>3
  <2> QED
    BY <1>3, <2>3, <2>6, <2>8
<1>9. KindOf(d) \in {"ordinary", "typedef"}
  BY DEF KindOf
<1>10. \A k \in DOMAIN scopes, c \in Name : c # n => s2[k][c] = scopes[k][c]
  BY <1>3, <1>5
<1>11. /\ Len(scopes) = Len(blocks) /\ Len(s2) = Len(blocks) /\ Len(blocks) >= 1
       /\ n \in Types(alphabet) =>
              /\ blocks[Len(blocks)] >= 0 /\ Reading(s2[Len(blocks)][n]) = KindOf(d)
              /\ \A k \in 1 .. Len(blocks) - 1 : s2[k][n] = scopes[k][n]
  BY <1>2, <1>3, <1>5, <1>8
<1> HIDE DEF n
<1>12. Parsed(alphabet, blocks, s2, [syms EXCEPT ![Len(syms)][n] = KindOf(d)])
  BY <1>3, <1>4, <1>5, <1>7, <1>9, <1>10, <1>11, ParsedDeclares
<1> QED
  BY <1>12 DEF Declare, n

-----------------------------------------------------------------------------
(* The tables.                                                             *)

LEMMA SequenceUpdate ==
    ASSUME NEW S, NEW s \in Seq(S), NEW i \in DOMAIN s, NEW r \in S
    PROVE  LET s2 == [s EXCEPT ![i] = r]
           IN  /\ s2 \in Seq(S) /\ Len(s2) = Len(s) /\ DOMAIN s2 = DOMAIN s
               /\ s2[i] = r /\ \A k \in DOMAIN s : k # i => s2[k] = s[k]
OBVIOUS

SameBodies(fs, f2) ==
    /\ f2 \in Seq(FunctionRow) /\ Len(f2) = Len(fs) /\ DOMAIN f2 = DOMAIN fs
    /\ \A id \in DOMAIN fs : f2[id].body = fs[id].body

LEMMA RowUpdate ==
    ASSUME NEW fs \in Seq(FunctionRow), NEW w \in DOMAIN fs, NEW r \in FunctionRow, r.body = fs[w].body
    PROVE  SameBodies(fs, [fs EXCEPT ![w] = r])
<1>1. LET f2 == [fs EXCEPT ![w] = r]
      IN  /\ f2 \in Seq(FunctionRow) /\ Len(f2) = Len(fs) /\ DOMAIN f2 = DOMAIN fs
          /\ f2[w] = r /\ \A k \in DOMAIN fs : k # w => f2[k] = fs[k]
  BY SequenceUpdate
<1>2. PICK f2 : f2 = [fs EXCEPT ![w] = r]
  OBVIOUS
<1>3. /\ f2 \in Seq(FunctionRow) /\ Len(f2) = Len(fs) /\ DOMAIN f2 = DOMAIN fs
      /\ f2[w] = r /\ \A k \in DOMAIN fs : k # w => f2[k] = fs[k]
  BY <1>1, <1>2
<1>4. \A id \in DOMAIN fs : f2[id].body = fs[id].body
  BY <1>3
<1> QED
  BY <1>2, <1>3, <1>4 DEF SameBodies

LEMMA UsesNoted ==
    ASSUME NEW fs \in Seq(FunctionRow), NEW w \in DOMAIN fs, NEW us \in Uses
    PROVE  SameBodies(fs, [fs EXCEPT ![w].uses = @ \cup us])
<1> DEFINE r == [fs[w] EXCEPT !.uses = @ \cup us]
<1>1. fs[w] \in FunctionRow
  OBVIOUS
<1>2. r \in FunctionRow /\ r.body = fs[w].body
  BY <1>1 DEF FunctionRow, Uses
<1>3. [fs EXCEPT ![w].uses = @ \cup us] = [fs EXCEPT ![w] = r]
  OBVIOUS
<1> HIDE DEF r
<1> QED
  BY <1>2, <1>3, RowUpdate

LEMMA RowsStay ==
    ASSUME NEW u, NEW m, NEW u2, NEW m2, Kept(u, m, u2, m2), NEW init, NEW fs, NEW f2, NEW w,
           Values(u, m, init), Bodies(u, m, fs, w), f2 = fs \/ SameBodies(fs, f2)
    PROVE  Values(u2, m2, init) /\ Bodies(u2, m2, f2, w)
<1>1. \A x : Given(u, m, x) => Given(u2, m2, x)
  BY GivenKept
<1> QED
  BY <1>1 DEF Values, Bodies, SameBodies


-----------------------------------------------------------------------------
(* Each step.                                                              *)

(* What is known before a declaration d is added to u.                     *)
Before(d, u, m, e, t) ==
    /\ Good(u, blocks, scopes, m, Len(objects), Len(functions))
    /\ Fits(u, blocks, e)
    /\ e.link = "none" <=> Local(e)
    /\ e.what = d.what /\ e.name = d.name /\ e.storage = d.storage /\ e.defines = d.defines
    /\ d.name \in Name /\ d.what \in {"object", "function", "constant", "typedef"}
    /\ e.link \in {"none", "internal", "external"}
    /\ t = Len(blocks) /\ t \in Nat /\ t >= 1 /\ t = Len(scopes) /\ DOMAIN scopes = 1 .. t
    /\ DOMAIN blocks = 1 .. t
    /\ scopes \in Seq([Name -> Denotation])
    /\ AtFileScope <=> t = 1
    /\ e.scope = FileScope <=> t = 1
    /\ e.scope[1] = t
    /\ \A n \in Name, k \in 1 .. t : scopes[k][n] \in Denotation
    /\ DeclaredHere(d.name) = scopes[t][d.name]

LEMMA BeforeIs ==
    ASSUME Reads, NamesApart, NEW d \in alphabet.items, Declares(d), NEW u, NEW m,
           Good(u, blocks, scopes, m, Len(objects), Len(functions)), Introduced(alphabet, u),
           Agrees(Declared(u, d))
    PROVE  Before(d, u, m, EntryOf(u, d), Len(blocks))
<1> DEFINE e == EntryOf(u, d)
<1>1. alphabet \in Alphabets
  BY DEF Reads
<1>2. Fits(u, blocks, e)
  BY <1>1, NewEntry
<1>3. /\ e.what = d.what /\ e.name = d.name /\ e.storage = d.storage /\ e.defines = d.defines
      /\ e.scope = Here
  BY DEF EntryOf
<1> HIDE DEF e
<1>4. e.link = "none" <=> Local(e)
  BY <1>2 DEF Fits
<1>5. e.link \in {"none", "internal", "external"}
  BY <1>2, DeclaresEntry DEF Fits
<1>6. d.name \in Name /\ d.what \in {"object", "function", "constant", "typedef"}
  BY <1>1, ItemIs
<1>7. PICK t : t = Len(blocks)
  OBVIOUS
<1>8. /\ t \in Nat /\ t >= 1 /\ t = Len(scopes) /\ DOMAIN scopes = 1 .. t /\ DOMAIN blocks = 1 .. t
      /\ scopes \in Seq([Name -> Denotation])
  BY <1>7, ReadsFacts
<1>9. /\ AtFileScope <=> t = 1
      /\ t = 1 => Here = FileScope
      /\ Here = <<t, blocks[t]>>
  BY <1>7, ReadsFacts, AtFileScopeIs
<1>10. /\ e.scope = FileScope <=> t = 1
       /\ e.scope[1] = t
  BY <1>3, <1>9 DEF FileScope
<1>11. \A n \in Name, k \in 1 .. t : scopes[k][n] \in Denotation
  BY <1>8
<1>12. DeclaredHere(d.name) = scopes[t][d.name]
  BY <1>8 DEF DeclaredHere
<1>13. Before(d, u, m, e, t)
  BY <1>2, <1>3, <1>4, <1>5, <1>6, <1>7, <1>8, <1>9, <1>10, <1>11, <1>12 DEF Before
<1> QED
  BY <1>7, <1>13 DEF e

(* Before the first thing that is read with d.                             *)
LEMMA BeforeUnit ==
    ASSUME Reads, NamesApart, NEW d \in alphabet.items, Declares(d), NEW c, CDeclares(d, c)
    PROVE  Before(d, unit, means, EntryOf(unit, d), Len(blocks))
BY ReadsFacts, BeforeIs DEF CDeclares

(* What follows from it.                                                   *)
After(d, x) ==
    /\ ~Unresolved(scopes', d) /\ Refers(scopes', d) \in Uses
    /\ Introduced(alphabet, unit')
    /\ Good(unit', blocks, scopes', Meant(x, scopes', d), Len(objects'), Len(functions'))
    /\ Kept(unit, means, unit', Meant(x, scopes', d))
    /\ d.defines => Given(unit', Meant(x, scopes', d), x)
    /\ Parsed(alphabet, blocks, scopes', Declare(d.name, KindOf(d)))
LEMMA AfterIs ==
    ASSUME Reads, NamesApart, NEW d \in alphabet.items, Declares(d), NEW c, CDeclares(d, c), NEW x,
           Adds(unit, blocks, scopes, means, Len(objects), Len(functions), EntryOf(unit, d),
                x, scopes', Len(objects'), Len(functions'))
    PROVE  After(d, x)
<1>1. DeclarationRead(unit', Meant(x, scopes', d), scopes', Len(objects'), Len(functions'), d, x)
  BY ReadsFacts, DeclaresBoth DEF Reads
<1>2. /\ Fits(unit, blocks, EntryOf(unit, d)) /\ x \in Denotation /\ x[1] = EntryOf(unit, d).what
      /\ Entered(scopes, scopes', EntryOf(unit, d), x, Len(blocks))
  BY DEF Adds
<1>3. EntryOf(unit, d).what = d.what
  BY DEF EntryOf
<1>4. Parsed(alphabet, blocks, scopes', Declare(d.name, KindOf(d)))
  BY <1>2, <1>3, ParsedOf DEF CDeclares
<1> QED
  BY <1>1, <1>4 DEF After, DeclarationRead


(* Reads', from what a declaration adds.                                   *)
LEMMA ReadAfter ==
    ASSUME Reads, NEW d, NEW x, After(d, x), UNCHANGED alphabet, ~rejected',
           UNCHANGED blocks, UNCHANGED within, means' = Meant(x, scopes', d),
           syms' = Declare(d.name, KindOf(d)),
           objects' \in Seq(ObjectRow), functions' = functions \/ SameBodies(functions, functions'),
           initialized' = initialized \/
               (d.defines /\ \E id : x = AnObject(id) /\ initialized' = initialized \cup {id})
    PROVE  Reads'
<1>1. /\ Kept(unit, means, unit', means')
      /\ d.defines => Given(unit', means', x)
      /\ Good(unit', blocks', scopes', means', Len(objects'), Len(functions'))
      /\ Introduced(alphabet', unit') /\ Parsed(alphabet', blocks', scopes', syms')
  BY DEF After
<1>2. Values(unit, means, initialized) /\ Bodies(unit, means, functions, within)
  BY ReadsFacts
<1>3. Values(unit', means', initialized) /\ Bodies(unit', means', functions', within)
  BY <1>1, <1>2, RowsStay
<1>4. Values(unit', means', initialized')
  BY <1>1, <1>3 DEF Values
<1>5. /\ Len(blocks') >= 2 => within' \in DOMAIN functions'
      /\ within' # 0 => within' \in DOMAIN functions'
  BY ReadsFacts DEF SameBodies
<1>6. functions' \in Seq(FunctionRow)
  BY ReadsFacts DEF SameBodies
<1>7. alphabet' \in Alphabets
  BY DEF Reads
<1> QED
  BY <1>1, <1>3, <1>4, <1>5, <1>6, <1>7 DEF Reads, Read

LEMMA CompleteTentativeReads ==
    ASSUME Reads, NamesApart, NEW d \in alphabet.items, UNCHANGED alphabet,
           d.what = "object", d.storage # "extern", CDeclares(d, TRUE), AtFileScope,
           DeclaredHere(d.name)[1] = "object", CompleteTentative(d, DeclaredHere(d.name)[2]),
           syms' = Declare(d.name, "ordinary"), UNCHANGED <<blocks, functions, templates, within>>
    PROVE  Reads'
<1> DEFINE e == EntryOf(unit, d)
<1>0. PICK t : t = Len(blocks)
  OBVIOUS
<1>1. Before(d, unit, means, e, t)
  BY <1>0, BeforeUnit DEF Declares
<1> HIDE DEF e
<1>2. PICK x, id : x = scopes[1][d.name] /\ id = x[2]
  OBVIOUS
<1>3. t = 1 /\ DeclaredHere(d.name) = x /\ x \in Denotation /\ x[1] = "object" /\ e.scope = FileScope
  BY <1>1, <1>2 DEF Before
<1>4. x = AnObject(id) /\ x # Nothing /\ DeclaredHere(d.name)[2] = id
  BY <1>2, <1>3 DEF AnObject, Denotation, Nothing
<1>5. /\ Fits(unit, blocks, e) /\ Good(unit, blocks, scopes, means, Len(objects), Len(functions))
      /\ e.name = d.name /\ e.what = d.what /\ e.defines = d.defines
  BY <1>1 DEF Before
<1>6. e.link # "none" /\ \E i \in Known(unit, e) : x = means[i]
  <2>1. scopes[1][e.name] # Nothing =>
            e.link # "none" /\ \E i \in Known(unit, e) : scopes[1][e.name] = means[i]
    BY <1>3, <1>5, FileName
  <2>2. scopes[1][e.name] = x
    BY <1>2, <1>5
  <2> QED
    BY <1>4, <2>1, <2>2
<1>7. PICK i \in Known(unit, e) : x = means[i]
  BY <1>6
<1>8. i \in DOMAIN unit
  BY DEF Known, SameNamed
<1>9. id \in DOMAIN objects /\ id \in 1 .. Len(objects)
  BY <1>2, <1>3, <1>7, <1>8, ReadsFacts DEF Numbered
<1>10. /\ scopes' = scopes /\ means' = Meant(x, scopes, d)
       /\ objects' = IF DefinesHere(id, d.storage) THEN [objects EXCEPT ![id].storage = "exported"] ELSE objects
       /\ initialized' = IF d.defines THEN initialized \cup {id} ELSE initialized
       /\ rejected' = ((d.defines /\ id \in initialized) \/ Unresolved(scopes, d))
  BY <1>4 DEF CompleteTentative
<1>11. objects' \in Seq(ObjectRow) /\ Len(objects') = Len(objects)
  <2>1. objects \in Seq(ObjectRow) /\ objects[id] \in ObjectRow
    BY <1>9, ReadsFacts
  <2>2. [objects[id] EXCEPT !.storage = "exported"] \in ObjectRow
    BY <2>1 DEF ObjectRow
  <2>3. [objects EXCEPT ![id].storage = "exported"] =
            [objects EXCEPT ![id] = [objects[id] EXCEPT !.storage = "exported"]]
    OBVIOUS
  <2>4. /\ [objects EXCEPT ![id].storage = "exported"] \in Seq(ObjectRow)
        /\ Len([objects EXCEPT ![id].storage = "exported"]) = Len(objects)
    BY <1>9, <2>1, <2>2, <2>3, SequenceUpdate
  <2> QED
    BY <1>10, <2>1, <2>4
<1>12. Entered(scopes, scopes', e, x, Len(blocks))
  <2>1. /\ t \in Nat /\ t >= 1 /\ t = Len(scopes) /\ t = 1 /\ e.name \in Name
        /\ scopes \in Seq([Name -> Denotation])
    BY <1>1, <1>3 DEF Before
  <2>2. scopes' = scopes /\ scopes[1][e.name] = x
    BY <1>2, <1>5, <1>10
  <2> QED
    BY <1>0, <1>6, <2>1, <2>2, EnterFile
<1>13. Adds(unit, blocks, scopes, means, Len(objects), Len(functions), e,
            x, scopes', Len(objects'), Len(functions'))
  <2>1. Len(objects') \in Nat /\ Len(functions) \in Nat /\ functions' = functions
    BY <1>11, ReadsFacts
  <2>2. x[1] = e.what /\ x[2] \in 1 .. Len(objects')
    BY <1>2, <1>3, <1>5, <1>9, <1>11
  <2> QED
    BY <1>3, <1>5, <1>6, <1>7, <1>11, <1>12, <2>1, <2>2 DEF Adds
<1>14. After(d, x)
  BY <1>13, AfterIs DEF Declares, e
<1>15. ~(d.defines /\ id \in initialized)
  <2>1. SUFFICES ASSUME id \in initialized PROVE ~e.defines
    BY <1>5
  <2>2. Given(unit, means, means[i])
    BY <1>4, <1>7, <2>1, ReadsFacts DEF Values
  <2> QED
    BY <1>5, <1>6, <2>2, OnceOnly
<1>16. ~rejected'
  BY <1>10, <1>14, <1>15 DEF After
<1>17. syms' = Declare(d.name, KindOf(d))
  BY DEF KindOf
<1>18. initialized' = initialized \/
           (d.defines /\ \E q : x = AnObject(q) /\ initialized' = initialized \cup {q})
  BY <1>4, <1>10
<1> QED
  BY <1>10, <1>11, <1>14, <1>16, <1>17, <1>18, ReadAfter


(* A new thing, in the innermost scope alone.                              *)
LEMMA NewHere ==
    ASSUME Reads, NEW d, NEW u, NEW m, NEW e, NEW t, Before(d, u, m, e, t), d.what # "function",
           e.link = "none" \/ (t = 1 /\ DeclaredHere(d.name)[1] # d.what), NEW no2 \in Nat,
           NEW x \in {AnObject(Len(objects) + 1), AConstant(Len(u) + 1), AType(Len(u) + 1)}, x[1] = d.what,
           no2 = IF x[1] = "object" THEN Len(objects) + 1 ELSE Len(objects)
    PROVE  /\ ~Redefinition(d.name)
           /\ Adds(u, blocks, scopes, m, Len(objects), Len(functions), e,
                   x, Insert(d.name, x), no2, Len(functions))
<1>1. /\ Good(u, blocks, scopes, m, Len(objects), Len(functions)) /\ Fits(u, blocks, e)
      /\ e.what = d.what /\ e.name = d.name
      /\ t = Len(blocks) /\ t \in Nat /\ t >= 1 /\ t = Len(scopes)
      /\ scopes \in Seq([Name -> Denotation]) /\ d.name \in Name
      /\ t = 1 => e.scope = FileScope
      /\ DeclaredHere(d.name) = scopes[t][d.name]
  BY DEF Before
<1>2. Numbered(u, m, Len(objects), Len(functions)) /\ Len(u) \in Nat
  BY <1>1 DEF Good, Typed
<1>3. Len(objects) \in Nat /\ Len(functions) \in Nat
  BY ReadsFacts
<1>4. x \in Denotation /\ x[2] \in 1 .. IF x[1] = "object" THEN Len(objects) + 1 ELSE Len(u) + 1
  BY <1>2, <1>3 DEF Denotation, AnObject, AConstant, AType
<1>5. \A i \in DOMAIN u : m[i] # x
  BY <1>2, FreshMeaning
<1>7. e.link # "none" => scopes[t][e.name] = Nothing /\ Known(u, e) = {} /\ t = 1
  <2>1. SUFFICES ASSUME e.link # "none" PROVE scopes[t][e.name] = Nothing /\ Known(u, e) = {} /\ t = 1
    OBVIOUS
  <2>2. /\ scopes[1][e.name] = Nothing => Known(u, e) = {}
        /\ scopes[1][e.name] # Nothing => scopes[1][e.name][1] = e.what
    BY <1>1, <2>1, FileName
  <2>3. t = 1 /\ scopes[1][e.name][1] # e.what
    BY <1>1, <2>1
  <2> QED
    BY <2>2, <2>3
<1>8. e.link = "none" => scopes[t][e.name] = Nothing
  BY <1>1, NoRedefinition
<1>9. ~Redefinition(d.name)
  BY <1>1, <1>7, <1>8 DEF Redefinition
<1>10. Put(scopes, Insert(d.name, x), t, d.name, x)
  <2>1. Insert(d.name, x) = [scopes EXCEPT ![t][d.name] = x]
    BY <1>1 DEF Insert
  <2>2. t \in 1 .. Len(scopes)
    BY <1>1
  <2>3. Put(scopes, [scopes EXCEPT ![t][d.name] = x], t, d.name, x)
    BY <1>1, <1>4, <2>2, PutIs
  <2> QED
    BY <2>1, <2>3
<1>11. Entered(scopes, Insert(d.name, x), e, x, t)
  <2>1. ~(e.link # "none" /\ t # 1)
    BY <1>7
  <2> QED
    BY <1>1, <1>10, <2>1, EnterOne
<1>12. x[1] # "function" /\ x[1] = e.what
  BY <1>1
<1>13. Len(objects) <= no2
  BY <1>3
<1>14. e.link = "none" \/ Known(u, e) = {}
  BY <1>7
<1> QED
  BY <1>1, <1>3, <1>4, <1>5, <1>9, <1>11, <1>12, <1>13, <1>14 DEF Adds

LEMMA NewObjectIs ==
    ASSUME Reads, NEW n \in Name, NEW s \in {"automatic", "static", "extern", "exported"}
    PROVE  NewObject(n, s) \in Seq(ObjectRow) /\ Len(NewObject(n, s)) = Len(objects) + 1
<1>1. [name |-> n, storage |-> s] \in ObjectRow /\ objects \in Seq(ObjectRow)
  BY ReadsFacts DEF ObjectRow
<1> QED
  BY <1>1, Appended DEF NewObject

(* An object that is new, without a redefinition.                          *)
LEMMA NewObjectReads ==
    ASSUME Reads, NamesApart, NEW d \in alphabet.items, UNCHANGED alphabet,
           d.what = "object", NEW c, CDeclares(d, c), d.storage # "extern",
           AtFileScope => DeclaredHere(d.name)[1] # "object",
           scopes' = Insert(d.name, AnObject(NewId)),
           NEW s \in {"automatic", "static", "exported"}, objects' = NewObject(d.name, s),
           Len(functions') = Len(functions)
    PROVE  After(d, AnObject(NewId)) /\ ~Redefinition(d.name) /\ objects' \in Seq(ObjectRow)
<1> DEFINE e == EntryOf(unit, d)
<1>0. PICK t, x : t = Len(blocks) /\ x = AnObject(Len(objects) + 1)
  OBVIOUS
<1>1. Before(d, unit, means, e, t)
  BY <1>0, BeforeUnit DEF Declares
<1> HIDE DEF e
<1>2. /\ AtFileScope <=> t = 1
      /\ e.link = "none" <=> Local(e)
      /\ e.what = d.what /\ e.storage = d.storage /\ e.scope[1] = t /\ d.name \in Name
  BY <1>1 DEF Before
<1>3. e.link = "none" \/ (t = 1 /\ DeclaredHere(d.name)[1] # d.what)
  BY <1>2 DEF Local
<1>4. x[1] = "object"
  BY <1>0 DEF AnObject
<1>5. objects' \in Seq(ObjectRow) /\ Len(objects') = Len(objects) + 1
  BY <1>2, NewObjectIs
<1>6. Len(objects) \in Nat /\ Len(objects') \in Nat
  BY <1>5, ReadsFacts
<1>7. /\ ~Redefinition(d.name)
      /\ Adds(unit, blocks, scopes, means, Len(objects), Len(functions), e,
              x, Insert(d.name, x), Len(objects'), Len(functions))
  BY <1>0, <1>1, <1>3, <1>4, <1>5, <1>6, NewHere
<1>8. After(d, x)
  BY <1>0, <1>7, AfterIs DEF Declares, e, NewId
<1> QED
  BY <1>0, <1>5, <1>7, <1>8 DEF NewId

LEMMA NewStaticReads ==
    ASSUME Reads, NamesApart, NEW d \in alphabet.items, UNCHANGED alphabet,
           d.what = "object", d.storage # "extern", CDeclares(d, TRUE),
           ~(AtFileScope /\ DeclaredHere(d.name)[1] = "object"), NewStatic(d),
           syms' = Declare(d.name, "ordinary"), UNCHANGED <<blocks, functions, templates, within>>
    PROVE  Reads'
<1>1. PICK s \in {"automatic", "static", "exported"} : objects' = NewObject(d.name, s)
  BY DEF NewStatic
<1>2. /\ scopes' = Insert(d.name, AnObject(NewId)) /\ means' = Meant(AnObject(NewId), scopes', d)
      /\ initialized' = IF d.defines THEN initialized \cup {NewId} ELSE initialized
      /\ rejected' = (Redefinition(d.name) \/ Unresolved(scopes', d))
  BY DEF NewStatic
<1>3. After(d, AnObject(NewId)) /\ ~Redefinition(d.name) /\ objects' \in Seq(ObjectRow)
  BY <1>1, <1>2, NewObjectReads
<1>4. ~rejected' /\ syms' = Declare(d.name, KindOf(d))
  BY <1>2, <1>3 DEF After, KindOf
<1> QED
  BY <1>2, <1>3, <1>4, ReadAfter

LEMMA DeclareStaticReads ==
    ASSUME Reads, NamesApart, NEW d \in alphabet.items, UNCHANGED alphabet, DeclareStatic(d)
    PROVE  Reads'
BY CompleteTentativeReads, NewStaticReads DEF DeclareStatic

LEMMA DeclareAutomaticReads ==
    ASSUME Reads, NamesApart, NEW d \in alphabet.items, UNCHANGED alphabet, DeclareAutomatic(d)
    PROVE  Reads'
<1>1. /\ d.what = "object" /\ d.storage # "extern" /\ ~AtFileScope /\ CDeclares(d, FALSE)
      /\ scopes' = Insert(d.name, AnObject(NewId)) /\ means' = Meant(AnObject(NewId), scopes', d)
      /\ objects' = NewObject(d.name, "automatic")
      /\ functions' = [functions EXCEPT ![within].uses = @ \cup Refers(scopes', d)]
      /\ rejected' = (Redefinition(d.name) \/ Unresolved(scopes', d))
      /\ syms' = Declare(d.name, KindOf(d))
      /\ UNCHANGED blocks /\ UNCHANGED within /\ UNCHANGED initialized
  BY DEF DeclareAutomatic, KindOf
<1>2. Len(functions') = Len(functions)
  BY <1>1, ReadsFacts
<1>3. After(d, AnObject(NewId)) /\ ~Redefinition(d.name) /\ objects' \in Seq(ObjectRow)
  BY <1>1, <1>2, NewObjectReads
<1>4. SameBodies(functions, functions')
  <2>1. Refers(scopes', d) \in Uses
    BY <1>3 DEF After
  <2>2. functions \in Seq(FunctionRow) /\ within \in DOMAIN functions
    <3>1. PICK t : t = Len(blocks)
      OBVIOUS
    <3>2. t # 1 /\ t \in Nat /\ t >= 1
      BY <1>1, <3>1, ReadsFacts, AtFileScopeIs
    <3>3. t >= 2
      BY <3>2
    <3> QED
      BY <3>1, <3>3, ReadsFacts
  <2> QED
    BY <1>1, <2>1, <2>2, UsesNoted
<1>5. ~rejected'
  BY <1>1, <1>3 DEF After
<1> QED
  BY <1>1, <1>3, <1>4, <1>5, ReadAfter


LEMMA DeclareTypedefReads ==
    ASSUME Reads, NamesApart, NEW d \in alphabet.items, UNCHANGED alphabet, DeclareTypedef(d)
    PROVE  Reads'
<1> DEFINE e == EntryOf(unit, d)
<1>0. PICK t, x : t = Len(blocks) /\ x = AType(Len(unit) + 1)
  OBVIOUS
<1>1. /\ d.what = "typedef" /\ CDeclares(d, FALSE) /\ scopes' = Insert(d.name, x)
      /\ means' = Append(means, x) /\ rejected' = Redefinition(d.name)
      /\ syms' = Declare(d.name, KindOf(d))
      /\ UNCHANGED blocks /\ UNCHANGED within /\ UNCHANGED initialized
      /\ UNCHANGED objects /\ UNCHANGED functions
  BY <1>0 DEF DeclareTypedef, KindOf, tables
<1>2. Before(d, unit, means, e, t)
  BY <1>0, <1>1, BeforeUnit DEF Declares
<1> HIDE DEF e
<1>3. e.link = "none"
  BY <1>1, <1>2 DEF Before, Local
<1>4. x[1] = "typedef" /\ x \in Denotation
  BY <1>0, ReadsFacts DEF AType, Denotation
<1>5. Len(objects) \in Nat
  BY ReadsFacts
<1>6. /\ ~Redefinition(d.name)
      /\ Adds(unit, blocks, scopes, means, Len(objects), Len(functions), e,
              x, Insert(d.name, x), Len(objects), Len(functions))
  BY <1>0, <1>1, <1>2, <1>3, <1>4, <1>5, NewHere
<1>7. After(d, x)
  BY <1>1, <1>6, AfterIs DEF Declares, e
<1>8. means' = Meant(x, scopes', d)
  <2>1. ~NamesAnother(d)
    BY <1>1, ItemIs DEF NamesAnother, Declares, Reads
  <2> QED
    BY <1>1, <1>4, <2>1, MeantIs, ReadsFacts DEF Typed
<1>9. objects' \in Seq(ObjectRow)
  BY <1>1, ReadsFacts
<1> QED
  BY <1>1, <1>6, <1>7, <1>8, <1>9, ReadAfter

LEMMA DeclareExternReads ==
    ASSUME Reads, NamesApart, NEW d \in alphabet.items, UNCHANGED alphabet, DeclareExtern(d)
    PROVE  Reads'
<1> DEFINE e == EntryOf(unit, d)
           n == d.name
           linked == scopes[1][n]
           new == AnObject(Len(objects) + 1)
<1>0. PICK t, x : t = Len(blocks) /\ x = IF linked[1] = "object" THEN linked ELSE new
  OBVIOUS
<1>1. /\ d.what = "object" /\ d.storage = "extern" /\ CDeclares(d, FALSE)
      /\ means' = Append(means, x)
      /\ syms' = Declare(d.name, KindOf(d))
      /\ UNCHANGED blocks /\ UNCHANGED within /\ UNCHANGED initialized
      /\ UNCHANGED functions /\ UNCHANGED rejected
      /\ linked[1] = "object" => scopes' = Insert(n, x) /\ UNCHANGED objects
      /\ linked[1] # "object" => /\ scopes' = [InsertAtFileScope(n, x) EXCEPT ![Len(scopes)][n] = x]
                                 /\ objects' = NewObject(n, "extern")
  BY <1>0 DEF DeclareExtern, KindOf, LookupLinked, NewId
<1>2. Before(d, unit, means, e, t)
  BY <1>0, <1>1, BeforeUnit DEF Declares
<1> HIDE DEF e
<1>3. /\ Good(unit, blocks, scopes, means, Len(objects), Len(functions)) /\ Fits(unit, blocks, e)
      /\ e.what = "object" /\ e.name = n /\ n \in Name
      /\ t = Len(blocks) /\ t \in Nat /\ t >= 1 /\ t = Len(scopes)
      /\ scopes \in Seq([Name -> Denotation]) /\ linked \in Denotation
  BY <1>1, <1>2 DEF Before
<1>4. e.link # "none"
  BY <1>1, <1>2 DEF Before, Local
<1>5. /\ linked = Nothing => Known(unit, e) = {}
      /\ linked # Nothing => linked[1] = "object" /\ \E i \in Known(unit, e) : linked = means[i]
  <2>1. /\ scopes[1][e.name] = Nothing => Known(unit, e) = {}
        /\ scopes[1][e.name] # Nothing =>
              /\ scopes[1][e.name][1] = e.what
              /\ \E i \in Known(unit, e) : scopes[1][e.name] = means[i]
    BY <1>3, <1>4, FileName
  <2> QED
    BY <1>3, <2>1
<1>6. Numbered(unit, means, Len(objects), Len(functions)) /\ Len(unit) \in Nat
  BY ReadsFacts
<1>7. Len(objects) \in Nat /\ Len(functions) \in Nat
  BY ReadsFacts
<1> HIDE DEF n
<1>8. ASSUME linked[1] = "object"
      PROVE  /\ Adds(unit, blocks, scopes, means, Len(objects), Len(functions), e,
                     x, scopes', Len(objects'), Len(functions'))
             /\ objects' \in Seq(ObjectRow) /\ x \in Denotation
  <2>1. x = linked /\ scopes' = Insert(n, x) /\ objects' = objects
    BY <1>0, <1>1, <1>8
  <2>2. PICK i \in Known(unit, e) : linked = means[i]
    BY <1>5, <1>8 DEF Nothing
  <2>3. x[2] \in 1 .. Len(objects)
    <3>1. i \in DOMAIN unit
      BY DEF Known, SameNamed
    <3> QED
      BY <1>6, <1>8, <2>1, <2>2, <3>1 DEF Numbered
  <2>4. Put(scopes, scopes', t, n, x)
    <3>1. scopes' = [scopes EXCEPT ![t][n] = x]
      BY <1>3, <2>1 DEF Insert
    <3>2. t \in 1 .. Len(scopes) /\ x \in Denotation
      BY <1>3, <2>1
    <3>3. Put(scopes, [scopes EXCEPT ![t][n] = x], t, n, x)
      BY <1>3, <3>2, PutIs
    <3> QED
      BY <3>1, <3>3
  <2>5. Entered(scopes, scopes', e, x, t)
    BY <1>3, <2>1, <2>4, EnterOne
  <2>6. x[1] = e.what /\ x \in Denotation /\ \E q \in Known(unit, e) : e.link # "none" /\ x = means[q]
    BY <1>3, <1>4, <1>8, <2>1, <2>2
  <2>7. Adds(unit, blocks, scopes, means, Len(objects), Len(functions), e,
             x, scopes', Len(objects'), Len(functions'))
    BY <1>1, <1>3, <1>7, <2>1, <2>3, <2>5, <2>6 DEF Adds
  <2>8. objects' \in Seq(ObjectRow)
    BY <2>1, ReadsFacts
  <2> QED
    BY <2>6, <2>7, <2>8
<1>9. ASSUME linked[1] # "object"
      PROVE  /\ Adds(unit, blocks, scopes, means, Len(objects), Len(functions), e,
                     x, scopes', Len(objects'), Len(functions'))
             /\ objects' \in Seq(ObjectRow) /\ x \in Denotation
  <2>1. x = new /\ objects' = NewObject(n, "extern") /\ Known(unit, e) = {}
        /\ scopes' = [InsertAtFileScope(n, x) EXCEPT ![Len(scopes)][n] = x]
    BY <1>0, <1>1, <1>5, <1>9
  <2>2. objects' \in Seq(ObjectRow) /\ Len(objects') = Len(objects) + 1
    BY <1>3, <2>1, NewObjectIs
  <2>3. x \in Denotation /\ x[1] = "object" /\ x[2] \in 1 .. Len(objects')
    BY <1>7, <2>1, <2>2 DEF AnObject, Denotation
  <2>4. \A i \in DOMAIN unit : means[i] # x
    BY <1>6, <2>1, FreshMeaning
  <2>5. PICK s1 : s1 = [scopes EXCEPT ![1][n] = x]
    OBVIOUS
  <2>6. Put(scopes, s1, 1, n, x)
    <3>1. 1 \in 1 .. Len(scopes)
      BY <1>3
    <3>2. Put(scopes, [scopes EXCEPT ![1][n] = x], 1, n, x)
      BY <1>3, <2>3, <3>1, PutIs
    <3> QED
      BY <2>5, <3>2
  <2>7. s1 \in Seq([Name -> Denotation]) /\ Len(s1) = t
    BY <1>3, <2>6 DEF Put
  <2>8. Put(s1, scopes', t, n, x)
    <3>1. scopes' = [s1 EXCEPT ![t][n] = x]
      BY <1>3, <2>1, <2>5 DEF InsertAtFileScope
    <3>2. t \in 1 .. Len(s1)
      BY <1>3, <2>7
    <3>3. Put(s1, [s1 EXCEPT ![t][n] = x], t, n, x)
      BY <1>3, <2>3, <2>7, <3>2, PutIs
    <3> QED
      BY <3>1, <3>3
  <2>9. Entered(scopes, scopes', e, x, t)
    BY <1>3, <1>4, <2>6, <2>8, EnterBoth
  <2>10. Len(objects') \in Nat /\ Len(objects) <= Len(objects') /\ x[1] = e.what
    BY <1>3, <1>7, <2>2, <2>3
  <2>11. Adds(unit, blocks, scopes, means, Len(objects), Len(functions), e,
              x, scopes', Len(objects'), Len(functions'))
    BY <1>1, <1>3, <1>7, <2>1, <2>3, <2>4, <2>9, <2>10 DEF Adds
  <2> QED
    BY <2>2, <2>3, <2>11
<1>10. /\ Adds(unit, blocks, scopes, means, Len(objects), Len(functions), e,
               x, scopes', Len(objects'), Len(functions'))
       /\ objects' \in Seq(ObjectRow) /\ x \in Denotation
  BY <1>8, <1>9
<1>11. After(d, x)
  BY <1>1, <1>10, AfterIs DEF Declares, e
<1>12. means' = Meant(x, scopes', d)
  <2>1. ~NamesAnother(d)
    BY <1>1, ItemIs DEF NamesAnother, Declares, Reads
  <2> QED
    BY <1>1, <1>10, <2>1, MeantIs, ReadsFacts DEF Typed
<1>13. ~rejected'
  BY <1>1 DEF Reads
<1> QED
  BY <1>1, <1>10, <1>11, <1>12, <1>13, ReadAfter


(* The value of an enumerator is read first.                               *)
LEMMA ElseDeclares ==
    ASSUME NEW sy \in Seq(Symbols), Len(sy) >= 1, NEW n \in Name, NEW c \in Name, c # n, NEW kind
    PROVE  IsTypedefName([sy EXCEPT ![Len(sy)][n] = kind], c) = IsTypedefName(sy, c)
<1> DEFINE s2 == [sy EXCEPT ![Len(sy)][n] = kind]
<1>0. PICK y : y = Len(sy)
  OBVIOUS
<1>1. y \in Nat /\ DOMAIN sy = 1 .. y /\ \A k \in 1 .. y : sy[k] \in Symbols
  BY <1>0
<1>2. DOMAIN s2 = 1 .. y /\ \A k \in 1 .. y : s2[k][c] = sy[k][c]
  <2>1. \A k \in 1 .. y : s2[k] = IF k = y THEN [sy[k] EXCEPT ![n] = kind] ELSE sy[k]
    BY <1>0, <1>1
  <2> QED
    BY <1>1, <2>1 DEF Symbols
<1> HIDE DEF s2
<1>3. {k \in DOMAIN s2 : s2[k][c] # "nothing"} = {k \in DOMAIN sy : sy[k][c] # "nothing"}
  BY <1>1, <1>2
<1>4. PICK in : in = {k \in DOMAIN sy : sy[k][c] # "nothing"}
  OBVIOUS
<1>5. in # {} => s2[Max(in)][c] = sy[Max(in)][c]
  <2>1. in \in SUBSET (0 .. y)
    BY <1>1, <1>4
  <2>2. in # {} => Max(in) \in in
    BY <1>1, <2>1, Greatest
  <2> QED
    BY <1>1, <1>2, <1>4, <2>2
<1>6. IsTypedefName(s2, c) = (in # {} /\ s2[Max(in)][c] = "typedef")
  BY <1>3, <1>4 DEF IsTypedefName
<1>7. IsTypedefName(sy, c) = (in # {} /\ sy[Max(in)][c] = "typedef")
  BY <1>4 DEF IsTypedefName
<1> QED
  BY <1>5, <1>6, <1>7 DEF s2

ConstantRead(d, u, m) ==
    /\ Good(u, blocks, scopes, m, Len(objects), Len(functions)) /\ Introduced(alphabet, u)
    /\ Kept(unit, means, u, m)
    /\ NamesAnother(d) => ReadAlike(Declare(d.name, "ordinary"), d.inits)
    /\ Agrees(Declared(u, d)) /\ unit' = Declared(u, d)
    /\ means' = Append(m, AConstant(Len(u) + 1)) /\ scopes' = Insert(d.name, AConstant(Len(u) + 1))

LEMMA ConstantReadFirst ==
    ASSUME Reads, NamesApart, NEW d \in alphabet.items, DeclareConstant(d)
    PROVE  \E u, m : ConstantRead(d, u, m)
<1>0. /\ Good(unit, blocks, scopes, means, Len(objects), Len(functions)) /\ Introduced(alphabet, unit)
      /\ alphabet \in Alphabets /\ means \in Seq(Denotation)
  BY ReadsFacts DEF Reads, Typed
<1>1. Len(unit) \in Nat
  BY ReadsFacts
<1>2. CASE ~NamesAnother(d)
  <2>1. /\ Agrees(Declared(unit, d)) /\ unit' = Declared(unit, d)
        /\ scopes' = Insert(d.name, AConstant(Len(unit) + 1))
        /\ means' = means \o <<AConstant(Len(unit) + 1)>>
    BY <1>2 DEF DeclareConstant
  <2>2. means \o <<AConstant(Len(unit) + 1)>> = Append(means, AConstant(Len(unit) + 1))
    BY <1>0
  <2>3. Kept(unit, means, unit, means)
    BY DEF Kept
  <2>4. ConstantRead(d, unit, means)
    BY <1>0, <1>2, <2>1, <2>2, <2>3 DEF ConstantRead
  <2> QED
    BY <2>4
<1>3. CASE NamesAnother(d)
  <2> DEFINE how == HowUsed(d.inits)
             u == Used(unit, d.inits, how, Body(unit))
             m == Append(means, Lookup(scopes, d.inits))
             x == AConstant(Len(u) + 1)
  <2>1. /\ Usable(unit, d.inits, how) /\ Agrees(Declared(u, d)) /\ unit' = Declared(u, d)
        /\ scopes' = Insert(d.name, x) /\ means' = m \o <<x>> /\ d.what = "constant"
    BY <1>3 DEF DeclareConstant
  <2>2. how \in Hows
    BY DEF HowUsed, Hows
  <2>3. d.name \in Name /\ d.inits \in Name
    BY <1>0, <1>3, <2>1, ItemIs DEF NamesAnother, Declares
  <2>4. Body(unit) \in Entity \cup {<<>>}
    BY ReadsFacts, BodyIs
  <2> HIDE DEF how
  <2>5. UseRead(alphabet, unit, scopes, means, Len(objects), Len(functions), d.inits, u, m)
    BY <1>0, <2>1, <2>2, <2>3, <2>4, UseOf
  <2>6. m \in Seq(Denotation)
    BY <1>0, <2>5, Appended DEF UseRead
  <2>7. Good(u, blocks, scopes, m, Len(objects), Len(functions)) /\ Introduced(alphabet, u)
        /\ Kept(unit, means, u, m)
    BY <2>5 DEF UseRead
  <2> HIDE DEF m, u
  <2>8. m \o <<x>> = Append(m, x)
    BY <2>6
  <2>9. /\ blocks \in Seq(Int) /\ scopes \in Seq([Name -> Denotation]) /\ Len(scopes) = Len(blocks)
        /\ Len(blocks) >= 1 /\ Parsed(alphabet, blocks, scopes, syms)
    BY ReadsFacts
  <2>10. ReadAlike(Declare(d.name, "ordinary"), d.inits)
    <3>1. CASE d.inits # d.name
      <4>1. IsTypedefName(Declare(d.name, "ordinary"), d.inits) = IsTypedefName(syms, d.inits)
        BY <2>3, <2>9, <3>1, ElseDeclares DEF Declare, Parsed
      <4>2. IsTypedefName(syms, d.inits) = (Lookup(scopes, d.inits)[1] = "typedef")
        BY <2>3, <2>9, ReadsAlike
      <4> QED
        BY <4>1, <4>2 DEF ReadAlike
    <3>2. CASE d.inits = d.name
      <4>1. d.name \notin Types(alphabet)
        BY <1>0, <2>1, <3>2 DEF Types, NamesApart
      <4>2. \A k \in DOMAIN scopes : scopes[k][d.name][1] # "typedef"
        BY <2>3, <2>9, <4>1 DEF Parsed
      <4>3. Types(alphabet) \subseteq Name
        BY <1>0, TypesAreNames
      <4>4. Parsed(alphabet, blocks, scopes, Declare(d.name, "ordinary"))
        BY <2>3, <2>9, <4>1, <4>2, <4>3, ParsedDeclares DEF Declare
      <4>5. IsTypedefName(Declare(d.name, "ordinary"), d.name) = (Lookup(scopes, d.name)[1] = "typedef")
        BY <2>3, <2>9, <4>4, ReadsAlike
      <4> QED
        BY <3>2, <4>5 DEF ReadAlike
    <3> QED
      BY <3>1, <3>2
  <2>11. ConstantRead(d, u, m)
    BY <2>1, <2>7, <2>8, <2>10 DEF ConstantRead
  <2> QED
    BY <2>11
<1> QED
  BY <1>2, <1>3

LEMMA DeclareConstantReads ==
    ASSUME Reads, NamesApart, NEW d \in alphabet.items, UNCHANGED alphabet, DeclareConstant(d)
    PROVE  Reads'
<1>1. PICK u, m : ConstantRead(d, u, m)
  BY ConstantReadFirst
<1>2. /\ d.what = "constant" /\ syms' = Declare(d.name, KindOf(d))
      /\ rejected' = (Redefinition(d.name) \/ (NamesAnother(d) /\ ~ReadAlike(Declare(d.name, "ordinary"), d.inits)))
      /\ UNCHANGED blocks /\ UNCHANGED within /\ UNCHANGED initialized
      /\ UNCHANGED objects /\ UNCHANGED functions
  BY DEF DeclareConstant, KindOf, tables
<1> DEFINE e == EntryOf(u, d)
           x == AConstant(Len(u) + 1)
<1>0. PICK t : t = Len(blocks)
  OBVIOUS
<1>3. /\ Good(u, blocks, scopes, m, Len(objects), Len(functions)) /\ Introduced(alphabet, u)
      /\ Kept(unit, means, u, m)
      /\ unit' = Append(u, e) /\ means' = Append(m, x) /\ scopes' = Insert(d.name, x)
      /\ NamesAnother(d) => ReadAlike(Declare(d.name, "ordinary"), d.inits)
  BY <1>1, DeclaredIs DEF ConstantRead
<1>4. Before(d, u, m, e, t)
  BY <1>0, <1>1, <1>2, BeforeIs DEF ConstantRead, Declares
<1> HIDE DEF e
<1>5. e.link = "none" /\ Fits(u, blocks, e)
  BY <1>2, <1>4 DEF Before, Local
<1>6. Len(u) \in Nat
  BY <1>3 DEF Good, Typed
<1>7. x[1] = "constant" /\ x \in Denotation
  BY <1>6 DEF AConstant, Denotation
<1>8. Len(objects) \in Nat
  BY ReadsFacts
<1>9. /\ ~Redefinition(d.name)
      /\ Adds(u, blocks, scopes, m, Len(objects), Len(functions), e,
              x, Insert(d.name, x), Len(objects), Len(functions))
  BY <1>2, <1>4, <1>5, <1>7, <1>8, NewHere
<1>10. EntryAdded(alphabet, u, scopes', m, Len(objects), Len(functions), e, x)
  BY <1>3, <1>9, AddsEntry DEF e
<1>11. /\ Good(unit', blocks, scopes', means', Len(objects), Len(functions))
       /\ Introduced(alphabet, unit') /\ Kept(unit, means, unit', means')
  BY <1>3, <1>10 DEF EntryAdded, Kept
<1>12. Parsed(alphabet, blocks, scopes', syms')
  <2>1. Entered(scopes, scopes', e, x, Len(blocks))
    BY <1>3, <1>9 DEF Adds
  <2> QED
    BY <1>2, <1>5, <1>7, <2>1, ParsedOf DEF e, Declares
<1>13. ~rejected'
  BY <1>2, <1>3, <1>9
<1>14. Values(unit', means', initialized) /\ Bodies(unit', means', functions, within)
  BY <1>11, RowsStay, ReadsFacts
<1>15. /\ objects \in Seq(ObjectRow) /\ functions \in Seq(FunctionRow)
       /\ Len(blocks) >= 2 => within \in DOMAIN functions
       /\ within # 0 => within \in DOMAIN functions
       /\ alphabet \in Alphabets
  BY ReadsFacts DEF Reads
<1> QED
  BY <1>2, <1>11, <1>12, <1>13, <1>14, <1>15 DEF Reads, Read


(* The table of functions once d is declared.                              *)
LEMMA NotedIs ==
    ASSUME NEW f \in FunctionRow, NEW d, d.inline \in BOOLEAN
    PROVE  Noted(f, d) \in FunctionRow /\ Noted(f, d).body = f.body
BY DEF Noted, FunctionRow

LEMMA MergedIs ==
    ASSUME NEW f \in FunctionRow, NEW d, d.inline \in BOOLEAN
    PROVE  Merged(f, d) \in FunctionRow /\ Merged(f, d).body = f.body
BY DEF Merged, FunctionRow

RowsGrow(fs, f2, id) ==
    /\ f2 \in Seq(FunctionRow) /\ id \in 1 .. Len(f2) /\ Len(f2) \in Nat /\ Len(fs) <= Len(f2)
    /\ DOMAIN f2 = 1 .. Len(f2) /\ DOMAIN fs \subseteq DOMAIN f2
    /\ \A i \in DOMAIN f2 : f2[i].body => i \in DOMAIN fs /\ fs[i].body

LEMMA FunctionsWithIs ==
    ASSUME Reads, NEW d, d.inline \in BOOLEAN, d.name \in Name,
           FunctionId(d) \in DOMAIN functions \/ FunctionId(d) = Len(functions) + 1
    PROVE  RowsGrow(functions, FunctionsWith(d), FunctionId(d))
<1> DEFINE id == FunctionId(d)
<1>1. /\ functions \in Seq(FunctionRow) /\ Len(functions) \in Nat
      /\ DOMAIN functions = 1 .. Len(functions)
  BY ReadsFacts
<1> HIDE DEF id
<1>2. CASE id \in DOMAIN functions
  <2> DEFINE r == Noted(Merged(functions[id], d), d)
  <2>1. functions[id] \in FunctionRow
    BY <1>1, <1>2
  <2>2. r \in FunctionRow /\ r.body = functions[id].body
    BY <2>1, MergedIs, NotedIs
  <2>3. FunctionsWith(d) = [functions EXCEPT ![id] = r]
    BY <1>2 DEF FunctionsWith, id
  <2> HIDE DEF r
  <2>4. SameBodies(functions, FunctionsWith(d))
    BY <1>1, <1>2, <2>2, <2>3, RowUpdate
  <2> QED
    BY <1>1, <1>2, <2>4 DEF RowsGrow, SameBodies, id
<1>3. CASE id \notin DOMAIN functions
  <2> DEFINE r == Noted(NewFunction(d), d)
  <2>1. r \in FunctionRow /\ r.body = FALSE
    <3>1. NewFunction(d) \in FunctionRow /\ NewFunction(d).body = FALSE
      BY DEF NewFunction, FunctionRow, Uses
    <3> QED
      BY <3>1, NotedIs
  <2>2. FunctionsWith(d) = Append(functions, r)
    BY <1>3 DEF FunctionsWith, id
  <2>0. id = Len(functions) + 1
    BY <1>3 DEF id
  <2> HIDE DEF r
  <2>3. PICK f2 : f2 = Append(functions, r)
    OBVIOUS
  <2>4. /\ f2 \in Seq(FunctionRow) /\ Len(f2) = Len(functions) + 1
        /\ DOMAIN f2 = 1 .. Len(functions) + 1
        /\ \A i \in 1 .. Len(functions) : f2[i] = functions[i]
        /\ f2[Len(functions) + 1] = r
    BY <1>1, <2>1, <2>3, Appended
  <2>5. \A i \in DOMAIN f2 : f2[i].body => i \in DOMAIN functions /\ functions[i].body
    <3>1. SUFFICES ASSUME NEW i \in DOMAIN f2, f2[i].body PROVE i \in DOMAIN functions /\ functions[i].body
      OBVIOUS
    <3>2. i # Len(functions) + 1
      BY <2>1, <2>4, <3>1
    <3>3. i \in 1 .. Len(functions)
      BY <1>1, <2>4, <3>2
    <3> QED
      BY <1>1, <2>4, <3>1, <3>3
  <2>6. RowsGrow(functions, f2, id)
    BY <1>1, <2>0, <2>4, <2>5 DEF RowsGrow
  <2> QED
    BY <2>2, <2>3, <2>6 DEF id
<1> QED
  BY <1>2, <1>3

LEMMA BodiesGrow ==
    ASSUME NEW u, NEW m, NEW fs, NEW w, Bodies(u, m, fs, w), NEW u2, NEW m2, Kept(u, m, u2, m2),
           NEW f2, NEW id, RowsGrow(fs, f2, id),
           NEW w2, w2 \in DOMAIN f2 => (w2 = w /\ w \in DOMAIN fs) \/ Given(u2, m2, AFunction(w2))
    PROVE  Bodies(u2, m2, f2, w2)
<1>1. \A x : Given(u, m, x) => Given(u2, m2, x)
  BY GivenKept
<1> QED
  BY <1>1 DEF Bodies, RowsGrow

(* A function is one that sema knows already, exactly when C does, and it  *)
(* has not got a second body.                                              *)
FunctionRead(d, x) ==
    /\ x = AFunction(FunctionId(d)) /\ x \in Denotation /\ ~Refused(d)
    /\ functions' = FunctionsWith(d) /\ RowsGrow(functions, functions', FunctionId(d))
    /\ means' = Append(means, x)
    /\ Adds(unit, blocks, scopes, means, Len(objects), Len(functions), EntryOf(unit, d),
            x, ScopesWith(d), Len(objects), Len(functions'))

LEMMA DeclareFunctionIs ==
    ASSUME Reads, NamesApart, NEW d \in alphabet.items, d.what = "function", DeclareFunction(d),
           ~AtFileScope /\ Visible(unit, d.name) # 0 => unit[Visible(unit, d.name)].what = "function"
    PROVE  FunctionRead(d, AFunction(FunctionId(d)))
<1> DEFINE e == EntryOf(unit, d)
           n == d.name
           linked == scopes[1][n]
           id == FunctionId(d)
           x == AFunction(id)
<1>0. PICK t : t = Len(blocks)
  OBVIOUS
<1>1. CDeclares(d, FALSE)
  BY DEF DeclareFunction
<1>2. Before(d, unit, means, e, t)
  BY <1>0, <1>1, BeforeUnit DEF Declares
<1> HIDE DEF e
<1>3. /\ Good(unit, blocks, scopes, means, Len(objects), Len(functions)) /\ Fits(unit, blocks, e)
      /\ e.what = "function" /\ e.name = n /\ n \in Name /\ e.defines = d.defines
      /\ t = Len(blocks) /\ t \in Nat /\ t >= 1 /\ t = Len(scopes) /\ DOMAIN scopes = 1 .. t
      /\ AtFileScope <=> t = 1
      /\ scopes \in Seq([Name -> Denotation]) /\ linked \in Denotation
  BY <1>2 DEF Before
<1>4. e.link # "none"
  BY <1>2, <1>3 DEF Before, Local
<1>5. /\ linked = Nothing => Known(unit, e) = {}
      /\ linked # Nothing => linked[1] = "function" /\ \E i \in Known(unit, e) : linked = means[i]
  <2>1. /\ scopes[1][e.name] = Nothing => Known(unit, e) = {}
        /\ scopes[1][e.name] # Nothing =>
              /\ scopes[1][e.name][1] = e.what
              /\ \E i \in Known(unit, e) : scopes[1][e.name] = means[i]
    BY <1>3, <1>4, FileName
  <2> QED
    BY <1>3, <2>1
<1>6. /\ Numbered(unit, means, Len(objects), Len(functions)) /\ Len(unit) \in Nat
      /\ Len(objects) \in Nat /\ Len(functions) \in Nat
      /\ DOMAIN functions = 1 .. Len(functions)
      /\ Bodies(unit, means, functions, within)
  BY ReadsFacts
<1>7. d.inline \in BOOLEAN
  BY ItemIs DEF Reads, Declares
<1> HIDE DEF n
<1>8. \A l \in 2 .. t : scopes[l][n] = Nothing
  <2>1. SUFFICES ASSUME NEW l \in 2 .. t PROVE scopes[l][n] = Nothing
    OBVIOUS
  <2>2. l \in 2 .. Len(blocks) /\ ~AtFileScope
    BY <1>3, <2>1
  <2>3. Visible(unit, n) # 0 => unit[Visible(unit, n)].what = "function"
    BY <2>2 DEF n
  <2> QED
    BY <1>3, <2>2, <2>3, NothingHides
<1>9. Lookup(scopes, n) = linked
  BY <1>3, <1>8, LookupOutermost
<1>10. id = IF linked[1] = "function" THEN linked[2] ELSE Len(functions) + 1
  BY <1>9 DEF FunctionId, n
<1> HIDE DEF id, x
<1>11. ASSUME linked # Nothing
       PROVE  /\ x = linked /\ id \in DOMAIN functions
              /\ \E i \in Known(unit, e) : e.link # "none" /\ x = means[i]
              /\ ~(d.defines /\ functions[id].body)
  <2>1. PICK i \in Known(unit, e) : linked = means[i]
    BY <1>5, <1>11
  <2>2. linked[1] = "function" /\ id = linked[2]
    BY <1>5, <1>10, <1>11
  <2>3. x = linked
    BY <1>3, <2>2 DEF x, AFunction, Denotation
  <2>4. i \in DOMAIN unit
    BY DEF Known, SameNamed
  <2>5. id \in DOMAIN functions
    BY <1>6, <2>1, <2>2, <2>4 DEF Numbered
  <2>6. ~(d.defines /\ functions[id].body)
    <3>1. SUFFICES ASSUME functions[id].body PROVE ~e.defines
      BY <1>3
    <3>2. Given(unit, means, x)
      BY <1>6, <2>5, <3>1 DEF Bodies, x
    <3> QED
      BY <1>3, <1>4, <2>1, <2>3, <3>2, OnceOnly
  <2> QED
    BY <1>4, <2>1, <2>3, <2>5, <2>6
<1>12. ASSUME linked = Nothing
       PROVE  /\ id = Len(functions) + 1 /\ id \notin DOMAIN functions
              /\ Known(unit, e) = {} /\ \A i \in DOMAIN unit : means[i] # x
  <2>1. id = Len(functions) + 1
    BY <1>10, <1>12 DEF Nothing
  <2>2. x = AFunction(Len(functions) + 1)
    BY <2>1 DEF x
  <2> QED
    BY <1>5, <1>6, <1>12, <2>1, <2>2, FreshMeaning
<1>13. ~Refused(d)
  <2>1. linked[1] \in {"nothing", "function"}
    BY <1>5 DEF Nothing
  <2> QED
    BY <1>9, <1>11, <1>12, <2>1 DEF Refused, n, id
<1>14. RowsGrow(functions, FunctionsWith(d), id)
  BY <1>3, <1>7, <1>11, <1>12, FunctionsWithIs DEF id, n
<1>15. x \in Denotation /\ x[1] = "function" /\ x[2] = id /\ id \in Nat
  <2>1. id \in Nat
    BY <1>14 DEF RowsGrow
  <2> QED
    BY <2>1 DEF x, AFunction, Denotation
<1>16. Entered(scopes, ScopesWith(d), e, x, t)
  <2>1. CASE linked # Nothing
    <3>1. ScopesWith(d) = scopes /\ scopes[1][e.name] = x
      BY <1>3, <1>11, <2>1 DEF ScopesWith, id
    <3> QED
      BY <1>3, <1>4, <1>8, <3>1, EnterFile
  <2>2. CASE linked = Nothing
    <3>1. ScopesWith(d) = [scopes EXCEPT ![1][n] = x]
      BY <1>12, <2>2 DEF ScopesWith, InsertAtFileScope, id, x, n
    <3>2. 1 \in 1 .. Len(scopes)
      BY <1>3
    <3>3. Put(scopes, [scopes EXCEPT ![1][n] = x], 1, n, x)
      BY <1>3, <1>15, <3>2, PutIs
    <3>4. Put(scopes, ScopesWith(d), 1, e.name, x)
      BY <1>3, <3>1, <3>3
    <3> QED
      BY <1>3, <1>4, <1>8, <3>4, EnterFile
  <2> QED
    BY <2>1, <2>2
<1>17. functions' = FunctionsWith(d) /\ means' = Append(means, x)
  BY <1>13 DEF DeclareFunction, x, id
<1>18. Adds(unit, blocks, scopes, means, Len(objects), Len(functions), e,
            x, ScopesWith(d), Len(objects), Len(functions'))
  <2>1. /\ Len(functions') \in Nat /\ Len(functions) <= Len(functions') /\ x[2] \in 1 .. Len(functions')
        /\ x[1] = e.what
    BY <1>3, <1>14, <1>15, <1>17 DEF RowsGrow
  <2>2. \/ \E i \in Known(unit, e) : e.link # "none" /\ x = means[i]
        \/ (e.link = "none" \/ Known(unit, e) = {}) /\ \A i \in DOMAIN unit : means[i] # x
    BY <1>11, <1>12
  <2> QED
    BY <1>3, <1>6, <1>15, <1>16, <2>1, <2>2 DEF Adds
<1> QED
  BY <1>13, <1>14, <1>15, <1>17, <1>18 DEF FunctionRead, e, x, id


LEMMA PrototypeReads ==
    ASSUME Reads, NamesApart, NEW d \in alphabet.items, UNCHANGED alphabet, Prototype(d)
    PROVE  Reads'
<1> DEFINE x == AFunction(FunctionId(d))
<1>1. /\ d.what = "function" /\ ~d.defines /\ DeclareFunction(d)
      /\ ~AtFileScope /\ Visible(unit, d.name) # 0 => unit[Visible(unit, d.name)].what = "function"
      /\ scopes' = IF Refused(d) THEN scopes ELSE ScopesWith(d)
      /\ syms' = Declare(d.name, KindOf(d)) /\ blocks' = blocks /\ within' = within
  BY DEF Prototype, KindOf
<1>2. /\ CDeclares(d, FALSE) /\ rejected' = Refused(d) /\ objects' = objects /\ initialized' = initialized
  BY <1>1 DEF DeclareFunction
<1>3. FunctionRead(d, x)
  BY <1>1, DeclareFunctionIs
<1> HIDE DEF x
<1>4. /\ x \in Denotation /\ ~Refused(d) /\ RowsGrow(functions, functions', FunctionId(d))
      /\ means' = Append(means, x) /\ scopes' = ScopesWith(d)
      /\ Adds(unit, blocks, scopes, means, Len(objects), Len(functions), EntryOf(unit, d),
              x, scopes', Len(objects'), Len(functions'))
  BY <1>1, <1>2, <1>3 DEF FunctionRead
<1>5. After(d, x)
  BY <1>1, <1>2, <1>4, AfterIs DEF Declares
<1>6. means' = Meant(x, scopes', d)
  <2>1. ~NamesAnother(d)
    BY <1>1, ItemIs DEF NamesAnother, Declares, Reads
  <2> QED
    BY <1>4, <2>1, MeantIs, ReadsFacts DEF Typed
<1>7. /\ Good(unit', blocks', scopes', means', Len(objects'), Len(functions'))
      /\ Introduced(alphabet', unit') /\ Parsed(alphabet', blocks', scopes', syms')
      /\ Kept(unit, means, unit', means')
  BY <1>1, <1>5, <1>6 DEF After
<1>8. /\ functions' \in Seq(FunctionRow)
      /\ Len(blocks') >= 2 => within' \in DOMAIN functions'
      /\ within' # 0 => within' \in DOMAIN functions'
  BY <1>1, <1>4, ReadsFacts DEF RowsGrow
<1>9. Values(unit', means', initialized')
  <2>1. Values(unit, means, initialized)
    BY ReadsFacts
  <2>2. \A y : Given(unit, means, y) => Given(unit', means', y)
    BY <1>7, GivenKept
  <2> QED
    BY <1>2, <2>1, <2>2 DEF Values
<1>10. Bodies(unit', means', functions', within')
  <2>1. Bodies(unit, means, functions, within)
    BY ReadsFacts
  <2>2. \A i \in DOMAIN functions' : functions'[i].body => i \in DOMAIN functions /\ functions[i].body
    BY <1>4 DEF RowsGrow
  <2>3. \A y : Given(unit, means, y) => Given(unit', means', y)
    BY <1>7, GivenKept
  <2>4. within \in DOMAIN functions' => within \in DOMAIN functions
    <3>1. 0 \notin DOMAIN functions'
      BY <1>4 DEF RowsGrow
    <3> QED
      BY <3>1, ReadsFacts
  <2> QED
    BY <1>1, <2>1, <2>2, <2>3, <2>4 DEF Bodies
<1>11. objects' \in Seq(ObjectRow) /\ alphabet' \in Alphabets /\ ~rejected'
  BY <1>2, <1>4, ReadsFacts DEF Reads
<1> QED
  BY <1>7, <1>8, <1>9, <1>10, <1>11 DEF Reads, Read


LEMMA BeginFunctionReads ==
    ASSUME Reads, NamesApart, NEW d \in alphabet.items, UNCHANGED alphabet, BeginFunction(d)
    PROVE  Reads'
<1> DEFINE e == EntryOf(unit, d)
           x == AFunction(FunctionId(d))
           ss == ScopesWith(d)
           z == Len(unit) + 1
<1>0. PICK t : t = Len(blocks)
  OBVIOUS
<1>1. d.what = "function" /\ d.defines /\ AtFileScope /\ DeclareFunction(d)
  BY DEF BeginFunction
<1>2. /\ CDeclares(d, FALSE) /\ rejected' = Refused(d) /\ objects' = objects /\ initialized' = initialized
  BY <1>1 DEF DeclareFunction
<1>3. FunctionRead(d, x)
  BY <1>1, DeclareFunctionIs
<1>4. /\ x \in Denotation /\ x[1] = "function" /\ ~Refused(d) /\ RowsGrow(functions, functions', FunctionId(d))
      /\ means' = Append(means, x)
      /\ Adds(unit, blocks, scopes, means, Len(objects), Len(functions), e,
              x, ss, Len(objects), Len(functions'))
  BY <1>3 DEF FunctionRead, AFunction
<1>5. /\ blocks' = Append(blocks, z) /\ scopes' = Append(ss, EmptyScope)
      /\ syms' = Append(Declare(d.name, KindOf(d)), NoSyms) /\ within' = FunctionId(d)
  BY <1>1, <1>4 DEF BeginFunction, PushScope, KindOf
<1>6. Before(d, unit, means, e, t)
  BY <1>0, <1>1, <1>2, BeforeUnit DEF Declares
<1> HIDE DEF e, ss
<1>7. /\ e.scope = FileScope /\ t = 1 /\ e.what = d.what
      /\ Fits(unit, blocks, e) /\ blocks \in Seq(Int)
  BY <1>1, <1>6, ReadsFacts DEF Before
<1> HIDE DEF x
<1>8. DeclarationRead(unit', Meant(x, ss, d), ss, Len(objects), Len(functions'), d, x)
  BY <1>1, <1>2, <1>4, ReadsFacts, DeclaresBoth DEF Declares, Reads, e
<1>9. ~NamesAnother(d) /\ means' = Meant(x, ss, d)
  <2>1. ~NamesAnother(d)
    BY <1>1, ItemIs DEF NamesAnother, Declares, Reads
  <2> QED
    BY <1>4, <2>1, MeantIs, ReadsFacts DEF Typed
<1>10. /\ Good(unit', blocks, ss, means', Len(objects), Len(functions'))
       /\ Introduced(alphabet, unit') /\ Kept(unit, means, unit', means') /\ Given(unit', means', x)
  BY <1>1, <1>8, <1>9 DEF DeclarationRead
<1>11. unit' = Append(unit, e)
  BY <1>2, <1>9, DeclaredIs DEF CDeclares, e
<1>12. /\ Len(unit) \in Nat /\ Len(unit') = z /\ DOMAIN unit' = 1 .. z /\ unit'[z] = e
  <2>1. unit \in Seq(Entry) /\ e \in Entry
    BY <1>7, ReadsFacts, DeclaresEntry DEF Typed, Fits
  <2> QED
    BY <1>11, <2>1, Appended
<1>13. Good(unit', blocks', scopes', means', Len(objects), Len(functions'))
  <2>1. /\ z \in Int /\ z # 0 /\ -(Len(unit') + 1) <= z /\ z <= Len(unit') + 1 /\ z \in DOMAIN unit'
    BY <1>12
  <2>2. ASSUME NEW j \in DOMAIN unit', Declares(unit'[j]) PROVE unit'[j].scope # <<Len(blocks) + 1, z>>
    <3>1. CASE j = z
      <4>1. e.scope[1] = 1
        BY <1>7 DEF FileScope
      <4>2. Len(blocks) + 1 = 2
        BY <1>0, <1>7
      <4> QED
        BY <1>12, <3>1, <4>1, <4>2
    <3>2. CASE j # z
      <4>1. unit'[j].scope[2] <= j /\ j \in 1 .. z
        BY <1>10, <1>12, <2>2 DEF Good, Scoped
      <4>2. unit'[j].scope[2] # z
        <5>1. unit'[j] \in DeclarationEntry
          BY <1>10, <2>2, EntryIs DEF Good, Typed
        <5>2. unit'[j].scope[2] \in Int
          BY <5>1 DEF DeclarationEntry
        <5> QED
          BY <1>12, <3>2, <4>1, <5>2
      <4> QED
        BY <4>2
    <3> QED
      BY <3>1, <3>2
  <2> HIDE DEF z
  <2> QED
    BY <1>5, <1>10, <2>1, <2>2, PushGood
<1>14. Parsed(alphabet, blocks', scopes', syms')
  <2>1. Entered(scopes, ss, e, x, Len(blocks))
    BY <1>4 DEF Adds
  <2>2. Parsed(alphabet, blocks, ss, Declare(d.name, KindOf(d)))
    BY <1>1, <1>2, <1>4, <1>7, <2>1, ParsedOf DEF e, Declares, CDeclares
  <2>3. /\ ss \in Seq([Name -> Denotation]) /\ Len(ss) = Len(blocks)
        /\ Types(alphabet) \subseteq Name
    BY <1>10, TypesAreNames DEF Good, Typed, Reads
  <2>4. z \in Int /\ ~(z < 0)
    BY <1>12
  <2> HIDE DEF z
  <2> QED
    BY <1>5, <1>7, <2>2, <2>3, <2>4, ParsedOpens
<1>15. /\ functions' \in Seq(FunctionRow) /\ within' \in DOMAIN functions'
  BY <1>4, <1>5 DEF RowsGrow
<1>16. Values(unit', means', initialized')
  <2>1. Values(unit, means, initialized)
    BY ReadsFacts
  <2>2. \A y : Given(unit, means, y) => Given(unit', means', y)
    BY <1>10, GivenKept
  <2> QED
    BY <1>2, <2>1, <2>2 DEF Values
<1>17. Bodies(unit', means', functions', within')
  <2>1. Bodies(unit, means, functions, within)
    BY ReadsFacts
  <2>2. \A i \in DOMAIN functions' : functions'[i].body => i \in DOMAIN functions /\ functions[i].body
    BY <1>4 DEF RowsGrow
  <2>3. \A y : Given(unit, means, y) => Given(unit', means', y)
    BY <1>10, GivenKept
  <2>4. Given(unit', means', AFunction(within'))
    BY <1>5, <1>10 DEF x
  <2> QED
    BY <2>1, <2>2, <2>3, <2>4 DEF Bodies
<1>18. objects' \in Seq(ObjectRow) /\ alphabet' \in Alphabets /\ ~rejected'
  BY <1>2, <1>4, ReadsFacts DEF Reads
<1> QED
  BY <1>2, <1>10, <1>13, <1>14, <1>15, <1>16, <1>17, <1>18 DEF Reads, Read


LEMMA PopScopeIs ==
    ASSUME Reads, PopScope, Len(blocks) >= 2
    PROVE  /\ Good(unit, blocks', scopes', means, Len(objects), Len(functions))
           /\ Parsed(alphabet, blocks', scopes', syms') /\ Len(blocks') = Len(blocks) - 1
<1>1. /\ blocks \in Seq(Int) /\ scopes \in Seq([Name -> Denotation]) /\ Len(scopes) = Len(blocks)
      /\ Parsed(alphabet, blocks, scopes, syms) /\ blocks[1] = 0
      /\ Good(unit, blocks, scopes, means, Len(objects), Len(functions))
  BY ReadsFacts DEF Scoped
<1>2. /\ blocks' = Front(blocks) /\ scopes' = Front(scopes)
      /\ syms' = IF blocks[Len(blocks)] < 0 THEN syms ELSE Front(syms)
  BY DEF PopScope, InStatement, Scope
<1>3. Good(unit, Front(blocks), Front(scopes), means, Len(objects), Len(functions))
  BY <1>1, PopGood
<1>4. Parsed(alphabet, Front(blocks), Front(scopes), IF blocks[Len(blocks)] < 0 THEN syms ELSE Front(syms))
  BY <1>1, ParsedCloses
<1>5. Len(Front(blocks)) = Len(blocks) - 1
  <2>1. Len(blocks) >= 1
    BY <1>1
  <2> QED
    BY <1>1, <2>1, Fronted
<1> QED
  BY <1>2, <1>3, <1>4, <1>5

LEMMA CloseReads ==
    ASSUME Reads, UNCHANGED alphabet, Close
    PROVE  Reads'
<1>1. /\ PopScope /\ unit' = unit /\ objects' = objects /\ functions' = functions
      /\ initialized' = initialized /\ within' = within /\ means' = means /\ rejected' = rejected
      /\ Len(blocks) > 2
  BY DEF Close, tables
<1>2. PICK t : t = Len(blocks)
  OBVIOUS
<1>3. t \in Nat /\ t > 2
  BY <1>1, <1>2, ReadsFacts
<1>4. Len(blocks) >= 2
  BY <1>2, <1>3
<1>5. /\ Good(unit, blocks', scopes', means, Len(objects), Len(functions))
      /\ Parsed(alphabet, blocks', scopes', syms')
  BY <1>1, <1>4, PopScopeIs
<1> QED
  BY <1>1, <1>4, <1>5, ReadsFacts DEF Reads, Read

LEMMA EndFunctionReads ==
    ASSUME Reads, UNCHANGED alphabet, EndFunction
    PROVE  Reads'
<1>1. /\ PopScope /\ unit' = unit /\ objects' = objects /\ Len(blocks) = 2
      /\ functions' = [functions EXCEPT ![within].body = TRUE]
      /\ initialized' = initialized /\ within' = 0 /\ means' = means /\ rejected' = rejected
  BY DEF EndFunction
<1>2. Len(blocks) >= 2
  BY <1>1
<1>3. /\ Good(unit, blocks', scopes', means, Len(objects), Len(functions))
      /\ Parsed(alphabet, blocks', scopes', syms') /\ Len(blocks') = Len(blocks) - 1
  BY <1>1, <1>2, PopScopeIs
<1>4. /\ functions \in Seq(FunctionRow) /\ within \in DOMAIN functions
      /\ DOMAIN functions = 1 .. Len(functions) /\ Bodies(unit, means, functions, within)
      /\ Values(unit, means, initialized) /\ Introduced(alphabet, unit) /\ objects \in Seq(ObjectRow)
  BY <1>2, ReadsFacts
<1> DEFINE r == [functions[within] EXCEPT !.body = TRUE]
<1>5. r \in FunctionRow
  <2>1. functions[within] \in FunctionRow
    BY <1>4
  <2> QED
    BY <2>1 DEF FunctionRow
<1>6. functions' = [functions EXCEPT ![within] = r]
  BY <1>1
<1> HIDE DEF r
<1>7. /\ functions' \in Seq(FunctionRow) /\ Len(functions') = Len(functions)
      /\ DOMAIN functions' = DOMAIN functions
      /\ \A k \in DOMAIN functions : k # within => functions'[k] = functions[k]
  BY <1>4, <1>5, <1>6, SequenceUpdate
<1>8. Bodies(unit, means, functions', 0)
  <2>1. 0 \notin DOMAIN functions
    BY <1>4
  <2> QED
    BY <1>4, <1>7, <2>1 DEF Bodies
<1>9. Len(blocks') = 1
  BY <1>1, <1>3
<1>10. ~(Len(blocks') >= 2)
  BY <1>9
<1> QED
  BY <1>1, <1>3, <1>4, <1>7, <1>8, <1>10 DEF Reads, Read

(* A scope that is opened has a number no declaration has.                 *)
LEMMA FreshScope ==
    ASSUME Reads, Len(blocks) >= 2, NEW z \in {Len(unit) + 1, -(Len(unit) + 1)}
    PROVE  Good(unit, Append(blocks, z), Append(scopes, EmptyScope), means, Len(objects), Len(functions))
<1>1. /\ Len(unit) \in Nat /\ Good(unit, blocks, scopes, means, Len(objects), Len(functions))
      /\ Scoped(unit, blocks) /\ unit \in Seq(Entry) /\ DOMAIN unit = 1 .. Len(unit)
  BY ReadsFacts DEF Typed
<1>2. z \in Int /\ z # 0 /\ -(Len(unit) + 1) <= z /\ z <= Len(unit) + 1
  BY <1>1
<1>3. ASSUME NEW j \in DOMAIN unit, Declares(unit[j]) PROVE unit[j].scope # <<Len(blocks) + 1, z>>
  <2>1. -j <= unit[j].scope[2] /\ unit[j].scope[2] <= j
    BY <1>1, <1>3 DEF Scoped
  <2>2. unit[j] \in DeclarationEntry
    BY <1>1, <1>3, EntryIs
  <2>3. unit[j].scope[2] \in Int
    BY <2>2 DEF DeclarationEntry
  <2>4. unit[j].scope[2] # z
    BY <1>1, <2>1, <2>3
  <2> QED
    BY <2>4
<1>4. Len(blocks) # 1
  <2>1. PICK t : t = Len(blocks)
    OBVIOUS
  <2>2. t \in Nat /\ t >= 2
    BY <2>1, ReadsFacts
  <2> QED
    BY <2>1, <2>2
<1> QED
  BY <1>1, <1>2, <1>3, <1>4, PushGood

LEMMA OpenBlockReads ==
    ASSUME Reads, UNCHANGED alphabet, OpenBlock
    PROVE  Reads'
<1> DEFINE z == Len(unit) + 1
<1>1. /\ unit' = unit /\ objects' = objects /\ functions' = functions
      /\ initialized' = initialized /\ within' = within /\ means' = means /\ rejected' = rejected
      /\ blocks' = Append(blocks, z) /\ scopes' = Append(scopes, EmptyScope)
      /\ syms' = Append(syms, NoSyms) /\ Len(blocks) >= 2
  BY DEF OpenBlock, tables, PushScope
<1>2. Good(unit, blocks', scopes', means, Len(objects), Len(functions))
  BY <1>1, FreshScope
<1>3. /\ blocks \in Seq(Int) /\ scopes \in Seq([Name -> Denotation]) /\ Len(scopes) = Len(blocks)
      /\ Parsed(alphabet, blocks, scopes, syms) /\ Types(alphabet) \subseteq Name
  BY ReadsFacts, TypesAreNames DEF Reads
<1>4. z \in Int /\ ~(z < 0)
  BY ReadsFacts
<1> HIDE DEF z
<1>5. Parsed(alphabet, blocks', scopes', syms')
  BY <1>1, <1>3, <1>4, ParsedOpens
<1>6. within \in DOMAIN functions
  BY <1>1, ReadsFacts
<1> QED
  BY <1>1, <1>2, <1>5, <1>6, ReadsFacts DEF Reads, Read

LEMMA OpenStatementReads ==
    ASSUME Reads, UNCHANGED alphabet, OpenStatement
    PROVE  Reads'
<1> DEFINE z == -(Len(unit) + 1)
<1>1. /\ unit' = unit /\ objects' = objects /\ functions' = functions
      /\ initialized' = initialized /\ within' = within /\ means' = means /\ rejected' = rejected
      /\ blocks' = Append(blocks, z) /\ scopes' = Append(scopes, EmptyScope)
      /\ syms' = syms /\ Len(blocks) >= 2 /\ alphabet.stmts
  BY DEF OpenStatement, tables, PushStatement
<1>2. Good(unit, blocks', scopes', means, Len(objects), Len(functions))
  BY <1>1, FreshScope
<1>3. /\ blocks \in Seq(Int) /\ scopes \in Seq([Name -> Denotation]) /\ Len(scopes) = Len(blocks)
      /\ Parsed(alphabet, blocks, scopes, syms) /\ Types(alphabet) \subseteq Name
  BY ReadsFacts, TypesAreNames DEF Reads
<1>4. z \in Int /\ z < 0
  BY ReadsFacts
<1> HIDE DEF z
<1>5. Parsed(alphabet, blocks', scopes', syms')
  BY <1>1, <1>3, <1>4, ParsedOpens
<1>6. within \in DOMAIN functions
  BY <1>1, ReadsFacts
<1> QED
  BY <1>1, <1>2, <1>5, <1>6, ReadsFacts DEF Reads, Read

LEMMA MentionReads ==
    ASSUME Reads, NEW d \in alphabet.items, UNCHANGED alphabet, Mention(d)
    PROVE  Reads'
<1> DEFINE x == Lookup(scopes, d.name)
<1>1. /\ d.what \in Hows /\ ~AtFileScope /\ Usable(unit, d.name, d.what)
      /\ unit' = Used(unit, d.name, d.what, Body(unit)) /\ means' = Append(means, x)
      /\ rejected' = (x = Nothing \/ ~ReadAlike(syms, d.name))
      /\ functions' = [functions EXCEPT ![within].uses = @ \cup {<<x, d.what>>}]
      /\ blocks' = blocks /\ syms' = syms /\ scopes' = scopes /\ objects' = objects
      /\ initialized' = initialized /\ within' = within
  BY DEF Mention
<1>2. d.name \in Name
  BY ItemIs DEF Reads
<1>3. Body(unit) \in Entity \cup {<<>>}
  BY ReadsFacts, BodyIs
<1>4. UseRead(alphabet, unit, scopes, means, Len(objects), Len(functions), d.name, unit', means')
  BY <1>1, <1>2, <1>3, ReadsFacts, UseOf
<1> HIDE DEF x
<1>5. /\ Good(unit', blocks, scopes, means', Len(objects), Len(functions)) /\ Introduced(alphabet, unit')
      /\ Kept(unit, means, unit', means') /\ x # Nothing /\ x \in Denotation
  BY <1>4 DEF UseRead, x
<1>6. ReadAlike(syms, d.name)
  BY <1>2, ReadsFacts, ReadsAlike DEF ReadAlike
<1>7. within \in DOMAIN functions
  <2>1. PICK t : t = Len(blocks)
    OBVIOUS
  <2>2. t # 1 /\ t \in Nat /\ t >= 1
    BY <1>1, <2>1, ReadsFacts, AtFileScopeIs
  <2>3. t >= 2
    BY <2>2
  <2> QED
    BY <2>1, <2>3, ReadsFacts
<1>8. SameBodies(functions, functions')
  <2>1. {<<x, d.what>>} \in Uses
    BY <1>1, <1>5 DEF Uses
  <2> QED
    BY <1>1, <1>7, <2>1, ReadsFacts, UsesNoted
<1>9. Values(unit', means', initialized) /\ Bodies(unit', means', functions', within)
  BY <1>5, <1>8, RowsStay, ReadsFacts
<1>10. functions' \in Seq(FunctionRow) /\ Len(functions') = Len(functions) /\ within \in DOMAIN functions'
  BY <1>7, <1>8 DEF SameBodies
<1> QED
  BY <1>1, <1>5, <1>6, <1>9, <1>10, ReadsFacts DEF Reads, Read

LEMMA EndUnitReads ==
    ASSUME Reads, UNCHANGED alphabet, EndUnit
    PROVE  Reads'
<1>1. /\ functions' = [id \in DOMAIN functions |-> Classified(functions[id])]
      /\ unit' = unit /\ blocks' = blocks /\ syms' = syms /\ scopes' = scopes /\ objects' = objects
      /\ initialized' = initialized /\ within' = within /\ means' = means /\ rejected' = rejected
  BY DEF EndUnit, cvars
<1>2. /\ functions \in Seq(FunctionRow) /\ Len(functions) \in Nat
      /\ DOMAIN functions = 1 .. Len(functions)
  BY ReadsFacts
<1>3. \A id \in DOMAIN functions :
          /\ Classified(functions[id]) \in FunctionRow
          /\ Classified(functions[id]).body = functions[id].body
  <2>1. \A f \in FunctionRow : Classified(f) \in FunctionRow /\ Classified(f).body = f.body
    BY DEF Classified, FunctionRow
  <2> QED
    BY <1>2, <2>1
<1>4. SameBodies(functions, functions')
  <2>1. functions' \in [1 .. Len(functions) -> FunctionRow]
    BY <1>1, <1>2, <1>3
  <2>2. functions' \in Seq(FunctionRow) /\ Len(functions') = Len(functions)
    BY <1>2, <2>1, SequenceIs
  <2>3. DOMAIN functions' = DOMAIN functions
    BY <1>1
  <2>4. \A id \in DOMAIN functions : functions'[id].body = functions[id].body
    BY <1>1, <1>3
  <2> QED
    BY <2>2, <2>3, <2>4 DEF SameBodies
<1>5. Kept(unit, means, unit', means')
  BY <1>1 DEF Kept
<1>6. Values(unit', means', initialized) /\ Bodies(unit', means', functions', within)
  BY <1>4, <1>5, RowsStay, ReadsFacts
<1>7. functions' \in Seq(FunctionRow) /\ Len(functions') = Len(functions) /\ DOMAIN functions' = DOMAIN functions
  BY <1>4 DEF SameBodies
<1> QED
  BY <1>1, <1>6, <1>7, ReadsFacts DEF Reads, Read


LEMMA NextReads ==
    ASSUME Reads, NamesApart, Next
    PROVE  Reads'
<1>1. UNCHANGED alphabet
  BY DEF Next
<1>2. ASSUME NEW d \in alphabet.items, Write(d) PROVE Reads'
  <2>1. CASE DeclareStatic(d)
    BY <1>1, <2>1, DeclareStaticReads
  <2>2. CASE DeclareAutomatic(d)
    BY <1>1, <2>2, DeclareAutomaticReads
  <2>3. CASE DeclareExtern(d)
    BY <1>1, <2>3, DeclareExternReads
  <2>4. CASE DeclareConstant(d)
    BY <1>1, <2>4, DeclareConstantReads
  <2>5. CASE DeclareTypedef(d)
    BY <1>1, <2>5, DeclareTypedefReads
  <2>6. CASE Prototype(d)
    BY <1>1, <2>6, PrototypeReads
  <2>7. CASE BeginFunction(d)
    BY <1>1, <2>7, BeginFunctionReads
  <2>8. CASE Mention(d)
    BY <1>1, <2>8, MentionReads
  <2>9. CASE Assemble(d)
    BY <1>1, <2>9 DEF Assemble, cvars, Reads, Read
  <2> QED
    BY <1>2, <2>1, <2>2, <2>3, <2>4, <2>5, <2>6, <2>7, <2>8, <2>9 DEF Write
<1>3. CASE EndFunction
  BY <1>1, <1>3, EndFunctionReads
<1>4. CASE OpenBlock
  BY <1>1, <1>4, OpenBlockReads
<1>5. CASE OpenStatement
  BY <1>1, <1>5, OpenStatementReads
<1>6. CASE Close
  BY <1>1, <1>6, CloseReads
<1>7. CASE EndUnit
  BY <1>1, <1>7, EndUnitReads
<1>8. CASE Walk
  BY <1>1, <1>8 DEF Walk, cvars, sema, tables, Reads, Read
<1> QED
  BY <1>2, <1>3, <1>4, <1>5, <1>6, <1>7, <1>8 DEF Next

(* Two names written in the unit are taken for one object or function, in  *)
(* whichever scopes they are, exactly when C has them mean the same, and   *)
(* nothing that C allows is refused.                                       *)
THEOREM MeansTheSameHolds ==
    ASSUME NamesApart
    PROVE  Spec => []MeansTheSame
<1>1. Init => Reads
  BY InitReads
<1>2. Reads /\ [Next]_vars => Reads'
  <2>1. ASSUME Reads, Next PROVE Reads'
    BY <2>1, NextReads
  <2>2. ASSUME Reads, UNCHANGED vars PROVE Reads'
    BY <2>2 DEF vars, cvars, sema, tables, Reads, Read
  <2> QED
    BY <2>1, <2>2
<1>3. Reads => MeansTheSame
  BY ReadsMeans
<1> QED
  BY <1>1, <1>2, <1>3, PTL DEF Spec

-----------------------------------------------------------------------------
(* The unit as a set of what was declared and a set of what was used: where*)
(* it stands, how it was written and what sema took it for.  The tables    *)
(* sema fills are told in terms of these.                                  *)

Row(u, m, j) == [at |-> j, d |-> u[j], x |-> m[j]]
DeclaredRows(u, m) == {Row(u, m, j) : j \in {i \in DOMAIN u : Declares(u[i])}}
UsedRows(u, m) == {Row(u, m, j) : j \in {i \in DOMAIN u : ~Declares(u[i])}}

(* What C guarantees of them, and what the names mean (Good).              *)
Same(r, q) == r.x = q.x
Consistent(D, U, no, nf) ==
    /\ \A r \in D :
           /\ r.at \in Nat \ {0} /\ r.d \in DeclarationEntry /\ Declares(r.d)
           /\ r.x \in Denotation /\ r.x[1] = r.d.what
           /\ r.d.what = "object" => r.x[2] \in 1 .. no
           /\ r.d.what = "function" => r.x[2] \in 1 .. nf
           /\ r.d.link = "none" <=> Local(r.d)
           /\ r.d.entity = EntityAt(r.d, r.at)
    /\ \A r, q \in D : r.at = q.at => r = q
    /\ \A r \in D \cup U, q \in D \cup U : (r.x = q.x) = (r.d.entity = q.d.entity)
    /\ \A r, q \in D : r # q /\ r.x = q.x =>
           /\ r.d.link # "none" /\ q.d.link # "none" /\ r.d.link = q.d.link
           /\ r.d.name = q.d.name /\ r.d.what = q.d.what /\ ~(r.d.defines /\ q.d.defines)
    /\ \A r, q \in D : r.d.link # "none" /\ q.d.link # "none" /\ r.d.name = q.d.name => r.x = q.x
    /\ \A q \in U : q.d \in UseEntry /\ q.x \in Denotation /\ \E r \in D : r.x = q.x /\ r.at < q.at

LEMMA RowIs ==
    ASSUME NEW u, NEW m
    PROVE  /\ \A j \in DOMAIN u : Declares(u[j]) =>
                  /\ Row(u, m, j) \in DeclaredRows(u, m)
                  /\ Row(u, m, j).at = j /\ Row(u, m, j).d = u[j] /\ Row(u, m, j).x = m[j]
           /\ \A j \in DOMAIN u : ~Declares(u[j]) =>
                  /\ Row(u, m, j) \in UsedRows(u, m)
                  /\ Row(u, m, j).at = j /\ Row(u, m, j).d = u[j] /\ Row(u, m, j).x = m[j]
           /\ \A r \in DeclaredRows(u, m) :
                  /\ r.at \in DOMAIN u /\ Declares(u[r.at]) /\ r.d = u[r.at] /\ r.x = m[r.at]
                  /\ r = Row(u, m, r.at)
           /\ \A r \in UsedRows(u, m) :
                  /\ r.at \in DOMAIN u /\ ~Declares(u[r.at]) /\ r.d = u[r.at] /\ r.x = m[r.at]
                  /\ r = Row(u, m, r.at)
BY DEF Row, DeclaredRows, UsedRows

LEMMA ConsistentRows ==
    ASSUME NEW u, NEW b, NEW ss, NEW m, NEW no, NEW nf, Good(u, b, ss, m, no, nf)
    PROVE  Consistent(DeclaredRows(u, m), UsedRows(u, m), no, nf)
<1> DEFINE D == DeclaredRows(u, m)
           U == UsedRows(u, m)
<1>1. /\ u \in Seq(Entry) /\ m \in Seq(Denotation) /\ Len(m) = Len(u)
      /\ Linkages(u) /\ Allowed(u) /\ Denoted(u, b, ss, m) /\ Told(u, m) /\ Numbered(u, m, no, nf)
  BY DEF Good, Typed
<1>2. DOMAIN u = 1 .. Len(u) /\ DOMAIN m = 1 .. Len(u) /\ Len(u) \in Nat
  BY <1>1
<1>3. /\ \A r \in D : r.at \in DOMAIN u /\ Declares(u[r.at]) /\ r.d = u[r.at] /\ r.x = m[r.at] /\ r = Row(u, m, r.at)
      /\ \A r \in U : r.at \in DOMAIN u /\ ~Declares(u[r.at]) /\ r.d = u[r.at] /\ r.x = m[r.at]
      /\ \A j \in DOMAIN u : Declares(u[j]) =>
             Row(u, m, j) \in D /\ Row(u, m, j).at = j /\ Row(u, m, j).d = u[j] /\ Row(u, m, j).x = m[j]
  BY RowIs
<1> HIDE DEF D, U
<1>4. ASSUME NEW r \in D
      PROVE  /\ r.at \in Nat \ {0} /\ r.d \in DeclarationEntry /\ Declares(r.d)
             /\ r.x \in Denotation /\ r.x[1] = r.d.what
             /\ r.d.what = "object" => r.x[2] \in 1 .. no
             /\ r.d.what = "function" => r.x[2] \in 1 .. nf
             /\ r.d.link = "none" <=> Local(r.d)
             /\ r.d.entity = EntityAt(r.d, r.at)
  <2>1. r.at \in DOMAIN u /\ Declares(u[r.at]) /\ r.d = u[r.at] /\ r.x = m[r.at]
    BY <1>3
  <2>2. r.at \in Nat \ {0} /\ r.x \in Denotation /\ u[r.at] \in Entry
    BY <1>1, <1>2, <2>1
  <2>3. r.d \in DeclarationEntry
    BY <2>1, <2>2, EntryIs
  <2>4. r.x[1] = r.d.what
    BY <1>1, <2>1 DEF Denoted
  <2>5. (r.d.link = "none" <=> Local(r.d)) /\ r.d.entity = EntityAt(r.d, r.at)
    BY <1>1, <2>1 DEF Linkages
  <2>6. (r.x[1] = "object" => r.x[2] \in 1 .. no) /\ (r.x[1] = "function" => r.x[2] \in 1 .. nf)
    BY <1>1, <2>1 DEF Numbered
  <2> QED
    BY <2>1, <2>2, <2>3, <2>4, <2>5, <2>6
<1>5. \A r, q \in D : r.at = q.at => r = q
  BY <1>3
<1>6. \A r \in D \cup U, q \in D \cup U : (r.x = q.x) = (r.d.entity = q.d.entity)
  <2>1. \A r \in D \cup U : r.at \in DOMAIN u /\ r.d = u[r.at] /\ r.x = m[r.at]
    BY <1>3
  <2> QED
    BY <1>1, <2>1 DEF Told
<1>7. ASSUME NEW r \in D, NEW q \in D, r # q, r.d.name = q.d.name, r.d.link # "none", q.d.link # "none"
      PROVE  r.d.link = q.d.link /\ r.d.what = q.d.what /\ ~(r.d.defines /\ q.d.defines) /\ r.x = q.x
  <2>1. r.at # q.at /\ r.at \in DOMAIN u /\ q.at \in DOMAIN u /\ r.d = u[r.at] /\ q.d = u[q.at]
        /\ Declares(u[r.at]) /\ Declares(u[q.at])
    BY <1>3, <1>5, <1>7
  <2>2. \A i, j \in DOMAIN u : i # j => i < j \/ j < i
    BY <1>2
  <2>3. Agree(r.d, q.d) \/ Agree(q.d, r.d)
    BY <1>1, <1>7, <2>1, <2>2 DEF Allowed
  <2>4. r.d.link = q.d.link /\ r.d.what = q.d.what /\ ~(r.d.defines /\ q.d.defines)
    BY <1>7, <2>1, <2>3 DEF Agree, Linked
  <2>5. r.d.entity = q.d.entity
    BY <1>4, <1>7 DEF EntityAt
  <2> QED
    BY <1>6, <2>4, <2>5
<1>8. ASSUME NEW r \in D, NEW q \in D, r # q, r.x = q.x
      PROVE  r.d.link # "none" /\ q.d.link # "none" /\ r.d.name = q.d.name
  <2>1. r.d.entity = q.d.entity /\ r.at # q.at
    BY <1>5, <1>6, <1>8
  <2>2. r.at \in Nat \ {0} /\ q.at \in Nat \ {0} /\ r.d.entity = EntityAt(r.d, r.at) /\ q.d.entity = EntityAt(q.d, q.at)
    BY <1>4
  <2>3. r.d.entity[1] = r.d.name /\ r.d.entity[2] = IF r.d.link = "none" THEN r.at ELSE 0
    BY <2>2 DEF EntityAt
  <2>4. q.d.entity[1] = q.d.name /\ q.d.entity[2] = IF q.d.link = "none" THEN q.at ELSE 0
    BY <2>2 DEF EntityAt
  <2>5. r.d.link # "none" /\ q.d.link # "none"
    BY <2>1, <2>2, <2>3, <2>4
  <2> QED
    BY <2>1, <2>3, <2>4, <2>5
<1>9. \A r, q \in D : r.d.link # "none" /\ q.d.link # "none" /\ r.d.name = q.d.name => r.x = q.x
  BY <1>7
<1>10. ASSUME NEW q \in U
       PROVE  q.d \in UseEntry /\ q.x \in Denotation /\ \E r \in D : r.x = q.x /\ r.at < q.at
  <2>1. q.at \in DOMAIN u /\ ~Declares(u[q.at]) /\ q.d = u[q.at] /\ q.x = m[q.at]
    BY <1>3
  <2>2. PICK i \in 1 .. q.at - 1 : Declares(u[i]) /\ u[q.at].entity = u[i].entity
    BY <1>1, <2>1 DEF Linkages
  <2>3. i \in DOMAIN u /\ i < q.at
    BY <1>2, <2>1
  <2>4. m[i] = m[q.at]
    BY <1>1, <2>1, <2>2, <2>3 DEF Told
  <2>5. q.x \in Denotation /\ u[q.at] \in Entry
    BY <1>1, <1>2, <2>1
  <2>6. u[q.at] \in UseEntry
    BY <2>1, <2>5, DeclaresEntry DEF Entry
  <2> QED
    BY <1>3, <2>1, <2>2, <2>3, <2>4, <2>5, <2>6
<1>11. /\ \A r \in D :
              /\ r.at \in Nat \ {0} /\ r.d \in DeclarationEntry /\ Declares(r.d)
              /\ r.x \in Denotation /\ r.x[1] = r.d.what
              /\ r.d.what = "object" => r.x[2] \in 1 .. no
              /\ r.d.what = "function" => r.x[2] \in 1 .. nf
              /\ r.d.link = "none" <=> Local(r.d)
              /\ r.d.entity = EntityAt(r.d, r.at)
       /\ \A r, q \in D : r # q /\ r.x = q.x =>
              /\ r.d.link # "none" /\ q.d.link # "none" /\ r.d.link = q.d.link
              /\ r.d.name = q.d.name /\ r.d.what = q.d.what /\ ~(r.d.defines /\ q.d.defines)
  <2>1. ASSUME NEW r \in D, NEW q \in D, r # q, r.x = q.x
        PROVE  /\ r.d.link # "none" /\ q.d.link # "none" /\ r.d.link = q.d.link
               /\ r.d.name = q.d.name /\ r.d.what = q.d.what /\ ~(r.d.defines /\ q.d.defines)
    <3>1. r.d.link # "none" /\ q.d.link # "none" /\ r.d.name = q.d.name
      BY <1>8, <2>1
    <3>2. r.d.link = q.d.link /\ r.d.what = q.d.what /\ ~(r.d.defines /\ q.d.defines)
      BY <1>7, <2>1, <3>1
    <3> QED
      BY <3>1, <3>2
  <2> QED
    BY <1>4, <2>1
<1> QED
  BY <1>5, <1>6, <1>9, <1>10, <1>11 DEF Consistent, D, U

(* One more of them.                                                       *)
LEMMA RowsAdded ==
    ASSUME NEW u \in Seq(Entry), NEW m \in Seq(Denotation), Len(m) = Len(u), NEW e \in Entry, NEW x \in Denotation
    PROVE  LET u2 == Append(u, e)
               m2 == Append(m, x)
               r  == [at |-> Len(u) + 1, d |-> e, x |-> x]
           IN  /\ Declares(e) => DeclaredRows(u2, m2) = DeclaredRows(u, m) \cup {r} /\ UsedRows(u2, m2) = UsedRows(u, m)
               /\ ~Declares(e) => UsedRows(u2, m2) = UsedRows(u, m) \cup {r} /\ DeclaredRows(u2, m2) = DeclaredRows(u, m)
<1> DEFINE u2 == Append(u, e)
           m2 == Append(m, x)
           r == [at |-> Len(u) + 1, d |-> e, x |-> x]
<1>1. /\ Len(u) \in Nat /\ DOMAIN u = 1 .. Len(u) /\ DOMAIN u2 = 1 .. Len(u) + 1
      /\ \A i \in 1 .. Len(u) : u2[i] = u[i] /\ m2[i] = m[i]
      /\ u2[Len(u) + 1] = e /\ m2[Len(u) + 1] = x
  BY UnitGrows
<1>2. PICK t : t = Len(u)
  OBVIOUS
<1>3. r = Row(u2, m2, t + 1) /\ u2[t + 1] = e
  BY <1>1, <1>2 DEF Row
<1> HIDE DEF u2, m2, r
<1>4. t \in Nat /\ DOMAIN u = 1 .. t /\ DOMAIN u2 = 1 .. t + 1
  BY <1>1, <1>2
<1>5. \A i \in 1 .. t : u2[i] = u[i] /\ Row(u2, m2, i) = Row(u, m, i)
  BY <1>1, <1>2 DEF Row
<1>6. \A i : i \in 1 .. t + 1 <=> i \in 1 .. t \/ i = t + 1
  BY <1>4
<1>7. DeclaredRows(u2, m2) = DeclaredRows(u, m) \cup (IF Declares(e) THEN {r} ELSE {})
  BY <1>3, <1>4, <1>5, <1>6 DEF DeclaredRows
<1>8. UsedRows(u2, m2) = UsedRows(u, m) \cup (IF Declares(e) THEN {} ELSE {r})
  BY <1>3, <1>4, <1>5, <1>6 DEF UsedRows
<1> QED
  BY <1>7, <1>8 DEF u2, m2, r

-----------------------------------------------------------------------------
(* What the tables say of the declarations D that were read, and of the    *)
(* uses U.                                                                 *)

(* An object has its name and its storage; one with external linkage is    *)
(* exported once a declaration of it is not `extern`.                      *)
DeclaredElsewhere(D, x) == \A q \in D : q.x = x => q.d.storage = "extern"
ObjectAs(D, r, o) ==
    /\ o.name = r.d.name
    /\ r.d.storage = "extern" => ~r.d.defines
    /\ r.d.link = "none" => o.storage = (IF r.d.storage = "static" THEN "static" ELSE "automatic")
    /\ r.d.link = "internal" => o.storage = "static"
    /\ r.d.link = "external" => o.storage = (IF DeclaredElsewhere(D, r.x) THEN "extern" ELSE "exported")
ObjectsAs(D, os) ==
    /\ \A r \in D : r.d.what = "object" => ObjectAs(D, r, os[r.x[2]])
    /\ \A id \in DOMAIN os : \E r \in D : r.x = AnObject(id)

(* A function has its flags, and a body once that of its definition has    *)
(* been read, which w is not yet.                                          *)
AllInline(D, x) == \A q \in D : q.x = x /\ q.d.scope = FileScope => q.d.inline
AnyExtern(D, x) == \E q \in D : q.x = x /\ q.d.scope = FileScope /\ q.d.storage = "extern"
FunctionAs(D, r, f, w) ==
    /\ f.name = r.d.name /\ (f.is_static <=> r.d.link = "internal")
    /\ r.d.defines => f.body \/ r.x[2] = w
    /\ r.d.defines => r.d.scope = FileScope
    /\ r.d.inline => f.is_inline
    /\ f.all_inline <=> AllInline(D, r.x)
    /\ f.any_extern <=> AnyExtern(D, r.x)
FunctionsAs(D, fs, w) ==
    /\ \A r \in D : r.d.what = "function" => FunctionAs(D, r, fs[r.x[2]], w)
    /\ \A id \in DOMAIN fs : \E r \in D : r.x = AFunction(id)

(* An object that is defined has one item, with the value that the one     *)
(* declaration with an initialiser gives it.                               *)
StaticRow == [object : Nat, init : Nat, refers : Uses]
Static(os, id) == id \in DOMAIN os /\ os[id].storage \in {"static", "exported"}
InitialisedAs(D, s) ==
    /\ \A r \in D : r.x = AnObject(s.object) /\ r.d.defines => s.init = r.at
    /\ s.init # 0 => \E r \in D : r.at = s.init /\ r.x = AnObject(s.object) /\ r.d.defines
    /\ s.refers # {} => s.init # 0
StaticsAs(D, os, ex, st) ==
    /\ st \in Seq(StaticRow)
    /\ \A id : id \in ex <=> id \in DOMAIN os /\ os[id].storage = "extern"
    /\ \A k \in DOMAIN st : Static(os, st[k].object)
    /\ \A id : Static(os, id) => \E k \in DOMAIN st : st[k].object = id
    /\ \A k, l \in DOMAIN st : st[k].object = st[l].object => k = l
    /\ \A k \in DOMAIN st : InitialisedAs(D, st[k])

LEMMA ObjectsElse ==
    ASSUME NEW D, NEW os, ObjectsAs(D, os), NEW r1, NEW U, NEW no, NEW nf,
           Consistent(D \cup {r1}, U, no, nf), r1.d.what # "object"
    PROVE  ObjectsAs(D \cup {r1}, os)
<1>1. ASSUME NEW r \in D, r.d.what = "object" PROVE r1.x # r.x
  BY <1>1 DEF Consistent
<1>2. \A r \in D : r.d.what = "object" => ObjectAs(D \cup {r1}, r, os[r.x[2]])
  BY <1>1 DEF ObjectsAs, ObjectAs, DeclaredElsewhere
<1> QED
  BY <1>2 DEF ObjectsAs

LEMMA ObjectIsNew ==
    ASSUME NEW D, NEW os \in Seq(ObjectRow), ObjectsAs(D, os), NEW r1, NEW U, NEW U2, NEW nf, NEW nf2,
           Consistent(D, U, Len(os), nf), NEW no2, Consistent(D \cup {r1}, U2, no2, nf2),
           r1.x = AnObject(Len(os) + 1), NEW o \in ObjectRow, ObjectAs({r1}, r1, o)
    PROVE  ObjectsAs(D \cup {r1}, Append(os, o))
<1>1. PICK n : n = Len(os)
  OBVIOUS
<1>2. PICK o2 : o2 = Append(os, o)
  OBVIOUS
<1>3. /\ n \in Nat /\ DOMAIN os = 1 .. n /\ DOMAIN o2 = 1 .. n + 1
      /\ \A i \in 1 .. n : o2[i] = os[i]
      /\ o2[n + 1] = o
  BY <1>1, <1>2, Appended
<1>4. r1.d.what = "object"
  BY DEF Consistent, AnObject
<1>5. ASSUME NEW r \in D, r.d.what = "object" PROVE r1.x # r.x /\ r.x[2] \in 1 .. n
  BY <1>1, <1>3, <1>5 DEF Consistent, AnObject
<1>6. \A r \in D : r.x # r1.x
  <2>1. \A r \in D : r.x[1] = r.d.what /\ r1.x[1] = r1.d.what
    BY DEF Consistent
  <2> QED
    BY <1>4, <1>5, <2>1
<1>7. ASSUME NEW r \in D, r.d.what = "object"
      PROVE  ObjectAs(D \cup {r1}, r, o2[r.x[2]])
  <2>1. o2[r.x[2]] = os[r.x[2]] /\ ObjectAs(D, r, os[r.x[2]])
    BY <1>3, <1>5, <1>7 DEF ObjectsAs
  <2>2. DeclaredElsewhere(D \cup {r1}, r.x) <=> DeclaredElsewhere(D, r.x)
    BY <1>6 DEF DeclaredElsewhere
  <2> QED
    BY <2>1, <2>2 DEF ObjectAs
<1>8. ObjectAs(D \cup {r1}, r1, o2[r1.x[2]])
  <2>1. DeclaredElsewhere(D \cup {r1}, r1.x) <=> DeclaredElsewhere({r1}, r1.x)
    BY <1>6 DEF DeclaredElsewhere
  <2>2. o2[r1.x[2]] = o
    BY <1>1, <1>3 DEF AnObject
  <2> QED
    BY <2>1, <2>2 DEF ObjectAs
<1>9. \A id \in DOMAIN o2 : \E r \in D \cup {r1} : r.x = AnObject(id)
  <2>1. ASSUME NEW id \in 1 .. n + 1 PROVE \E r \in D \cup {r1} : r.x = AnObject(id)
    <3>1. CASE id = n + 1
      BY <1>1, <3>1
    <3>2. CASE id \in 1 .. n
      BY <1>3, <3>2 DEF ObjectsAs
    <3> QED
      BY <1>3, <3>1, <3>2
  <2> QED
    BY <1>3, <2>1
<1> QED
  BY <1>2, <1>7, <1>8, <1>9 DEF ObjectsAs

(* The storage of an object once it is declared again.                     *)
Moved(storage, d) == IF storage = "extern" /\ d.storage # "extern" THEN "exported" ELSE storage

ObjectAgain(os, o2, id, d) ==
    /\ DOMAIN o2 = DOMAIN os /\ \A i \in DOMAIN os : i # id => o2[i] = os[i]
    /\ o2[id].name = os[id].name /\ o2[id].storage = Moved(os[id].storage, d)
    /\ d.storage = "extern" => ~d.defines
Again(D, r1) == \E q \in D : q # r1 /\ q.x = r1.x

LEMMA ObjectIsKnown ==
    ASSUME NEW D, NEW os, ObjectsAs(D, os), NEW r1, NEW U, NEW no, NEW nf,
           Consistent(D \cup {r1}, U, no, nf), NEW id, r1.x = AnObject(id), Again(D, r1),
           DOMAIN os = 1 .. no, NEW o2, ObjectAgain(os, o2, id, r1.d)
    PROVE  ObjectsAs(D \cup {r1}, o2)
<1>0. PICK q0 \in D : q0 # r1 /\ q0.x = r1.x
  BY DEF Again
<1>21. /\ DOMAIN o2 = DOMAIN os /\ \A i \in DOMAIN os : i # id => o2[i] = os[i]
       /\ o2[id].name = os[id].name /\ o2[id].storage = Moved(os[id].storage, r1.d)
       /\ r1.d.storage = "extern" => ~r1.d.defines
  BY DEF ObjectAgain
<1> DEFINE D2 == D \cup {r1}
<1>1. /\ \A r \in D2 : r.x[1] = r.d.what
      /\ \A r \in D2 : r # r1 /\ r.x = r1.x =>
             r.d.link = r1.d.link /\ r.d.name = r1.d.name /\ r.d.what = r1.d.what /\ r1.d.link # "none"
      /\ r1.d.link \in {"none", "internal", "external"}
  BY DEF Consistent, DeclarationEntry
<1>2. r1.x[1] = "object" /\ r1.x[2] = id
  BY DEF AnObject
<1>3. ObjectAs(D, q0, os[id]) /\ r1.d.what = "object" /\ q0.x = r1.x /\ q0 \in D2
  BY <1>0, <1>1, <1>2 DEF ObjectsAs
<1>4. \A r \in D2 : r.x = r1.x => r.d.link = r1.d.link /\ r.d.name = r1.d.name /\ r1.d.link # "none"
  BY <1>0, <1>1
<1>5. o2[id].name = r1.d.name
  BY <1>21, <1>3, <1>4 DEF ObjectAs
<1>6. r1.d.link = "internal" => o2[id].storage = "static"
  BY <1>21, <1>3, <1>4 DEF ObjectAs, Moved
<1>7. r1.d.link = "external" => o2[id].storage = (IF DeclaredElsewhere(D2, r1.x) THEN "extern" ELSE "exported")
  <2>1. DeclaredElsewhere(D2, r1.x) <=> DeclaredElsewhere(D, r1.x) /\ r1.d.storage = "extern"
    BY DEF DeclaredElsewhere
  <2>2. r1.d.link = "external" => os[id].storage = (IF DeclaredElsewhere(D, r1.x) THEN "extern" ELSE "exported")
    BY <1>3, <1>4 DEF ObjectAs
  <2> QED
    BY <1>21, <2>1, <2>2 DEF Moved
<1>8. ASSUME NEW r \in D2, r.x = r1.x PROVE ObjectAs(D2, r, o2[id])
  <2>1. r.d.storage = "extern" => ~r.d.defines
    <3>1. CASE r = r1
      BY <1>21, <3>1
    <3>2. CASE r # r1
      <4>1. r \in D /\ r.d.what = "object"
        BY <1>1, <1>3, <1>8, <3>2
      <4> QED
        BY <4>1 DEF ObjectsAs, ObjectAs
    <3> QED
      BY <3>1, <3>2
  <2> QED
    BY <1>4, <1>5, <1>6, <1>7, <1>8, <2>1 DEF ObjectAs
<1>9. ASSUME NEW r \in D2, r.d.what = "object", r.x # r1.x
      PROVE  ObjectAs(D2, r, o2[r.x[2]])
  <2>1. r \in D /\ ObjectAs(D, r, os[r.x[2]])
    BY <1>9 DEF ObjectsAs
  <2>2. r.x \in Denotation /\ r.x[1] = "object" /\ r1.x \in Denotation
    BY <1>1, <1>9 DEF Consistent
  <2>3. r.x[2] # id
    BY <1>2, <1>9, <2>2 DEF Denotation
  <2>4. r.x[2] \in DOMAIN os
    BY <1>9 DEF Consistent
  <2>5. o2[r.x[2]] = os[r.x[2]]
    BY <1>21, <2>3, <2>4
  <2>6. DeclaredElsewhere(D2, r.x) <=> DeclaredElsewhere(D, r.x)
    BY <1>9 DEF DeclaredElsewhere
  <2> QED
    BY <2>1, <2>5, <2>6 DEF ObjectAs
<1>10. \A r \in D2 : r.d.what = "object" => ObjectAs(D2, r, o2[r.x[2]])
  BY <1>2, <1>8, <1>9
<1> QED
  BY <1>21, <1>10 DEF ObjectsAs

LEMMA FunctionsElse ==
    ASSUME NEW D, NEW fs, NEW w, FunctionsAs(D, fs, w), NEW r1, NEW U, NEW no, NEW nf,
           Consistent(D \cup {r1}, U, no, nf), r1.d.what # "function"
    PROVE  FunctionsAs(D \cup {r1}, fs, w)
<1>1. ASSUME NEW r \in D, r.d.what = "function" PROVE r1.x # r.x
  BY <1>1 DEF Consistent
<1>2. ASSUME NEW r \in D, r.d.what = "function" PROVE FunctionAs(D \cup {r1}, r, fs[r.x[2]], w)
  <2>1. FunctionAs(D, r, fs[r.x[2]], w)
    BY <1>2 DEF FunctionsAs
  <2>2. AllInline(D \cup {r1}, r.x) <=> AllInline(D, r.x)
    BY <1>1, <1>2 DEF AllInline
  <2>3. AnyExtern(D \cup {r1}, r.x) <=> AnyExtern(D, r.x)
    BY <1>1, <1>2 DEF AnyExtern
  <2> QED
    BY <2>1, <2>2, <2>3 DEF FunctionAs
<1> QED
  BY <1>2 DEF FunctionsAs

LEMMA FunctionIsNew ==
    ASSUME NEW D, NEW fs \in Seq(FunctionRow), NEW w, FunctionsAs(D, fs, w), NEW r1, NEW U, NEW U2,
           NEW no, Consistent(D, U, no, Len(fs)), NEW no2, NEW nf2, Consistent(D \cup {r1}, U2, no2, nf2),
           r1.x = AFunction(Len(fs) + 1), NEW f \in FunctionRow, NEW w2, w2 = w \/ w = 0,
           FunctionAs({r1}, r1, f, w2)
    PROVE  FunctionsAs(D \cup {r1}, Append(fs, f), w2)
<1>1. PICK n : n = Len(fs)
  OBVIOUS
<1>2. PICK f2 : f2 = Append(fs, f)
  OBVIOUS
<1>3. /\ n \in Nat /\ DOMAIN fs = 1 .. n /\ DOMAIN f2 = 1 .. n + 1
      /\ \A i \in 1 .. n : f2[i] = fs[i]
      /\ f2[n + 1] = f
  BY <1>1, <1>2, Appended
<1>4. r1.d.what = "function"
  BY DEF Consistent, AFunction
<1>5. ASSUME NEW r \in D, r.d.what = "function" PROVE r1.x # r.x /\ r.x[2] \in 1 .. n
  BY <1>1, <1>3, <1>5 DEF Consistent, AFunction
<1>6. \A r \in D : r.x # r1.x
  <2>1. \A r \in D : r.x[1] = r.d.what /\ r1.x[1] = r1.d.what
    BY DEF Consistent
  <2> QED
    BY <1>4, <1>5, <2>1
<1>7. ASSUME NEW r \in D, r.d.what = "function"
      PROVE  FunctionAs(D \cup {r1}, r, f2[r.x[2]], w2)
  <2>1. f2[r.x[2]] = fs[r.x[2]] /\ FunctionAs(D, r, fs[r.x[2]], w) /\ r.x[2] # 0
    BY <1>3, <1>5, <1>7 DEF FunctionsAs
  <2>2. AllInline(D \cup {r1}, r.x) <=> AllInline(D, r.x)
    BY <1>6 DEF AllInline
  <2>3. AnyExtern(D \cup {r1}, r.x) <=> AnyExtern(D, r.x)
    BY <1>6 DEF AnyExtern
  <2> QED
    BY <2>1, <2>2, <2>3 DEF FunctionAs
<1>8. FunctionAs(D \cup {r1}, r1, f2[r1.x[2]], w2)
  <2>1. AllInline(D \cup {r1}, r1.x) <=> AllInline({r1}, r1.x)
    BY <1>6 DEF AllInline
  <2>2. AnyExtern(D \cup {r1}, r1.x) <=> AnyExtern({r1}, r1.x)
    BY <1>6 DEF AnyExtern
  <2>3. f2[r1.x[2]] = f
    BY <1>1, <1>3 DEF AFunction
  <2> QED
    BY <2>1, <2>2, <2>3 DEF FunctionAs
<1>9. \A id \in DOMAIN f2 : \E r \in D \cup {r1} : r.x = AFunction(id)
  <2>1. ASSUME NEW id \in 1 .. n + 1 PROVE \E r \in D \cup {r1} : r.x = AFunction(id)
    <3>1. CASE id = n + 1
      BY <1>1, <3>1
    <3>2. CASE id \in 1 .. n
      BY <1>3, <3>2 DEF FunctionsAs
    <3> QED
      BY <1>3, <3>1, <3>2
  <2> QED
    BY <1>3, <2>1
<1> QED
  BY <1>2, <1>7, <1>8, <1>9 DEF FunctionsAs

(* A function that is declared again.                                      *)
MergedAs(f2, f, d) ==
    /\ f2.name = f.name /\ f2.body = f.body
    /\ f2.is_static <=> f.is_static \/ d.storage = "static"
    /\ f2.is_inline <=> f.is_inline \/ d.inline
    /\ f2.all_inline <=> f.all_inline /\ (d.scope = FileScope => d.inline)
    /\ f2.any_extern <=> f.any_extern \/ (d.scope = FileScope /\ d.storage = "extern")

FunctionAgain(fs, f2, id, d) ==
    /\ DOMAIN f2 = DOMAIN fs /\ \A i \in DOMAIN fs : i # id => f2[i] = fs[i]
    /\ MergedAs(f2[id], fs[id], d)
Enters(w, w2, id, d) == (w2 = w \/ w = 0) /\ (d.defines => w2 = id)
AtTop(d) == d.defines => d.scope = FileScope

LEMMA FunctionIsKnown ==
    ASSUME NEW D, NEW fs, NEW w, FunctionsAs(D, fs, w), NEW r1, NEW U, NEW no, NEW nf,
           Consistent(D \cup {r1}, U, no, nf), NEW id, r1.x = AFunction(id), Again(D, r1),
           DOMAIN fs = 1 .. nf, r1.d.storage = "static" => r1.d.link = "internal", AtTop(r1.d),
           NEW w2, Enters(w, w2, id, r1.d), NEW f2, FunctionAgain(fs, f2, id, r1.d)
    PROVE  FunctionsAs(D \cup {r1}, f2, w2)
<1>0. PICK q0 \in D : q0 # r1 /\ q0.x = r1.x
  BY DEF Again
<1>20. /\ w2 = w \/ w = 0
       /\ r1.d.defines => w2 = id
       /\ DOMAIN f2 = DOMAIN fs /\ \A i \in DOMAIN fs : i # id => f2[i] = fs[i]
       /\ MergedAs(f2[id], fs[id], r1.d)
  BY DEF Enters, FunctionAgain
<1> DEFINE D2 == D \cup {r1}
<1>1. /\ \A r \in D2 : r.x[1] = r.d.what
      /\ \A r \in D2 : r # r1 /\ r.x = r1.x =>
             r.d.link = r1.d.link /\ r.d.name = r1.d.name /\ r.d.what = r1.d.what /\ r1.d.link # "none"
      /\ \A r \in D2 : r.d.what = "function" => r.x[2] \in 1 .. nf
  BY DEF Consistent
<1>2. r1.x[1] = "function" /\ r1.x[2] = id
  BY DEF AFunction
<1>3. FunctionAs(D, q0, fs[id], w) /\ r1.d.what = "function" /\ id \in DOMAIN fs
  BY <1>0, <1>1, <1>2 DEF FunctionsAs
<1>4. \A r \in D2 : r.x = r1.x => r.d.link = r1.d.link /\ r.d.name = r1.d.name
  BY <1>1
<1>5. f2[id].name = r1.d.name /\ (f2[id].is_static <=> r1.d.link = "internal")
  BY <1>0, <1>3, <1>4, <1>20 DEF FunctionAs, MergedAs
<1>6. f2[id].all_inline <=> AllInline(D2, r1.x)
  <2>1. AllInline(D2, r1.x) <=> AllInline(D, r1.x) /\ (r1.d.scope = FileScope => r1.d.inline)
    BY DEF AllInline
  <2>2. fs[id].all_inline <=> AllInline(D, r1.x)
    BY <1>0, <1>3 DEF FunctionAs
  <2> QED
    BY <1>20, <2>1, <2>2 DEF MergedAs
<1>7. f2[id].any_extern <=> AnyExtern(D2, r1.x)
  <2>1. AnyExtern(D2, r1.x) <=> AnyExtern(D, r1.x) \/ (r1.d.scope = FileScope /\ r1.d.storage = "extern")
    BY DEF AnyExtern
  <2>2. fs[id].any_extern <=> AnyExtern(D, r1.x)
    BY <1>0, <1>3 DEF FunctionAs
  <2> QED
    BY <1>20, <2>1, <2>2 DEF MergedAs
<1>8. ASSUME NEW r \in D2, r.x = r1.x
      PROVE  /\ r.d.defines => f2[id].body \/ r.x[2] = w2
             /\ r.d.defines => r.d.scope = FileScope
             /\ r.d.inline => f2[id].is_inline
  <2>1. CASE r = r1
    BY <1>2, <1>20, <2>1 DEF MergedAs, AtTop
  <2>2. CASE r # r1
    <3>1. r \in D /\ r.d.what = "function" /\ r.x[2] = id /\ id # 0
      BY <1>1, <1>2, <1>3, <1>8, <2>2
    <3>2. FunctionAs(D, r, fs[id], w)
      BY <3>1 DEF FunctionsAs
    <3> QED
      BY <1>20, <3>1, <3>2 DEF FunctionAs, MergedAs
  <2> QED
    BY <2>1, <2>2
<1>9. \A r \in D2 : r.x = r1.x => FunctionAs(D2, r, f2[id], w2)
  BY <1>4, <1>5, <1>6, <1>7, <1>8 DEF FunctionAs
<1>10. ASSUME NEW r \in D2, r.d.what = "function", r.x # r1.x
       PROVE  FunctionAs(D2, r, f2[r.x[2]], w2)
  <2>1. r \in D /\ FunctionAs(D, r, fs[r.x[2]], w)
    BY <1>10 DEF FunctionsAs
  <2>2. r.x \in Denotation /\ r.x[1] = "function" /\ r1.x \in Denotation
    BY <1>1, <1>10 DEF Consistent
  <2>3. r.x[2] # id /\ r.x[2] \in DOMAIN fs /\ r.x[2] # 0
    BY <1>1, <1>2, <1>10, <2>2 DEF Denotation
  <2>4. f2[r.x[2]] = fs[r.x[2]]
    BY <1>20, <2>3
  <2>5. (AllInline(D2, r.x) <=> AllInline(D, r.x)) /\ (AnyExtern(D2, r.x) <=> AnyExtern(D, r.x))
    BY <1>10 DEF AllInline, AnyExtern
  <2> QED
    BY <1>20, <2>1, <2>3, <2>4, <2>5 DEF FunctionAs
<1>11. \A r \in D2 : r.d.what = "function" => FunctionAs(D2, r, f2[r.x[2]], w2)
  BY <1>2, <1>9, <1>10
<1> QED
  BY <1>11, <1>20 DEF FunctionsAs

(* Functions whose flags stay, while bodies are added and w changes.       *)
SameFlags(f2, f) ==
    /\ f2.name = f.name /\ f2.is_static = f.is_static /\ f2.is_inline = f.is_inline
    /\ f2.all_inline = f.all_inline /\ f2.any_extern = f.any_extern
LEMMA FunctionsStay ==
    ASSUME NEW D, NEW fs, NEW w, FunctionsAs(D, fs, w), NEW U, NEW no, NEW nf,
           Consistent(D, U, no, nf), DOMAIN fs = 1 .. nf,
           NEW f2, DOMAIN f2 = DOMAIN fs, \A i \in DOMAIN fs : SameFlags(f2[i], fs[i]),
           NEW w2, \A i \in DOMAIN fs : fs[i].body \/ i = w => f2[i].body \/ i = w2
    PROVE  FunctionsAs(D, f2, w2)
<1>1. ASSUME NEW r \in D, r.d.what = "function"
      PROVE  FunctionAs(D, r, f2[r.x[2]], w2)
  <2>1. FunctionAs(D, r, fs[r.x[2]], w) /\ r.x[2] \in DOMAIN fs
    BY <1>1 DEF FunctionsAs, Consistent
  <2>2. SameFlags(f2[r.x[2]], fs[r.x[2]])
    BY <2>1
  <2> QED
    BY <2>1, <2>2 DEF FunctionAs, SameFlags
<1> QED
  BY <1>1 DEF FunctionsAs

LEMMA StaticsStay ==
    ASSUME NEW D, NEW os, NEW ex, NEW st, StaticsAs(D, os, ex, st), NEW r1,
           r1.d.defines => \A k \in DOMAIN st : r1.x # AnObject(st[k].object),
           NEW o2, \A id : Static(o2, id) <=> Static(os, id),
           NEW e2, \A id : id \in e2 <=> id \in DOMAIN o2 /\ o2[id].storage = "extern"
    PROVE  StaticsAs(D \cup {r1}, o2, e2, st)
<1>1. ASSUME NEW k \in DOMAIN st PROVE InitialisedAs(D \cup {r1}, st[k])
  <2>1. InitialisedAs(D, st[k])
    BY DEF StaticsAs
  <2> QED
    BY <2>1 DEF InitialisedAs
<1> QED
  BY <1>1 DEF StaticsAs

(* One more item.                                                          *)
Longer(st, s2, s) ==
    \E n \in Nat :
        /\ s2 \in Seq(StaticRow) /\ DOMAIN st = 1 .. n /\ DOMAIN s2 = 1 .. n + 1
        /\ \A i \in 1 .. n : s2[i] = st[i]
        /\ s2[n + 1] = s

LEMMA StaticIsNew ==
    ASSUME NEW D, NEW os, NEW ex, NEW st, StaticsAs(D, os, ex, st), NEW r1, NEW s \in StaticRow,
           \A k \in DOMAIN st : r1.x # AnObject(st[k].object), InitialisedAs(D \cup {r1}, s),
           ~Static(os, s.object),
           NEW o2, \A id : Static(o2, id) <=> Static(os, id) \/ id = s.object,
           NEW e2, \A id : id \in e2 <=> id \in DOMAIN o2 /\ o2[id].storage = "extern",
           NEW s2, Longer(st, s2, s)
    PROVE  StaticsAs(D \cup {r1}, o2, e2, s2)
<1>3. PICK n \in Nat :
          /\ s2 \in Seq(StaticRow) /\ DOMAIN st = 1 .. n /\ DOMAIN s2 = 1 .. n + 1
          /\ \A i \in 1 .. n : s2[i] = st[i]
          /\ s2[n + 1] = s
  BY DEF Longer
<1>4. \A k \in 1 .. n + 1 : k \in 1 .. n \/ k = n + 1
  BY <1>3
<1>5. \A k \in 1 .. n : k \in 1 .. n + 1 /\ k # n + 1
  BY <1>3
<1>6. n + 1 \in 1 .. n + 1
  BY <1>3
<1>7. \A k \in 1 .. n : Static(os, st[k].object) /\ st[k].object # s.object
  BY <1>3 DEF StaticsAs
<1>8. \A k \in DOMAIN s2 : Static(o2, s2[k].object)
  BY <1>3, <1>4, <1>7
<1>9. \A id : Static(o2, id) => \E k \in DOMAIN s2 : s2[k].object = id
  <2>1. ASSUME NEW id, Static(os, id) PROVE \E k \in DOMAIN s2 : s2[k].object = id
    <3>1. PICK k \in DOMAIN st : st[k].object = id
      BY <2>1 DEF StaticsAs
    <3> QED
      BY <1>3, <1>5, <3>1
  <2> QED
    BY <1>3, <1>6, <2>1
<1>10. \A k, l \in DOMAIN s2 : s2[k].object = s2[l].object => k = l
  <2>1. \A k, l \in 1 .. n : st[k].object = st[l].object => k = l
    BY <1>3 DEF StaticsAs
  <2> QED
    BY <1>3, <1>4, <1>7, <2>1
<1>11. ASSUME NEW k \in 1 .. n PROVE InitialisedAs(D \cup {r1}, st[k])
  <2>1. InitialisedAs(D, st[k]) /\ r1.x # AnObject(st[k].object)
    BY <1>3 DEF StaticsAs
  <2> QED
    BY <2>1 DEF InitialisedAs
<1>12. ASSUME NEW k \in DOMAIN s2 PROVE InitialisedAs(D \cup {r1}, s2[k])
  <2>1. CASE k = n + 1
    BY <1>3, <2>1
  <2>2. CASE k \in 1 .. n
    BY <1>3, <1>11, <2>2
  <2> QED
    BY <1>3, <1>4, <2>1, <2>2
<1>13. \A k \in DOMAIN s2 : InitialisedAs(D \cup {r1}, s2[k])
  BY <1>12
<1> QED
  BY <1>3, <1>8, <1>9, <1>10, <1>13 DEF StaticsAs

LEMMA StaticIsInitialised ==
    ASSUME NEW D, NEW os, NEW ex, NEW st, StaticsAs(D, os, ex, st), NEW r1, NEW id,
           r1.x = AnObject(id), NEW s2, s2 \in Seq(StaticRow), DOMAIN s2 = DOMAIN st,
           \A k \in DOMAIN st : s2[k].object = st[k].object,
           \A k \in DOMAIN st : st[k].object # id => s2[k] = st[k],
           \A k \in DOMAIN st : st[k].object = id => InitialisedAs(D \cup {r1}, s2[k])
    PROVE  StaticsAs(D \cup {r1}, os, ex, s2)
<1>1. ASSUME NEW k \in DOMAIN st, st[k].object # id PROVE InitialisedAs(D \cup {r1}, st[k])
  <2>1. InitialisedAs(D, st[k])
    BY DEF StaticsAs
  <2>2. r1.x # AnObject(st[k].object)
    BY <1>1 DEF AnObject
  <2> QED
    BY <2>1, <2>2 DEF InitialisedAs
<1>2. \A k \in DOMAIN s2 : InitialisedAs(D \cup {r1}, s2[k])
  BY <1>1
<1> QED
  BY <1>2 DEF StaticsAs

LEMMA OneInitialiser ==
    ASSUME NEW D, NEW r1, NEW U, NEW no, NEW nf, Consistent(D \cup {r1}, U, no, nf), r1.d.defines,
           NEW s, r1.x = AnObject(s.object), s.init = r1.at
    PROVE  InitialisedAs(D \cup {r1}, s)
<1>1. \A r \in D \cup {r1} : r # r1 /\ r.x = r1.x => ~r.d.defines
  BY DEF Consistent
<1>2. r1.at # 0
  BY DEF Consistent
<1> QED
  BY <1>1, <1>2 DEF InitialisedAs

-----------------------------------------------------------------------------
(* Each use is known to what it was written in: the initialiser of an      *)
(* object that lasts, or else the body of a function.                      *)
WrittenIn(D, U, t, x) ==
    \E q \in U, r \in D : q.x = t[1] /\ q.d.what = t[2] /\ r.x = x /\ q.d.from = r.d.entity
UsedBy(fs, st, q, r) ==
    \/ r.d.what = "function" /\ <<q.x, q.d.what>> \in fs[r.x[2]].uses
    \/ \E k \in DOMAIN st : r.x = AnObject(st[k].object) /\ <<q.x, q.d.what>> \in st[k].refers
UseAs(D, fs, st, q) ==
    /\ q.d.entity[1] = q.d.name
    /\ q.x[1] \in {"object", "function"} => \E r \in D : q.d.from = r.d.entity /\ UsedBy(fs, st, q, r)
UsesAs(D, U, fs, st, w) ==
    /\ \A id \in DOMAIN fs :
           /\ \A t \in fs[id].uses : WrittenIn(D, U, t, AFunction(id))
           /\ fs[id].uses # {} => fs[id].body \/ id = w
    /\ \A k \in DOMAIN st : \A t \in st[k].refers : WrittenIn(D, U, t, AnObject(st[k].object))
    /\ \A q \in U : UseAs(D, fs, st, q)

(* More of them, when nothing that was known is lost.                      *)
MoreUses(D, U, fs, st, D2, U2, f2, s2, w2) ==
    /\ D \subseteq D2 /\ U \subseteq U2
    /\ DOMAIN fs \subseteq DOMAIN f2 /\ \A id \in DOMAIN fs : fs[id].uses \subseteq f2[id].uses
    /\ \A k \in DOMAIN st : \A t \in st[k].refers :
           \E l \in DOMAIN s2 : s2[l].object = st[k].object /\ t \in s2[l].refers
    /\ \A id \in DOMAIN f2 : \A t \in f2[id].uses :
           (id \in DOMAIN fs /\ t \in fs[id].uses) \/ WrittenIn(D2, U2, t, AFunction(id))
    /\ \A k \in DOMAIN s2 : \A t \in s2[k].refers :
           \/ \E l \in DOMAIN st : st[l].object = s2[k].object /\ t \in st[l].refers
           \/ WrittenIn(D2, U2, t, AnObject(s2[k].object))
    /\ \A id \in DOMAIN f2 : f2[id].uses # {} => f2[id].body \/ id = w2
    /\ \A q \in U2 \ U : UseAs(D2, f2, s2, q)

LEMMA UsesGrow ==
    ASSUME NEW D, NEW U, NEW fs, NEW st, NEW w, UsesAs(D, U, fs, st, w), NEW no, NEW nf,
           Consistent(D, U, no, nf), DOMAIN fs = 1 .. nf,
           NEW D2, NEW U2, NEW f2, NEW s2, NEW w2, MoreUses(D, U, fs, st, D2, U2, f2, s2, w2)
    PROVE  UsesAs(D2, U2, f2, s2, w2)
<1>0. /\ D \subseteq D2 /\ U \subseteq U2
      /\ DOMAIN fs \subseteq DOMAIN f2 /\ \A id \in DOMAIN fs : fs[id].uses \subseteq f2[id].uses
      /\ \A k \in DOMAIN st : \A t \in st[k].refers :
             \E l \in DOMAIN s2 : s2[l].object = st[k].object /\ t \in s2[l].refers
      /\ \A id \in DOMAIN f2 : \A t \in f2[id].uses :
             (id \in DOMAIN fs /\ t \in fs[id].uses) \/ WrittenIn(D2, U2, t, AFunction(id))
      /\ \A k \in DOMAIN s2 : \A t \in s2[k].refers :
             \/ \E l \in DOMAIN st : st[l].object = s2[k].object /\ t \in st[l].refers
             \/ WrittenIn(D2, U2, t, AnObject(s2[k].object))
      /\ \A id \in DOMAIN f2 : f2[id].uses # {} => f2[id].body \/ id = w2
      /\ \A q \in U2 \ U : UseAs(D2, f2, s2, q)
  BY DEF MoreUses
<1>1. \A t, x : WrittenIn(D, U, t, x) => WrittenIn(D2, U2, t, x)
  BY <1>0 DEF WrittenIn
<1>2. ASSUME NEW q \in U PROVE UseAs(D2, f2, s2, q)
  <2>1. UseAs(D, fs, st, q)
    BY DEF UsesAs
  <2>2. ASSUME NEW r \in D, q.d.from = r.d.entity, UsedBy(fs, st, q, r) PROVE UsedBy(f2, s2, q, r)
    <3>1. r.d.what = "function" => r.x[2] \in DOMAIN fs
      BY DEF Consistent
    <3>2. CASE r.d.what = "function" /\ <<q.x, q.d.what>> \in fs[r.x[2]].uses
      BY <1>0, <3>1, <3>2 DEF UsedBy
    <3>3. CASE \E k \in DOMAIN st : r.x = AnObject(st[k].object) /\ <<q.x, q.d.what>> \in st[k].refers
      BY <1>0, <3>3 DEF UsedBy
    <3> QED
      BY <2>2, <3>2, <3>3 DEF UsedBy
  <2> QED
    BY <1>0, <2>1, <2>2 DEF UseAs
<1>3. ASSUME NEW id \in DOMAIN f2
      PROVE  /\ \A t \in f2[id].uses : WrittenIn(D2, U2, t, AFunction(id))
             /\ f2[id].uses # {} => f2[id].body \/ id = w2
  BY <1>0, <1>1 DEF UsesAs
<1>4. ASSUME NEW k \in DOMAIN s2, NEW t \in s2[k].refers PROVE WrittenIn(D2, U2, t, AnObject(s2[k].object))
  <2>1. CASE \E l \in DOMAIN st : st[l].object = s2[k].object /\ t \in st[l].refers
    <3>1. PICK l \in DOMAIN st : st[l].object = s2[k].object /\ t \in st[l].refers
      BY <2>1
    <3>2. WrittenIn(D, U, t, AnObject(st[l].object))
      BY <3>1 DEF UsesAs
    <3> QED
      BY <1>1, <3>1, <3>2
  <2> QED
    BY <1>0, <2>1
<1>5. \A q \in U2 : UseAs(D2, f2, s2, q)
  BY <1>0, <1>2
<1> QED
  BY <1>3, <1>4, <1>5 DEF UsesAs

-----------------------------------------------------------------------------
(* One more declaration d, taken for x, with what its initialiser uses.    *)
Rows == DeclaredRows(unit, means)
Usages == UsedRows(unit, means)
IsUsed(Q, ss, d, from) ==
    /\ Refers(ss, d) = {<<q.x, q.d.what>> : q \in Q}
    /\ \A q \in Q : q.d.entity[1] = q.d.name /\ q.d.from = from
IsDeclared(d, x, ss, r, Q) ==
    /\ r.at = Len(unit) + 1 /\ r.d = EntryOf(unit, d) /\ r.x = x /\ r \notin Rows
    /\ Rows' = Rows \cup {r} /\ Usages' = Usages \cup Q
    /\ Consistent(Rows, Usages, Len(objects), Len(functions))
    /\ Consistent(Rows \cup {r}, Usages \cup Q, Len(objects'), Len(functions'))
    /\ IsUsed(Q, ss, d, IF Lasts(r.d) THEN r.d.entity ELSE Body(unit))

LEMMA RowsConsistent ==
    ASSUME Reads
    PROVE  Consistent(Rows, Usages, Len(objects), Len(functions))
BY ReadsFacts, ConsistentRows DEF Rows, Usages

LEMMA RowsConsistentNext ==
    ASSUME Reads'
    PROVE  Consistent(Rows', Usages', Len(objects'), Len(functions'))
<1>1. Good(unit', blocks', scopes', means', Len(objects'), Len(functions'))
  BY DEF Reads, Read
<1>2. Consistent(DeclaredRows(unit', means'), UsedRows(unit', means'), Len(objects'), Len(functions'))
  BY <1>1, ConsistentRows
<1>3. Rows' = DeclaredRows(unit', means') /\ Usages' = UsedRows(unit', means')
  BY DEF Rows, Usages
<1> QED
  BY <1>2, <1>3

LEMMA BodyKept ==
    ASSUME Reads, NEW e \in Entry
    PROVE  Body(Append(unit, e)) = Body(unit)
<1>1. CASE AtFileScope
  BY <1>1 DEF Body
<1>2. CASE ~AtFileScope
  <2>1. Len(blocks) >= 2
    <3>1. PICK t : t = Len(blocks)
      OBVIOUS
    <3>2. t \in Nat /\ t >= 1 /\ t # 1
      BY <1>2, <3>1, ReadsFacts, AtFileScopeIs
    <3> QED
      BY <3>1, <3>2
  <2>2. blocks[2] \in DOMAIN unit
    BY <2>1, ReadsFacts DEF Scoped
  <2>3. Append(unit, e)[blocks[2]] = unit[blocks[2]]
    BY <2>2, ReadsFacts, Appended DEF Typed
  <2> QED
    BY <1>2, <2>3 DEF Body
<1> QED
  BY <1>1, <1>2

LEMMA LastMeant ==
    ASSUME NEW S, NEW s \in Seq(S), NEW x, Append(s, x) \in Seq(S)
    PROVE  x \in S
<1>1. Len(s) \in Nat /\ Append(s, x)[Len(s) + 1] = x /\ Len(s) + 1 \in DOMAIN Append(s, x)
  OBVIOUS
<1> QED
  BY <1>1

LEMMA DeclaresRows ==
    ASSUME Reads, Reads', NamesApart, NEW d \in alphabet.items, Declares(d), NEW c, CDeclares(d, c),
           NEW x \in Denotation, NEW ss, means' = Meant(x, ss, d)
    PROVE  \E r, Q : IsDeclared(d, x, ss, r, Q)
<1> DEFINE e == EntryOf(unit, d)
           u1 == Append(unit, e)
           m1 == Append(means, x)
           r == [at |-> Len(unit) + 1, d |-> e, x |-> x]
<1>1. Declared(unit, d) = u1
  BY DeclaredIs
<1>2. e \in DeclarationEntry
  BY BeforeUnit DEF Before, Fits
<1>3. e \in Entry /\ Declares(e)
  BY <1>2, DeclaresEntry
<1>4. unit \in Seq(Entry) /\ means \in Seq(Denotation) /\ Len(means) = Len(unit)
  BY ReadsFacts DEF Typed
<1>5. /\ DeclaredRows(u1, m1) = Rows \cup {r} /\ UsedRows(u1, m1) = Usages
  BY <1>3, <1>4, RowsAdded DEF Rows, Usages
<1>6. r.at = Len(unit) + 1 /\ r.d = e /\ r.x = x
  OBVIOUS
<1>7. /\ u1 \in Seq(Entry) /\ m1 \in Seq(Denotation) /\ Len(m1) = Len(u1)
      /\ Len(unit) \in Nat /\ DOMAIN unit = 1 .. Len(unit)
      /\ DOMAIN u1 = 1 .. Len(unit) + 1 /\ Len(u1) = Len(unit) + 1
  BY <1>3, <1>4, UnitGrows
<1>8. \A q \in Rows : q.at \in DOMAIN unit
  BY RowIs DEF Rows
<1>9. r \notin Rows
  <2>1. Len(unit) + 1 \notin DOMAIN unit
    BY <1>7
  <2> QED
    BY <1>6, <1>8, <2>1
<1>10. Last(u1) = e /\ Body(u1) = Body(unit)
  BY <1>3, <1>4, LastOf, BodyKept
<1>11. Consistent(Rows, Usages, Len(objects), Len(functions))
  BY RowsConsistent
<1>12. Consistent(Rows', Usages', Len(objects'), Len(functions'))
  BY RowsConsistentNext
<1>13. Rows' = DeclaredRows(unit', means') /\ Usages' = UsedRows(unit', means')
  BY DEF Rows, Usages
<1> HIDE DEF e, u1, m1, r
<1>14. CASE ~NamesAnother(d)
  <2>1. unit' = u1 /\ means' = m1
    BY <1>1, <1>4, <1>14, MeantIs DEF CDeclares, m1
  <2>2. IsUsed({}, ss, d, IF Lasts(r.d) THEN r.d.entity ELSE Body(unit))
    BY <1>14 DEF IsUsed, Refers
  <2>3. Rows' = Rows \cup {r} /\ Usages' = Usages \cup {}
    BY <1>5, <1>13, <2>1
  <2>4. Consistent(Rows \cup {r}, Usages \cup {}, Len(objects'), Len(functions'))
    BY <1>12, <2>3
  <2>5. IsDeclared(d, x, ss, r, {})
    BY <1>6, <1>9, <1>11, <2>2, <2>3, <2>4 DEF IsDeclared, e
  <2> QED
    BY <2>5
<1>15. CASE NamesAnother(d)
  <2> DEFINE n == d.inits
             v == Visible(u1, n)
             l == Lookup(ss, n)
             f == [what |-> "address", name |-> n, entity |-> u1[v].entity, from |-> Owner(u1)]
             q == [at |-> Len(u1) + 1, d |-> f, x |-> l]
  <2>1. Usable(u1, n, "address") /\ unit' = Append(u1, f)
    BY <1>1, <1>15 DEF CDeclares, Used
  <2>2. means' = Append(m1, l)
    BY <1>4, <1>15 DEF Meant, m1
  <2>3. unit' \in Seq(Entry) /\ means' \in Seq(Denotation)
    BY DEF Reads, Read, Good, Typed
  <2>4. l \in Denotation
    BY <1>7, <2>2, <2>3, LastMeant
  <2>5. f \in Entry
    BY <1>7, <2>1, <2>3, LastMeant
  <2>6. f.what = "address" /\ f.name = n /\ f.entity = u1[v].entity /\ f.from = Owner(u1) /\ ~Declares(f)
    BY DEF Declares
  <2>7. q.at = Len(u1) + 1 /\ q.d = f /\ q.x = l
    OBVIOUS
  <2>8. f.from = IF Lasts(r.d) THEN r.d.entity ELSE Body(unit)
    BY <1>6, <1>10, <2>6 DEF Owner
  <2>9. f.entity[1] = f.name
    <3>1. v # 0
      BY <2>1 DEF Usable
    <3>2. Declares(u1[v]) /\ v \in DOMAIN u1 /\ u1[v].name = n
      BY <1>7, <3>1, VisibleIs DEF In, IsDeclaration
    <3>3. Row(u1, m1, v) \in Rows \cup {r} /\ Row(u1, m1, v).d = u1[v]
      BY <1>5, <3>2, RowIs
    <3>4. Row(u1, m1, v) \in Rows'
      <4>1. UsedRows(Append(u1, f), Append(m1, l)) = UsedRows(u1, m1) \cup {q}
            /\ DeclaredRows(Append(u1, f), Append(m1, l)) = DeclaredRows(u1, m1)
        BY <1>7, <2>4, <2>5, <2>6, RowsAdded
      <4> QED
        BY <1>5, <1>13, <2>1, <2>2, <3>3, <4>1
    <3>5. u1[v].entity = EntityAt(u1[v], Row(u1, m1, v).at)
      BY <1>12, <3>3, <3>4 DEF Consistent
    <3> QED
      BY <2>6, <3>2, <3>5 DEF EntityAt
  <2> HIDE DEF f, q, l, v
  <2>10. Usages' = Usages \cup {q} /\ Rows' = Rows \cup {r}
    <3>1. UsedRows(Append(u1, f), Append(m1, l)) = UsedRows(u1, m1) \cup {q}
          /\ DeclaredRows(Append(u1, f), Append(m1, l)) = DeclaredRows(u1, m1)
      BY <1>7, <2>4, <2>5, <2>6, RowsAdded DEF q
    <3> QED
      BY <1>5, <1>13, <2>1, <2>2, <3>1
  <2>11. IsUsed({q}, ss, d, IF Lasts(r.d) THEN r.d.entity ELSE Body(unit))
    <3>1. Refers(ss, d) = {<<l, "address">>}
      BY <1>15 DEF Refers, l
    <3> QED
      BY <2>6, <2>7, <2>8, <2>9, <3>1 DEF IsUsed
  <2>12. Consistent(Rows \cup {r}, Usages \cup {q}, Len(objects'), Len(functions'))
    BY <1>12, <2>10
  <2>13. IsDeclared(d, x, ss, r, {q})
    BY <1>6, <1>9, <1>11, <2>10, <2>11, <2>12 DEF IsDeclared, e
  <2> QED
    BY <2>13
<1> QED
  BY <1>14, <1>15

-----------------------------------------------------------------------------
(* The tables are those of what was read; a body's scope is its function's.*)
TablesAs(D, U, os, fs, ex, st, w) ==
    ObjectsAs(D, os) /\ FunctionsAs(D, fs, w) /\ StaticsAs(D, os, ex, st) /\ UsesAs(D, U, fs, st, w)
Hosts(D, b, w) ==
    /\ Len(b) = 1 => w = 0
    /\ Len(b) >= 2 => \E r \in D : r.at = b[2] /\ r.x = AFunction(w)
Tabled ==
    /\ TablesAs(Rows, Usages, objects, functions, externs, statics, within)
    /\ Hosts(Rows, blocks, within)

LEMMA InitTabled ==
    ASSUME Init
    PROVE  Tabled
<1>1. unit = <<>> /\ objects = <<>> /\ functions = <<>> /\ externs = {} /\ statics = <<>> /\ within = 0
      /\ blocks = <<0>>
  BY DEF Init
<1>2. Rows = {} /\ Usages = {}
  BY <1>1 DEF Rows, Usages, DeclaredRows, UsedRows
<1>3. <<>> \in Seq(StaticRow) /\ DOMAIN <<>> = {}
  OBVIOUS
<1>4. ObjectsAs({}, <<>>)
  BY <1>3 DEF ObjectsAs
<1>5. FunctionsAs({}, <<>>, 0)
  BY <1>3 DEF FunctionsAs
<1>6. StaticsAs({}, <<>>, {}, <<>>)
  BY <1>3 DEF StaticsAs, Static
<1>7. UsesAs({}, {}, <<>>, <<>>, 0)
  BY <1>3 DEF UsesAs
<1>8. Hosts({}, <<0>>, 0)
  <2>1. Len(<<0>>) = 1
    OBVIOUS
  <2> QED
    BY <2>1 DEF Hosts
<1> QED
  BY <1>1, <1>2, <1>4, <1>5, <1>6, <1>7, <1>8 DEF Tabled, TablesAs

(* The item of an object that is declared once more.                       *)
Filled(ss, id, d) ==
    IF d.inits = NoInit THEN Zeroed(id)
    ELSE [object |-> id, init |-> Len(unit) + 1, refers |-> Refers(ss, d)]

LEMMA FilledIs ==
    ASSUME NEW ss, NEW id \in Nat, NEW d, Refers(ss, d) \in Uses, Len(unit) \in Nat
    PROVE  Filled(ss, id, d) \in StaticRow /\ Zeroed(id) \in StaticRow
<1>1. {} \in Uses
  BY DEF Uses
<1> QED
  BY <1>1 DEF Filled, Zeroed, StaticRow

LEMMA InitialisedIs ==
    ASSUME NEW st \in Seq(StaticRow), NEW ss, NEW id \in Nat, NEW d, Refers(ss, d) \in Uses, Len(unit) \in Nat,
           NEW s2, s2 = Initialised(ss, st, id, d)
    PROVE  /\ s2 \in Seq(StaticRow) /\ DOMAIN s2 = DOMAIN st
           /\ \A k \in DOMAIN st :
                  s2[k] = IF st[k].object = id /\ d.inits # NoInit THEN Filled(ss, id, d) ELSE st[k]
<1>1. PICK n : n = Len(st)
  OBVIOUS
<1>2. n \in Nat /\ DOMAIN st = 1 .. n
  BY <1>1
<1>3. CASE d.inits = NoInit
  BY <1>3 DEF Initialised
<1>4. CASE d.inits # NoInit
  <2>1. s2 = [k \in 1 .. n |-> IF st[k].object = id THEN Filled(ss, id, d) ELSE st[k]]
    BY <1>2, <1>4 DEF Initialised, Filled
  <2>2. \A k \in 1 .. n : st[k] \in StaticRow
    BY <1>2
  <2>3. s2 \in [1 .. n -> StaticRow]
    BY <2>1, <2>2, FilledIs
  <2>4. s2 \in Seq(StaticRow)
    BY <1>2, <2>3, SequenceIs
  <2> QED
    BY <1>2, <1>4, <2>1, <2>4
<1> QED
  BY <1>3, <1>4

LEMMA FilledLonger ==
    ASSUME NEW st \in Seq(StaticRow), NEW ss, NEW id \in Nat, NEW d, Refers(ss, d) \in Uses, Len(unit) \in Nat,
           \A k \in DOMAIN st : st[k].object # id,
           NEW s2, s2 = Initialised(ss, Append(st, Zeroed(id)), id, d)
    PROVE  Longer(st, s2, Filled(ss, id, d))
<1>1. PICK n, l : n = Len(st) /\ l = Append(st, Zeroed(id))
  OBVIOUS
<1>2. Zeroed(id) \in StaticRow
  BY FilledIs
<1>3. /\ n \in Nat /\ l \in Seq(StaticRow) /\ DOMAIN st = 1 .. n /\ DOMAIN l = 1 .. n + 1
      /\ \A i \in 1 .. n : l[i] = st[i]
      /\ l[n + 1] = Zeroed(id)
  BY <1>1, <1>2, Appended
<1>0. s2 = Initialised(ss, l, id, d)
  BY <1>1
<1>4. /\ s2 \in Seq(StaticRow) /\ DOMAIN s2 = DOMAIN l
      /\ \A k \in DOMAIN l :
             s2[k] = IF l[k].object = id /\ d.inits # NoInit THEN Filled(ss, id, d) ELSE l[k]
  <2>1. l \in Seq(StaticRow)
    BY <1>3
  <2> QED
    BY ONLY <1>0, <2>1, InitialisedIs, Refers(ss, d) \in Uses, Len(unit) \in Nat, id \in Nat
<1>5. \A i \in 1 .. n : i \in 1 .. n + 1
  BY <1>3
<1>6. n + 1 \in 1 .. n + 1
  BY <1>3
<1>7. \A i \in 1 .. n : s2[i] = st[i]
  BY <1>3, <1>4, <1>5
<1>8. s2[n + 1] = Filled(ss, id, d)
  <2>1. s2[n + 1] = IF Zeroed(id).object = id /\ d.inits # NoInit THEN Filled(ss, id, d) ELSE Zeroed(id)
    BY <1>3, <1>4, <1>6
  <2>2. Zeroed(id).object = id
    BY DEF Zeroed
  <2> QED
    BY <2>1, <2>2 DEF Filled
<1> QED
  BY <1>3, <1>4, <1>7, <1>8 DEF Longer

(* What is known of the row of a declaration.                              *)
RowOf(d, r) ==
    /\ r.d.what = d.what /\ r.d.name = d.name /\ r.d.storage = d.storage
    /\ r.d.inline = d.inline /\ r.d.defines = d.defines
    /\ r.d.scope = FileScope <=> AtFileScope
    /\ r.d.link \in {"none", "internal", "external"}
    /\ r.d.link = "none" <=> \/ d.what \in {"constant", "typedef"}
                             \/ d.what = "object" /\ ~AtFileScope /\ d.storage # "extern"
    /\ d.storage = "static" /\ r.d.link # "none" => r.d.link = "internal"
    /\ d.what = "object" /\ d.storage = "none" /\ r.d.link # "none" => r.d.link = "external"
    /\ d.what = "object" /\ d.storage = "extern" => ~d.defines
    /\ d.what = "object" => d.defines = (d.inits # NoInit)
    /\ d.what = "function" \/ d.storage = "extern" \/ d.what = "typedef" => ~NamesAnother(d)
    /\ d.name \in Name /\ d.storage \in Storages /\ d.inline \in BOOLEAN /\ d.defines \in BOOLEAN

LEMMA RowOfIs ==
    ASSUME Reads, NamesApart, NEW d \in alphabet.items, Declares(d), NEW u, NEW m,
           Before(d, u, m, EntryOf(u, d), Len(blocks)), NEW r, r.d = EntryOf(u, d)
    PROVE  RowOf(d, r)
<1>1. /\ d.name \in Name /\ d.what \in {"object", "function", "constant", "typedef"}
      /\ d.storage \in Storages /\ d.inline \in BOOLEAN /\ d.defines \in BOOLEAN
      /\ d.what = "function" \/ d.storage = "extern" => d.inits = NoInit
      /\ d.what = "object" => d.defines = (d.inits # NoInit)
      /\ d.what = "typedef" => d.inits = Value
  BY ItemIs DEF Reads
<1>2. /\ r.d.what = d.what /\ r.d.name = d.name /\ r.d.storage = d.storage
      /\ r.d.inline = d.inline /\ r.d.defines = d.defines /\ r.d.link = Linkage(u, d)
  BY DEF EntryOf
<1>3. PICK t : t = Len(blocks)
  OBVIOUS
<1>4. /\ r.d.scope = FileScope <=> t = 1
      /\ AtFileScope <=> t = 1
      /\ r.d.scope[1] = t
      /\ r.d.link \in {"none", "internal", "external"}
      /\ r.d.link = "none" <=> Local(r.d)
  BY <1>3 DEF Before
<1>5. r.d.link = "none" <=> \/ d.what \in {"constant", "typedef"}
                            \/ d.what = "object" /\ ~AtFileScope /\ d.storage # "extern"
  BY <1>2, <1>4 DEF Local
<1>6. d.storage = "static" /\ r.d.link # "none" => r.d.link = "internal"
  BY <1>2 DEF Linkage
<1>7. d.what = "object" /\ d.storage = "none" /\ r.d.link # "none" => r.d.link = "external"
  BY <1>2 DEF Linkage
<1>8. d.what = "function" \/ d.storage = "extern" \/ d.what = "typedef" => ~NamesAnother(d)
  BY <1>1 DEF NamesAnother
<1>9. d.what = "object" /\ d.storage = "extern" => ~d.defines
  BY <1>1
<1> QED
  BY <1>1, <1>2, <1>4, <1>5, <1>6, <1>7, <1>8, <1>9 DEF RowOf

LEMMA RefersIs ==
    ASSUME NEW D, NEW U, NEW no, NEW nf, Consistent(D, U, no, nf), NEW Q, Q \subseteq U,
           NEW ss, NEW d, NEW from, IsUsed(Q, ss, d, from)
    PROVE  Refers(ss, d) \in Uses /\ (~NamesAnother(d) => Q = {})
<1>1. \A q \in Q : q.x \in Denotation /\ q.d.what \in Hows
  BY DEF Consistent, UseEntry
<1>2. Refers(ss, d) = {<<q.x, q.d.what>> : q \in Q}
  BY DEF IsUsed
<1>3. ~NamesAnother(d) => Refers(ss, d) = {}
  BY DEF Refers
<1>4. Refers(ss, d) \in Uses
  BY <1>1, <1>2 DEF Uses
<1> QED
  BY <1>2, <1>3, <1>4

(* What a name with linkage was taken for before.                          *)
LEMMA PriorRow ==
    ASSUME Reads, NEW e, Fits(unit, blocks, e), e.scope = FileScope \/ e.link # "none"
    PROVE  /\ scopes[1][e.name] = Nothing => Known(unit, e) = {}
           /\ scopes[1][e.name] # Nothing =>
                  /\ e.link # "none" /\ scopes[1][e.name][1] = e.what
                  /\ \E q \in Rows : q.x = scopes[1][e.name]
<1>1. /\ scopes[1][e.name] = Nothing => Known(unit, e) = {}
      /\ scopes[1][e.name] # Nothing =>
             /\ e.link # "none" /\ scopes[1][e.name][1] = e.what
             /\ \E i \in Known(unit, e) : scopes[1][e.name] = means[i]
  BY FileName, ReadsFacts
<1>2. \A i \in Known(unit, e) : \E q \in Rows : q.x = means[i]
  BY RowIs DEF Known, SameNamed, Rows
<1> QED
  BY <1>1, <1>2

(* The uses of the initialiser of an object that lasts.                    *)
ItemOf(st, s2, id, refs) ==
    /\ \A k \in DOMAIN st : st[k].refers # {} =>
           \E l \in DOMAIN s2 : s2[l].object = st[k].object /\ s2[l].refers = st[k].refers
    /\ \A k \in DOMAIN s2 : s2[k].refers # {} =>
           \/ \E l \in DOMAIN st : st[l].object = s2[k].object /\ s2[k].refers = st[l].refers
           \/ s2[k].object = id /\ s2[k].refers = refs
    /\ refs # {} => \E k \in DOMAIN s2 : s2[k].object = id /\ s2[k].refers = refs

LEMMA StaticUses ==
    ASSUME NEW D, NEW U, NEW fs, NEW st, NEW w, UsesAs(D, U, fs, st, w), NEW no, NEW nf,
           Consistent(D, U, no, nf), DOMAIN fs = 1 .. nf,
           NEW r, NEW Q, NEW ss, NEW d, IsUsed(Q, ss, d, r.d.entity),
           NEW id, r.x = AnObject(id), NEW s2, ItemOf(st, s2, id, Refers(ss, d))
    PROVE  UsesAs(D \cup {r}, U \cup Q, fs, s2, w)
<1> DEFINE D2 == D \cup {r}
           U2 == U \cup Q
<1>1. Refers(ss, d) = {<<q.x, q.d.what>> : q \in Q} /\ \A q \in Q : q.d.entity[1] = q.d.name /\ q.d.from = r.d.entity
  BY DEF IsUsed
<1>2. \A q \in Q : <<q.x, q.d.what>> \in Refers(ss, d)
  BY <1>1
<1>3. \A t \in Refers(ss, d) : \E q \in Q : t = <<q.x, q.d.what>>
  BY <1>1
<1>4. ASSUME NEW t \in Refers(ss, d) PROVE WrittenIn(D2, U2, t, AnObject(id))
  <2>1. PICK q \in Q : t = <<q.x, q.d.what>>
    BY <1>3
  <2>2. q \in U2 /\ r \in D2 /\ q.x = t[1] /\ q.d.what = t[2] /\ q.d.from = r.d.entity
    BY <1>1, <2>1
  <2> QED
    BY <2>2 DEF WrittenIn
<1>5. ASSUME NEW q \in Q PROVE UseAs(D2, fs, s2, q)
  <2>1. PICK k \in DOMAIN s2 : s2[k].object = id /\ s2[k].refers = Refers(ss, d)
    BY <1>2 DEF ItemOf
  <2>2. <<q.x, q.d.what>> \in s2[k].refers /\ r.x = AnObject(s2[k].object)
    BY <1>2, <2>1
  <2>3. UsedBy(fs, s2, q, r)
    BY <2>2 DEF UsedBy
  <2> QED
    BY <1>1, <2>3 DEF UseAs
<1>6. \A q \in U2 \ U : UseAs(D2, fs, s2, q)
  BY <1>5
<1>7. \A k \in DOMAIN st : \A t \in st[k].refers :
          \E l \in DOMAIN s2 : s2[l].object = st[k].object /\ t \in s2[l].refers
  <2> TAKE k \in DOMAIN st
  <2> TAKE t \in st[k].refers
  <2>1. PICK l \in DOMAIN s2 : s2[l].object = st[k].object /\ s2[l].refers = st[k].refers
    BY DEF ItemOf
  <2> QED
    BY <2>1
<1>8. \A k \in DOMAIN s2 : \A t \in s2[k].refers :
          \/ \E l \in DOMAIN st : st[l].object = s2[k].object /\ t \in st[l].refers
          \/ WrittenIn(D2, U2, t, AnObject(s2[k].object))
  <2> TAKE k \in DOMAIN s2
  <2> TAKE t \in s2[k].refers
  <2>1. CASE \E l \in DOMAIN st : st[l].object = s2[k].object /\ s2[k].refers = st[l].refers
    BY <2>1
  <2>2. CASE s2[k].object = id /\ s2[k].refers = Refers(ss, d)
    BY <1>4, <2>2
  <2> QED
    BY <2>1, <2>2 DEF ItemOf
<1>9. \A i \in DOMAIN fs : fs[i].uses # {} => fs[i].body \/ i = w
  BY DEF UsesAs
<1>10. D \subseteq D2 /\ U \subseteq U2
  OBVIOUS
<1> HIDE DEF D2, U2
<1>11. MoreUses(D, U, fs, st, D2, U2, fs, s2, w)
  BY <1>6, <1>7, <1>8, <1>9, <1>10 DEF MoreUses
<1>12. UsesAs(D2, U2, fs, s2, w)
  BY <1>11, UsesGrow
<1> QED
  BY <1>12 DEF D2, U2

LEMMA FilledInitialised ==
    ASSUME NEW D, NEW r, NEW U, NEW no, NEW nf, Consistent(D \cup {r}, U, no, nf),
           r.at = Len(unit) + 1, NEW id, r.x = AnObject(id), NEW d, RowOf(d, r), d.what = "object",
           NEW ss, d.inits = NoInit => \A q \in D : q.x = r.x => ~q.d.defines
    PROVE  InitialisedAs(D \cup {r}, Filled(ss, id, d))
<1>1. r.d.defines <=> d.inits # NoInit
  BY DEF RowOf
<1>2. CASE d.inits = NoInit
  <2>1. /\ Filled(ss, id, d).object = id /\ Filled(ss, id, d).init = 0 /\ Filled(ss, id, d).refers = {}
    BY <1>2 DEF Filled, Zeroed
  <2>2. \A q \in D \cup {r} : q.x = AnObject(id) => ~q.d.defines
    BY <1>1, <1>2
  <2> QED
    BY <2>1, <2>2 DEF InitialisedAs
<1>3. CASE d.inits # NoInit
  <2>1. PICK s : s = Filled(ss, id, d)
    OBVIOUS
  <2>2. s.object = id /\ s.init = r.at
    BY <1>3, <2>1 DEF Filled
  <2>3. InitialisedAs(D \cup {r}, s)
    BY <1>1, <1>3, <2>2, OneInitialiser
  <2> QED
    BY <2>1, <2>3
<1> QED
  BY <1>2, <1>3

LEMMA CompleteTentativeTabled ==
    ASSUME Reads, Reads', Tabled, NamesApart, NEW d \in alphabet.items,
           d.what = "object", d.storage # "extern", CDeclares(d, TRUE), AtFileScope,
           DeclaredHere(d.name)[1] = "object", CompleteTentative(d, DeclaredHere(d.name)[2]),
           UNCHANGED <<blocks, functions, templates, within>>
    PROVE  Tabled'
<1> DEFINE e == EntryOf(unit, d)
<1>1. PICK t, x, id : t = Len(blocks) /\ x = DeclaredHere(d.name) /\ id = x[2]
  OBVIOUS
<1>2. Before(d, unit, means, e, t)
  BY <1>1, BeforeUnit DEF Declares
<1> HIDE DEF e
<1>3. t = 1 /\ x = scopes[1][d.name] /\ x \in Denotation /\ x[1] = "object" /\ e.scope = FileScope /\ e.name = d.name
      /\ Fits(unit, blocks, e)
  BY <1>1, <1>2 DEF Before
<1>4. x = AnObject(id) /\ x # Nothing /\ id \in Nat
  BY <1>1, <1>3 DEF AnObject, Denotation, Nothing
<1>5. PICK q0 \in Rows : q0.x = x
  BY <1>3, <1>4, PriorRow
<1>6. PICK moves, list :
          /\ moves \in BOOLEAN /\ moves = DefinesHere(id, d.storage)
          /\ list = IF moves THEN Append(statics, Zeroed(id)) ELSE statics
          /\ objects' = IF moves THEN [objects EXCEPT ![id].storage = "exported"] ELSE objects
          /\ externs' = IF moves THEN externs \ {id} ELSE externs
          /\ statics' = IF d.defines /\ id \in initialized THEN list ELSE Initialised(scopes, list, id, d)
          /\ rejected' = ((d.defines /\ id \in initialized) \/ Unresolved(scopes, d))
          /\ means' = Meant(x, scopes, d)
  BY <1>1, <1>4 DEF CompleteTentative, DefinesHere
<1>7. statics' = Initialised(scopes, list, id, d)
  BY <1>6 DEF Reads
<1>8. PICK r, Q : IsDeclared(d, x, scopes, r, Q)
  BY <1>3, <1>6, DeclaresRows DEF Declares
<1>9. /\ r.x = x /\ r \notin Rows /\ r # q0 /\ r.at = Len(unit) + 1 /\ r.d = EntryOf(unit, d)
      /\ Rows' = Rows \cup {r} /\ Usages' = Usages \cup Q
      /\ Consistent(Rows, Usages, Len(objects), Len(functions))
      /\ Consistent(Rows \cup {r}, Usages \cup Q, Len(objects'), Len(functions'))
      /\ IsUsed(Q, scopes, d, IF Lasts(r.d) THEN r.d.entity ELSE Body(unit))
  BY <1>8 DEF IsDeclared
<1>10. RowOf(d, r)
  BY <1>1, <1>2, <1>9, RowOfIs DEF Declares, e
<1>11. Lasts(r.d) /\ r.d.link # "none"
  BY <1>10 DEF RowOf, Lasts
<1>12. Refers(scopes, d) \in Uses
  <2>1. Q \subseteq Usages \cup Q
    OBVIOUS
  <2> QED
    BY <1>9, <2>1, RefersIs
<1>13. /\ ObjectsAs(Rows, objects) /\ FunctionsAs(Rows, functions, within)
       /\ StaticsAs(Rows, objects, externs, statics)
       /\ UsesAs(Rows, Usages, functions, statics, within) /\ Hosts(Rows, blocks, within)
  BY DEF Tabled, TablesAs
<1>14. /\ objects \in Seq(ObjectRow) /\ DOMAIN objects = 1 .. Len(objects) /\ id \in DOMAIN objects
       /\ DOMAIN functions = 1 .. Len(functions) /\ Len(unit) \in Nat
       /\ statics \in Seq(StaticRow)
  <2>1. id \in 1 .. Len(objects)
    BY <1>1, <1>3, <1>5, <1>9 DEF Consistent
  <2> QED
    BY <1>13, <2>1, ReadsFacts DEF StaticsAs
<1>15. ObjectAs(Rows, q0, objects[id]) /\ q0.d.link = r.d.link /\ (q0.d.defines => ~d.defines)
  <2>1. q0.d.what = "object" /\ q0.x[2] = id
    BY <1>1, <1>3, <1>5, <1>9 DEF Consistent
  <2>2. q0 \in Rows \cup {r} /\ r \in Rows \cup {r} /\ q0 # r /\ q0.x = r.x
    BY <1>5, <1>9
  <2>3. q0.d.link = r.d.link /\ ~(q0.d.defines /\ r.d.defines)
    BY <1>9, <2>2 DEF Consistent
  <2> QED
    BY <1>10, <1>13, <2>1, <2>3 DEF ObjectsAs, RowOf
<1>16. moves <=> objects[id].storage = "extern"
  BY <1>6, <1>10, <1>11, <1>15 DEF RowOf, ObjectAs, DefinesHere
<1>17. /\ DOMAIN objects' = DOMAIN objects /\ \A i \in DOMAIN objects : i # id => objects'[i] = objects[i]
       /\ objects'[id].name = objects[id].name
       /\ objects'[id].storage = IF moves THEN "exported" ELSE objects[id].storage
  BY <1>6, <1>14
<1>18. ObjectsAs(Rows \cup {r}, objects')
  <2>1. objects'[id].storage = Moved(objects[id].storage, r.d)
    BY <1>10, <1>16, <1>17 DEF RowOf, Moved
  <2>2. DOMAIN objects = 1 .. Len(objects')
    BY <1>14, <1>17, ReadsFacts DEF Reads, Read
  <2>3. r.d.storage = "extern" => ~r.d.defines
    BY <1>10 DEF RowOf
  <2>4. ObjectAgain(objects, objects', id, r.d)
    BY <1>17, <2>1, <2>3 DEF ObjectAgain
  <2>5. Again(Rows, r)
    BY <1>5, <1>9 DEF Again
  <2>6. Consistent(Rows \cup {r}, Usages \cup Q, Len(objects'), Len(functions')) /\ r.x = AnObject(id)
        /\ ObjectsAs(Rows, objects)
    BY <1>4, <1>9, <1>13
  <2> QED
    BY <2>2, <2>4, <2>5, <2>6, ObjectIsKnown
<1>19. d.inits = NoInit /\ moves => \A q \in Rows : q.x = r.x => ~q.d.defines
  <2>1. ASSUME moves, NEW q \in Rows, q.x = r.x PROVE ~q.d.defines
    <3>1. q.d.what = "object" /\ q.x[2] = id
      BY <1>1, <1>3, <1>9, <2>1 DEF Consistent
    <3>2. ObjectAs(Rows, q, objects[id])
      BY <1>13, <3>1 DEF ObjectsAs
    <3>3. q.d.link = r.d.link
      BY <1>9, <2>1 DEF Consistent
    <3>4. q.d.link = "external" /\ DeclaredElsewhere(Rows, q.x)
      BY <1>10, <1>11, <1>16, <2>1, <3>2, <3>3 DEF ObjectAs, RowOf
    <3>5. q.d.storage = "extern"
      BY <3>4 DEF DeclaredElsewhere
    <3> QED
      BY <3>2, <3>5 DEF ObjectAs
  <2> QED
    BY <2>1
<1>20. /\ \A i : Static(objects', i) <=> Static(objects, i) \/ (moves /\ i = id)
       /\ \A i : i \in externs' <=> i \in DOMAIN objects' /\ objects'[i].storage = "extern"
       /\ moves => \A k \in DOMAIN statics : statics[k].object # id
       /\ moves => ~Static(objects, id)
  <2>1. \A i : i \in externs <=> i \in DOMAIN objects /\ objects[i].storage = "extern"
    BY <1>13 DEF StaticsAs
  <2>2. moves => ~Static(objects, id)
    BY <1>16 DEF Static
  <2>3. \A k \in DOMAIN statics : Static(objects, statics[k].object)
    BY <1>13 DEF StaticsAs
  <2>4. \A i : Static(objects', i) <=> Static(objects, i) \/ (moves /\ i = id)
    BY <1>14, <1>16, <1>17 DEF Static
  <2>5. \A i : i \in externs' <=> i \in DOMAIN objects' /\ objects'[i].storage = "extern"
    BY <1>6, <1>14, <1>16, <1>17, <2>1
  <2> QED
    BY <2>2, <2>3, <2>4, <2>5
<1>22. /\ ~moves => statics' \in Seq(StaticRow) /\ DOMAIN statics' = DOMAIN statics
                    /\ \A k \in DOMAIN statics :
                           statics'[k] = IF statics[k].object = id /\ d.inits # NoInit THEN Filled(scopes, id, d)
                                         ELSE statics[k]
       /\ moves => Longer(statics, statics', Filled(scopes, id, d))
  <2>1. ASSUME ~moves
        PROVE  /\ statics' \in Seq(StaticRow) /\ DOMAIN statics' = DOMAIN statics
               /\ \A k \in DOMAIN statics :
                      statics'[k] = IF statics[k].object = id /\ d.inits # NoInit THEN Filled(scopes, id, d)
                                    ELSE statics[k]
    <3>1. statics' = Initialised(scopes, statics, id, d)
      BY <1>6, <1>7, <2>1
    <3> QED
      BY <1>4, <1>12, <1>14, <3>1, InitialisedIs
  <2>2. ASSUME moves PROVE Longer(statics, statics', Filled(scopes, id, d))
    <3>1. statics' = Initialised(scopes, Append(statics, Zeroed(id)), id, d)
      BY <1>6, <1>7, <2>2
    <3> QED
      BY <1>4, <1>12, <1>14, <1>20, <2>2, <3>1, FilledLonger
  <2> QED
    BY <2>1, <2>2
<1>23. Filled(scopes, id, d) \in StaticRow /\ Filled(scopes, id, d).object = id
  <2>1. Filled(scopes, id, d).object = id
    BY DEF Filled, Zeroed
  <2> QED
    BY <1>4, <1>12, <1>14, <2>1, FilledIs
<1>24. d.inits # NoInit \/ moves => InitialisedAs(Rows \cup {r}, Filled(scopes, id, d))
  BY <1>4, <1>9, <1>10, <1>19, FilledInitialised
<1>25. StaticsAs(Rows \cup {r}, objects', externs', statics')
  <2>1. CASE moves
    <3>1. \A k \in DOMAIN statics : r.x # AnObject(statics[k].object)
      BY <1>4, <1>9, <1>20, <2>1 DEF AnObject
    <3> QED
      BY <1>13, <1>20, <1>22, <1>23, <1>24, <2>1, <3>1, StaticIsNew
  <2>2. CASE ~moves /\ d.inits # NoInit
    <3>1. /\ objects' = objects /\ externs' = externs
          /\ \A k \in DOMAIN statics : statics'[k].object = statics[k].object
          /\ \A k \in DOMAIN statics : statics[k].object # id => statics'[k] = statics[k]
          /\ \A k \in DOMAIN statics : statics[k].object = id => InitialisedAs(Rows \cup {r}, statics'[k])
      BY <1>6, <1>22, <1>23, <1>24, <2>2
    <3>2. StaticsAs(Rows \cup {r}, objects, externs, statics')
      <4>1. /\ StaticsAs(Rows, objects, externs, statics) /\ r.x = AnObject(id)
            /\ statics' \in Seq(StaticRow) /\ DOMAIN statics' = DOMAIN statics
        BY <1>4, <1>9, <1>13, <1>22, <2>2
      <4> QED
        BY ONLY <3>1, <4>1, StaticIsInitialised
    <3> QED
      BY <3>1, <3>2
  <2>3. CASE ~moves /\ d.inits = NoInit
    <3>1. statics' = statics /\ ~r.d.defines
      BY <1>6, <1>7, <1>10, <2>3 DEF Initialised, RowOf
    <3> QED
      BY <1>13, <1>20, <2>3, <3>1, StaticsStay
  <2> QED
    BY <2>1, <2>2, <2>3
<1>26. FunctionsAs(Rows \cup {r}, functions, within)
  <2>1. r.d.what # "function"
    BY <1>10 DEF RowOf
  <2> QED
    BY <1>9, <1>13, <2>1, FunctionsElse
<1>27. \A k \in DOMAIN statics : statics[k].object = id /\ d.inits # NoInit => statics[k].refers = {}
  <2>1. ASSUME NEW k \in DOMAIN statics, statics[k].object = id, d.inits # NoInit, statics[k].refers # {}
        PROVE  FALSE
    <3>1. InitialisedAs(Rows, statics[k])
      BY <1>13 DEF StaticsAs
    <3>2. PICK q \in Rows : q.x = AnObject(id) /\ q.d.defines
      BY <2>1, <3>1 DEF InitialisedAs
    <3>3. q \in Rows \cup {r} /\ r \in Rows \cup {r} /\ q # r /\ q.x = r.x
      BY <1>4, <1>9, <3>2
    <3>4. ~(q.d.defines /\ r.d.defines)
      BY <1>9, <3>3 DEF Consistent
    <3> QED
      BY <1>10, <2>1, <3>2, <3>4 DEF RowOf
  <2> QED
    BY <2>1
<1>28. ItemOf(statics, statics', id, Refers(scopes, d))
  <2>1. /\ d.inits # NoInit => Filled(scopes, id, d).refers = Refers(scopes, d)
        /\ d.inits = NoInit => Filled(scopes, id, d).refers = {} /\ Refers(scopes, d) = {}
    BY DEF Filled, Zeroed, Refers, NamesAnother
  <2>2. CASE moves
    <3>1. PICK n \in Nat :
              /\ DOMAIN statics = 1 .. n /\ DOMAIN statics' = 1 .. n + 1
              /\ \A i \in 1 .. n : statics'[i] = statics[i]
              /\ statics'[n + 1] = Filled(scopes, id, d)
      BY <1>22, <2>2 DEF Longer
    <3>2. /\ \A i \in 1 .. n : i \in 1 .. n + 1
          /\ \A i \in 1 .. n + 1 : i \in 1 .. n \/ i = n + 1
          /\ n + 1 \in 1 .. n + 1
      OBVIOUS
    <3> QED
      BY <1>23, <2>1, <3>1, <3>2 DEF ItemOf
  <2>3. CASE ~moves
    <3>1. Static(objects, id)
      BY <1>10, <1>11, <1>14, <1>15, <1>16, <2>3 DEF Static, ObjectAs, RowOf
    <3>2. \E k \in DOMAIN statics : statics[k].object = id
      BY <1>13, <3>1 DEF StaticsAs
    <3> QED
      BY <1>22, <1>23, <1>27, <2>1, <2>3, <3>2 DEF ItemOf
  <2> QED
    BY <2>2, <2>3
<1>29. UsesAs(Rows \cup {r}, Usages \cup Q, functions, statics', within)
  <2>1. IsUsed(Q, scopes, d, r.d.entity) /\ r.x = AnObject(id)
    BY <1>4, <1>9, <1>11
  <2> QED
    BY <1>9, <1>13, <1>14, <1>28, <2>1, StaticUses
<1> QED
  BY <1>9, <1>13, <1>18, <1>25, <1>26, <1>29 DEF Tabled, TablesAs, Hosts

(* A new object, stored in s.                                              *)
NewAs(r, s) ==
    /\ r.d.storage = "extern" => ~r.d.defines
    /\ r.d.link = "none" => s = (IF r.d.storage = "static" THEN "static" ELSE "automatic")
    /\ r.d.link = "internal" => s = "static"
    /\ r.d.link = "external" => s = (IF r.d.storage = "extern" THEN "extern" ELSE "exported")
NewTable(s, r) ==
    /\ ObjectsAs(Rows \cup {r}, objects')
    /\ \A i : Static(objects', i) <=> Static(objects, i) \/ (s # "automatic" /\ s # "extern" /\ i = NewId)
    /\ \A i : i \in DOMAIN objects' /\ objects'[i].storage = "extern" <=>
                  i \in externs \/ (s = "extern" /\ i = NewId)
    /\ \A k \in DOMAIN statics : statics[k].object # NewId
    /\ ~Static(objects, NewId) /\ NewId \in Nat
    /\ \A q \in Rows : q.x # r.x

LEMMA NewObjectTabled ==
    ASSUME Reads, Reads', Tabled, NEW d, d.name \in Name, NEW ss, NEW r, NEW Q,
           IsDeclared(d, AnObject(NewId), ss, r, Q), RowOf(d, r),
           NEW s \in {"automatic", "static", "extern", "exported"}, objects' = NewObject(d.name, s), NewAs(r, s)
    PROVE  NewTable(s, r)
<1>1. /\ ObjectsAs(Rows, objects) /\ StaticsAs(Rows, objects, externs, statics)
  BY DEF Tabled, TablesAs
<1>2. PICK o, n : o = [name |-> d.name, storage |-> s] /\ n = Len(objects)
  OBVIOUS
<1>3. objects' = Append(objects, o) /\ o \in ObjectRow /\ objects \in Seq(ObjectRow) /\ n \in Nat /\ NewId = n + 1
  BY <1>2, ReadsFacts DEF NewObject, ObjectRow, NewId
<1>4. /\ r.x = AnObject(NewId)
      /\ Consistent(Rows, Usages, Len(objects), Len(functions))
      /\ Consistent(Rows \cup {r}, Usages \cup Q, Len(objects'), Len(functions'))
  BY DEF IsDeclared
<1>5. ObjectAs({r}, r, o)
  <2>1. DeclaredElsewhere({r}, r.x) <=> r.d.storage = "extern"
    BY DEF DeclaredElsewhere
  <2>2. o.name = r.d.name /\ o.storage = s
    BY <1>2 DEF RowOf
  <2> QED
    BY <2>1, <2>2 DEF ObjectAs, NewAs
<1>6. ObjectsAs(Rows \cup {r}, objects')
  BY <1>1, <1>2, <1>3, <1>4, <1>5, ObjectIsNew DEF NewId
<1>7. /\ DOMAIN objects = 1 .. n /\ DOMAIN objects' = 1 .. n + 1
      /\ \A i \in 1 .. n : objects'[i] = objects[i]
      /\ objects'[n + 1] = o
  BY <1>2, <1>3, Appended
<1>8. /\ \A i : i \in 1 .. n + 1 <=> i \in 1 .. n \/ i = n + 1
      /\ n + 1 \notin 1 .. n
  BY <1>3
<1>9. o.storage = s
  BY <1>2
<1>10. \A i : Static(objects', i) <=> Static(objects, i) \/ (s # "automatic" /\ s # "extern" /\ i = NewId)
  BY <1>3, <1>7, <1>8, <1>9 DEF Static
<1>11. \A i : i \in DOMAIN objects' /\ objects'[i].storage = "extern" <=>
                  i \in externs \/ (s = "extern" /\ i = NewId)
  <2>1. \A i : i \in externs <=> i \in DOMAIN objects /\ objects[i].storage = "extern"
    BY <1>1 DEF StaticsAs
  <2> QED
    BY <1>3, <1>7, <1>8, <1>9, <2>1
<1>12. \A k \in DOMAIN statics : statics[k].object # NewId
  <2>1. \A k \in DOMAIN statics : statics[k].object \in 1 .. n
    BY <1>1, <1>7 DEF StaticsAs, Static
  <2> QED
    BY <1>3, <1>8, <2>1
<1>13. ~Static(objects, NewId)
  BY <1>3, <1>7, <1>8 DEF Static
<1>14. ASSUME NEW q \in Rows, q.x = r.x PROVE FALSE
  <2>1. q.x[1] = "object" /\ q.x[2] = NewId
    BY <1>4, <1>14 DEF AnObject
  <2>2. q.x[2] \in 1 .. n
    BY <1>2, <1>4, <2>1 DEF Consistent
  <2> QED
    BY <1>3, <1>8, <2>1, <2>2
<1> QED
  BY <1>3, <1>6, <1>10, <1>11, <1>12, <1>13, <1>14 DEF NewTable

LEMMA NewStaticTabled ==
    ASSUME Reads, Reads', Tabled, NamesApart, NEW d \in alphabet.items,
           d.what = "object", d.storage # "extern", AtFileScope \/ d.storage = "static", CDeclares(d, TRUE),
           NewStatic(d), UNCHANGED <<blocks, functions, templates, within>>
    PROVE  Tabled'
<1> DEFINE e == EntryOf(unit, d)
<1>0. PICK id, x, ss, s :
          /\ id = NewId /\ x = AnObject(id) /\ ss = Insert(d.name, x)
          /\ s = IF AtFileScope /\ d.storage # "static" THEN "exported" ELSE "static"
  OBVIOUS
<1>1. /\ id = NewId /\ x = AnObject(id) /\ ss = Insert(d.name, x)
      /\ s = IF AtFileScope /\ d.storage # "static" THEN "exported" ELSE "static"
      /\ objects' = NewObject(d.name, s)
      /\ statics' = Initialised(ss, Append(statics, Zeroed(id)), id, d)
      /\ means' = Meant(x, ss, d) /\ externs' = externs
  BY <1>0 DEF NewStatic
<1>2. Before(d, unit, means, e, Len(blocks))
  BY BeforeUnit DEF Declares
<1> HIDE DEF e
<1>3. x \in Denotation
  BY <1>1, ReadsFacts DEF AnObject, Denotation, NewId
<1>4. PICK r, Q : IsDeclared(d, x, ss, r, Q)
  BY <1>1, <1>3, DeclaresRows DEF Declares
<1>5. /\ r.x = x /\ r.at = Len(unit) + 1 /\ r.d = EntryOf(unit, d)
      /\ Rows' = Rows \cup {r} /\ Usages' = Usages \cup Q
      /\ Consistent(Rows, Usages, Len(objects), Len(functions))
      /\ Consistent(Rows \cup {r}, Usages \cup Q, Len(objects'), Len(functions'))
      /\ IsUsed(Q, ss, d, IF Lasts(r.d) THEN r.d.entity ELSE Body(unit))
  BY <1>4 DEF IsDeclared
<1>6. RowOf(d, r)
  BY <1>2, <1>5, RowOfIs DEF Declares, e
<1>7. /\ ObjectsAs(Rows, objects) /\ FunctionsAs(Rows, functions, within)
      /\ StaticsAs(Rows, objects, externs, statics)
      /\ UsesAs(Rows, Usages, functions, statics, within) /\ Hosts(Rows, blocks, within)
  BY DEF Tabled, TablesAs
<1>8. /\ DOMAIN functions = 1 .. Len(functions) /\ Len(unit) \in Nat
      /\ statics \in Seq(StaticRow)
  BY <1>7, ReadsFacts DEF StaticsAs
<1>9. NewAs(r, s) /\ Lasts(r.d)
  <2>1. d.storage \in {"none", "static"}
    BY <1>6 DEF RowOf, Storages
  <2> QED
    BY <1>1, <1>6, <2>1 DEF RowOf, NewAs, Lasts
<1>10. NewTable(s, r)
  <2>1. s \in {"automatic", "static", "extern", "exported"} /\ d.name \in Name
    BY <1>1, <1>6 DEF RowOf
  <2> QED
    BY <1>1, <1>4, <1>6, <1>9, <2>1, NewObjectTabled
<1>11. /\ ObjectsAs(Rows \cup {r}, objects') /\ id \in Nat
       /\ \A i : Static(objects', i) <=> Static(objects, i) \/ i = id
       /\ \A i : i \in externs' <=> i \in DOMAIN objects' /\ objects'[i].storage = "extern"
       /\ \A k \in DOMAIN statics : statics[k].object # id
       /\ ~Static(objects, id)
       /\ \A q \in Rows : q.x # r.x
  <2>1. s # "automatic" /\ s # "extern"
    BY <1>1
  <2> QED
    BY <1>1, <1>10, <2>1 DEF NewTable
<1>12. Refers(ss, d) \in Uses
  <2>1. Q \subseteq Usages \cup Q
    OBVIOUS
  <2> QED
    BY <1>5, <2>1, RefersIs
<1>13. Longer(statics, statics', Filled(ss, id, d))
  BY <1>1, <1>8, <1>11, <1>12, FilledLonger
<1>14. Filled(ss, id, d) \in StaticRow /\ Filled(ss, id, d).object = id
  <2>1. Filled(ss, id, d).object = id
    BY DEF Filled, Zeroed
  <2> QED
    BY <1>8, <1>11, <1>12, <2>1, FilledIs
<1>15. InitialisedAs(Rows \cup {r}, Filled(ss, id, d))
  BY <1>1, <1>5, <1>6, <1>11, FilledInitialised
<1>16. StaticsAs(Rows \cup {r}, objects', externs', statics')
  <2>1. \A k \in DOMAIN statics : r.x # AnObject(statics[k].object)
    BY <1>1, <1>5, <1>11 DEF AnObject
  <2> QED
    BY <1>7, <1>11, <1>13, <1>14, <1>15, <2>1, StaticIsNew
<1>17. FunctionsAs(Rows \cup {r}, functions, within)
  <2>1. r.d.what # "function"
    BY <1>6 DEF RowOf
  <2> QED
    BY <1>5, <1>7, <2>1, FunctionsElse
<1>18. ItemOf(statics, statics', id, Refers(ss, d))
  <2>1. /\ d.inits # NoInit => Filled(ss, id, d).refers = Refers(ss, d)
        /\ d.inits = NoInit => Filled(ss, id, d).refers = {} /\ Refers(ss, d) = {}
    BY DEF Filled, Zeroed, Refers, NamesAnother
  <2>2. PICK n \in Nat :
            /\ DOMAIN statics = 1 .. n /\ DOMAIN statics' = 1 .. n + 1
            /\ \A i \in 1 .. n : statics'[i] = statics[i]
            /\ statics'[n + 1] = Filled(ss, id, d)
    BY <1>13 DEF Longer
  <2>3. /\ \A i \in 1 .. n : i \in 1 .. n + 1
        /\ \A i \in 1 .. n + 1 : i \in 1 .. n \/ i = n + 1
        /\ n + 1 \in 1 .. n + 1
    OBVIOUS
  <2> QED
    BY <1>14, <2>1, <2>2, <2>3 DEF ItemOf
<1>19. UsesAs(Rows \cup {r}, Usages \cup Q, functions, statics', within)
  <2>1. IsUsed(Q, ss, d, r.d.entity) /\ r.x = AnObject(id)
    BY <1>1, <1>5, <1>9
  <2> QED
    BY <1>5, <1>7, <1>8, <1>18, <2>1, StaticUses
<1> QED
  BY <1>5, <1>7, <1>11, <1>16, <1>17, <1>19 DEF Tabled, TablesAs, Hosts

LEMMA DeclareStaticTabled ==
    ASSUME Reads, Reads', Tabled, NamesApart, NEW d \in alphabet.items, DeclareStatic(d)
    PROVE  Tabled'
BY CompleteTentativeTabled, NewStaticTabled DEF DeclareStatic

(* The uses in a body.                                                     *)
UsedMore(fs, f2, w, refs) ==
    /\ DOMAIN f2 = DOMAIN fs
    /\ \A i \in DOMAIN fs : SameFlags(f2[i], fs[i]) /\ f2[i].body = fs[i].body
    /\ \A i \in DOMAIN fs : i # w => f2[i].uses = fs[i].uses
    /\ f2[w].uses = fs[w].uses \cup refs

LEMMA UsedMoreIs ==
    ASSUME functions \in Seq(FunctionRow), within \in DOMAIN functions, NEW refs,
           functions' = [functions EXCEPT ![within].uses = @ \cup refs]
    PROVE  UsedMore(functions, functions', within, refs)
<1>1. \A f \in FunctionRow : SameFlags([f EXCEPT !.uses = @ \cup refs], f)
                             /\ [f EXCEPT !.uses = @ \cup refs].body = f.body
                             /\ [f EXCEPT !.uses = @ \cup refs].uses = f.uses \cup refs
  BY DEF FunctionRow, SameFlags
<1>2. \A i \in DOMAIN functions : functions[i] \in FunctionRow
  OBVIOUS
<1>3. /\ DOMAIN functions' = DOMAIN functions
      /\ \A i \in DOMAIN functions : i # within => functions'[i] = functions[i]
      /\ functions'[within] = [functions[within] EXCEPT !.uses = @ \cup refs]
  OBVIOUS
<1>4. ASSUME NEW i \in DOMAIN functions
      PROVE  SameFlags(functions'[i], functions[i]) /\ functions'[i].body = functions[i].body
  <2>1. CASE i = within
    BY <1>1, <1>2, <1>3, <2>1
  <2>2. CASE i # within
    BY <1>3, <2>2 DEF SameFlags
  <2> QED
    BY <2>1, <2>2
<1> QED
  BY <1>1, <1>2, <1>3, <1>4 DEF UsedMore

LEMMA BodyRow ==
    ASSUME Reads, Tabled, ~AtFileScope
    PROVE  within \in DOMAIN functions /\ \E h \in Rows : h.x = AFunction(within) /\ h.d.entity = Body(unit)
<1>1. PICK t : t = Len(blocks)
  OBVIOUS
<1>2. t \in Nat /\ t >= 1 /\ t # 1
  BY <1>1, ReadsFacts, AtFileScopeIs
<1>3. t >= 2
  BY <1>2
<1>4. within \in DOMAIN functions
  BY <1>1, <1>3, ReadsFacts
<1>5. PICK h \in Rows : h.at = blocks[2] /\ h.x = AFunction(within)
  BY <1>1, <1>3 DEF Tabled, Hosts
<1>6. h.d = unit[h.at]
  BY RowIs DEF Rows
<1> QED
  BY <1>4, <1>5, <1>6 DEF Body

LEMMA BodyUses ==
    ASSUME NEW D, NEW U, NEW fs, NEW st, NEW w \in DOMAIN fs, UsesAs(D, U, fs, st, w), NEW no, NEW nf,
           Consistent(D, U, no, nf), DOMAIN fs = 1 .. nf, NEW D2, D \subseteq D2,
           NEW h \in D, h.x = AFunction(w), NEW Q,
           \A q \in Q : q.d.entity[1] = q.d.name /\ q.d.from = h.d.entity,
           NEW f2, UsedMore(fs, f2, w, {<<q.x, q.d.what>> : q \in Q})
    PROVE  UsesAs(D2, U \cup Q, f2, st, w)
<1> DEFINE U2 == U \cup Q
           refs == {<<q.x, q.d.what>> : q \in Q}
<1>1. /\ DOMAIN f2 = DOMAIN fs
      /\ \A i \in DOMAIN fs : f2[i].body = fs[i].body
      /\ \A i \in DOMAIN fs : i # w => f2[i].uses = fs[i].uses
      /\ f2[w].uses = fs[w].uses \cup refs
  BY DEF UsedMore
<1>2. h.d.what = "function" /\ h.x[2] = w
  BY DEF Consistent, AFunction
<1>3. ASSUME NEW t \in refs PROVE WrittenIn(D2, U2, t, AFunction(w))
  <2>1. PICK q \in Q : t = <<q.x, q.d.what>>
    BY <1>3
  <2>2. q \in U2 /\ h \in D2 /\ q.x = t[1] /\ q.d.what = t[2] /\ q.d.from = h.d.entity
    BY <2>1
  <2> QED
    BY <2>2 DEF WrittenIn
<1>4. ASSUME NEW q \in Q PROVE UseAs(D2, f2, st, q)
  <2>1. <<q.x, q.d.what>> \in f2[w].uses
    BY <1>1
  <2>2. UsedBy(f2, st, q, h)
    BY <1>2, <2>1 DEF UsedBy
  <2>3. h \in D2
    OBVIOUS
  <2> QED
    BY <2>2, <2>3 DEF UseAs
<1>5. \A q \in U2 \ U : UseAs(D2, f2, st, q)
  BY <1>4
<1>6. \A i \in DOMAIN f2 : \A t \in f2[i].uses :
          (i \in DOMAIN fs /\ t \in fs[i].uses) \/ WrittenIn(D2, U2, t, AFunction(i))
  <2> TAKE i \in DOMAIN f2
  <2>1. CASE i = w
    BY <1>1, <1>3, <2>1
  <2>2. CASE i # w
    BY <1>1, <2>2
  <2> QED
    BY <2>1, <2>2
<1>7. \A i \in DOMAIN f2 : f2[i].uses # {} => f2[i].body \/ i = w
  BY <1>1 DEF UsesAs
<1>8. \A i \in DOMAIN fs : fs[i].uses \subseteq f2[i].uses
  BY <1>1
<1>9. U \subseteq U2 /\ DOMAIN fs \subseteq DOMAIN f2
  BY <1>1
<1> HIDE DEF U2, refs
<1>10. MoreUses(D, U, fs, st, D2, U2, f2, st, w)
  BY <1>5, <1>6, <1>7, <1>8, <1>9 DEF MoreUses
<1>11. UsesAs(D2, U2, f2, st, w)
  BY <1>10, UsesGrow
<1> QED
  BY <1>11 DEF U2

LEMMA DeclareAutomaticTabled ==
    ASSUME Reads, Reads', Tabled, NamesApart, NEW d \in alphabet.items, DeclareAutomatic(d)
    PROVE  Tabled'
<1> DEFINE e == EntryOf(unit, d)
<1>0. PICK id, x, ss : id = NewId /\ x = AnObject(id) /\ ss = Insert(d.name, x)
  OBVIOUS
<1>1. /\ d.what = "object" /\ d.storage = "none" /\ ~AtFileScope
      /\ CDeclares(d, FALSE)
      /\ objects' = NewObject(d.name, "automatic")
      /\ functions' = [functions EXCEPT ![within].uses = @ \cup Refers(ss, d)]
      /\ means' = Meant(x, ss, d)
      /\ UNCHANGED blocks /\ UNCHANGED externs /\ UNCHANGED statics /\ UNCHANGED within
  BY <1>0 DEF DeclareAutomatic
<1>2. Before(d, unit, means, e, Len(blocks))
  BY <1>1, BeforeUnit DEF Declares
<1> HIDE DEF e
<1>3. x \in Denotation
  BY <1>0, ReadsFacts DEF AnObject, Denotation, NewId
<1>4. PICK r, Q : IsDeclared(d, x, ss, r, Q)
  BY <1>1, <1>3, DeclaresRows DEF Declares
<1>5. /\ r.x = x /\ r.at = Len(unit) + 1 /\ r.d = EntryOf(unit, d)
      /\ Rows' = Rows \cup {r} /\ Usages' = Usages \cup Q
      /\ Consistent(Rows, Usages, Len(objects), Len(functions))
      /\ Consistent(Rows \cup {r}, Usages \cup Q, Len(objects'), Len(functions'))
      /\ IsUsed(Q, ss, d, IF Lasts(r.d) THEN r.d.entity ELSE Body(unit))
  BY <1>4 DEF IsDeclared
<1>6. RowOf(d, r)
  BY <1>1, <1>2, <1>5, RowOfIs DEF Declares, e
<1>7. /\ ObjectsAs(Rows, objects) /\ FunctionsAs(Rows, functions, within)
      /\ StaticsAs(Rows, objects, externs, statics)
      /\ UsesAs(Rows, Usages, functions, statics, within) /\ Hosts(Rows, blocks, within)
  BY DEF Tabled, TablesAs
<1>8. DOMAIN functions = 1 .. Len(functions) /\ functions \in Seq(FunctionRow)
  BY ReadsFacts
<1>9. NewAs(r, "automatic") /\ ~Lasts(r.d)
  BY <1>1, <1>6 DEF RowOf, NewAs, Lasts
<1>10. NewTable("automatic", r)
  BY <1>0, <1>1, <1>4, <1>6, <1>9, NewObjectTabled DEF RowOf
<1>11. /\ ObjectsAs(Rows \cup {r}, objects')
       /\ \A i : Static(objects', i) <=> Static(objects, i)
       /\ \A i : i \in externs <=> i \in DOMAIN objects' /\ objects'[i].storage = "extern"
       /\ \A k \in DOMAIN statics : statics[k].object # id
  BY <1>0, <1>10 DEF NewTable
<1>12. StaticsAs(Rows \cup {r}, objects', externs, statics)
  <2>1. \A k \in DOMAIN statics : r.x # AnObject(statics[k].object)
    BY <1>0, <1>5, <1>11 DEF AnObject
  <2> QED
    BY <1>7, <1>11, <2>1, StaticsStay
<1>13. /\ within \in DOMAIN functions
       /\ \E h \in Rows : h.x = AFunction(within) /\ h.d.entity = Body(unit)
  BY <1>1, BodyRow
<1>14. PICK h \in Rows : h.x = AFunction(within) /\ h.d.entity = Body(unit)
  BY <1>13
<1>15. /\ Refers(ss, d) = {<<q.x, q.d.what>> : q \in Q}
       /\ \A q \in Q : q.d.entity[1] = q.d.name /\ q.d.from = h.d.entity
  BY <1>5, <1>9, <1>14 DEF IsUsed
<1>16. UsedMore(functions, functions', within, {<<q.x, q.d.what>> : q \in Q})
  BY <1>1, <1>8, <1>13, <1>15, UsedMoreIs
<1>17. FunctionsAs(Rows \cup {r}, functions', within)
  <2>1. r.d.what # "function"
    BY <1>1, <1>6 DEF RowOf
  <2>2. FunctionsAs(Rows \cup {r}, functions, within)
    BY <1>5, <1>7, <2>1, FunctionsElse
  <2>3. /\ DOMAIN functions' = DOMAIN functions
        /\ \A i \in DOMAIN functions : SameFlags(functions'[i], functions[i])
        /\ \A i \in DOMAIN functions : functions[i].body \/ i = within => functions'[i].body \/ i = within
    BY <1>16 DEF UsedMore
  <2>4. DOMAIN functions = 1 .. Len(functions')
    BY <2>3, ReadsFacts DEF Reads, Read
  <2> QED
    BY <1>5, <2>2, <2>3, <2>4, FunctionsStay
<1>18. UsesAs(Rows \cup {r}, Usages \cup Q, functions', statics, within)
  <2>1. Rows \subseteq Rows \cup {r}
    OBVIOUS
  <2> QED
    BY <1>5, <1>7, <1>8, <1>13, <1>14, <1>15, <1>16, <2>1, BodyUses
<1> QED
  BY <1>1, <1>5, <1>7, <1>11, <1>12, <1>17, <1>18 DEF Tabled, TablesAs, Hosts

(* A step that uses nothing.                                               *)
SameUses(fs, f2, w, w2) ==
    /\ DOMAIN fs \subseteq DOMAIN f2
    /\ \A i \in DOMAIN fs : f2[i].uses = fs[i].uses
    /\ \A i \in DOMAIN f2 \ DOMAIN fs : f2[i].uses = {}
    /\ \A i \in DOMAIN fs : fs[i].body \/ i = w => f2[i].body \/ i = w2

LEMMA UsesKept ==
    ASSUME NEW D, NEW U, NEW fs, NEW st, NEW w, UsesAs(D, U, fs, st, w), NEW no, NEW nf,
           Consistent(D, U, no, nf), DOMAIN fs = 1 .. nf, NEW D2, D \subseteq D2,
           NEW f2, NEW w2, SameUses(fs, f2, w, w2)
    PROVE  UsesAs(D2, U, f2, st, w2)
<1>1. \A i \in DOMAIN fs : fs[i].uses # {} => fs[i].body \/ i = w
  BY DEF UsesAs
<1>2. \A i \in DOMAIN f2 : f2[i].uses # {} => f2[i].body \/ i = w2
  BY <1>1 DEF SameUses
<1>3. MoreUses(D, U, fs, st, D2, U, f2, st, w2)
  BY <1>2 DEF MoreUses, SameUses
<1> QED
  BY <1>3, UsesGrow

LEMMA DeclareExternTabled ==
    ASSUME Reads, Reads', Tabled, NamesApart, NEW d \in alphabet.items, DeclareExtern(d)
    PROVE  Tabled'
<1> DEFINE e == EntryOf(unit, d)
<1>0. PICK linked, new, x :
          linked = scopes[1][d.name] /\ new = AnObject(NewId) /\ x = IF linked[1] = "object" THEN linked ELSE new
  OBVIOUS
<1>1. /\ d.what = "object" /\ d.storage = "extern" /\ CDeclares(d, FALSE)
      /\ means' = Append(means, x)
      /\ linked[1] = "object" => UNCHANGED objects /\ UNCHANGED externs
      /\ linked[1] # "object" => objects' = NewObject(d.name, "extern") /\ externs' = externs \cup {NewId}
      /\ UNCHANGED blocks /\ UNCHANGED functions /\ UNCHANGED statics /\ UNCHANGED within
  BY <1>0 DEF DeclareExtern, LookupLinked
<1>2. Before(d, unit, means, e, Len(blocks))
  BY <1>1, BeforeUnit DEF Declares
<1>3. e.name = d.name /\ e.what = d.what /\ e.storage = d.storage /\ Fits(unit, blocks, e) /\ e.link # "none"
      /\ d.name \in Name /\ linked \in Denotation
  BY <1>0, <1>1, <1>2 DEF Before, Local
<1> HIDE DEF e
<1>5. /\ linked = Nothing => Known(unit, e) = {}
      /\ linked # Nothing => linked[1] = "object" /\ \E q \in Rows : q.x = linked
  BY <1>0, <1>1, <1>3, PriorRow
<1>6. x \in Denotation
  BY <1>0, <1>3, ReadsFacts DEF AnObject, Denotation, NewId
<1>7. ~NamesAnother(d)
  BY <1>1, ItemIs DEF NamesAnother, Declares, Reads
<1>8. means' = Meant(x, scopes, d)
  BY <1>1, <1>6, <1>7, MeantIs, ReadsFacts DEF Typed
<1>9. PICK r, Q : IsDeclared(d, x, scopes, r, Q)
  BY <1>1, <1>6, <1>8, DeclaresRows DEF Declares
<1>10. /\ r.x = x /\ r \notin Rows /\ r.d = EntryOf(unit, d)
       /\ Rows' = Rows \cup {r} /\ Usages' = Usages \cup Q
       /\ Consistent(Rows, Usages, Len(objects), Len(functions))
       /\ Consistent(Rows \cup {r}, Usages \cup Q, Len(objects'), Len(functions'))
       /\ IsUsed(Q, scopes, d, IF Lasts(r.d) THEN r.d.entity ELSE Body(unit))
  BY <1>9 DEF IsDeclared
<1>11. RowOf(d, r)
  BY <1>1, <1>2, <1>10, RowOfIs DEF Declares, e
<1>12. Q = {}
  <2>1. Q \subseteq Usages \cup Q
    OBVIOUS
  <2> QED
    BY <1>7, <1>10, <2>1, RefersIs
<1>13. /\ ObjectsAs(Rows, objects) /\ FunctionsAs(Rows, functions, within)
       /\ StaticsAs(Rows, objects, externs, statics)
       /\ UsesAs(Rows, Usages, functions, statics, within) /\ Hosts(Rows, blocks, within)
  BY DEF Tabled, TablesAs
<1>14. /\ objects \in Seq(ObjectRow) /\ DOMAIN objects = 1 .. Len(objects)
       /\ DOMAIN functions = 1 .. Len(functions)
  BY ReadsFacts
<1>15. FunctionsAs(Rows \cup {r}, functions, within)
  <2>1. r.d.what # "function"
    BY <1>1, <1>11 DEF RowOf
  <2> QED
    BY <1>10, <1>13, <2>1, FunctionsElse
<1>16. UsesAs(Rows \cup {r}, Usages, functions, statics, within)
  <2>1. Rows \subseteq Rows \cup {r} /\ SameUses(functions, functions, within, within)
    BY DEF SameUses
  <2> QED
    BY <1>10, <1>13, <1>14, <2>1, UsesKept
<1>17. ~r.d.defines
  BY <1>1, <1>11 DEF RowOf
<1>18. CASE linked[1] = "object"
  <2>1. linked # Nothing
    BY <1>18 DEF Nothing
  <2>2. PICK q0 \in Rows : q0.x = x
    BY <1>0, <1>5, <1>18, <2>1
  <2>3. PICK id : id = x[2]
    OBVIOUS
  <2>4. x = AnObject(id) /\ id \in DOMAIN objects
    <3>1. x[1] = "object" /\ q0.x[2] = id
      BY <1>0, <1>18, <2>2, <2>3
    <3>2. q0.d.what = "object" /\ id \in 1 .. Len(objects)
      BY <1>10, <2>2, <3>1 DEF Consistent
    <3> QED
      BY <1>6, <1>14, <2>3, <3>1, <3>2 DEF AnObject, Denotation
  <2>5. ObjectAgain(objects, objects, id, r.d)
    BY <1>1, <1>11, <1>17 DEF ObjectAgain, Moved, RowOf
  <2>6. Again(Rows, r)
    BY <1>10, <2>2 DEF Again
  <2>7. objects' = objects /\ externs' = externs
    BY <1>1, <1>18
  <2>8. Consistent(Rows \cup {r}, Usages \cup Q, Len(objects), Len(functions'))
    BY <1>10, <2>7
  <2>9. ObjectsAs(Rows \cup {r}, objects)
    BY <1>10, <1>13, <1>14, <2>4, <2>5, <2>6, <2>8, ObjectIsKnown
  <2>10. StaticsAs(Rows \cup {r}, objects, externs, statics)
    <3>1. \A i : i \in externs <=> i \in DOMAIN objects /\ objects[i].storage = "extern"
      BY <1>13 DEF StaticsAs
    <3>2. \A i : Static(objects, i) <=> Static(objects, i)
      OBVIOUS
    <3> QED
      BY <1>13, <1>17, <3>1, <3>2, StaticsStay
  <2> QED
    BY <1>1, <1>10, <1>12, <1>13, <1>15, <1>16, <2>7, <2>9, <2>10 DEF Tabled, TablesAs, Hosts
<1>19. CASE linked[1] # "object"
  <2>1. x = AnObject(NewId) /\ Known(unit, e) = {} /\ objects' = NewObject(d.name, "extern")
        /\ externs' = externs \cup {NewId}
    BY <1>0, <1>1, <1>5, <1>19
  <2>2. r.d.link = "external"
    <3> DEFINE v == Visible(unit, d.name)
    <3>1. v # 0 => unit[v].link = "none"
      <4>1. v # 0 => v \in DOMAIN unit /\ Declares(unit[v]) /\ unit[v].name = d.name
        BY VisibleIs, ReadsFacts DEF Typed, In, IsDeclaration
      <4> QED
        BY <1>3, <2>1, <4>1 DEF Known, SameNamed
    <3> HIDE DEF v
    <3>2. Linkage(unit, d) = "external"
      BY <1>1, <3>1 DEF Linkage, v
    <3>3. r.d.link = Linkage(unit, d)
      BY <1>10 DEF EntryOf
    <3> QED
      BY <3>2, <3>3
  <2>3. NewAs(r, "extern")
    BY <1>1, <1>11, <1>17, <2>2 DEF NewAs, RowOf
  <2>4. NewTable("extern", r)
    BY <1>3, <1>9, <1>11, <2>1, <2>3, NewObjectTabled
  <2>5. /\ ObjectsAs(Rows \cup {r}, objects')
        /\ \A i : Static(objects', i) <=> Static(objects, i)
        /\ \A i : i \in DOMAIN objects' /\ objects'[i].storage = "extern" <=> i \in externs \/ i = NewId
    BY <2>4 DEF NewTable
  <2>6. \A i : i \in externs' <=> i \in DOMAIN objects' /\ objects'[i].storage = "extern"
    BY <2>1, <2>5
  <2>7. StaticsAs(Rows \cup {r}, objects', externs', statics)
    BY <1>13, <1>17, <2>5, <2>6, StaticsStay
  <2> QED
    BY <1>1, <1>10, <1>12, <1>13, <1>15, <1>16, <2>5, <2>7 DEF Tabled, TablesAs, Hosts
<1> QED
  BY <1>18, <1>19

(* A name that is neither an object's nor a function's.                    *)
(* A row of D that is about no table.                                      *)
Joins(D, U, r, no, nf) ==
    /\ r.d.what \notin {"object", "function"}
    /\ \E U2, n2, n3 : Consistent(D \cup {r}, U2, n2, n3)
    /\ Consistent(D, U, no, nf)

LEMMA ElseTabled ==
    ASSUME NEW D, NEW U, NEW os, NEW fs, NEW ex, NEW st, NEW w, TablesAs(D, U, os, fs, ex, st, w),
           NEW r, NEW no, NEW nf, Joins(D, U, r, no, nf), DOMAIN fs = 1 .. nf
    PROVE  TablesAs(D \cup {r}, U, os, fs, ex, st, w)
<1>0. PICK U2, n2, n3 : Consistent(D \cup {r}, U2, n2, n3)
  BY DEF Joins
<1>10. r.d.what \notin {"object", "function"} /\ Consistent(D, U, no, nf)
  BY DEF Joins
<1>1. ObjectsAs(D, os) /\ FunctionsAs(D, fs, w) /\ StaticsAs(D, os, ex, st) /\ UsesAs(D, U, fs, st, w)
  BY DEF TablesAs
<1>2. ObjectsAs(D \cup {r}, os) /\ FunctionsAs(D \cup {r}, fs, w)
  BY <1>0, <1>1, <1>10, ObjectsElse, FunctionsElse
<1>3. StaticsAs(D \cup {r}, os, ex, st)
  <2>1. \A id : r.x # AnObject(id)
    BY <1>0, <1>10 DEF AnObject, Consistent
  <2>2. \A id : id \in ex <=> id \in DOMAIN os /\ os[id].storage = "extern"
    BY <1>1 DEF StaticsAs
  <2>3. \A id : Static(os, id) <=> Static(os, id)
    OBVIOUS
  <2> QED
    BY <1>1, <2>1, <2>2, <2>3, StaticsStay
<1>4. UsesAs(D \cup {r}, U, fs, st, w)
  <2>1. D \subseteq D \cup {r} /\ SameUses(fs, fs, w, w)
    BY DEF SameUses
  <2> QED
    BY <1>1, <1>10, <2>1, UsesKept
<1> QED
  BY <1>1, <1>2, <1>3, <1>4 DEF TablesAs

LEMMA DeclareTypedefTabled ==
    ASSUME Reads, Reads', Tabled, NamesApart, NEW d \in alphabet.items, DeclareTypedef(d)
    PROVE  Tabled'
<1> DEFINE e == EntryOf(unit, d)
<1>0. PICK x : x = AType(Len(unit) + 1)
  OBVIOUS
<1>1. /\ d.what = "typedef" /\ CDeclares(d, FALSE) /\ means' = Append(means, x)
      /\ UNCHANGED blocks /\ UNCHANGED within
      /\ UNCHANGED objects /\ UNCHANGED functions /\ UNCHANGED externs /\ UNCHANGED statics
  BY <1>0 DEF DeclareTypedef, tables
<1>2. Before(d, unit, means, e, Len(blocks))
  BY <1>1, BeforeUnit DEF Declares
<1> HIDE DEF e
<1>3. x \in Denotation
  BY <1>0, ReadsFacts DEF AType, Denotation
<1>4. ~NamesAnother(d)
  BY <1>1, ItemIs DEF NamesAnother, Declares, Reads
<1>5. means' = Meant(x, scopes, d)
  BY <1>1, <1>3, <1>4, MeantIs, ReadsFacts DEF Typed
<1>6. PICK r, Q : IsDeclared(d, x, scopes, r, Q)
  BY <1>1, <1>3, <1>5, DeclaresRows DEF Declares
<1>7. /\ r.d = EntryOf(unit, d) /\ Rows' = Rows \cup {r} /\ Usages' = Usages \cup Q
      /\ Consistent(Rows, Usages, Len(objects), Len(functions))
      /\ Consistent(Rows \cup {r}, Usages \cup Q, Len(objects), Len(functions))
      /\ IsUsed(Q, scopes, d, IF Lasts(r.d) THEN r.d.entity ELSE Body(unit))
  BY <1>1, <1>6 DEF IsDeclared
<1>8. Q = {}
  <2>1. Q \subseteq Usages \cup Q
    OBVIOUS
  <2> QED
    BY <1>4, <1>7, <2>1, RefersIs
<1>9. r.d.what \notin {"object", "function"}
  BY <1>1, <1>2, <1>7, RowOfIs DEF Declares, e, RowOf
<1>10. TablesAs(Rows, Usages, objects, functions, externs, statics, within) /\ Hosts(Rows, blocks, within)
  BY DEF Tabled
<1>12. Joins(Rows, Usages, r, Len(objects), Len(functions))
  BY <1>7, <1>9 DEF Joins
<1>11. TablesAs(Rows \cup {r}, Usages, objects, functions, externs, statics, within)
  BY <1>10, <1>12, ElseTabled, ReadsFacts
<1> QED
  BY <1>1, <1>7, <1>8, <1>10, <1>11 DEF Tabled, Hosts

(* One more use, of what is visible.                                       *)
UseRow(n, how, from, u, m, q) ==
    /\ Good(u, blocks, scopes, m, Len(objects), Len(functions)) /\ Introduced(alphabet, u)
    /\ DeclaredRows(u, m) = Rows /\ UsedRows(u, m) = Usages \cup {q}
    /\ q.x = Lookup(scopes, n) /\ q.d.what = how /\ q.d.name = n /\ q.d.entity[1] = n /\ q.d.from = from
    /\ q.x[1] = unit[Visible(unit, n)].what

CanSee(u, ss, m, no, nf, n) == n \in Name /\ Good(u, blocks, ss, m, no, nf) /\ Visible(u, n) # 0
Sees(u, ss, m, n) ==
    LET v == Visible(u, n)
    IN  IsDeclaration(u, v) /\ u[v].name = n /\ Lookup(ss, n) = m[v]

LEMMA SeesVisible ==
    ASSUME NEW u, NEW ss, NEW m, NEW no, NEW nf, NEW n, CanSee(u, ss, m, no, nf, n)
    PROVE  Sees(u, ss, m, n)
BY LookupVisible DEF CanSee, Sees

LEMMA UseRowIs ==
    ASSUME Reads, NEW n \in Name, NEW how \in Hows, Usable(unit, n, how), NEW from \in Entity \cup {<<>>},
           NEW u, u = Used(unit, n, how, from), NEW m, m = Append(means, Lookup(scopes, n))
    PROVE  \E q : UseRow(n, how, from, u, m, q)
<1> DEFINE v == Visible(unit, n)
           x == Lookup(scopes, n)
           f == [what |-> how, name |-> n, entity |-> unit[v].entity, from |-> from]
           q == [at |-> Len(unit) + 1, d |-> f, x |-> x]
<1>1. /\ Good(unit, blocks, scopes, means, Len(objects), Len(functions)) /\ Introduced(alphabet, unit)
      /\ unit \in Seq(Entry) /\ means \in Seq(Denotation) /\ Len(means) = Len(unit)
      /\ Linkages(unit) /\ Denoted(unit, blocks, scopes, means)
  BY ReadsFacts DEF Typed, Good
<1>2. UseRead(alphabet, unit, scopes, means, Len(objects), Len(functions), n, u, m)
  BY <1>1, UseOf
<1>3. /\ Good(u, blocks, scopes, m, Len(objects), Len(functions)) /\ Introduced(alphabet, u)
      /\ x \in Denotation
  BY <1>2 DEF UseRead
<1>4. IsDeclaration(unit, v) /\ unit[v].name = n /\ x = means[v]
  <2>1. v # 0
    BY DEF Usable
  <2>2. CanSee(unit, scopes, means, Len(objects), Len(functions), n)
    BY <1>1, <2>1 DEF CanSee
  <2>3. Sees(unit, scopes, means, n)
    BY <2>2, SeesVisible
  <2> QED
    BY <2>3 DEF Sees
<1>5. /\ v \in DOMAIN unit /\ Declares(unit[v]) /\ x[1] = unit[v].what
      /\ unit[v].entity = EntityAt(unit[v], v)
  BY <1>1, <1>4 DEF IsDeclaration, Denoted, Linkages
<1>6. unit[v].entity[1] = n /\ unit[v].entity \in Entity
  <2>1. unit[v].entity[1] = n
    BY <1>4, <1>5 DEF EntityAt
  <2>2. unit[v] \in DeclarationEntry
    BY <1>1, <1>5, EntryIs
  <2> QED
    BY <2>1, <2>2, DeclaresEntry
<1>7. f \in UseEntry /\ ~Declares(f) /\ f \in Entry
  <2>1. f \in UseEntry
    BY <1>6 DEF UseEntry
  <2> QED
    BY <2>1, UsesEntry
<1>8. u = Append(unit, f) /\ m = Append(means, x)
  BY DEF Used
<1> HIDE DEF f, x, v
<1>9. UsedRows(u, m) = UsedRows(unit, means) \cup {q} /\ DeclaredRows(u, m) = DeclaredRows(unit, means)
  BY <1>1, <1>3, <1>7, <1>8, RowsAdded
<1>10. f.what = how /\ f.name = n /\ f.entity[1] = n /\ f.from = from
  BY <1>6 DEF f
<1>11. q.x = x /\ q.d = f
  OBVIOUS
<1> HIDE DEF q
<1>12. UseRow(n, how, from, u, m, q)
  BY <1>3, <1>5, <1>9, <1>10, <1>11 DEF UseRow, Rows, Usages, x, v
<1> QED
  BY <1>12

LEMMA MentionTabled ==
    ASSUME Reads, Reads', Tabled, NEW d \in alphabet.items, Mention(d)
    PROVE  Tabled'
<1>0. PICK x : x = Lookup(scopes, d.name)
  OBVIOUS
<1>1. /\ d.what \in Hows /\ ~AtFileScope /\ Usable(unit, d.name, d.what)
      /\ unit' = Used(unit, d.name, d.what, Body(unit)) /\ means' = Append(means, x)
      /\ functions' = [functions EXCEPT ![within].uses = @ \cup {<<x, d.what>>}]
      /\ blocks' = blocks /\ objects' = objects /\ within' = within /\ externs' = externs /\ statics' = statics
  BY <1>0 DEF Mention
<1>2. d.name \in Name
  BY ItemIs DEF Reads
<1>3. Body(unit) \in Entity \cup {<<>>}
  BY ReadsFacts, BodyIs
<1>4. PICK q : UseRow(d.name, d.what, Body(unit), unit', means', q)
  BY <1>0, <1>1, <1>2, <1>3, UseRowIs
<1>5. /\ DeclaredRows(unit', means') = Rows /\ UsedRows(unit', means') = Usages \cup {q}
      /\ q.x = x /\ q.d.what = d.what /\ q.d.name = d.name /\ q.d.entity[1] = d.name /\ q.d.from = Body(unit)
  BY <1>0, <1>4 DEF UseRow
<1>6. Rows' = DeclaredRows(unit', means') /\ Usages' = UsedRows(unit', means')
  BY DEF Rows, Usages
<1>7. /\ ObjectsAs(Rows, objects) /\ FunctionsAs(Rows, functions, within)
      /\ StaticsAs(Rows, objects, externs, statics)
      /\ UsesAs(Rows, Usages, functions, statics, within) /\ Hosts(Rows, blocks, within)
  BY DEF Tabled, TablesAs
<1>8. /\ DOMAIN functions = 1 .. Len(functions) /\ functions \in Seq(FunctionRow)
      /\ Consistent(Rows, Usages, Len(objects), Len(functions))
  BY ReadsFacts, RowsConsistent
<1>9. /\ within \in DOMAIN functions
      /\ \E h \in Rows : h.x = AFunction(within) /\ h.d.entity = Body(unit)
  BY <1>1, BodyRow
<1>10. PICK h \in Rows : h.x = AFunction(within) /\ h.d.entity = Body(unit)
  BY <1>9
<1>11. /\ {<<x, d.what>>} = {<<p.x, p.d.what>> : p \in {q}}
       /\ \A p \in {q} : p.d.entity[1] = p.d.name /\ p.d.from = h.d.entity
  BY <1>5, <1>10
<1>12. UsedMore(functions, functions', within, {<<p.x, p.d.what>> : p \in {q}})
  BY <1>1, <1>8, <1>9, <1>11, UsedMoreIs
<1>13. FunctionsAs(Rows, functions', within)
  <2>1. /\ DOMAIN functions' = DOMAIN functions
        /\ \A i \in DOMAIN functions : SameFlags(functions'[i], functions[i])
        /\ \A i \in DOMAIN functions : functions[i].body \/ i = within => functions'[i].body \/ i = within
    BY <1>12 DEF UsedMore
  <2> QED
    BY <1>7, <1>8, <2>1, FunctionsStay
<1>14. UsesAs(Rows, Usages \cup {q}, functions', statics, within)
  <2>1. Rows \subseteq Rows
    OBVIOUS
  <2> QED
    BY <1>7, <1>8, <1>9, <1>10, <1>11, <1>12, <2>1, BodyUses
<1> QED
  BY <1>1, <1>5, <1>6, <1>7, <1>13, <1>14 DEF Tabled, TablesAs, Hosts

(* An enumerator's value may be another's, or the size of a type.          *)
ConstantUse(d, u, m) ==
    /\ Good(u, blocks, scopes, m, Len(objects), Len(functions)) /\ Introduced(alphabet, u)
    /\ DeclaredRows(u, m) = Rows /\ Usages \subseteq UsedRows(u, m)
    /\ \A q \in UsedRows(u, m) \ Usages :
           q.d.entity[1] = q.d.name /\ q.x[1] # "object" /\ q.x[1] # "function"
    /\ Agrees(Declared(u, d)) /\ unit' = Declared(u, d)
    /\ means' = Append(m, AConstant(Len(u) + 1))

LEMMA ConstantUses ==
    ASSUME Reads, NEW d \in alphabet.items, DeclareConstant(d)
    PROVE  \E u, m : ConstantUse(d, u, m)
<1>0. /\ Good(unit, blocks, scopes, means, Len(objects), Len(functions)) /\ Introduced(alphabet, unit)
      /\ means \in Seq(Denotation) /\ alphabet \in Alphabets
  BY ReadsFacts DEF Reads, Typed
<1>1. CASE ~NamesAnother(d)
  <2>1. /\ Agrees(Declared(unit, d)) /\ unit' = Declared(unit, d)
        /\ means' = means \o <<AConstant(Len(unit) + 1)>>
    BY <1>1 DEF DeclareConstant
  <2>2. means \o <<AConstant(Len(unit) + 1)>> = Append(means, AConstant(Len(unit) + 1))
    BY <1>0
  <2>3. DeclaredRows(unit, means) = Rows /\ UsedRows(unit, means) = Usages
    BY DEF Rows, Usages
  <2>4. ConstantUse(d, unit, means)
    BY <1>0, <2>1, <2>2, <2>3 DEF ConstantUse
  <2> QED
    BY <2>4
<1>2. CASE NamesAnother(d)
  <2>0. PICK how, u, m : /\ how = HowUsed(d.inits) /\ u = Used(unit, d.inits, how, Body(unit))
                         /\ m = Append(means, Lookup(scopes, d.inits))
    OBVIOUS
  <2>1. /\ Usable(unit, d.inits, how) /\ unit[Visible(unit, d.inits)].what # "object"
        /\ Agrees(Declared(u, d)) /\ unit' = Declared(u, d)
        /\ means' = m \o <<AConstant(Len(u) + 1)>> /\ d.what = "constant"
    BY <1>2, <2>0 DEF DeclareConstant
  <2>2. how \in {"type", "value"} /\ how \in Hows
    BY <2>0 DEF HowUsed, Hows
  <2>3. d.name \in Name /\ d.inits \in Name
    BY <1>0, <1>2, <2>1, ItemIs DEF NamesAnother, Declares
  <2>4. Body(unit) \in Entity \cup {<<>>}
    BY ReadsFacts, BodyIs
  <2>5. PICK q : UseRow(d.inits, how, Body(unit), u, m, q)
    BY <2>0, <2>1, <2>2, <2>3, <2>4, UseRowIs
  <2>6. unit[Visible(unit, d.inits)].what # "function" /\ unit[Visible(unit, d.inits)].what # "object"
    BY <2>1, <2>2 DEF Usable
  <2>7. /\ Good(u, blocks, scopes, m, Len(objects), Len(functions)) /\ Introduced(alphabet, u)
        /\ DeclaredRows(u, m) = Rows /\ Usages \subseteq UsedRows(u, m)
        /\ \A p \in UsedRows(u, m) \ Usages :
               p.d.entity[1] = p.d.name /\ p.x[1] # "object" /\ p.x[1] # "function"
    BY <2>5, <2>6 DEF UseRow
  <2>8. m \in Seq(Denotation)
    BY <2>7 DEF Good, Typed
  <2>9. m \o <<AConstant(Len(u) + 1)>> = Append(m, AConstant(Len(u) + 1))
    BY <2>8
  <2>10. ConstantUse(d, u, m)
    BY <2>1, <2>7, <2>9 DEF ConstantUse
  <2> QED
    BY <2>10
<1> QED
  BY <1>1, <1>2

LEMMA UsesElsewhere ==
    ASSUME NEW D, NEW U, NEW fs, NEW st, NEW w, UsesAs(D, U, fs, st, w), NEW no, NEW nf,
           Consistent(D, U, no, nf), DOMAIN fs = 1 .. nf, NEW U2, U \subseteq U2,
           \A q \in U2 \ U : q.d.entity[1] = q.d.name /\ q.x[1] # "object" /\ q.x[1] # "function"
    PROVE  UsesAs(D, U2, fs, st, w)
<1>1. \A q \in U2 \ U : UseAs(D, fs, st, q)
  BY DEF UseAs
<1>2. \A id \in DOMAIN fs : fs[id].uses # {} => fs[id].body \/ id = w
  BY DEF UsesAs
<1>3. MoreUses(D, U, fs, st, D, U2, fs, st, w)
  BY <1>1, <1>2 DEF MoreUses
<1> QED
  BY <1>3, UsesGrow

LEMMA DeclareConstantTabled ==
    ASSUME Reads, Reads', Tabled, NamesApart, NEW d \in alphabet.items, DeclareConstant(d)
    PROVE  Tabled'
<1>1. PICK u, m : ConstantUse(d, u, m)
  BY ConstantUses
<1>2. PICK e, x, n : e = EntryOf(u, d) /\ x = AConstant(Len(u) + 1) /\ n = Len(u)
  OBVIOUS
<1>3. /\ Good(u, blocks, scopes, m, Len(objects), Len(functions))
      /\ DeclaredRows(u, m) = Rows /\ Usages \subseteq UsedRows(u, m)
      /\ \A q \in UsedRows(u, m) \ Usages :
             q.d.entity[1] = q.d.name /\ q.x[1] # "object" /\ q.x[1] # "function"
      /\ unit' = Append(u, e) /\ means' = Append(m, x)
  BY <1>1, <1>2, DeclaredIs DEF ConstantUse
<1>4. /\ d.what = "constant" /\ UNCHANGED blocks /\ UNCHANGED within
      /\ UNCHANGED objects /\ UNCHANGED functions /\ UNCHANGED externs /\ UNCHANGED statics
  BY DEF DeclareConstant, tables
<1>5. Before(d, u, m, e, Len(blocks))
  BY <1>1, <1>2, <1>4, BeforeIs DEF ConstantUse, Declares
<1>6. e.what = "constant" /\ Declares(e)
  BY <1>4, <1>5 DEF Before, Declares
<1>7. /\ unit' \in Seq(Entry) /\ means' \in Seq(Denotation)
      /\ u \in Seq(Entry) /\ m \in Seq(Denotation) /\ Len(m) = Len(u)
  BY <1>3, ReadsFacts DEF Reads, Read, Good, Typed
<1>8. e \in Entry
  BY <1>3, <1>7, LastMeant
<1>9. x \in Denotation
  BY <1>3, <1>7, LastMeant
<1>17. PICK r : r = [at |-> Len(u) + 1, d |-> e, x |-> x]
  OBVIOUS
<1>10. Rows' = Rows \cup {r} /\ Usages' = UsedRows(u, m)
  <2>1. DeclaredRows(unit', means') = DeclaredRows(u, m) \cup {r} /\ UsedRows(unit', means') = UsedRows(u, m)
    BY <1>3, <1>6, <1>7, <1>8, <1>9, <1>17, RowsAdded
  <2> QED
    BY <1>3, <2>1 DEF Rows, Usages
<1>11. r.d.what \notin {"object", "function"}
  BY <1>6, <1>17
<1>12. /\ Consistent(Rows, Usages, Len(objects), Len(functions))
       /\ Consistent(Rows \cup {r}, Usages', Len(objects'), Len(functions'))
       /\ DOMAIN functions = 1 .. Len(functions)
  BY <1>10, RowsConsistent, RowsConsistentNext, ReadsFacts
<1>13. TablesAs(Rows, Usages, objects, functions, externs, statics, within) /\ Hosts(Rows, blocks, within)
  BY DEF Tabled
<1>14. TablesAs(Rows, Usages', objects, functions, externs, statics, within)
  <2>1. UsesAs(Rows, Usages', functions, statics, within)
    BY <1>3, <1>10, <1>12, <1>13, UsesElsewhere DEF TablesAs
  <2> QED
    BY <1>13, <2>1 DEF TablesAs
<1>15. Consistent(Rows, Usages', Len(objects), Len(functions))
  <2>1. Consistent(DeclaredRows(u, m), UsedRows(u, m), Len(objects), Len(functions))
    BY <1>3, ConsistentRows
  <2> QED
    BY <1>3, <1>10, <2>1
<1>18. Joins(Rows, Usages', r, Len(objects), Len(functions))
  BY <1>11, <1>12, <1>15 DEF Joins
<1>16. TablesAs(Rows \cup {r}, Usages', objects, functions, externs, statics, within)
  BY <1>12, <1>14, <1>18, ElseTabled
<1> QED
  BY <1>4, <1>10, <1>13, <1>16 DEF Tabled, Hosts

(* What a declaration of a function leaves in the table.                   *)
LEMMA NotedAs ==
    ASSUME NEW f \in FunctionRow, NEW d, NEW r, RowOf(d, r)
    PROVE  /\ MergedAs(Noted(Merged(f, d), d), f, r.d)
           /\ Noted(Merged(f, d), d).uses = f.uses /\ Noted(Merged(f, d), d) \in FunctionRow
<1>1. PICK g : g = Merged(f, d)
  OBVIOUS
<1>2. /\ g \in FunctionRow /\ g.name = f.name /\ g.body = f.body /\ g.uses = f.uses
      /\ g.is_static = (f.is_static \/ d.storage = "static") /\ g.is_inline = (f.is_inline \/ d.inline)
      /\ g.all_inline = f.all_inline /\ g.any_extern = f.any_extern
  <2>1. d.inline \in BOOLEAN
    BY DEF RowOf
  <2>2. g \in FunctionRow
    BY <1>1, <2>1, MergedIs
  <2>3. g = [f EXCEPT !.is_static = @ \/ d.storage = "static", !.is_inline = @ \/ d.inline]
    BY <1>1 DEF Merged
  <2> QED
    BY ONLY <2>1, <2>2, <2>3, f \in FunctionRow DEF FunctionRow
<1>3. PICK h : h = Noted(g, d)
  OBVIOUS
<1>4. /\ h \in FunctionRow /\ h.name = g.name /\ h.body = g.body /\ h.uses = g.uses
      /\ h.is_static = g.is_static /\ h.is_inline = g.is_inline
      /\ AtFileScope => h.all_inline = (g.all_inline /\ d.inline)
                        /\ h.any_extern = (g.any_extern \/ d.storage = "extern")
      /\ ~AtFileScope => h.all_inline = g.all_inline /\ h.any_extern = g.any_extern
  <2>1. h \in FunctionRow /\ h.body = g.body
    BY <1>2, <1>3, NotedIs DEF RowOf
  <2>2. CASE AtFileScope
    <3>1. h = [g EXCEPT !.all_inline = @ /\ d.inline, !.any_extern = @ \/ d.storage = "extern"]
      BY <1>3, <2>2 DEF Noted
    <3>2. /\ h.name = g.name /\ h.uses = g.uses /\ h.is_static = g.is_static /\ h.is_inline = g.is_inline
          /\ h.all_inline = (g.all_inline /\ d.inline)
          /\ h.any_extern = (g.any_extern \/ d.storage = "extern")
      BY <1>2, <3>1 DEF FunctionRow
    <3> QED
      BY <1>2, <2>1, <2>2, <3>2
  <2>3. CASE ~AtFileScope
    BY <1>2, <1>3, <2>1, <2>3 DEF Noted
  <2> QED
    BY <2>2, <2>3
<1>5. d.storage = r.d.storage /\ d.inline = r.d.inline /\ (r.d.scope = FileScope <=> AtFileScope)
  BY DEF RowOf
<1>6. MergedAs(h, f, r.d)
  BY <1>2, <1>4, <1>5 DEF MergedAs
<1> QED
  BY <1>1, <1>2, <1>3, <1>4, <1>6

LEMMA NewFunctionRow ==
    ASSUME NEW d, NEW r, RowOf(d, r)
    PROVE  Noted(NewFunction(d), d) \in FunctionRow
<1>1. NewFunction(d) \in FunctionRow /\ d.inline \in BOOLEAN
  BY DEF NewFunction, FunctionRow, Uses, RowOf
<1> QED
  BY <1>1, NotedIs

LEMMA NewFunctionAs ==
    ASSUME NEW d, NEW r, RowOf(d, r), NEW w2, d.defines => r.x[2] = w2, AtTop(r.d),
           r.d.link = "internal" <=> d.storage = "static"
    PROVE  /\ FunctionAs({r}, r, Noted(NewFunction(d), d), w2)
           /\ Noted(NewFunction(d), d).uses = {} /\ Noted(NewFunction(d), d) \in FunctionRow
<1>1. PICK g : g = NewFunction(d)
  OBVIOUS
<1>2. /\ g \in FunctionRow /\ g.name = d.name /\ g.body = FALSE /\ g.uses = {}
      /\ g.is_static = (d.storage = "static") /\ g.is_inline = d.inline
      /\ g.all_inline = TRUE /\ g.any_extern = FALSE
  BY <1>1 DEF NewFunction, FunctionRow, Uses, RowOf
<1>3. PICK h : h = Noted(g, d)
  OBVIOUS
<1>4. /\ h \in FunctionRow /\ h.name = g.name /\ h.body = g.body /\ h.uses = g.uses
      /\ h.is_static = g.is_static /\ h.is_inline = g.is_inline
      /\ AtFileScope => h.all_inline = d.inline /\ h.any_extern = (d.storage = "extern")
      /\ ~AtFileScope => h.all_inline = TRUE /\ h.any_extern = FALSE
  <2>1. h \in FunctionRow /\ h.body = g.body
    BY <1>2, <1>3, NotedIs DEF RowOf
  <2>2. CASE AtFileScope
    <3>1. h = [g EXCEPT !.all_inline = @ /\ d.inline, !.any_extern = @ \/ d.storage = "extern"]
      BY <1>3, <2>2 DEF Noted
    <3>2. /\ h.name = g.name /\ h.uses = g.uses /\ h.is_static = g.is_static /\ h.is_inline = g.is_inline
          /\ h.all_inline = (g.all_inline /\ d.inline)
          /\ h.any_extern = (g.any_extern \/ d.storage = "extern")
      BY <1>2, <3>1 DEF FunctionRow
    <3> QED
      BY <1>2, <2>1, <2>2, <3>2 DEF RowOf
  <2>3. CASE ~AtFileScope
    BY <1>2, <1>3, <2>1, <2>3 DEF Noted
  <2> QED
    BY <2>2, <2>3
<1>5. /\ d.storage = r.d.storage /\ d.inline = r.d.inline /\ (r.d.scope = FileScope <=> AtFileScope)
      /\ d.name = r.d.name /\ d.defines = r.d.defines
  BY DEF RowOf
<1>6. AllInline({r}, r.x) <=> (r.d.scope = FileScope => r.d.inline)
  BY DEF AllInline
<1>7. AnyExtern({r}, r.x) <=> r.d.scope = FileScope /\ r.d.storage = "extern"
  BY DEF AnyExtern
<1>8. FunctionAs({r}, r, h, w2)
  BY <1>2, <1>4, <1>5, <1>6, <1>7 DEF FunctionAs, AtTop
<1> QED
  BY <1>1, <1>2, <1>3, <1>4, <1>8

FunctionTables(d, r, w2) ==
    /\ r.at = Len(unit) + 1 /\ r.x = AFunction(FunctionId(d)) /\ Rows' = Rows \cup {r}
    /\ TablesAs(Rows', Usages', objects', functions', externs', statics', w2)

LEMMA FunctionTabled ==
    ASSUME Reads, Reads', Tabled, NamesApart, NEW d \in alphabet.items, d.what = "function", DeclareFunction(d),
           ~AtFileScope /\ Visible(unit, d.name) # 0 => unit[Visible(unit, d.name)].what = "function",
           d.defines => AtFileScope, NEW w2, Enters(within, w2, FunctionId(d), d)
    PROVE  \E r : FunctionTables(d, r, w2)
<1> DEFINE e == EntryOf(unit, d)
<1>0. PICK id, x, n : id = FunctionId(d) /\ x = AFunction(id) /\ n = Len(functions)
  OBVIOUS
<1>1. /\ CDeclares(d, FALSE)
      /\ objects' = objects /\ externs' = externs /\ statics' = statics
  BY DEF DeclareFunction
<1>2. Before(d, unit, means, e, Len(blocks))
  BY <1>1, BeforeUnit DEF Declares
<1>3. FunctionRead(d, x)
  BY <1>0, DeclareFunctionIs
<1>4. /\ x \in Denotation /\ functions' = FunctionsWith(d) /\ RowsGrow(functions, functions', id)
      /\ means' = Append(means, x)
      /\ Adds(unit, blocks, scopes, means, Len(objects), Len(functions), e,
              x, ScopesWith(d), Len(objects), Len(functions'))
  BY <1>0, <1>3 DEF FunctionRead
<1>5. e.name = d.name /\ e.what = d.what /\ e.link # "none" /\ d.name \in Name
  BY <1>2 DEF Before, Local
<1>6. (\E i \in Known(unit, e) : x = means[i]) \/ (Known(unit, e) = {} /\ \A i \in DOMAIN unit : means[i] # x)
  BY <1>4, <1>5 DEF Adds
<1>7. ~NamesAnother(d)
  BY ItemIs DEF NamesAnother, Declares, Reads
<1>8. means' = Meant(x, scopes, d)
  BY <1>4, <1>7, MeantIs, ReadsFacts DEF Typed
<1>9. PICK r, Q : IsDeclared(d, x, scopes, r, Q)
  BY <1>1, <1>4, <1>8, DeclaresRows DEF Declares
<1>10. /\ r.at = Len(unit) + 1 /\ r.x = x /\ r \notin Rows /\ r.d = EntryOf(unit, d)
       /\ Rows' = Rows \cup {r} /\ Usages' = Usages \cup Q
       /\ Consistent(Rows, Usages, Len(objects), Len(functions))
       /\ Consistent(Rows \cup {r}, Usages \cup Q, Len(objects'), Len(functions'))
       /\ IsUsed(Q, scopes, d, IF Lasts(r.d) THEN r.d.entity ELSE Body(unit))
  BY <1>9 DEF IsDeclared
<1>11. RowOf(d, r)
  BY <1>1, <1>2, <1>10, RowOfIs DEF Declares
<1> HIDE DEF e
<1>12. Q = {}
  <2>1. Q \subseteq Usages \cup Q
    OBVIOUS
  <2> QED
    BY <1>7, <1>10, <2>1, RefersIs
<1>13. /\ ObjectsAs(Rows, objects) /\ FunctionsAs(Rows, functions, within)
       /\ StaticsAs(Rows, objects, externs, statics)
       /\ UsesAs(Rows, Usages, functions, statics, within)
  BY DEF Tabled, TablesAs
<1>14. /\ functions \in Seq(FunctionRow) /\ DOMAIN functions = 1 .. n /\ n \in Nat
       /\ DOMAIN objects = 1 .. Len(objects) /\ Bodies(unit, means, functions, within)
       /\ Numbered(unit, means, Len(objects), n)
  BY <1>0, ReadsFacts
<1>15. r.d.what = "function" /\ r.d.link # "none" /\ r.d.defines = d.defines /\ r.d.storage = d.storage
  BY <1>11 DEF RowOf
<1>22. AtTop(r.d)
  BY <1>11 DEF RowOf, AtTop
<1>16. ObjectsAs(Rows \cup {r}, objects')
  <2>1. r.d.what # "object"
    BY <1>15
  <2> QED
    BY <1>1, <1>10, <1>13, <2>1, ObjectsElse
<1>17. StaticsAs(Rows \cup {r}, objects', externs', statics')
  <2>1. \A i : r.x # AnObject(i)
    BY <1>0, <1>10 DEF AnObject, AFunction
  <2>2. \A i : i \in externs <=> i \in DOMAIN objects /\ objects[i].storage = "extern"
    BY <1>13 DEF StaticsAs
  <2>3. \A i : Static(objects, i) <=> Static(objects, i)
    OBVIOUS
  <2>4. StaticsAs(Rows \cup {r}, objects, externs, statics)
    BY <1>13, <2>1, <2>2, <2>3, StaticsStay
  <2> QED
    BY <1>1, <2>4
<1>18. (w2 = within \/ within = 0) /\ (d.defines => w2 = id) /\ Enters(within, w2, id, r.d)
  BY <1>0, <1>15 DEF Enters
<1>19. FunctionsAs(Rows \cup {r}, functions', w2) /\ SameUses(functions, functions', within, w2)
  <2>1. \A i \in DOMAIN functions : i = within => i = w2
    BY <1>14, <1>18
  <2>2. CASE id \in DOMAIN functions
    <3>1. PICK f, g : f = functions[id] /\ g = Noted(Merged(f, d), d)
      OBVIOUS
    <3>2. f \in FunctionRow
      BY <1>14, <2>2, <3>1
    <3>3. MergedAs(g, f, r.d) /\ g.uses = f.uses /\ g \in FunctionRow
      BY <1>11, <3>1, <3>2, NotedAs
    <3>4. functions' = [functions EXCEPT ![id] = g]
      BY <1>0, <1>4, <2>2, <3>1 DEF FunctionsWith
    <3>5. /\ DOMAIN functions' = DOMAIN functions /\ Len(functions') = n
          /\ functions'[id] = g /\ \A i \in DOMAIN functions : i # id => functions'[i] = functions[i]
      BY <1>0, <1>14, <2>2, <3>3, <3>4, SequenceUpdate
    <3>6. FunctionAgain(functions, functions', id, r.d)
      BY <3>1, <3>3, <3>5 DEF FunctionAgain
    <3>7. Again(Rows, r)
      <4>1. PICK q \in Rows : q.x = AFunction(id)
        BY <1>13, <2>2 DEF FunctionsAs
      <4> QED
        BY <1>0, <1>10, <4>1 DEF Again
    <3>8. Consistent(Rows \cup {r}, Usages \cup Q, Len(objects'), n) /\ r.x = AFunction(id)
      BY <1>0, <1>10, <3>5
    <3>9. r.d.storage = "static" => r.d.link = "internal"
      BY <1>11, <1>15 DEF RowOf
    <3>10. FunctionsAs(Rows \cup {r}, functions', w2)
      BY <1>13, <1>14, <1>18, <1>22, <3>6, <3>7, <3>8, <3>9, FunctionIsKnown
    <3>11. \A i \in DOMAIN functions :
               functions'[i].uses = functions[i].uses /\ functions'[i].body = functions[i].body
      BY <3>1, <3>3, <3>5 DEF MergedAs
    <3> QED
      BY <2>1, <3>5, <3>10, <3>11 DEF SameUses
  <2>3. CASE id \notin DOMAIN functions
    <3>1. PICK g : g = Noted(NewFunction(d), d)
      OBVIOUS
    <3>2. functions' = Append(functions, g)
      BY <1>0, <1>4, <2>3, <3>1 DEF FunctionsWith
    <3>3. g \in FunctionRow
      BY <1>11, <3>1, NewFunctionRow
    <3>4. /\ DOMAIN functions' = 1 .. n + 1 /\ Len(functions') = n + 1
          /\ \A i \in 1 .. n : functions'[i] = functions[i]
          /\ functions'[n + 1] = g
      BY <1>0, <1>14, <3>2, <3>3, Appended
    <3>5. id = n + 1
      <4>1. id \in 1 .. Len(functions')
        BY <1>4 DEF RowsGrow
      <4> QED
        BY <1>14, <2>3, <3>4, <4>1
    <3>6. Known(unit, e) = {}
      <4>1. \A i \in DOMAIN unit : means[i] # x
        BY <1>0, <1>14, <3>5, FreshMeaning, ReadsFacts
      <4>2. \A i \in Known(unit, e) : i \in DOMAIN unit
        BY DEF Known, SameNamed
      <4> QED
        BY <1>6, <4>1, <4>2
    <3>7. r.d.link = "internal" <=> d.storage = "static"
      <4> DEFINE v == Visible(unit, d.name)
      <4>1. v # 0 => unit[v].link = "none"
        <5>1. v # 0 => v \in DOMAIN unit /\ Declares(unit[v]) /\ unit[v].name = d.name
          BY VisibleIs, ReadsFacts DEF Typed, In, IsDeclaration
        <5> QED
          BY <1>5, <3>6, <5>1 DEF Known, SameNamed
      <4> HIDE DEF v
      <4>2. Linkage(unit, d) = IF d.storage = "static" THEN "internal" ELSE "external"
        BY <4>1 DEF Linkage, v
      <4>3. r.d.link = Linkage(unit, d)
        BY <1>10 DEF EntryOf
      <4> QED
        BY <4>2, <4>3
    <3>8. FunctionAs({r}, r, g, w2) /\ g.uses = {}
      <4>1. d.defines => r.x[2] = w2
        BY <1>0, <1>10, <1>18 DEF AFunction
      <4> QED
        BY <1>11, <1>22, <3>1, <3>7, <4>1, NewFunctionAs
    <3>9. FunctionsAs(Rows \cup {r}, functions', w2)
      <4>1. r.x = AFunction(Len(functions) + 1)
        BY <1>0, <1>10, <3>5
      <4> QED
        BY <1>10, <1>13, <1>14, <1>18, <3>2, <3>3, <3>8, <4>1, FunctionIsNew
    <3>10. \A i \in DOMAIN functions' \ DOMAIN functions : functions'[i].uses = {}
      <4>1. \A i \in DOMAIN functions' \ DOMAIN functions : i = n + 1
        BY <1>14, <3>4
      <4> QED
        BY <3>4, <3>8, <4>1
    <3>11. DOMAIN functions \subseteq DOMAIN functions' /\ \A i \in DOMAIN functions : functions'[i] = functions[i]
      BY <1>14, <3>4
    <3> QED
      BY <2>1, <3>9, <3>10, <3>11 DEF SameUses
  <2> QED
    BY <2>2, <2>3
<1>20. UsesAs(Rows \cup {r}, Usages, functions', statics', w2)
  <2>1. Rows \subseteq Rows \cup {r} /\ DOMAIN functions = 1 .. Len(functions)
    BY <1>0, <1>14
  <2> QED
    BY <1>1, <1>10, <1>13, <1>19, <2>1, UsesKept
<1>21. FunctionTables(d, r, w2)
  BY <1>0, <1>10, <1>12, <1>16, <1>17, <1>19, <1>20 DEF FunctionTables, TablesAs
<1> QED
  BY <1>21

LEMMA PrototypeTabled ==
    ASSUME Reads, Reads', Tabled, NamesApart, NEW d \in alphabet.items, Prototype(d)
    PROVE  Tabled'
<1>1. /\ d.what = "function" /\ ~d.defines /\ DeclareFunction(d)
      /\ ~AtFileScope /\ Visible(unit, d.name) # 0 => unit[Visible(unit, d.name)].what = "function"
      /\ blocks' = blocks /\ within' = within
  BY DEF Prototype
<1>2. Enters(within, within, FunctionId(d), d)
  BY <1>1 DEF Enters
<1>3. PICK r : FunctionTables(d, r, within)
  BY <1>1, <1>2, FunctionTabled
<1>4. Rows' = Rows \cup {r} /\ TablesAs(Rows', Usages', objects', functions', externs', statics', within')
  BY <1>1, <1>3 DEF FunctionTables
<1> QED
  BY <1>1, <1>4 DEF Tabled, Hosts

LEMMA BeginFunctionTabled ==
    ASSUME Reads, Reads', Tabled, NamesApart, NEW d \in alphabet.items, BeginFunction(d)
    PROVE  Tabled'
<1>1. d.what = "function" /\ AtFileScope /\ DeclareFunction(d)
  BY DEF BeginFunction
<1>2. PICK z, id : z = Len(unit) + 1 /\ id = FunctionId(d)
  OBVIOUS
<1>3. FunctionRead(d, AFunction(id))
  BY <1>1, <1>2, DeclareFunctionIs
<1>4. ~Refused(d)
  BY <1>3 DEF FunctionRead
<1>5. blocks' = Append(blocks, z) /\ within' = id
  BY <1>2, <1>4 DEF BeginFunction, PushScope
<1>6. blocks \in Seq(Int) /\ Len(blocks) = 1 /\ z \in Int
  BY <1>1, <1>2, AtFileScopeIs, ReadsFacts
<1>7. Len(blocks') = 2 /\ blocks'[2] = z
  BY <1>5, <1>6, Appended
<1>8. within = 0
  BY <1>6 DEF Tabled, Hosts
<1>9. Enters(within, id, FunctionId(d), d)
  BY <1>2, <1>8 DEF Enters
<1>10. PICK r : FunctionTables(d, r, id)
  BY <1>1, <1>9, FunctionTabled
<1>11. /\ r.at = z /\ r.x = AFunction(id) /\ r \in Rows'
       /\ TablesAs(Rows', Usages', objects', functions', externs', statics', within')
  BY <1>2, <1>5, <1>10 DEF FunctionTables
<1>12. Hosts(Rows', blocks', within')
  <2>1. \E q \in Rows' : q.at = blocks'[2] /\ q.x = AFunction(within')
    BY <1>5, <1>7, <1>11
  <2> QED
    BY <1>7, <2>1 DEF Hosts
<1> QED
  BY <1>11, <1>12 DEF Tabled

(* Functions in the table stay what they are but for their bodies.         *)
BodiesSet(fs, f2, w, w2) ==
    /\ DOMAIN f2 = DOMAIN fs
    /\ \A i \in DOMAIN fs : SameFlags(f2[i], fs[i]) /\ f2[i].uses = fs[i].uses
    /\ \A i \in DOMAIN fs : fs[i].body \/ i = w => f2[i].body \/ i = w2

LEMMA BodiesSetTabled ==
    ASSUME Reads, Tabled, UNCHANGED <<unit, means, objects, externs, statics>>,
           BodiesSet(functions, functions', within, within'), Hosts(Rows, blocks', within')
    PROVE  Tabled'
<1>1. TablesAs(Rows, Usages, objects, functions, externs, statics, within)
  BY DEF Tabled
<1>2. Rows' = Rows /\ Usages' = Usages /\ objects' = objects /\ externs' = externs /\ statics' = statics
  BY DEF Rows, Usages
<1>3. Consistent(Rows, Usages, Len(objects), Len(functions)) /\ DOMAIN functions = 1 .. Len(functions)
  BY RowsConsistent, ReadsFacts
<1>4. /\ DOMAIN functions' = DOMAIN functions
      /\ \A i \in DOMAIN functions : SameFlags(functions'[i], functions[i])
      /\ \A i \in DOMAIN functions : functions[i].body \/ i = within => functions'[i].body \/ i = within'
  BY DEF BodiesSet
<1>5. FunctionsAs(Rows, functions', within')
  BY <1>1, <1>3, <1>4, FunctionsStay DEF TablesAs
<1>6. SameUses(functions, functions', within, within')
  BY DEF BodiesSet, SameUses
<1>7. UsesAs(Rows, Usages, functions', statics, within')
  <2>1. UsesAs(Rows, Usages, functions, statics, within)
    BY <1>1 DEF TablesAs
  <2>2. Rows \subseteq Rows
    OBVIOUS
  <2> QED
    BY <1>3, <1>6, <2>1, <2>2, UsesKept
<1> QED
  BY <1>1, <1>2, <1>5, <1>7 DEF Tabled, TablesAs

LEMMA SetBody ==
    ASSUME functions \in Seq(FunctionRow), within \in DOMAIN functions,
           functions' = [functions EXCEPT ![within].body = TRUE]
    PROVE  BodiesSet(functions, functions', within, 0)
<1>1. PICK w, r : w = within /\ r = [functions[w] EXCEPT !.body = TRUE]
  OBVIOUS
<1>2. functions' = [functions EXCEPT ![w] = r]
  BY <1>1
<1>3. functions[w] \in FunctionRow
  BY <1>1
<1>4. /\ r \in FunctionRow /\ SameFlags(r, functions[w]) /\ r.uses = functions[w].uses /\ r.body = TRUE
  BY <1>1, <1>3 DEF FunctionRow, SameFlags
<1>5. /\ DOMAIN functions' = DOMAIN functions /\ functions'[w] = r
      /\ \A i \in DOMAIN functions : i # w => functions'[i] = functions[i]
  BY <1>1, <1>2, <1>4, SequenceUpdate
<1>6. ASSUME NEW i \in DOMAIN functions
      PROVE  /\ SameFlags(functions'[i], functions[i]) /\ functions'[i].uses = functions[i].uses
             /\ functions[i].body \/ i = within => functions'[i].body
  <2>1. CASE i = w
    BY <1>4, <1>5, <2>1
  <2>2. CASE i # w
    BY <1>1, <1>5, <2>2 DEF SameFlags
  <2> QED
    BY <2>1, <2>2
<1> QED
  BY <1>5, <1>6 DEF BodiesSet

LEMMA EndFunctionTabled ==
    ASSUME Reads, Tabled, EndFunction
    PROVE  Tabled'
<1>1. /\ blocks' = Front(blocks) /\ UNCHANGED <<unit, means, objects, externs, statics>>
      /\ functions' = [functions EXCEPT ![within].body = TRUE] /\ within' = 0 /\ Len(blocks) = 2
  BY DEF EndFunction, PopScope
<1>2. functions \in Seq(FunctionRow) /\ within \in DOMAIN functions /\ blocks \in Seq(Int) /\ Len(blocks) >= 1
  BY <1>1, ReadsFacts
<1>3. BodiesSet(functions, functions', within, within')
  BY <1>1, <1>2, SetBody
<1>4. Len(blocks') = 1
  <2>1. Len(Front(blocks)) = Len(blocks) - 1
    BY <1>2, Fronted
  <2> QED
    BY <1>1, <2>1
<1>5. Hosts(Rows, blocks', within')
  BY <1>1, <1>4 DEF Hosts
<1> QED
  BY <1>1, <1>3, <1>5, BodiesSetTabled

(* Scopes within a body.                                                   *)
LEMMA ScopesTabled ==
    ASSUME Tabled, UNCHANGED <<unit, means, objects, functions, externs, statics, within>>,
           Len(blocks) >= 2 /\ Len(blocks') >= 2 /\ blocks'[2] = blocks[2], Len(blocks') # 1
    PROVE  Tabled'
<1>1. Rows' = Rows /\ Usages' = Usages
  BY DEF Rows, Usages
<1> QED
  BY <1>1 DEF Tabled, Hosts

LEMMA BlocksTabled ==
    ASSUME Reads, Tabled, OpenBlock \/ OpenStatement \/ Close
    PROVE  Tabled'
<1>0. PICK t : t = Len(blocks)
  OBVIOUS
<1>1. /\ UNCHANGED <<unit, means, objects, functions, externs, statics, within>>
      /\ blocks \in Seq(Int) /\ Len(unit) \in Nat /\ t \in Nat /\ t >= 2
  BY <1>0, ReadsFacts DEF OpenBlock, OpenStatement, Close, tables
<1>2. Len(blocks') >= 2 /\ blocks'[2] = blocks[2] /\ Len(blocks') # 1
  <2>1. CASE OpenBlock \/ OpenStatement
    <3>1. PICK z \in Int : blocks' = Append(blocks, z)
      BY <1>1, <2>1 DEF OpenBlock, OpenStatement, PushScope, PushStatement
    <3>2. Len(blocks') = t + 1 /\ \A i \in 1 .. t : blocks'[i] = blocks[i]
      BY <1>0, <1>1, <3>1, Appended
    <3> QED
      BY <1>1, <3>2
  <2>2. CASE Close
    <3>1. blocks' = Front(blocks) /\ t > 2
      BY <1>0, <2>2 DEF Close, PopScope
    <3>2. Len(blocks') = t - 1 /\ \A i \in 1 .. t - 1 : blocks'[i] = blocks[i]
      <4>1. Len(blocks) >= 1
        BY <1>0, <1>1
      <4>2. /\ Len(Front(blocks)) = Len(blocks) - 1
            /\ \A i \in 1 .. Len(blocks) - 1 : Front(blocks)[i] = blocks[i]
        BY <1>1, <4>1, Fronted
      <4> QED
        BY <1>0, <3>1, <4>2
    <3> QED
      BY <1>1, <3>1, <3>2
  <2> QED
    BY <2>1, <2>2
<1> QED
  BY <1>0, <1>1, <1>2, ScopesTabled

LEMMA EndUnitTabled ==
    ASSUME Reads, Tabled, EndUnit
    PROVE  Tabled'
<1>1. /\ functions' = [id \in DOMAIN functions |-> Classified(functions[id])]
      /\ UNCHANGED <<unit, means, objects, externs, statics>> /\ blocks' = blocks /\ within' = within
  BY DEF EndUnit, cvars
<1>2. functions \in Seq(FunctionRow) /\ \A i \in DOMAIN functions : functions[i] \in FunctionRow
  BY ReadsFacts
<1>3. ASSUME NEW f \in FunctionRow
      PROVE  SameFlags(Classified(f), f) /\ Classified(f).uses = f.uses /\ Classified(f).body = f.body
  BY DEF Classified, FunctionRow, SameFlags
<1>4. BodiesSet(functions, functions', within, within')
  BY <1>1, <1>2, <1>3 DEF BodiesSet
<1>5. Hosts(Rows, blocks', within')
  BY <1>1 DEF Tabled
<1> QED
  BY <1>1, <1>4, <1>5, BodiesSetTabled

LEMMA SameTabled ==
    ASSUME Tabled, UNCHANGED <<unit, blocks, means, objects, functions, externs, statics, within>>
    PROVE  Tabled'
<1>1. Rows' = Rows /\ Usages' = Usages
  BY DEF Rows, Usages
<1> QED
  BY <1>1 DEF Tabled

LEMMA NextTabled ==
    ASSUME Reads, Reads', NamesApart, Tabled, [Next]_vars
    PROVE  Tabled'
<1>1. CASE UNCHANGED vars
  <2>1. UNCHANGED <<unit, blocks, means, objects, functions, externs, statics, within>>
    BY <1>1 DEF vars, cvars, sema, tables
  <2> QED
    BY <2>1, SameTabled
<1>2. CASE Next
  <2>1. CASE \E d \in alphabet.items : Write(d)
    <3>1. PICK d \in alphabet.items : Write(d)
      BY <2>1
    <3>2. ASSUME Assemble(d) PROVE Tabled'
      <4>1. UNCHANGED <<unit, blocks, means, objects, functions, externs, statics, within>>
        BY <3>2 DEF Assemble, cvars
      <4> QED
        BY <4>1, SameTabled
    <3> QED
      BY <3>1, <3>2, DeclareStaticTabled, DeclareAutomaticTabled, DeclareExternTabled,
         DeclareConstantTabled, DeclareTypedefTabled, PrototypeTabled, BeginFunctionTabled,
         MentionTabled DEF Write
  <2>2. CASE EndFunction \/ OpenBlock \/ OpenStatement \/ Close \/ EndUnit
    BY <2>2, EndFunctionTabled, BlocksTabled, EndUnitTabled
  <2>3. CASE Walk
    <3>1. UNCHANGED <<unit, blocks, means, objects, functions, externs, statics, within>>
      BY <2>3 DEF Walk, cvars, sema, tables
    <3> QED
      BY <3>1, SameTabled
  <2> QED
    BY <1>2, <2>1, <2>2, <2>3 DEF Next
<1> QED
  BY <1>1, <1>2

-----------------------------------------------------------------------------
(* The finished unit, told of what was declared.                           *)
LinkedRow(r, n) == r.d.link # "none" /\ r.d.name = n
HasRow(n, link) == \E r \in Rows : LinkedRow(r, n) /\ r.d.link = link
DefiningRow(n, what) == \E r \in Rows : LinkedRow(r, n) /\ r.d.what = what /\ r.d.defines
DefinedRow(n) ==
    \/ DefiningRow(n, "function")
    \/ \E r \in Rows : LinkedRow(r, n) /\ r.d.what = "object" /\ r.d.storage # "extern"
InlineRow(n) ==
    /\ HasRow(n, "external") /\ DefiningRow(n, "function")
    /\ \A r \in Rows : LinkedRow(r, n) /\ r.d.what = "function" /\ r.d.scope = FileScope =>
           r.d.inline /\ r.d.storage # "extern"

LEMMA UnitRows ==
    ASSUME NEW n
    PROVE  /\ \A link : Has(n, link) <=> HasRow(n, link)
           /\ \A what : Defining(n, what) # {} <=> DefiningRow(n, what)
           /\ Defined(n) <=> DefinedRow(n)
           /\ InlineDefinition(n) <=> InlineRow(n)
           /\ n \in ExternalDefinitions <=> HasRow(n, "external") /\ DefinedRow(n) /\ ~InlineRow(n)
<1>1. /\ \A j \in DOMAIN unit : Declares(unit[j]) => \E r \in Rows : r.d = unit[j] /\ r.at = j
      /\ \A r \in Rows : r.at \in DOMAIN unit /\ Declares(unit[r.at]) /\ r.d = unit[r.at]
  BY RowIs DEF Rows
<1>2. /\ \A j : j \in DOMAIN unit /\ Linked(unit[j]) /\ unit[j].name = n =>
             \E r \in Rows : LinkedRow(r, n) /\ r.d = unit[j]
      /\ \A r \in Rows : LinkedRow(r, n) =>
             r.at \in DOMAIN unit /\ Linked(unit[r.at]) /\ unit[r.at].name = n /\ r.d = unit[r.at]
  BY <1>1 DEF LinkedRow, Linked
<1>3. \A link : Has(n, link) <=> HasRow(n, link)
  BY <1>2 DEF Has, HasRow
<1>4. \A what : Defining(n, what) # {} <=> DefiningRow(n, what)
  BY <1>2 DEF Defining, Of, DefiningRow
<1>5. Defined(n) <=> DefinedRow(n)
  <2>1. (\E j \in Of(n, "object") : unit[j].storage # "extern") <=>
            \E r \in Rows : LinkedRow(r, n) /\ r.d.what = "object" /\ r.d.storage # "extern"
    BY <1>2 DEF Of
  <2> QED
    BY <1>4, <2>1 DEF Defined, DefinedRow
<1>6. InlineDefinition(n) <=> InlineRow(n)
  <2>1. (\A j \in {i \in Of(n, "function") : unit[i].scope = FileScope} :
            unit[j].inline /\ unit[j].storage # "extern") <=>
         \A r \in Rows : LinkedRow(r, n) /\ r.d.what = "function" /\ r.d.scope = FileScope =>
            r.d.inline /\ r.d.storage # "extern"
    BY <1>2 DEF Of
  <2> QED
    BY <1>3, <1>4, <2>1 DEF InlineDefinition, InlineRow
<1>7. HasRow(n, "external") => n \in Names
  BY <1>2 DEF HasRow, Names
<1> QED
  BY <1>3, <1>4, <1>5, <1>6, <1>7 DEF ExternalDefinitions

(* The tables once the unit has ended.                                     *)
FlagSet(f) ==
    f.inline_only <=> f.body /\ ~f.is_static /\ f.is_inline /\ f.all_inline /\ ~f.any_extern
EndState(fs) ==
    /\ ObjectsAs(Rows, objects) /\ FunctionsAs(Rows, fs, 0) /\ StaticsAs(Rows, objects, externs, statics)
    /\ UsesAs(Rows, Usages, fs, statics, 0)
    /\ Consistent(Rows, Usages, Len(objects), Len(fs))
    /\ DOMAIN fs = 1 .. Len(fs) /\ DOMAIN objects = 1 .. Len(objects)
    /\ objects \in Seq(ObjectRow) /\ fs \in Seq(FunctionRow)
    /\ \A id \in DOMAIN fs :
           /\ FlagSet(fs[id])
           /\ fs[id].body => \E r \in Rows : r.x = AFunction(id) /\ r.d.defines

FunctionEnds(r, f) ==
    LET n == r.d.name
    IN  /\ f.name = n /\ r.d.entity = <<n, 0>> /\ LinkedRow(r, n)
        /\ f.body <=> DefinedRow(n)
        /\ f.is_static <=> HasRow(n, "internal")
        /\ f.is_static <=> ~HasRow(n, "external")
        /\ f.inline_only <=> InlineRow(n)

LEMMA LinkedRows ==
    ASSUME NEW fs, EndState(fs), NEW r \in Rows, r.d.link # "none"
    PROVE  /\ r.d.entity = <<r.d.name, 0>> /\ r.d.link \in {"internal", "external"}
           /\ \A link : HasRow(r.d.name, link) <=> link = r.d.link /\ link # "none"
           /\ \A q \in Rows : LinkedRow(q, r.d.name) <=> q.x = r.x
           /\ \A q \in Rows : q.x = r.x => q.d.link = r.d.link /\ q.d.what = r.d.what /\ q.d.name = r.d.name
<1>1. Consistent(Rows, Usages, Len(objects), Len(fs))
  BY DEF EndState
<1>2. r.d \in DeclarationEntry /\ r.d.entity = EntityAt(r.d, r.at)
  BY <1>1 DEF Consistent
<1>3. \A q \in Rows : q.x = r.x => q.d.link = r.d.link /\ q.d.what = r.d.what /\ q.d.name = r.d.name
  BY <1>1 DEF Consistent
<1>4. \A q \in Rows : q.d.link # "none" /\ q.d.name = r.d.name => q.x = r.x
  BY <1>1 DEF Consistent
<1>5. \A q \in Rows : LinkedRow(q, r.d.name) <=> q.x = r.x
  BY <1>3, <1>4 DEF LinkedRow
<1>6. \A link : HasRow(r.d.name, link) <=> link = r.d.link /\ link # "none"
  BY <1>3, <1>5 DEF HasRow, LinkedRow
<1> QED
  BY <1>2, <1>3, <1>5, <1>6 DEF DeclarationEntry, EntityAt

LEMMA FunctionEndsAs ==
    ASSUME NEW fs, EndState(fs), NEW r \in Rows, r.d.what = "function"
    PROVE  FunctionEnds(r, fs[r.x[2]])
<1>0. PICK n, id, f : n = r.d.name /\ id = r.x[2] /\ f = fs[id]
  OBVIOUS
<1>1. /\ Consistent(Rows, Usages, Len(objects), Len(fs)) /\ FunctionsAs(Rows, fs, 0)
      /\ DOMAIN fs = 1 .. Len(fs)
  BY DEF EndState
<1>2. /\ id \in DOMAIN fs /\ r.d.link # "none" /\ r.x \in Denotation /\ r.x[1] = "function" /\ id # 0
  BY <1>0, <1>1 DEF Consistent, Local
<1>3. r.x = AFunction(id)
  BY <1>0, <1>2 DEF AFunction, Denotation
<1>4. /\ r.d.entity = <<n, 0>> /\ r.d.link \in {"internal", "external"}
      /\ \A link : HasRow(n, link) <=> link = r.d.link /\ link # "none"
      /\ \A q \in Rows : LinkedRow(q, n) <=> q.x = r.x
      /\ \A q \in Rows : q.x = r.x => q.d.link = r.d.link /\ q.d.what = "function" /\ q.d.name = n
  BY <1>0, <1>2, LinkedRows
<1>5. \A q \in Rows : q.x = r.x => FunctionAs(Rows, q, f, 0) /\ q.x[2] # 0
  BY <1>0, <1>1, <1>2, <1>4 DEF FunctionsAs
<1>6. FlagSet(f) /\ (f.body => \E q \in Rows : q.x = r.x /\ q.d.defines)
  BY <1>0, <1>2, <1>3 DEF EndState
<1>7. f.body <=> \E q \in Rows : q.x = r.x /\ q.d.defines
  BY <1>5, <1>6 DEF FunctionAs
<1>8. DefiningRow(n, "function") <=> \E q \in Rows : q.x = r.x /\ q.d.defines
  BY <1>4 DEF DefiningRow
<1>9. DefinedRow(n) <=> DefiningRow(n, "function")
  BY <1>4 DEF DefinedRow
<1>10. f.name = n /\ (f.is_static <=> r.d.link = "internal")
  BY <1>0, <1>5 DEF FunctionAs
<1>11. (f.all_inline <=> AllInline(Rows, r.x)) /\ (f.any_extern <=> AnyExtern(Rows, r.x))
  BY <1>5 DEF FunctionAs
<1>12. InlineRow(n) <=> ~f.is_static /\ f.body /\ f.all_inline /\ ~f.any_extern
  BY <1>4, <1>7, <1>8, <1>10, <1>11 DEF InlineRow, AllInline, AnyExtern
<1>13. f.body /\ f.all_inline => f.is_inline
  <2>1. SUFFICES ASSUME f.body, f.all_inline PROVE f.is_inline
    OBVIOUS
  <2>2. PICK q \in Rows : q.x = r.x /\ q.d.defines
    BY <1>7, <2>1
  <2>3. q.d.scope = FileScope /\ (q.d.inline => f.is_inline)
    BY <1>5, <2>2 DEF FunctionAs
  <2> QED
    BY <1>11, <2>1, <2>2, <2>3 DEF AllInline
<1>14. f.inline_only <=> InlineRow(n)
  BY <1>6, <1>12, <1>13 DEF FlagSet
<1> QED
  BY <1>0, <1>2, <1>4, <1>7, <1>8, <1>9, <1>10, <1>14 DEF FunctionEnds, LinkedRow

ObjectEnds(r, o) ==
    LET n == r.d.name
    IN  /\ o.name = n /\ r.x = AnObject(r.x[2]) /\ r.x[2] \in DOMAIN objects
        /\ r.d.link \in {"none", "internal", "external"}
        /\ r.d.link = "none" => o.storage \in {"static", "automatic"}
        /\ r.d.link = "internal" => o.storage = "static" /\ ~HasRow(n, "external")
        /\ r.d.link = "external" =>
               /\ HasRow(n, "external")
               /\ o.storage = "exported" <=> DefinedRow(n)
               /\ o.storage = "extern" <=> ~DefinedRow(n)
        /\ r.d.link # "none" => r.d.entity = <<n, 0>> /\ LinkedRow(r, n) /\ ~InlineRow(n)

LEMMA ObjectEndsAs ==
    ASSUME NEW fs, EndState(fs), NEW r \in Rows, r.d.what = "object"
    PROVE  ObjectEnds(r, objects[r.x[2]])
<1>0. PICK n, id, o : n = r.d.name /\ id = r.x[2] /\ o = objects[id]
  OBVIOUS
<1>1. /\ Consistent(Rows, Usages, Len(objects), Len(fs)) /\ ObjectsAs(Rows, objects)
      /\ DOMAIN objects = 1 .. Len(objects)
  BY DEF EndState
<1>2. /\ id \in DOMAIN objects /\ r.x \in Denotation /\ r.x[1] = "object"
      /\ r.d.link \in {"none", "internal", "external"}
  BY <1>0, <1>1 DEF Consistent, DeclarationEntry
<1>3. r.x = AnObject(id)
  BY <1>0, <1>2 DEF AnObject, Denotation
<1>4. ObjectAs(Rows, r, o)
  BY <1>0, <1>1 DEF ObjectsAs
<1>5. ASSUME r.d.link # "none"
      PROVE  /\ r.d.entity = <<n, 0>> /\ LinkedRow(r, n) /\ ~InlineRow(n)
             /\ HasRow(n, "external") <=> r.d.link = "external"
             /\ DefinedRow(n) <=> ~DeclaredElsewhere(Rows, r.x)
  <2>1. /\ r.d.entity = <<n, 0>>
        /\ \A link : HasRow(n, link) <=> link = r.d.link /\ link # "none"
        /\ \A q \in Rows : LinkedRow(q, n) <=> q.x = r.x
        /\ \A q \in Rows : q.x = r.x => q.d.what = "object"
    BY <1>0, <1>5, LinkedRows
  <2>2. ~DefiningRow(n, "function")
    BY <2>1 DEF DefiningRow
  <2>3. DefinedRow(n) <=> ~DeclaredElsewhere(Rows, r.x)
    BY <2>1, <2>2 DEF DefinedRow, DeclaredElsewhere
  <2> QED
    BY <1>0, <1>5, <2>1, <2>2, <2>3 DEF InlineRow, LinkedRow
<1>6. r.d.link = "external" => (o.storage = "exported" <=> DefinedRow(n)) /\ (o.storage = "extern" <=> ~DefinedRow(n))
  BY <1>4, <1>5 DEF ObjectAs
<1>7. r.d.link = "none" => o.storage \in {"static", "automatic"}
  BY <1>4 DEF ObjectAs
<1>8. o.name = n /\ (r.d.link = "internal" => o.storage = "static")
  BY <1>0, <1>4 DEF ObjectAs
<1> QED
  BY <1>0, <1>2, <1>3, <1>5, <1>6, <1>7, <1>8 DEF ObjectEnds

-----------------------------------------------------------------------------
(* What is needed: the least set of entities that has what is asked for    *)
(* and what those that it has use.                                         *)
Entities == {r.d.entity : r \in Rows \cup Usages}
Follows(es) == \A q \in Usages : q.d.from \in es => q.d.entity \in es

LEMMA NeededIs ==
    ASSUME NEW named
    PROVE  /\ Needed(named) = {e \in Entities :
                 \A es \in SUBSET Entities : Asked(named) \subseteq es /\ Follows(es) => e \in es}
           /\ Asked(named) = {<<n, 0>> : n \in ExternalDefinitions}
                               \cup {r.d.entity : r \in {q \in Rows \cup Usages : q.d.name \in named}}
<1>1. /\ \A j \in DOMAIN unit : \E r \in Rows \cup Usages : r.d = unit[j] /\ (~Declares(unit[j]) => r \in Usages)
      /\ \A r \in Rows \cup Usages : r.at \in DOMAIN unit /\ r.d = unit[r.at]
      /\ \A r \in Usages : ~Declares(unit[r.at])
  BY RowIs DEF Rows, Usages
<1>2. Entities = {unit[j].entity : j \in DOMAIN unit}
  BY <1>1 DEF Entities
<1>3. \A es : Follows(es) <=>
          \A j \in DOMAIN unit : ~Declares(unit[j]) /\ unit[j].from \in es => unit[j].entity \in es
  BY <1>1 DEF Follows
<1>4. {r.d.entity : r \in {q \in Rows \cup Usages : q.d.name \in named}} =
          {unit[j].entity : j \in {i \in DOMAIN unit : unit[i].name \in named}}
  BY <1>1
<1>5. Asked(named) = {<<n, 0>> : n \in ExternalDefinitions}
                       \cup {r.d.entity : r \in {q \in Rows \cup Usages : q.d.name \in named}}
  BY <1>4 DEF Asked
<1>6. PICK ask : ask = Asked(named)
  OBVIOUS
<1>7. Needed(named) = {e \in Entities :
          \A es \in SUBSET Entities : ask \subseteq es /\ Follows(es) => e \in es}
  BY <1>2, <1>3, <1>6 DEF Needed
<1> QED
  BY <1>5, <1>6, <1>7

LEMMA NeededClosed ==
    ASSUME NEW named
    PROVE  /\ Follows(Needed(named))
           /\ \A e \in Asked(named) \cap Entities : e \in Needed(named)
           /\ \A es \in SUBSET Entities : Asked(named) \subseteq es /\ Follows(es) => Needed(named) \subseteq es
<1>1. Needed(named) = {e \in Entities :
          \A es \in SUBSET Entities : Asked(named) \subseteq es /\ Follows(es) => e \in es}
  BY NeededIs
<1>2. \A q \in Usages : q.d.entity \in Entities
  BY DEF Entities
<1> QED
  BY <1>1, <1>2 DEF Follows

-----------------------------------------------------------------------------
(* The walk of reach.rs.                                                   *)
IsReach(r) == r = [at |-> r.at, functions |-> r.functions, objects |-> r.objects, work |-> r.work]
HasReached(r, e) == (e[1] = "function" => e[2] \in r.functions) /\ (e[1] = "object" => e[2] \in r.objects)
NewWork(r, r2, table, w) ==
    \/ \E i \in r2.functions \ r.functions : w = AFunction(i) /\ table[i].body
    \/ \E i \in r2.objects \ r.objects : w = AnObject(i) /\ i \in StaticObjects
SeenMore(r, r2, table, entries) ==
    /\ IsReach(r2) /\ r2.at = r.at
    /\ \A i : i \in r2.functions <=> i \in r.functions \/ \E e \in entries : e[1] = "function" /\ i = e[2]
    /\ \A i : i \in r2.objects <=> i \in r.objects \/ \E e \in entries : e[1] = "object" /\ i = e[2]
    /\ \A w : w \in r2.work <=> w \in r.work \/ NewWork(r, r2, table, w)

LEMMA SeenIs ==
    ASSUME NEW r, IsReach(r), NEW table, NEW entries
    PROVE  SeenMore(r, Seen(r, table, entries), table, entries)
<1>1. PICK fs, os : /\ fs = {e[2] : e \in {x \in entries : x[1] = "function"}} \ r.functions
                    /\ os = {e[2] : e \in {x \in entries : x[1] = "object"}} \ r.objects
  OBVIOUS
<1>2. PICK ws : ws = {AFunction(id) : id \in {i \in fs : table[i].body}}
                       \cup {AnObject(id) : id \in os \cap StaticObjects}
  OBVIOUS
<1>3. Seen(r, table, entries) = [r EXCEPT !.functions = @ \cup fs, !.objects = @ \cup os,
          !.work = r.work \cup {AFunction(id) : id \in {i \in fs : table[i].body}}
                          \cup {AnObject(id) : id \in os \cap StaticObjects}]
  BY <1>1 DEF Seen
<1>4. PICK r2 : r2 = Seen(r, table, entries)
  OBVIOUS
<1>5. r2 = [at |-> r.at, functions |-> r.functions \cup fs, objects |-> r.objects \cup os, work |-> r.work \cup ws]
  BY <1>2, <1>3, <1>4 DEF IsReach
<1>6. /\ IsReach(r2) /\ r2.at = r.at /\ r2.functions = r.functions \cup fs
      /\ r2.objects = r.objects \cup os /\ r2.work = r.work \cup ws
  BY <1>5 DEF IsReach
<1>7. r2.functions \ r.functions = fs /\ r2.objects \ r.objects = os
  BY <1>1, <1>6
<1>8. \A w : w \in ws <=> NewWork(r, r2, table, w)
  BY <1>2, <1>7 DEF NewWork
<1>9. /\ \A i : i \in fs <=> i \notin r.functions /\ \E e \in entries : e[1] = "function" /\ i = e[2]
      /\ \A i : i \in os <=> i \notin r.objects /\ \E e \in entries : e[1] = "object" /\ i = e[2]
  BY <1>1
<1>10. /\ \A i : i \in r2.functions <=> i \in r.functions \/ \E e \in entries : e[1] = "function" /\ i = e[2]
       /\ \A i : i \in r2.objects <=> i \in r.objects \/ \E e \in entries : e[1] = "object" /\ i = e[2]
       /\ \A w : w \in r2.work <=> w \in r.work \/ NewWork(r, r2, table, w)
  BY <1>6, <1>8, <1>9
<1>11. SeenMore(r, r2, table, entries)
  BY <1>6, <1>10 DEF SeenMore
<1> QED
  BY <1>4, <1>11

(* What is found in a body or an initialiser is used by it.                *)
FoundAs(D, U, item, e) == \E q \in U, r \in D : q.x = e /\ r.x = item /\ q.d.from = r.d.entity

LEMMA FoundUsed ==
    ASSUME UsesAs(Rows, Usages, functions, statics, within), NEW id
    PROVE  /\ id \in DOMAIN functions =>
                  \A e \in FoundIn(AFunction(id)) : FoundAs(Rows, Usages, AFunction(id), e)
           /\ \A e \in FoundIn(AnObject(id)) : FoundAs(Rows, Usages, AnObject(id), e)
<1>1. ASSUME id \in DOMAIN functions, NEW e \in FoundIn(AFunction(id))
      PROVE  FoundAs(Rows, Usages, AFunction(id), e)
  <2>1. PICK t \in functions[id].uses : t[1] = e
    BY <1>1 DEF FoundIn, Entries, AFunction
  <2>2. WrittenIn(Rows, Usages, t, AFunction(id))
    BY <1>1 DEF UsesAs
  <2> QED
    BY <2>1, <2>2 DEF WrittenIn, FoundAs
<1>2. ASSUME NEW e \in FoundIn(AnObject(id))
      PROVE  FoundAs(Rows, Usages, AnObject(id), e)
  <2>1. PICK t \in RefersTo(id) : t[1] = e
    BY <1>2 DEF FoundIn, Entries, AnObject
  <2>2. PICK k \in DOMAIN statics : statics[k].object = id /\ t \in statics[k].refers
    BY <2>1 DEF RefersTo
  <2>3. WrittenIn(Rows, Usages, t, AnObject(id))
    BY <2>2 DEF UsesAs
  <2> QED
    BY <2>1, <2>3 DEF WrittenIn, FoundAs
<1> QED
  BY <1>1, <1>2

(* What is asked for is needed.                                            *)
LEMMA RootsAsked ==
    ASSUME NEW fs, EndState(fs), NEW r \in Rows, r.x \in Roots(fs)
    PROVE  /\ r.d.entity \in Needed(templates)
           /\ r.x[1] = "function" => r.x[2] \in DOMAIN fs
<1>0. PICK n, id : n = r.d.name /\ id = r.x[2]
  OBVIOUS
<1>1. r.d.entity \in Entities
  BY DEF Entities
<1>2. n \in templates => r.d.entity \in Asked(templates)
  BY <1>0, NeededIs
<1>3. n \in ExternalDefinitions /\ r.d.entity = <<n, 0>> => r.d.entity \in Asked(templates)
  BY NeededIs
<1>4. Consistent(Rows, Usages, Len(objects), Len(fs)) /\ DOMAIN fs = 1 .. Len(fs)
  BY DEF EndState
<1>5. r.x[1] = r.d.what /\ (r.d.what = "function" => id \in DOMAIN fs)
  BY <1>0, <1>4 DEF Consistent
<1>6. CASE \E i \in DOMAIN fs : r.x = AFunction(i) /\ (LinkerSeesFunction(fs[i]) \/ fs[i].name \in templates)
  <2>1. r.d.what = "function" /\ (LinkerSeesFunction(fs[id]) \/ fs[id].name \in templates)
    BY <1>0, <1>5, <1>6 DEF AFunction
  <2>2. FunctionEnds(r, fs[id])
    BY <1>0, <2>1, FunctionEndsAs
  <2>3. LinkerSeesFunction(fs[id]) => n \in ExternalDefinitions /\ r.d.entity = <<n, 0>>
    BY <1>0, <2>2, UnitRows DEF FunctionEnds, LinkerSeesFunction
  <2> QED
    BY <1>0, <1>1, <1>2, <1>3, <1>5, <2>1, <2>2, <2>3, NeededClosed DEF FunctionEnds
<1>7. CASE \E i \in DOMAIN objects : /\ r.x = AnObject(i)
                                     /\ LinkerSeesObject(objects[i]) \/ objects[i].name \in templates
  <2>1. r.d.what = "object" /\ (LinkerSeesObject(objects[id]) \/ objects[id].name \in templates)
    BY <1>0, <1>5, <1>7 DEF AnObject
  <2>2. ObjectEnds(r, objects[id])
    BY <1>0, <2>1, ObjectEndsAs
  <2>3. LinkerSeesObject(objects[id]) => n \in ExternalDefinitions /\ r.d.entity = <<n, 0>>
    BY <1>0, <2>2, UnitRows DEF ObjectEnds, LinkerSeesObject
  <2> QED
    BY <1>0, <1>1, <1>2, <1>3, <1>5, <2>1, <2>2, <2>3, NeededClosed DEF ObjectEnds
<1> QED
  BY <1>6, <1>7 DEF Roots

Wanted(r) ==
    \A q \in Rows : q.x[1] \in {"function", "object"} /\ HasReached(r, q.x) => q.d.entity \in Needed(templates)
Followed(r, fs) ==
    /\ r.functions \subseteq DOMAIN fs
    /\ \A id \in r.functions : fs[id].body /\ AFunction(id) \notin r.work =>
           \A e \in FoundIn(AFunction(id)) : HasReached(r, e)
    /\ \A id \in r.objects : id \in StaticObjects /\ AnObject(id) \notin r.work =>
           \A e \in FoundIn(AnObject(id)) : HasReached(r, e)
    /\ \A w \in r.work : \E id : \/ w = AFunction(id) /\ id \in r.functions
                                 \/ w = AnObject(id) /\ id \in r.objects
Walked ==
    /\ IsReach(reach) /\ reach.at \in {"sema", "walk"}
    /\ reach.at = "sema" => reach.functions = {} /\ reach.objects = {} /\ reach.work = {}
    /\ reach.at = "walk" =>
           /\ MayEnd /\ EndState(functions)
           /\ \A e \in Roots(functions) : HasReached(reach, e)
           /\ Followed(reach, functions) /\ Wanted(reach)

(* One item taken from the work-list.                                      *)
LEMMA WalkFollows ==
    ASSUME EndState(functions), within = 0, Followed(reach, functions), Wanted(reach),
           NEW item \in reach.work, NEW r2, NEW r0,
           r0.at = reach.at, r0.functions = reach.functions, r0.objects = reach.objects,
           r0.work = reach.work \ {item}, SeenMore(r0, r2, functions, FoundIn(item))
    PROVE  Followed(r2, functions) /\ Wanted(r2) /\ \A e : HasReached(reach, e) => HasReached(r2, e)
<1>1. /\ \A i : i \in r2.functions <=> i \in reach.functions \/ \E e \in FoundIn(item) : e[1] = "function" /\ i = e[2]
      /\ \A i : i \in r2.objects <=> i \in reach.objects \/ \E e \in FoundIn(item) : e[1] = "object" /\ i = e[2]
      /\ \A w : w \in r2.work <=> (w \in reach.work /\ w # item) \/ NewWork(reach, r2, functions, w)
  BY DEF SeenMore, NewWork
<1>2. \A e : HasReached(reach, e) => HasReached(r2, e)
  BY <1>1 DEF HasReached
<1>3. \A e \in FoundIn(item) : HasReached(r2, e)
  BY <1>1 DEF HasReached
<1>4. UsesAs(Rows, Usages, functions, statics, within) /\ Consistent(Rows, Usages, Len(objects), Len(functions))
      /\ DOMAIN functions = 1 .. Len(functions)
  BY DEF EndState
<1>5. PICK id : \/ item = AFunction(id) /\ id \in reach.functions
                \/ item = AnObject(id) /\ id \in reach.objects
  BY DEF Followed
<1>6. \A e \in FoundIn(item) : FoundAs(Rows, Usages, item, e)
  BY <1>4, <1>5, FoundUsed DEF Followed
<1>7. HasReached(reach, item) /\ item[1] \in {"function", "object"}
  BY <1>5 DEF HasReached, AFunction, AnObject
<1>8. ASSUME NEW e \in FoundIn(item)
      PROVE  /\ e \in Denotation /\ (e[1] = "function" => e[2] \in DOMAIN functions)
             /\ \A r \in Rows : r.x = e => r.d.entity \in Needed(templates)
  <2>1. PICK q \in Usages, h \in Rows : q.x = e /\ h.x = item /\ q.d.from = h.d.entity
    BY <1>6 DEF FoundAs
  <2>2. h.d.entity \in Needed(templates)
    BY <1>7, <2>1 DEF Wanted
  <2>3. q.d.entity \in Needed(templates)
    BY <2>1, <2>2, NeededClosed DEF Follows
  <2>4. \A r \in Rows : r.x = e => r.d.entity = q.d.entity
    BY <1>4, <2>1 DEF Consistent
  <2>5. PICK r \in Rows : r.x = e
    BY <1>4, <2>1 DEF Consistent
  <2>6. r.x \in Denotation /\ (r.x[1] = "function" => r.x[2] \in DOMAIN functions)
    BY <1>4 DEF Consistent
  <2> QED
    BY <2>3, <2>4, <2>5, <2>6
<1>9. Wanted(r2)
  <2>1. SUFFICES ASSUME NEW r \in Rows, r.x[1] \in {"function", "object"}, HasReached(r2, r.x)
                 PROVE  r.d.entity \in Needed(templates)
    BY DEF Wanted
  <2>2. CASE HasReached(reach, r.x)
    BY <2>1, <2>2 DEF Wanted
  <2>3. CASE ~HasReached(reach, r.x)
    <3>1. PICK e \in FoundIn(item) : e[1] = r.x[1] /\ e[2] = r.x[2]
      BY <1>1, <2>1, <2>3 DEF HasReached
    <3>2. e \in Denotation /\ r.x \in Denotation
      BY <1>4, <1>8 DEF Consistent
    <3>3. e = r.x
      BY <3>1, <3>2 DEF Denotation
    <3> QED
      BY <1>8, <3>3
  <2> QED
    BY <2>2, <2>3
<1>10. r2.functions \subseteq DOMAIN functions
  BY <1>1, <1>8 DEF Followed
<1>11. ASSUME NEW i \in r2.functions, functions[i].body, AFunction(i) \notin r2.work
       PROVE  \A e \in FoundIn(AFunction(i)) : HasReached(r2, e)
  <2>1. i \in reach.functions
    BY <1>1, <1>11 DEF NewWork
  <2>2. CASE AFunction(i) = item
    BY <1>3, <2>2
  <2>3. CASE AFunction(i) # item
    BY <1>1, <1>2, <1>11, <2>1, <2>3 DEF Followed
  <2> QED
    BY <2>2, <2>3
<1>12. ASSUME NEW i \in r2.objects, i \in StaticObjects, AnObject(i) \notin r2.work
       PROVE  \A e \in FoundIn(AnObject(i)) : HasReached(r2, e)
  <2>1. i \in reach.objects
    BY <1>1, <1>12 DEF NewWork
  <2>2. CASE AnObject(i) = item
    BY <1>3, <2>2
  <2>3. CASE AnObject(i) # item
    BY <1>1, <1>2, <1>12, <2>1, <2>3 DEF Followed
  <2> QED
    BY <2>2, <2>3
<1>13. ASSUME NEW w \in r2.work
       PROVE  \E i : \/ w = AFunction(i) /\ i \in r2.functions
                     \/ w = AnObject(i) /\ i \in r2.objects
  <2>1. CASE w \in reach.work
    BY <1>1, <2>1 DEF Followed
  <2>2. CASE NewWork(reach, r2, functions, w)
    BY <2>2 DEF NewWork
  <2> QED
    BY <1>1, <2>1, <2>2
<1>14. Followed(r2, functions)
  BY <1>10, <1>11, <1>12, <1>13 DEF Followed
<1> QED
  BY <1>2, <1>9, <1>14

LEMMA UnitKept ==
    ASSUME unit' = unit, blocks' = blocks, templates' = templates
    PROVE  Needed(templates)' = Needed(templates) /\ (MayEnd' <=> MayEnd)
<1>1. \A n, what : Of(n, what)' = Of(n, what)
  BY DEF Of
<1>2. \A n, what : Defining(n, what)' = Defining(n, what)
  BY <1>1 DEF Defining
<1>3. \A n, link : Has(n, link)' <=> Has(n, link)
  BY DEF Has
<1>4. \A n : Defined(n)' <=> Defined(n)
  BY <1>1, <1>2 DEF Defined
<1>5. \A n : InlineDefinition(n)' <=> InlineDefinition(n)
  BY <1>1, <1>2, <1>3 DEF InlineDefinition
<1>6. Names' = Names
  BY DEF Names
<1>7. ExternalDefinitions' = ExternalDefinitions
  BY <1>3, <1>4, <1>5, <1>6 DEF ExternalDefinitions
<1>8. Asked(templates)' = Asked(templates)
  BY <1>7 DEF Asked
<1>9. Needed(templates)' = Needed(templates)
  BY <1>8 DEF Needed
<1>10. MayEnd' <=> MayEnd
  BY <1>3, <1>4 DEF MayEnd, AtFileScope, Scope
<1> QED
  BY <1>9, <1>10

(* What Walked says of a reach r, when the rest of the state has the       *)
(* functions fs.                                                           *)
WalkedTo(r, fs) ==
    /\ IsReach(r) /\ r.at = "walk" /\ MayEnd /\ EndState(fs)
    /\ \A e \in Roots(fs) : HasReached(r, e)
    /\ r.functions \subseteq DOMAIN fs
    /\ \A id \in r.functions : fs[id].body /\ AFunction(id) \notin r.work =>
           \A e \in Entries(fs[id].uses) : HasReached(r, e)
    /\ \A id \in r.objects : id \in StaticObjects /\ AnObject(id) \notin r.work =>
           \A e \in Entries(RefersTo(id)) : HasReached(r, e)
    /\ \A w \in r.work : \E id : \/ w = AFunction(id) /\ id \in r.functions
                                 \/ w = AnObject(id) /\ id \in r.objects
    /\ Wanted(r)

LEMMA WalkedToIs ==
    ASSUME IsReach(reach), reach.at = "walk"
    PROVE  Walked <=> WalkedTo(reach, functions)
<1>1. \A id : /\ FoundIn(AFunction(id)) = Entries(functions[id].uses)
              /\ FoundIn(AnObject(id)) = Entries(RefersTo(id))
  BY DEF FoundIn, AFunction, AnObject
<1> QED
  BY <1>1 DEF Walked, WalkedTo, Followed

LEMMA WalkedNext ==
    ASSUME UNCHANGED <<unit, blocks, means, objects, externs, statics, templates>>,
           WalkedTo(reach', functions')
    PROVE  Walked'
<1>1. /\ Rows' = Rows /\ Usages' = Usages /\ StaticObjects' = StaticObjects
      /\ unit' = unit /\ blocks' = blocks /\ means' = means /\ objects' = objects
      /\ externs' = externs /\ statics' = statics /\ templates' = templates
  BY DEF Rows, Usages, StaticObjects
<1>2. Needed(templates)' = Needed(templates) /\ (MayEnd' <=> MayEnd)
  BY <1>1, UnitKept
<1>3. EndState(functions') <=> EndState(functions)'
  BY <1>1 DEF EndState
<1>4. Roots(functions') = Roots(functions)'
  BY <1>1 DEF Roots
<1>5. Wanted(reach') <=> Wanted(reach)'
  BY <1>1, <1>2 DEF Wanted
<1>6. \A id : RefersTo(id)' = RefersTo(id)
  BY <1>1 DEF RefersTo
<1>7. \A id : /\ FoundIn(AFunction(id))' = Entries(functions'[id].uses)
              /\ FoundIn(AnObject(id))' = Entries(RefersTo(id))
  BY <1>6 DEF FoundIn, AFunction, AnObject
<1>8. Followed(reach, functions)'
  BY <1>1, <1>7 DEF Followed, WalkedTo
<1>9. \A e \in Roots(functions)' : HasReached(reach, e)'
  BY <1>4 DEF WalkedTo, HasReached
<1> QED
  BY <1>2, <1>3, <1>4, <1>5, <1>8, <1>9 DEF Walked, WalkedTo

LEMMA FileScopeOutside ==
    ASSUME Reads, Tabled, MayEnd
    PROVE  within = 0
<1>1. Len(blocks) = 1
  BY AtFileScopeIs, ReadsFacts DEF MayEnd
<1> QED
  BY <1>1 DEF Tabled, Hosts

LEMMA UnitEnds ==
    ASSUME Reads, Reads', Tabled, EndUnit
    PROVE  EndState(functions')
<1>1. /\ functions' = [id \in DOMAIN functions |-> Classified(functions[id])]
      /\ UNCHANGED <<unit, means, objects, externs, statics>> /\ within' = within /\ MayEnd
  BY DEF EndUnit, cvars
<1>2. within' = 0 /\ within = 0
  BY <1>1, FileScopeOutside
<1>3. Rows' = Rows /\ Usages' = Usages /\ objects' = objects /\ externs' = externs /\ statics' = statics
  BY <1>1 DEF Rows, Usages
<1>4. Tabled'
  BY EndUnitTabled
<1>5. /\ ObjectsAs(Rows, objects) /\ FunctionsAs(Rows, functions', 0) /\ StaticsAs(Rows, objects, externs, statics)
      /\ UsesAs(Rows, Usages, functions', statics, 0)
  BY <1>2, <1>3, <1>4 DEF Tabled, TablesAs
<1>6. Consistent(Rows, Usages, Len(objects), Len(functions'))
  BY <1>3, RowsConsistentNext
<1>7. /\ DOMAIN objects = 1 .. Len(objects) /\ objects \in Seq(ObjectRow) /\ functions \in Seq(FunctionRow)
      /\ Bodies(unit, means, functions, within)
  BY ReadsFacts
<1>8. functions' \in Seq(FunctionRow)
  BY DEF Reads, Read
<1>9. DOMAIN functions' = 1 .. Len(functions')
  BY <1>8
<1>10. \A f \in FunctionRow : FlagSet(Classified(f)) /\ Classified(f).body = f.body
  BY DEF FlagSet, Classified, FunctionRow
<1>11. ASSUME NEW id \in DOMAIN functions'
       PROVE  /\ FlagSet(functions'[id])
              /\ functions'[id].body => \E r \in Rows : r.x = AFunction(id) /\ r.d.defines
  <2>1. id \in DOMAIN functions /\ functions'[id] = Classified(functions[id]) /\ functions[id] \in FunctionRow
    BY <1>1, <1>7
  <2>2. functions'[id].body => Given(unit, means, AFunction(id))
    BY <1>7, <1>10, <2>1 DEF Bodies
  <2>3. Given(unit, means, AFunction(id)) => \E r \in Rows : r.x = AFunction(id) /\ r.d.defines
    BY RowIs DEF Given, Rows
  <2> QED
    BY <1>10, <2>1, <2>2, <2>3
<1> QED
  BY <1>5, <1>6, <1>7, <1>8, <1>9, <1>11 DEF EndState

LEMMA EndUnitWalked ==
    ASSUME Reads, Reads', Tabled, Walked, reach.at = "sema", EndUnit
    PROVE  Walked'
<1>1. PICK r0, table : r0 = [reach EXCEPT !.at = "walk"] /\ table = functions'
  OBVIOUS
<1>2. /\ reach' = Seen(r0, table, Roots(table)) /\ MayEnd
      /\ UNCHANGED <<unit, blocks, means, objects, externs, statics, templates>>
  BY <1>1 DEF EndUnit, cvars
<1>3. IsReach(reach) /\ reach.functions = {} /\ reach.objects = {} /\ reach.work = {}
  BY DEF Walked
<1>4. IsReach(r0) /\ r0.at = "walk" /\ r0.functions = {} /\ r0.objects = {} /\ r0.work = {}
  BY <1>1, <1>3 DEF IsReach
<1>5. SeenMore(r0, reach', table, Roots(table))
  BY <1>2, <1>4, SeenIs
<1>6. EndState(table)
  BY <1>1, UnitEnds
<1>7. /\ IsReach(reach') /\ reach'.at = "walk"
      /\ \A i : i \in reach'.functions <=> \E e \in Roots(table) : e[1] = "function" /\ i = e[2]
      /\ \A i : i \in reach'.objects <=> \E e \in Roots(table) : e[1] = "object" /\ i = e[2]
      /\ \A i \in reach'.functions : table[i].body => AFunction(i) \in reach'.work
      /\ \A i \in reach'.objects : i \in StaticObjects => AnObject(i) \in reach'.work
      /\ \A w \in reach'.work : \E id : \/ w = AFunction(id) /\ id \in reach'.functions
                                        \/ w = AnObject(id) /\ id \in reach'.objects
  BY <1>4, <1>5 DEF SeenMore, NewWork
<1>8. \A e \in Roots(table) : HasReached(reach', e)
  BY <1>7 DEF HasReached
<1>9. \A e \in Roots(table) : e \in {AFunction(i) : i \in DOMAIN table} \cup {AnObject(i) : i \in DOMAIN objects}
  BY DEF Roots
<1>10. reach'.functions \subseteq DOMAIN table
  BY <1>7, <1>9 DEF AFunction, AnObject
<1>11. Wanted(reach')
  <2>1. SUFFICES ASSUME NEW r \in Rows, r.x[1] \in {"function", "object"}, HasReached(reach', r.x)
                 PROVE  r.d.entity \in Needed(templates)
    BY DEF Wanted
  <2>2. PICK e \in Roots(table) : e[1] = r.x[1] /\ e[2] = r.x[2]
    BY <1>7, <2>1 DEF HasReached
  <2>3. r.x \in Denotation
    BY <1>6 DEF EndState, Consistent
  <2>4. e = r.x
    BY <1>9, <2>2, <2>3 DEF AFunction, AnObject, Denotation
  <2> QED
    BY <1>6, <2>4, RootsAsked
<1>12. WalkedTo(reach', table)
  BY <1>2, <1>6, <1>7, <1>8, <1>10, <1>11 DEF WalkedTo
<1> QED
  BY <1>1, <1>2, <1>12, WalkedNext

LEMMA WalkWalked ==
    ASSUME Reads, Tabled, Walked, Walk
    PROVE  Walked'
<1>1. /\ reach.at = "walk" /\ IsReach(reach) /\ MayEnd /\ EndState(functions)
      /\ \A e \in Roots(functions) : HasReached(reach, e)
      /\ Followed(reach, functions) /\ Wanted(reach)
  BY DEF Walk, Walked
<1>2. PICK item \in reach.work :
          reach' = Seen([reach EXCEPT !.work = @ \ {item}], functions, FoundIn(item))
  BY DEF Walk
<1>3. PICK r0 : r0 = [reach EXCEPT !.work = @ \ {item}]
  OBVIOUS
<1>4. /\ IsReach(r0) /\ r0.at = reach.at /\ r0.functions = reach.functions /\ r0.objects = reach.objects
      /\ r0.work = reach.work \ {item}
  BY <1>1, <1>3 DEF IsReach
<1>5. SeenMore(r0, reach', functions, FoundIn(item))
  BY <1>2, <1>3, <1>4, SeenIs
<1>6. within = 0
  BY <1>1, FileScopeOutside
<1>7. Followed(reach', functions) /\ Wanted(reach') /\ \A e : HasReached(reach, e) => HasReached(reach', e)
  <2>1. PICK r2 : r2 = reach'
    OBVIOUS
  <2> QED
    BY <1>1, <1>4, <1>5, <1>6, <2>1, WalkFollows
<1>8. IsReach(reach') /\ reach'.at = "walk"
  BY <1>1, <1>4, <1>5 DEF SeenMore
<1>9. \A id : /\ FoundIn(AFunction(id)) = Entries(functions[id].uses)
              /\ FoundIn(AnObject(id)) = Entries(RefersTo(id))
  BY DEF FoundIn, AFunction, AnObject
<1>10. WalkedTo(reach', functions)
  BY <1>1, <1>7, <1>8, <1>9 DEF WalkedTo, Followed
<1>11. UNCHANGED <<unit, blocks, means, objects, externs, statics, templates>> /\ functions' = functions
  BY DEF Walk, cvars, sema, tables
<1> QED
  BY <1>10, <1>11, WalkedNext

LEMMA InitWalked ==
    ASSUME Init
    PROVE  Walked
<1>1. reach = [at |-> "sema", functions |-> {}, objects |-> {}, work |-> {}]
  BY DEF Init
<1> QED
  BY <1>1 DEF Walked, IsReach

LEMMA NextWalked ==
    ASSUME Reads, Reads', Tabled, Walked, [Next]_vars
    PROVE  Walked'
<1>1. CASE UNCHANGED vars
  <2>1. /\ UNCHANGED <<unit, blocks, means, objects, externs, statics, templates>>
        /\ reach' = reach /\ functions' = functions
    BY <1>1 DEF vars, cvars, sema, tables
  <2>2. CASE reach.at = "sema"
    BY <2>1, <2>2 DEF Walked
  <2>3. CASE reach.at = "walk"
    <3>1. IsReach(reach)
      BY DEF Walked
    <3>2. WalkedTo(reach, functions)
      BY <2>3, <3>1, WalkedToIs
    <3>3. WalkedTo(reach', functions')
      BY <2>1, <3>2
    <3> QED
      BY <2>1, <3>3, WalkedNext
  <2> QED
    BY <2>2, <2>3 DEF Walked
<1>2. CASE reach.at = "sema" /\ reach' = reach
  BY <1>2 DEF Walked
<1>3. CASE reach.at = "sema" /\ EndUnit
  BY <1>3, EndUnitWalked
<1>4. CASE Walk
  BY <1>4, WalkWalked
<1> QED
  BY <1>1, <1>2, <1>3, <1>4 DEF Next

-----------------------------------------------------------------------------
(* The object file, when nothing is left to walk.                          *)
Ended ==
    /\ MayEnd /\ EndState(functions) /\ reach.work = {}
    /\ \A e \in Roots(functions) : HasReached(reach, e)
    /\ Followed(reach, functions) /\ Wanted(reach)

LEMMA WalkedEnds ==
    ASSUME Walked, Done
    PROVE  Ended
  BY DEF Walked, Done, Ended

(* A name in a generated item is a use in something that was reached, of   *)
(* what was declared and has been reached.                                 *)
Generated(x) ==
    \/ \E id \in FunctionItems : x = AFunction(id)
    \/ \E k \in StaticItems : x = AnObject(statics[k].object)
TokenOf(t, q, r, p) ==
    /\ q.x = t[1] /\ q.d.what = t[2] /\ q.d.from = r.d.entity
    /\ Generated(r.x) /\ p.x = t[1]

LEMMA TokenRows ==
    ASSUME Ended, NEW t \in Tokens
    PROVE  HasReached(reach, t[1]) /\ \E q \in Usages, r \in Rows, p \in Rows : TokenOf(t, q, r, p)
<1>1. /\ UsesAs(Rows, Usages, functions, statics, 0) /\ Followed(reach, functions) /\ reach.work = {}
      /\ Consistent(Rows, Usages, Len(objects), Len(functions))
  BY DEF Ended, EndState
<1>2. \A q \in Usages : \E p \in Rows : p.x = q.x
  BY <1>1 DEF Consistent
<1>3. CASE \E id \in FunctionItems : t \in functions[id].uses
  <2>1. PICK id \in FunctionItems : t \in functions[id].uses
    BY <1>3
  <2>2. id \in reach.functions /\ functions[id].body /\ id \in DOMAIN functions
    BY <1>1, <2>1 DEF FunctionItems, Followed
  <2>3. t[1] \in FoundIn(AFunction(id))
    BY <2>1 DEF FoundIn, Entries, AFunction
  <2>4. HasReached(reach, t[1])
    BY <1>1, <2>2, <2>3 DEF Followed
  <2>5. WrittenIn(Rows, Usages, t, AFunction(id))
    BY <1>1, <2>1, <2>2 DEF UsesAs
  <2>6. Generated(AFunction(id))
    BY <2>1 DEF Generated
  <2> QED
    BY <1>2, <2>4, <2>5, <2>6 DEF WrittenIn, TokenOf
<1>4. CASE \E k \in StaticItems : t \in statics[k].refers
  <2>1. PICK k \in StaticItems : t \in statics[k].refers
    BY <1>4
  <2>2. PICK id : id = statics[k].object
    OBVIOUS
  <2>3. id \in reach.objects /\ k \in DOMAIN statics /\ id \in StaticObjects
    BY <2>1, <2>2 DEF StaticItems, StaticObjects
  <2>4. t[1] \in FoundIn(AnObject(id))
    <3>1. t \in RefersTo(id)
      BY <2>1, <2>2, <2>3 DEF RefersTo
    <3> QED
      BY <3>1 DEF FoundIn, Entries, AnObject
  <2>5. HasReached(reach, t[1])
    BY <1>1, <2>3, <2>4 DEF Followed
  <2>6. WrittenIn(Rows, Usages, t, AnObject(id))
    BY <1>1, <2>1, <2>2, <2>3 DEF UsesAs
  <2>7. Generated(AnObject(id))
    BY <2>1, <2>2 DEF Generated
  <2> QED
    BY <1>2, <2>5, <2>6, <2>7 DEF WrittenIn, TokenOf
<1> QED
  BY <1>3, <1>4 DEF Tokens

(* What a name in a generated item is, if it is a function or an object.   *)
FunctionToken(t, id) ==
    /\ id \in DOMAIN functions /\ id \in reach.functions
    /\ functions[id].inline_only => functions[id].body
    /\ \E p \in Rows : p.x = t[1] /\ FunctionEnds(p, functions[id])
ObjectToken(t, id) ==
    /\ id \in DOMAIN objects /\ id \in reach.objects
    /\ objects[id].storage \in {"automatic", "static", "extern", "exported"}
    /\ \E p \in Rows : p.x = t[1] /\ ObjectEnds(p, objects[id])

LEMMA TokenIs ==
    ASSUME Ended, NEW t \in Tokens
    PROVE  /\ t[1][1] = "function" => FunctionToken(t, t[1][2]) /\ t[1] = AFunction(t[1][2])
           /\ t[1][1] = "object" => ObjectToken(t, t[1][2]) /\ t[1] = AnObject(t[1][2])
<1>1. EndState(functions)
  BY DEF Ended
<1>2. Consistent(Rows, Usages, Len(objects), Len(functions)) /\ DOMAIN functions = 1 .. Len(functions)
      /\ DOMAIN objects = 1 .. Len(objects) /\ objects \in Seq(ObjectRow)
  BY <1>1 DEF EndState
<1>3. PICK p \in Rows : p.x = t[1]
  BY TokenRows DEF TokenOf
<1>4. HasReached(reach, t[1])
  BY TokenRows
<1>5. /\ p.x \in Denotation /\ p.x[1] = p.d.what
      /\ p.d.what = "object" => p.x[2] \in DOMAIN objects
      /\ p.d.what = "function" => p.x[2] \in DOMAIN functions
  BY <1>2 DEF Consistent
<1>6. p.x = <<p.x[1], p.x[2]>>
  BY <1>5 DEF Denotation
<1>7. CASE t[1][1] = "function"
  <2>1. t[1] = AFunction(t[1][2]) /\ t[1][2] \in reach.functions
    BY <1>3, <1>4, <1>6, <1>7 DEF AFunction, HasReached
  <2>2. FunctionEnds(p, functions[p.x[2]])
    BY <1>1, <1>3, <1>5, <1>7, FunctionEndsAs
  <2>3. functions[p.x[2]].inline_only => functions[p.x[2]].body
    BY <1>1, <1>3, <1>5, <1>7 DEF EndState, FlagSet
  <2> QED
    BY <1>3, <1>5, <1>7, <2>1, <2>2, <2>3 DEF FunctionToken
<1>8. CASE t[1][1] = "object"
  <2>1. t[1] = AnObject(t[1][2]) /\ t[1][2] \in reach.objects
    BY <1>3, <1>4, <1>6, <1>8 DEF AnObject, HasReached
  <2>2. ObjectEnds(p, objects[p.x[2]])
    BY <1>1, <1>3, <1>5, <1>8, ObjectEndsAs
  <2>3. objects[p.x[2]] \in ObjectRow
    BY <1>2, <1>3, <1>5, <1>8
  <2>4. objects[p.x[2]].storage \in {"automatic", "static", "extern", "exported"}
    BY <2>3 DEF ObjectRow
  <2> QED
    BY <1>3, <1>5, <1>8, <2>1, <2>2, <2>4 DEF ObjectToken
<1> QED
  BY <1>7, <1>8

LEMMA StaticReached ==
    ASSUME Ended, NEW id \in reach.objects, Static(objects, id)
    PROVE  \E k \in StaticItems : statics[k].object = id
<1>1. StaticsAs(Rows, objects, externs, statics)
  BY DEF Ended, EndState
<1>2. PICK k \in DOMAIN statics : statics[k].object = id
  BY <1>1 DEF StaticsAs
<1> QED
  BY <1>2 DEF StaticItems

(* What the unit defines has an item, if others see it or an `asm` names it.*)
Sought(n) == n \in ExternalDefinitions \/ n \in templates

LEMMA FunctionReached ==
    ASSUME Ended, NEW r \in Rows, r.d.what = "function", DefinedRow(r.d.name), Sought(r.d.name)
    PROVE  \E id \in FunctionItems : r.x = AFunction(id) /\ FunctionEnds(r, functions[id])
<1>0. PICK n, id : n = r.d.name /\ id = r.x[2]
  OBVIOUS
<1>1. /\ EndState(functions) /\ \A e \in Roots(functions) : HasReached(reach, e)
      /\ Consistent(Rows, Usages, Len(objects), Len(functions)) /\ DOMAIN functions = 1 .. Len(functions)
  BY DEF Ended, EndState
<1>2. id \in DOMAIN functions /\ r.x = AFunction(id)
  BY <1>0, <1>1 DEF Consistent, Denotation, AFunction
<1>3. FunctionEnds(r, functions[id])
  BY <1>0, <1>1, FunctionEndsAs
<1>4. functions[id].body /\ (LinkerSeesFunction(functions[id]) \/ functions[id].name \in templates)
  BY <1>0, <1>3, UnitRows DEF FunctionEnds, LinkerSeesFunction, Sought
<1>5. AFunction(id) \in Roots(functions)
  BY <1>2, <1>4 DEF Roots
<1>6. id \in reach.functions
  BY <1>1, <1>5 DEF HasReached, AFunction
<1> QED
  BY <1>2, <1>3, <1>4, <1>6 DEF FunctionItems

LEMMA ObjectReached ==
    ASSUME Ended, NEW r \in Rows, r.d.what = "object", r.d.link # "none", DefinedRow(r.d.name), Sought(r.d.name)
    PROVE  \E k \in StaticItems : r.x = AnObject(statics[k].object) /\ ObjectEnds(r, objects[statics[k].object])
<1>0. PICK n, id : n = r.d.name /\ id = r.x[2]
  OBVIOUS
<1>1. /\ EndState(functions) /\ \A e \in Roots(functions) : HasReached(reach, e)
      /\ Consistent(Rows, Usages, Len(objects), Len(functions))
      /\ StaticsAs(Rows, objects, externs, statics)
  BY DEF Ended, EndState
<1>2. ObjectEnds(r, objects[id])
  BY <1>0, <1>1, ObjectEndsAs
<1>3. id \in DOMAIN objects /\ r.x = AnObject(id) /\ objects[id].name = n
  BY <1>0, <1>2 DEF ObjectEnds
<1>4. objects[id].storage = "exported" \/ (objects[id].storage = "static" /\ ~HasRow(n, "external"))
  BY <1>0, <1>2 DEF ObjectEnds
<1>5. Static(objects, id)
  BY <1>3, <1>4 DEF Static
<1>6. LinkerSeesObject(objects[id]) \/ objects[id].name \in templates
  BY <1>0, <1>3, <1>4, UnitRows DEF LinkerSeesObject, Sought
<1>7. id \in StaticObjects
  BY <1>1, <1>5 DEF StaticsAs, StaticObjects
<1>8. AnObject(id) \in Roots(functions)
  BY <1>3, <1>4, <1>6, <1>7 DEF Roots
<1>9. id \in reach.objects
  BY <1>1, <1>8 DEF HasReached, AnObject
<1> QED
  BY <1>2, <1>3, <1>5, <1>9, StaticReached

LEMMA EndedClosed ==
    ASSUME Ended
    PROVE  Closed
<1>1. ASSUME NEW t \in Tokens, t[1][1] = "function"
      PROVE  t[1][2] \in ExternFunctions \cup
                 {id \in FunctionItems : ~functions[id].inline_only \/ t[2] = "call"}
  <2>1. PICK id : id = t[1][2]
    OBVIOUS
  <2>2. FunctionToken(t, id) /\ t[1] = AFunction(id)
    BY <1>1, <2>1, TokenIs
  <2>3. CASE functions[id].body /\ (~functions[id].inline_only \/ t[2] = "call")
    BY <2>1, <2>2, <2>3 DEF FunctionItems, FunctionToken
  <2>4. CASE ~functions[id].body \/ (functions[id].inline_only /\ t[2] # "call")
    <3>1. ~Private(t[1], t[2])
      BY <2>1, <2>2, <2>4 DEF Private, FunctionToken
    <3> QED
      BY <2>1, <2>2, <2>4, <3>1 DEF ExternFunctions, FunctionToken
  <2> QED
    BY <2>2, <2>3, <2>4
<1>2. ASSUME NEW t \in Tokens, t[1][1] = "object"
      PROVE  \/ objects[t[1][2]].storage = "automatic"
             \/ t[1][2] \in ExternObjects \cup {statics[k].object : k \in StaticItems}
  <2>1. PICK id : id = t[1][2]
    OBVIOUS
  <2>2. ObjectToken(t, id) /\ t[1] = AnObject(id)
    BY <1>2, <2>1, TokenIs
  <2>3. CASE objects[id].storage = "extern"
    <3>1. id \in externs
      BY <2>2, <2>3 DEF Ended, EndState, StaticsAs, ObjectToken
    <3> QED
      BY <2>1, <2>2, <3>1 DEF ExternObjects
  <2>4. CASE objects[id].storage \in {"static", "exported"}
    <3>1. Static(objects, id) /\ id \in reach.objects
      BY <2>2, <2>4 DEF Static, ObjectToken
    <3> QED
      BY <2>1, <3>1, StaticReached
  <2> QED
    BY <2>1, <2>2, <2>3, <2>4 DEF ObjectToken
<1>3. ASSUME NEW n \in templates, Defining(n, "function") # {}
      PROVE  \E id \in FunctionItems : functions[id].name = n
  <2>1. PICK r \in Rows : LinkedRow(r, n) /\ r.d.what = "function" /\ r.d.defines
    BY <1>3, UnitRows DEF DefiningRow
  <2>2. DefinedRow(n) /\ Sought(n) /\ r.d.name = n
    BY <1>3, <2>1 DEF DefinedRow, DefiningRow, Sought, LinkedRow
  <2> QED
    BY <2>1, <2>2, FunctionReached DEF FunctionEnds
<1>4. ASSUME NEW n \in templates, Of(n, "object") # {}, Defined(n)
      PROVE  \E k \in StaticItems : objects[statics[k].object].name = n
  <2>1. \E r \in Rows : LinkedRow(r, n) /\ r.d.what = "object"
    <3>1. PICK j \in DOMAIN unit : unit[j].what = "object" /\ unit[j].name = n /\ Linked(unit[j])
      BY <1>4 DEF Of
    <3> QED
      BY <3>1, RowIs DEF Rows, LinkedRow, Linked
  <2>2. PICK r \in Rows : LinkedRow(r, n) /\ r.d.what = "object"
    BY <2>1
  <2>3. DefinedRow(n) /\ Sought(n) /\ r.d.name = n /\ r.d.link # "none"
    BY <1>4, <2>2, UnitRows DEF Sought, LinkedRow
  <2> QED
    BY <2>2, <2>3, ObjectReached DEF ObjectEnds
<1> QED
  BY <1>1, <1>2, <1>3, <1>4 DEF Closed

(* The tables are those of the unit, and the walk reaches what is needed.  *)
LEMMA SpecWalked ==
    ASSUME NamesApart
    PROVE  Spec => []Walked
<1> DEFINE IInv == Reads /\ Tabled /\ Walked
<1>1. Init => IInv
  BY InitReads, InitTabled, InitWalked
<1>2. IInv /\ [Next]_vars => IInv'
  <2>1. ASSUME Reads, [Next]_vars PROVE Reads'
    <3>1. ASSUME UNCHANGED vars PROVE Reads'
      BY <2>1, <3>1 DEF vars, cvars, sema, tables, Reads, Read
    <3> QED
      BY <2>1, <3>1, NextReads
  <2>2. ASSUME Reads, Tabled, [Next]_vars PROVE Tabled'
    BY <2>1, <2>2, NextTabled
  <2>3. ASSUME Reads, Tabled, Walked, [Next]_vars PROVE Walked'
    BY <2>1, <2>3, NextWalked
  <2> QED
    BY <2>1, <2>2, <2>3
<1>3. IInv => Walked
  OBVIOUS
<1> QED
  BY <1>1, <1>2, <1>3, PTL DEF Spec

(* What is left out of the object file is never missed: every name in a    *)
(* generated item has an item or a declaration, and so has every           *)
(* definition an `asm` names.                                              *)
THEOREM ClosedHolds ==
    ASSUME NamesApart
    PROVE  Spec => []Closed
<1>1. Walked => Closed
  <2>1. Walked /\ Done => Closed
    BY WalkedEnds, EndedClosed
  <2> QED
    BY <2>1 DEF Closed
<1>2. Spec => []Walked
  BY SpecWalked
<1> QED
  BY <1>1, <1>2, PTL

-----------------------------------------------------------------------------
(* The symbols of the object file.                                         *)
LEMMA EndedExports ==
    ASSUME Ended
    PROVE  Exported = ExternalDefinitions
<1>1. /\ EndState(functions) /\ Followed(reach, functions)
      /\ Consistent(Rows, Usages, Len(objects), Len(functions))
      /\ ObjectsAs(Rows, objects) /\ FunctionsAs(Rows, functions, 0)
      /\ StaticsAs(Rows, objects, externs, statics)
  BY DEF Ended, EndState
<1>2. \A r \in Rows : r.x[1] = r.d.what
  BY <1>1 DEF Consistent
<1>3. ASSUME NEW id \in FunctionItems, LinkerSeesFunction(functions[id])
      PROVE  functions[id].name \in ExternalDefinitions
  <2>1. id \in DOMAIN functions
    BY <1>1 DEF FunctionItems, Followed
  <2>2. PICK r \in Rows : r.x = AFunction(id)
    BY <1>1, <2>1 DEF FunctionsAs
  <2>3. FunctionEnds(r, functions[id])
    BY <1>1, <1>2, <2>2, FunctionEndsAs DEF AFunction
  <2> QED
    BY <1>3, <2>3, UnitRows DEF FunctionEnds, LinkerSeesFunction
<1>4. ASSUME NEW k \in StaticItems, LinkerSeesObject(objects[statics[k].object])
      PROVE  objects[statics[k].object].name \in ExternalDefinitions
  <2>1. PICK id : id = statics[k].object
    OBVIOUS
  <2>2. id \in DOMAIN objects
    BY <1>1, <2>1 DEF StaticItems, StaticsAs, Static
  <2>3. PICK r \in Rows : r.x = AnObject(id)
    BY <1>1, <2>2 DEF ObjectsAs
  <2>4. ObjectEnds(r, objects[id])
    BY <1>1, <1>2, <2>3, ObjectEndsAs DEF AnObject
  <2>5. objects[id].storage = "exported"
    BY <1>4, <2>1 DEF LinkerSeesObject
  <2>6. r.d.link = "external"
    BY <2>4, <2>5 DEF ObjectEnds
  <2> QED
    BY <2>1, <2>4, <2>5, <2>6, UnitRows DEF ObjectEnds
<1>5. ASSUME NEW n \in ExternalDefinitions
      PROVE  n \in Exported
  <2>1. HasRow(n, "external") /\ DefinedRow(n) /\ ~InlineRow(n) /\ Sought(n)
    BY <1>5, UnitRows DEF Sought
  <2>2. CASE DefiningRow(n, "function")
    <3>1. PICK r \in Rows : LinkedRow(r, n) /\ r.d.what = "function"
      BY <2>2 DEF DefiningRow
    <3>2. PICK id \in FunctionItems : FunctionEnds(r, functions[id])
      BY <2>1, <3>1, FunctionReached DEF LinkedRow
    <3>3. functions[id].name = n /\ LinkerSeesFunction(functions[id])
      BY <2>1, <3>1, <3>2 DEF LinkedRow, FunctionEnds, LinkerSeesFunction
    <3> QED
      BY <3>3 DEF Exported
  <2>3. CASE \E r \in Rows : LinkedRow(r, n) /\ r.d.what = "object"
    <3>1. PICK r \in Rows : LinkedRow(r, n) /\ r.d.what = "object"
      BY <2>3
    <3>2. r.d.link # "none" /\ r.d.name = n
      BY <3>1 DEF LinkedRow
    <3>3. PICK k \in StaticItems : ObjectEnds(r, objects[statics[k].object])
      BY <2>1, <3>1, <3>2, ObjectReached
    <3>4. r.d.link = "external"
      BY <1>1, <2>1, <3>2, LinkedRows
    <3>5. objects[statics[k].object].name = n /\ LinkerSeesObject(objects[statics[k].object])
      BY <2>1, <3>2, <3>3, <3>4 DEF ObjectEnds, LinkerSeesObject
    <3> QED
      BY <3>5 DEF Exported
  <2> QED
    BY <2>1, <2>2, <2>3 DEF DefinedRow
<1> QED
  BY <1>3, <1>4, <1>5 DEF Exported

(* What is needed is reached, but for a function's own objects, which its  *)
(* body has with it.                                                       *)
Automatic(x) == x[1] = "object" /\ objects[x[2]].storage = "automatic"
Found(x) == HasReached(reach, x) \/ Automatic(x)

LEMMA NamedFound ==
    ASSUME Ended, NEW p \in Rows, p.d.name \in templates
    PROVE  Found(p.x)
<1>0. PICK n, id : n = p.d.name /\ id = p.x[2]
  OBVIOUS
<1>1. /\ EndState(functions) /\ \A e \in Roots(functions) : HasReached(reach, e)
      /\ Consistent(Rows, Usages, Len(objects), Len(functions)) /\ DOMAIN functions = 1 .. Len(functions)
  BY DEF Ended, EndState
<1>2. p.x \in Denotation /\ p.x[1] = p.d.what
  BY <1>1 DEF Consistent
<1>3. CASE p.d.what = "function"
  <2>1. id \in DOMAIN functions /\ p.x = AFunction(id)
    BY <1>0, <1>1, <1>2, <1>3 DEF Consistent, Denotation, AFunction
  <2>2. functions[id].name \in templates
    BY <1>0, <1>1, <1>3, FunctionEndsAs DEF FunctionEnds
  <2>3. AFunction(id) \in Roots(functions)
    BY <2>1, <2>2 DEF Roots
  <2> QED
    BY <1>1, <2>1, <2>3 DEF Found
<1>4. CASE p.d.what = "object"
  <2>1. id \in DOMAIN objects /\ p.x = AnObject(id) /\ objects[id].name \in templates
    BY <1>0, <1>1, <1>4, ObjectEndsAs DEF ObjectEnds
  <2>2. objects[id].storage # "automatic" => AnObject(id) \in Roots(functions)
    BY <2>1 DEF Roots
  <2> QED
    BY <1>1, <2>1, <2>2 DEF Found, Automatic, AnObject
<1> QED
  BY <1>2, <1>3, <1>4 DEF Found, HasReached

(* What uses a name is generated, when it is reached.                      *)
LEMMA UserGenerated ==
    ASSUME Ended, NEW q \in Usages, NEW r \in Rows, UsedBy(functions, statics, q, r), Found(r.x)
    PROVE  <<q.x, q.d.what>> \in Tokens
<1>1. /\ UsesAs(Rows, Usages, functions, statics, 0) /\ StaticsAs(Rows, objects, externs, statics)
      /\ Consistent(Rows, Usages, Len(objects), Len(functions)) /\ DOMAIN functions = 1 .. Len(functions)
  BY DEF Ended, EndState
<1>2. CASE r.d.what = "function" /\ <<q.x, q.d.what>> \in functions[r.x[2]].uses
  <2>1. PICK id : id = r.x[2]
    OBVIOUS
  <2>2. id \in DOMAIN functions /\ id # 0 /\ r.x[1] = "function"
    BY <1>1, <1>2, <2>1 DEF Consistent
  <2>3. functions[id].body
    BY <1>1, <1>2, <2>1, <2>2 DEF UsesAs
  <2>4. id \in FunctionItems
    BY <2>1, <2>2, <2>3 DEF Found, Automatic, HasReached, FunctionItems
  <2> QED
    BY <1>2, <2>1, <2>4 DEF Tokens
<1>3. CASE \E k \in DOMAIN statics : r.x = AnObject(statics[k].object) /\ <<q.x, q.d.what>> \in statics[k].refers
  <2>1. PICK k \in DOMAIN statics : r.x = AnObject(statics[k].object) /\ <<q.x, q.d.what>> \in statics[k].refers
    BY <1>3
  <2>2. objects[statics[k].object].storage # "automatic"
    BY <1>1 DEF StaticsAs, Static
  <2>3. k \in StaticItems
    BY <2>1, <2>2 DEF Found, Automatic, HasReached, StaticItems, AnObject
  <2> QED
    BY <2>1, <2>3 DEF Tokens
<1> QED
  BY <1>2, <1>3 DEF UsedBy

FoundEntities == {p.d.entity : p \in {q \in Rows \cup Usages : Found(q.x)}}

LEMMA FoundFollows ==
    ASSUME Ended
    PROVE  Follows(FoundEntities)
<1>1. /\ UsesAs(Rows, Usages, functions, statics, 0)
      /\ Consistent(Rows, Usages, Len(objects), Len(functions))
  BY DEF Ended, EndState
<1>2. SUFFICES ASSUME NEW q \in Usages, q.d.from \in FoundEntities
               PROVE  q.d.entity \in FoundEntities
  BY DEF Follows
<1>3. Found(q.x) => q.d.entity \in FoundEntities
  BY DEF FoundEntities
<1>4. CASE q.x[1] \notin {"object", "function"}
  BY <1>3, <1>4 DEF Found, HasReached
<1>5. CASE q.x[1] \in {"object", "function"}
  <2>1. PICK r \in Rows : q.d.from = r.d.entity /\ UsedBy(functions, statics, q, r)
    BY <1>1, <1>5 DEF UsesAs, UseAs
  <2>2. PICK p \in Rows \cup Usages : p.d.entity = r.d.entity /\ Found(p.x)
    BY <1>2, <2>1 DEF FoundEntities
  <2>3. p.x = r.x
    BY <1>1, <2>2 DEF Consistent
  <2>4. <<q.x, q.d.what>> \in Tokens
    BY <2>1, <2>2, <2>3, UserGenerated
  <2>5. HasReached(reach, q.x)
    <3>1. PICK t : t = <<q.x, q.d.what>>
      OBVIOUS
    <3>2. HasReached(reach, t[1])
      BY <2>4, <3>1, TokenRows
    <3> QED
      BY <3>1, <3>2
  <2> QED
    BY <1>3, <2>5 DEF Found
<1> QED
  BY <1>4, <1>5

LEMMA AskedFound ==
    ASSUME Ended
    PROVE  Asked(templates) \subseteq FoundEntities
<1>1. /\ EndState(functions) /\ UsesAs(Rows, Usages, functions, statics, 0)
      /\ Consistent(Rows, Usages, Len(objects), Len(functions))
  BY DEF Ended, EndState
<1>2. \A p \in Rows \cup Usages : Found(p.x) => p.d.entity \in FoundEntities
  BY DEF FoundEntities
<1>3. ASSUME NEW n \in ExternalDefinitions
      PROVE  <<n, 0>> \in FoundEntities
  <2>1. DefinedRow(n) /\ Sought(n)
    BY <1>3, UnitRows DEF Sought
  <2>2. PICK r \in Rows : LinkedRow(r, n) /\ r.d.what \in {"function", "object"}
    BY <2>1 DEF DefinedRow, DefiningRow
  <2>3. r.d.link # "none" /\ r.d.name = n
    BY <2>2 DEF LinkedRow
  <2>4. r.d.entity = <<n, 0>>
    BY <1>1, <2>3, LinkedRows
  <2>5. ASSUME r.d.what = "function" PROVE Found(r.x)
    <3>1. PICK id \in FunctionItems : r.x = AFunction(id)
      BY <2>1, <2>3, <2>5, FunctionReached
    <3> QED
      BY <3>1 DEF FunctionItems, Found, HasReached, AFunction
  <2>6. ASSUME r.d.what = "object" PROVE Found(r.x)
    <3>1. PICK k \in StaticItems : r.x = AnObject(statics[k].object)
      BY <2>1, <2>3, <2>6, ObjectReached
    <3> QED
      BY <3>1 DEF StaticItems, Found, HasReached, AnObject
  <2> QED
    BY <1>2, <2>2, <2>4, <2>5, <2>6
<1>4. ASSUME NEW q \in Rows \cup Usages, q.d.name \in templates
      PROVE  q.d.entity \in FoundEntities
  <2>1. CASE q \in Rows
    BY <1>2, <1>4, <2>1, NamedFound
  <2>2. CASE q \in Usages
    <3>1. PICK p \in Rows : p.x = q.x
      BY <1>1, <2>2 DEF Consistent
    <3>2. p.d.entity = q.d.entity /\ p.d.entity = EntityAt(p.d, p.at)
      BY <1>1, <3>1 DEF Consistent
    <3>3. q.d.entity[1] = q.d.name
      BY <1>1, <2>2 DEF UsesAs, UseAs
    <3>4. p.d.name = q.d.name
      BY <3>2, <3>3 DEF EntityAt
    <3> QED
      BY <1>2, <1>4, <3>1, <3>4, NamedFound
  <2> QED
    BY <2>1, <2>2
<1> QED
  BY <1>3, <1>4, NeededIs

LEMMA NeededFound ==
    ASSUME Ended, NEW r \in Rows, r.d.entity \in Needed(templates)
    PROVE  Found(r.x)
<1>1. Consistent(Rows, Usages, Len(objects), Len(functions))
  BY DEF Ended, EndState
<1>2. FoundEntities \in SUBSET Entities
  BY DEF FoundEntities, Entities
<1>3. Needed(templates) \subseteq FoundEntities
  BY <1>2, AskedFound, FoundFollows, NeededClosed
<1>4. PICK p \in Rows \cup Usages : p.d.entity = r.d.entity /\ Found(p.x)
  BY <1>3 DEF FoundEntities
<1>5. p.x = r.x
  BY <1>1, <1>4 DEF Consistent
<1> QED
  BY <1>4, <1>5

(* The names the unit takes from others, told of its uses.                 *)
TakenAs(q) ==
    /\ q.d.from \in Needed(templates) /\ q.d.entity = <<q.d.name, 0>>
    /\ HasRow(q.d.name, "external") /\ (~DefinedRow(q.d.name) \/ InlineRow(q.d.name))
    /\ ~(q.d.what = "call" /\ InlineRow(q.d.name))

LEMMA TakenIs == Taken(templates) = {q.d.name : q \in {p \in Usages : TakenAs(p)}}
<1>1. \A j \in DOMAIN unit : ~Declares(unit[j]) =>
          \E q \in Usages : q.d = unit[j]
  BY RowIs DEF Usages
<1>2. \A q \in Usages : q.d \in Range(unit) /\ ~Declares(q.d)
  BY RowIs DEF Usages, Range
<1>3. \A v \in Range(unit) : \E j \in DOMAIN unit : v = unit[j]
  BY DEF Range
<1>4. \A n : /\ Has(n, "external") <=> HasRow(n, "external")
             /\ InlineDefinition(n) <=> InlineRow(n)
             /\ n \in ExternalDefinitions <=> HasRow(n, "external") /\ DefinedRow(n) /\ ~InlineRow(n)
  BY UnitRows
<1>5. \A q \in Usages :
          TakenAs(q) <=>
              /\ ~Declares(q.d) /\ q.d.from \in Needed(templates)
              /\ q.d.entity = <<q.d.name, 0>> /\ Has(q.d.name, "external")
              /\ q.d.name \notin ExternalDefinitions
              /\ ~(q.d.what = "call" /\ InlineDefinition(q.d.name))
  BY <1>2, <1>4 DEF TakenAs
<1>6. ASSUME NEW n \in Taken(templates)
      PROVE  \E q \in Usages : TakenAs(q) /\ q.d.name = n
  <2>1. PICK v \in Range(unit) :
            /\ v.name = n /\ ~Declares(v) /\ v.from \in Needed(templates)
            /\ v.entity = <<v.name, 0>> /\ Has(v.name, "external")
            /\ v.name \notin ExternalDefinitions
            /\ ~(v.what = "call" /\ InlineDefinition(v.name))
    BY <1>6 DEF Taken
  <2>2. PICK q \in Usages : q.d = v
    BY <1>1, <1>3, <2>1
  <2> QED
    BY <1>5, <2>1, <2>2
<1>7. ASSUME NEW q \in Usages, TakenAs(q)
      PROVE  q.d.name \in Taken(templates)
  <2>1. PICK v : v = q.d
    OBVIOUS
  <2>2. /\ v \in Range(unit) /\ ~Declares(v) /\ v.from \in Needed(templates)
        /\ v.entity = <<v.name, 0>> /\ Has(v.name, "external")
        /\ v.name \notin ExternalDefinitions
        /\ ~(v.what = "call" /\ InlineDefinition(v.name))
    BY <1>2, <1>5, <1>7, <2>1
  <2>3. v.name \in Taken(templates)
    BY <2>2 DEF Taken
  <2> QED
    BY <2>1, <2>3
<1> QED
  BY <1>6, <1>7

(* A use of a name with linkage in what is needed is in a generated item.  *)
LEMMA UseGenerated ==
    ASSUME Ended, NEW q \in Usages, q.d.from \in Needed(templates), q.x[1] \in {"object", "function"}
    PROVE  <<q.x, q.d.what>> \in Tokens
<1>1. UsesAs(Rows, Usages, functions, statics, 0)
  BY DEF Ended, EndState
<1>2. PICK r \in Rows : q.d.from = r.d.entity /\ UsedBy(functions, statics, q, r)
  BY <1>1 DEF UsesAs, UseAs
<1>3. Found(r.x)
  BY <1>2, NeededFound
<1> QED
  BY <1>2, <1>3, UserGenerated

LEMMA TakenImported ==
    ASSUME Ended, NEW q \in Usages, TakenAs(q)
    PROVE  q.d.name \in Imported
<1>0. PICK n : n = q.d.name
  OBVIOUS
<1>1. /\ EndState(functions) /\ StaticsAs(Rows, objects, externs, statics)
      /\ Consistent(Rows, Usages, Len(objects), Len(functions)) /\ DOMAIN functions = 1 .. Len(functions)
  BY DEF Ended, EndState
<1>2. PICK p \in Rows : p.x = q.x
  BY <1>1 DEF Consistent
<1>3. /\ p.d.entity = <<n, 0>> /\ p.d.entity = EntityAt(p.d, p.at) /\ p.at # 0
      /\ p.x \in Denotation /\ p.x[1] = p.d.what /\ p.d \in DeclarationEntry
      /\ p.d.link = "none" <=> Local(p.d)
  BY <1>0, <1>1, <1>2 DEF Consistent, TakenAs
<1>4. p.d.name = n /\ p.d.link # "none"
  BY <1>3 DEF EntityAt
<1>5. p.d.what \in {"object", "function"}
  BY <1>3, <1>4 DEF DeclarationEntry, Local
<1>6. PICK t : t = <<q.x, q.d.what>>
  OBVIOUS
<1>7. t \in Tokens /\ t[1] = p.x /\ t[2] = q.d.what
  BY <1>2, <1>3, <1>5, <1>6, UseGenerated DEF TakenAs
<1>8. HasRow(n, "external") /\ (~DefinedRow(n) \/ InlineRow(n)) /\ ~(t[2] = "call" /\ InlineRow(n))
  BY <1>0, <1>7 DEF TakenAs
<1>9. CASE p.d.what = "function"
  <2>1. PICK id \in DOMAIN functions : p.x = AFunction(id)
    BY <1>1, <1>3, <1>9 DEF Consistent, Denotation, AFunction
  <2>2. FunctionEnds(p, functions[id])
    BY <1>1, <1>9, <2>1, FunctionEndsAs DEF AFunction
  <2>3. ~Private(t[1], t[2])
    BY <1>4, <1>7, <1>8, <2>1, <2>2 DEF Private, FunctionEnds, AFunction
  <2>4. id \in ExternFunctions /\ functions[id].name = n
    BY <1>4, <1>7, <1>8, <2>1, <2>2, <2>3 DEF ExternFunctions, FunctionEnds
  <2> QED
    BY <1>0, <2>4 DEF Imported
<1>10. CASE p.d.what = "object"
  <2>1. PICK id : id = p.x[2]
    OBVIOUS
  <2>2. ObjectEnds(p, objects[id])
    BY <1>1, <1>10, <2>1, ObjectEndsAs
  <2>3. p.d.link = "external"
    BY <1>1, <1>4, <1>8, LinkedRows
  <2>4. id \in DOMAIN objects /\ p.x = AnObject(id) /\ objects[id].storage = "extern" /\ objects[id].name = n
    BY <1>4, <1>8, <2>1, <2>2, <2>3 DEF ObjectEnds
  <2>5. id \in ExternObjects
    BY <1>1, <1>7, <2>4 DEF ExternObjects, StaticsAs
  <2> QED
    BY <1>0, <2>4, <2>5 DEF Imported
<1> QED
  BY <1>5, <1>9, <1>10

(* What a generated item uses is used in what is needed.                   *)
LEMMA TokenTaken ==
    ASSUME Ended, NEW t \in Tokens, NEW p \in Rows, p.x = t[1], p.d.link = "external",
           ~DefinedRow(p.d.name) \/ InlineRow(p.d.name), ~(t[2] = "call" /\ InlineRow(p.d.name))
    PROVE  p.d.name \in Taken(templates)
<1>0. PICK n : n = p.d.name
  OBVIOUS
<1>1. /\ EndState(functions) /\ Wanted(reach) /\ UsesAs(Rows, Usages, functions, statics, 0)
      /\ Consistent(Rows, Usages, Len(objects), Len(functions))
  BY DEF Ended, EndState
<1>2. PICK q \in Usages, r \in Rows : TokenOf(t, q, r, p)
  BY TokenRows DEF TokenOf
<1>3. r.x[1] \in {"function", "object"} /\ HasReached(reach, r.x)
  BY <1>2 DEF TokenOf, Generated, FunctionItems, StaticItems, HasReached, AFunction, AnObject
<1>4. q.d.from \in Needed(templates)
  BY <1>1, <1>2, <1>3 DEF Wanted, TokenOf
<1>5. p.d.entity = <<n, 0>> /\ HasRow(n, "external")
  BY <1>0, <1>1, LinkedRows
<1>6. q.d.entity = p.d.entity
  BY <1>1, <1>2 DEF Consistent, TokenOf
<1>7. q.d.name = n
  BY <1>1, <1>5, <1>6 DEF UsesAs, UseAs
<1>8. TakenAs(q)
  BY <1>0, <1>2, <1>4, <1>5, <1>6, <1>7 DEF TakenAs, TokenOf
<1> QED
  BY <1>0, <1>7, <1>8, TakenIs

(* A static function that is used is defined.                              *)
LEMMA StaticDefined ==
    ASSUME Ended, NEW t \in Tokens, NEW p \in Rows, p.x = t[1], p.d.link = "internal"
    PROVE  DefinedRow(p.d.name)
<1>0. PICK n : n = p.d.name
  OBVIOUS
<1>1. /\ EndState(functions) /\ UsesAs(Rows, Usages, functions, statics, 0) /\ MayEnd
      /\ Consistent(Rows, Usages, Len(objects), Len(functions))
  BY DEF Ended, EndState
<1>2. PICK q \in Usages : q.x = p.x
  BY TokenRows DEF TokenOf
<1>3. p.d.entity = <<n, 0>> /\ HasRow(n, "internal")
  BY <1>0, <1>1, LinkedRows
<1>4. q.d.entity = p.d.entity
  BY <1>1, <1>2 DEF Consistent
<1>5. q.d.name = n
  BY <1>1, <1>3, <1>4 DEF UsesAs, UseAs
<1>6. PICK j \in DOMAIN unit : unit[j] = q.d /\ ~Declares(unit[j])
  BY RowIs DEF Usages
<1>7. Has(n, "internal")
  BY <1>3, UnitRows
<1>8. Defined(n)
  BY <1>1, <1>3, <1>4, <1>5, <1>6, <1>7 DEF MayEnd
<1> QED
  BY <1>0, <1>8, UnitRows

LEMMA EndedImports ==
    ASSUME Ended
    PROVE  Imported = Taken(templates)
<1>1. EndState(functions) /\ StaticsAs(Rows, objects, externs, statics)
      /\ Consistent(Rows, Usages, Len(objects), Len(functions))
  BY DEF Ended, EndState
<1>2. ASSUME NEW id \in ExternFunctions
      PROVE  functions[id].name \in Taken(templates)
  <2>1. PICK t \in Tokens : t[1] = AFunction(id) /\ ~Private(t[1], t[2])
    BY <1>2 DEF ExternFunctions
  <2>2. ~functions[id].body \/ functions[id].inline_only
    BY <1>2 DEF ExternFunctions
  <2>3. FunctionToken(t, id)
    BY <2>1, TokenIs DEF AFunction
  <2>4. PICK p \in Rows : p.x = t[1] /\ FunctionEnds(p, functions[id])
    BY <2>3 DEF FunctionToken
  <2>5. PICK n : n = p.d.name
    OBVIOUS
  <2>6. /\ functions[id].name = n /\ p.d.link # "none"
        /\ functions[id].inline_only <=> InlineRow(n)
        /\ functions[id].body <=> DefinedRow(n)
        /\ HasRow(n, "internal") <=> ~HasRow(n, "external")
    BY <2>4, <2>5 DEF FunctionEnds, LinkedRow
  <2>7. p.d.link \in {"internal", "external"} /\ (HasRow(n, "internal") <=> p.d.link = "internal")
    BY <1>1, <2>5, <2>6, LinkedRows
  <2>8. p.d.link = "external"
    <3>1. p.d.link = "internal" => DefinedRow(n)
      BY <2>4, <2>5, StaticDefined
    <3>2. InlineRow(n) => HasRow(n, "external")
      BY DEF InlineRow
    <3> QED
      BY <2>2, <2>6, <2>7, <3>1, <3>2
  <2>9. ~DefinedRow(n) \/ InlineRow(n)
    BY <2>2, <2>6
  <2>10. ~(t[2] = "call" /\ InlineRow(n))
    BY <2>1, <2>6 DEF Private, AFunction
  <2> QED
    BY <2>4, <2>5, <2>6, <2>8, <2>9, <2>10, TokenTaken
<1>3. ASSUME NEW id \in ExternObjects
      PROVE  objects[id].name \in Taken(templates)
  <2>1. PICK t \in Tokens : t[1] = AnObject(id)
    BY <1>3 DEF ExternObjects
  <2>2. objects[id].storage = "extern"
    BY <1>1, <1>3 DEF ExternObjects, StaticsAs
  <2>3. ObjectToken(t, id)
    BY <2>1, TokenIs DEF AnObject
  <2>4. PICK p \in Rows : p.x = t[1] /\ ObjectEnds(p, objects[id])
    BY <2>3 DEF ObjectToken
  <2>5. p.d.link = "external" /\ ~DefinedRow(p.d.name) /\ ~InlineRow(p.d.name) /\ objects[id].name = p.d.name
    BY <2>2, <2>4 DEF ObjectEnds
  <2> QED
    BY <2>4, <2>5, TokenTaken
<1>4. Imported \subseteq Taken(templates)
  BY <1>2, <1>3 DEF Imported
<1>5. Taken(templates) \subseteq Imported
  BY TakenIs, TakenImported
<1> QED
  BY <1>4, <1>5

(* An object that is defined has one item, and in it the value of the one  *)
(* declaration that gives it one.                                          *)
OneStatic(j) ==
    \E k \in DOMAIN statics :
        /\ {m \in DOMAIN statics : AnObject(statics[m].object) = means[j]} = {k}
        /\ statics[k].init = Max({0} \cup Defining(unit[j].name, "object"))

LEMMA EndedStatics ==
    ASSUME Ended, NEW j \in DOMAIN unit, unit[j].what = "object", Linked(unit[j]), Defined(unit[j].name)
    PROVE  OneStatic(j)
<1>1. /\ EndState(functions) /\ StaticsAs(Rows, objects, externs, statics)
      /\ Consistent(Rows, Usages, Len(objects), Len(functions))
  BY DEF Ended, EndState
<1>2. PICK r \in Rows : r.d = unit[j] /\ r.x = means[j]
  BY RowIs DEF Rows, Linked
<1>3. PICK n, id : n = r.d.name /\ id = r.x[2]
  OBVIOUS
<1>4. r.d.what = "object" /\ r.d.link # "none" /\ DefinedRow(n)
  BY <1>2, <1>3, UnitRows DEF Linked
<1>5. ObjectEnds(r, objects[id])
  BY <1>1, <1>3, <1>4, ObjectEndsAs
<1>6. id \in DOMAIN objects /\ r.x = AnObject(id) /\ objects[id].storage \in {"static", "exported"}
  BY <1>3, <1>4, <1>5 DEF ObjectEnds
<1>7. PICK k \in DOMAIN statics : statics[k].object = id
  BY <1>1, <1>6 DEF StaticsAs, Static
<1>8. \A m \in DOMAIN statics : AnObject(statics[m].object) = means[j] <=> m = k
  BY <1>1, <1>2, <1>6, <1>7 DEF StaticsAs, AnObject
<1>9. \A q \in Rows : LinkedRow(q, n) <=> q.x = r.x
  BY <1>1, <1>3, <1>4, LinkedRows
<1>10. \A q \in Rows : q.x = r.x => q.d.what = "object"
  BY <1>1, <1>4 DEF Consistent
<1>11. PICK s : s = statics[k]
  OBVIOUS
<1>12. InitialisedAs(Rows, s) /\ s \in StaticRow /\ AnObject(s.object) = r.x
  BY <1>1, <1>6, <1>7, <1>11 DEF StaticsAs
<1>13. s.init \in Nat
  BY <1>12 DEF StaticRow
<1>14. Defining(n, "object") = {q.at : q \in {p \in Rows : p.x = r.x /\ p.d.defines}}
  <2>1. ASSUME NEW i \in Defining(n, "object")
        PROVE  \E q \in Rows : q.at = i /\ q.x = r.x /\ q.d.defines
    <3>1. i \in DOMAIN unit /\ unit[i].what = "object" /\ unit[i].name = n /\ Linked(unit[i]) /\ unit[i].defines
      BY <2>1 DEF Defining, Of
    <3>2. PICK q \in Rows : q.at = i /\ q.d = unit[i]
      BY <3>1, RowIs DEF Rows, Linked
    <3> QED
      BY <1>9, <3>1, <3>2 DEF LinkedRow, Linked
  <2>2. ASSUME NEW q \in Rows, q.x = r.x, q.d.defines
        PROVE  q.at \in Defining(n, "object")
    <3>1. q.at \in DOMAIN unit /\ q.d = unit[q.at] /\ Declares(unit[q.at])
      BY RowIs DEF Rows
    <3> QED
      BY <1>9, <1>10, <2>2, <3>1 DEF Defining, Of, Linked, LinkedRow
  <2> QED
    BY <2>1, <2>2
<1>15. {0} \cup Defining(n, "object") = {0, s.init}
  <2>1. \A q \in Rows : q.x = r.x /\ q.d.defines => q.at = s.init
    BY <1>12 DEF InitialisedAs
  <2>2. s.init # 0 => \E q \in Rows : q.at = s.init /\ q.x = r.x /\ q.d.defines
    BY <1>12 DEF InitialisedAs
  <2>3. \A i \in Defining(n, "object") : i = s.init
    BY <1>14, <2>1
  <2>4. s.init # 0 => s.init \in Defining(n, "object")
    BY <1>14, <2>2
  <2> QED
    BY <2>3, <2>4
<1>16. Max({0, s.init}) = s.init
  <2>1. {0, s.init} \in SUBSET (0 .. s.init) /\ {0, s.init} # {}
    BY <1>13
  <2>2. Max({0, s.init}) \in {0, s.init} /\ \A i \in {0, s.init} : i <= Max({0, s.init})
    BY <1>13, <2>1, Greatest
  <2> QED
    BY <1>13, <2>2
<1> QED
  BY <1>2, <1>3, <1>8, <1>11, <1>15, <1>16 DEF OneStatic

LEMMA EndedSymbols ==
    ASSUME Ended
    PROVE  SymbolsAsC
  BY EndedExports, EndedImports, EndedStatics DEF SymbolsAsC, OneStatic

(* The symbols of the object file are the unit's: it defines what C says   *)
(* the unit defines for others, each object once and with the initialiser  *)
(* its declarations gave it, and imports what it uses and does not define. *)
THEOREM SymbolsAsCHolds ==
    ASSUME NamesApart
    PROVE  Spec => []SymbolsAsC
<1>1. Walked => SymbolsAsC
  <2>1. Walked /\ Done => SymbolsAsC
    BY WalkedEnds, EndedSymbols
  <2> QED
    BY <2>1 DEF SymbolsAsC
<1>2. Spec => []Walked
  BY SpecWalked
<1> QED
  BY <1>1, <1>2, PTL
=============================================================================
