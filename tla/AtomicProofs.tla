---------------------------- MODULE AtomicProofs ----------------------------
(***************************************************************************)
(* The code of AtomicCode implements the atomic object of AtomicObject,    *)
(* and its operations neither panic over an order nor weaken one -- for    *)
(* any threads, any operations, any arithmetic and any width.              *)
(***************************************************************************)
EXTENDS AtomicCode, TLAPS

Repr(cl) == {ToRepr(cl, v) : v \in ValuesOf(cl)}

(* What is true in every state: the object holds a value of its class, and *)
(* so does what a thread took from it; an operation in a loop is one that  *)
(* became a loop, and was let through with its orders.                     *)
ThreadOK(t) ==
    /\ pc[t] # "idle" => /\ call[t] \in Operations(class)
                         /\ Accepted(class, call[t])
    /\ pc[t] \in {"ready", "loop", "done"} => operand[t] \in ValuesOf(class)
    /\ pc[t] = "loop" => /\ current[t] \in Repr(class)
                         /\ Plan(class, call[t]) = "loop"
    /\ pc[t] = "done" => old[t] \in Repr(class)

Stage == {"idle", "begun", "ready", "loop", "done"}
AnyCall == (UNION {Operations(cl) : cl \in Class}) \cup {None}

Shape ==
    /\ class \in Class
    /\ pc \in [Thread -> Stage]
    /\ call \in [Thread -> AnyCall]
    /\ evaluated \in [Thread -> Nat]
    /\ operand \in [Thread -> ValuesOf(class) \cup {None}]
    /\ current \in [Thread -> Repr(class) \cup {None}]
    /\ old \in [Thread -> Repr(class) \cup {None}]
    /\ swapped \in [Thread -> BOOLEAN]

IInv == Shape /\ object \in Repr(class) /\ \A t \in Thread : ThreadOK(t)

-----------------------------------------------------------------------------
(* An atomic gives back the value that was put into it.                    *)
LEMMA RoundTrip ==
    ASSUME NEW cl \in Class, NEW v \in ValuesOf(cl)
    PROVE  FromRepr(cl, ToRepr(cl, v)) = v
BY DEF Class, ValuesOf, ToRepr, FromRepr

LEMMA FromReprTyped ==
    ASSUME NEW cl \in Class, NEW r \in Repr(cl)
    PROVE  /\ FromRepr(cl, r) \in ValuesOf(cl)
           /\ ToRepr(cl, FromRepr(cl, r)) = r
<1>1. PICK v \in ValuesOf(cl) : r = ToRepr(cl, v)
  BY DEF Repr
<1>2. FromRepr(cl, r) = v
  BY <1>1, RoundTrip
<1> QED BY <1>1, <1>2

LEMMA ToReprTyped ==
    ASSUME NEW cl \in Class, NEW v \in ValuesOf(cl)
    PROVE  ToRepr(cl, v) \in Repr(cl)
BY DEF Repr

(* Two values that differ have representations that differ, so comparing   *)
(* the representations compares the values -- a NaN with itself as well.   *)
LEMMA ReprTellsApart ==
    ASSUME NEW cl \in Class, NEW r \in Repr(cl), NEW v \in ValuesOf(cl)
    PROVE  (r = ToRepr(cl, v)) <=> (FromRepr(cl, r) = v)
BY RoundTrip, FromReprTyped

(* Division with a remainder.                                              *)
LEMMA Divided ==
    ASSUME NEW n \in Int, NEW s \in Nat \ {0}
    PROVE  n % s \in 0 .. s - 1 /\ \E d \in Int : n = d * s + (n % s)
<1>1. n \div s \in Int /\ n = (n \div s) * s + (n % s) /\ n % s \in 0 .. s - 1
  BY Z3
<1> QED BY <1>1

LEMMA Remainder ==
    ASSUME NEW n \in Int, NEW s \in Nat \ {0}, NEW d \in Int, NEW e \in 0 .. s - 1,
           n = d * s + e
    PROVE  n % s = e
BY Z3

LEMMA Multiple ==
    ASSUME NEW n \in Int, NEW s \in Nat \ {0}, n % s = 0
    PROVE  \E q \in Int : n = q * s
<1>1. PICK d \in Int : n = d * s + (n % s)
  BY Divided
<1>2. d * s \in Int
  OBVIOUS
<1> QED BY <1>1, <1>2

LEMMA Distributes ==
    ASSUME NEW a \in Int, NEW b \in Int, NEW s \in Int
    PROVE  a * s + b * s = (a + b) * s
OBVIOUS

(* Cutting a value that was computed in the wider type to the object's     *)
(* width gives what computing it in the object's type gives.               *)
LEMMA CutTwice ==
    ASSUME NEW x \in Int
    PROVE  (x % Wide) % Size = x % Size
<1> DEFINE y == x % Wide
<1> Size \in Nat \ {0} /\ Wide \in Nat \ {0} /\ Wide % Size = 0
  BY SizeAssumption
<1>1. PICK q \in Int : Wide = q * Size
  BY Multiple
<1>2. PICK k \in Int : x = k * Wide + (x % Wide)
  BY Divided
<1> y \in Int
  BY Divided
<1>3. PICK d \in Int : y % Size \in 0 .. Size - 1 /\ y = d * Size + (y % Size)
  BY <1>2, Divided
<1>4. x = (k * q + d) * Size + (y % Size)
  <2>1. k * (q * Size) = (k * q) * Size /\ k * q \in Int
    BY <1>1, <1>2
  <2>2. (k * q) * Size + d * Size = (k * q + d) * Size
    BY <1>3, <2>1, Distributes
  <2> QED BY <1>1, <1>2, <1>3, <2>1, <2>2
<1>5. k * q + d \in Int
  BY <1>1, <1>2, <1>3
<1>6. ASSUME NEW m \in Int, NEW e \in 0 .. Size - 1, x = m * Size + e PROVE x % Size = e
  BY ONLY <1>6, Remainder, SizeAssumption, x \in Int
<1>7. x % Size = y % Size
  BY <1>3, <1>4, <1>5, <1>6
<1> QED BY <1>7

LEMMA ComputedTyped ==
    ASSUME NEW cl \in Class, NEW c \in Operation(cl),
           NEW a \in ValuesOf(cl), NEW b \in ValuesOf(cl)
    PROVE  Computed(cl, c, a, b) \in ValuesOf(cl)
<1> c.op \in Op /\ c.scale \in Nat
  BY DEF Operation
<1>1. CASE cl = "int"
  BY <1>1, ArithmeticAssumption, SizeAssumption DEF Computed, ValuesOf
<1>2. CASE cl = "bool"
  BY <1>2 DEF Computed, ValuesOf
<1>3. CASE cl = "float"
  BY <1>3, ArithmeticAssumption DEF Computed, ValuesOf
<1>4. CASE cl = "ptr"
  <2> a \in Int /\ b * c.scale \in Int
    BY <1>4 DEF ValuesOf
  <2> QED BY <1>4, SizeAssumption DEF Computed, ValuesOf
<1> QED BY <1>1, <1>2, <1>3, <1>4 DEF Class

(* What the method or the loop writes is what C computes.                  *)
LEMMA UpdatedIsComputed ==
    ASSUME NEW cl \in Class, NEW c \in Operation(cl),
           NEW r \in Repr(cl), NEW v \in ValuesOf(cl)
    PROVE  Updated(cl, c, r, v) = ToRepr(cl, Computed(cl, c, FromRepr(cl, r), v))
<1> c.op \in Op /\ c.scale \in Nat /\ c.wide \in BOOLEAN
  BY DEF Operation
<1>1. CASE cl = "int"
  <2> Exact(c.op, r, v) \in Int /\ FromRepr(cl, r) = r
    BY <1>1, ArithmeticAssumption, FromReprTyped DEF ValuesOf, FromRepr
  <2> QED BY <1>1, CutTwice DEF Updated, Computed, ToRepr
<1>2. CASE cl \in {"bool", "float"}
  BY <1>2 DEF Updated
<1>3. CASE cl = "ptr"
  <2>a. FromRepr(cl, r) = r
    BY <1>3 DEF FromRepr
  <2> r \in Int /\ v \in Int
    BY <1>3, <2>a, FromReprTyped DEF ValuesOf
  <2> v * c.scale \in Int
    OBVIOUS
  <2>1. r + (-(v * c.scale)) = r - v * c.scale
    OBVIOUS
  <2> QED BY <1>3, <2>1, <2>a DEF Updated, Computed, ToRepr
<1> QED BY <1>1, <1>2, <1>3 DEF Class

LEMMA CallTyped ==
    ASSUME NEW t \in Thread, IInv, pc[t] # "idle"
    PROVE  /\ call[t] \in Operation(class) /\ Accepted(class, call[t])
           /\ call[t].kind \in Kind
           /\ call[t].kind \in {"tas", "clear"} => class = "int"
           /\ call[t].arg \in ValuesOf(class) /\ call[t].again \in ValuesOf(class)
           /\ call[t].cmp \in ValuesOf(class)
           /\ call[t].order \in 0 .. 6 /\ call[t].failure \in 0 .. 6
BY OperationsAssumption DEF IInv, Shape, ThreadOK, Operation

-----------------------------------------------------------------------------
LEMMA InitOK == Init => IInv
BY DEF Init, IInv, Shape, ThreadOK, Repr, Stage, AnyCall

LEMMA WrittenTyped ==
    ASSUME NEW cl \in Class, NEW c \in Operation(cl), NEW v \in ValuesOf(cl),
           c.kind \in {"tas", "clear"} => cl = "int"
    PROVE  Written(cl, c, v) \in Repr(cl)
<1>1. CASE c.kind \in {"tas", "clear"}
  <2> cl = "int" /\ Written(cl, c, v) \in {0, 1}
    BY <1>1 DEF Written
  <2> Written(cl, c, v) \in ValuesOf(cl) /\ ToRepr(cl, Written(cl, c, v)) = Written(cl, c, v)
    BY SizeAssumption DEF ValuesOf, ToRepr
  <2> QED BY DEF Repr
<1>2. CASE c.kind \notin {"tas", "clear"}
  BY <1>2 DEF Written, Repr
<1> QED BY <1>1, <1>2

LEMMA UpdatedTyped ==
    ASSUME NEW cl \in Class, NEW c \in Operation(cl),
           NEW r \in Repr(cl), NEW v \in ValuesOf(cl)
    PROVE  Updated(cl, c, r, v) \in Repr(cl)
BY UpdatedIsComputed, ComputedTyped, FromReprTyped, ToReprTyped

(* An access leaves the invariant true if what it writes and what it found *)
(* are of the object's class.                                              *)
LEMMA AccessedOK ==
    ASSUME IInv, NEW t \in Thread, NEW now \in Repr(class), NEW found \in Repr(class),
           NEW ok \in BOOLEAN, pc[t] \in {"ready", "loop"}, Accessed(t, now, found, ok)
    PROVE  IInv'
<1> USE DEF IInv, Accessed
<1>1. Shape'
  BY DEF Shape, Stage, Repr
<1>2. ASSUME NEW u \in Thread PROVE ThreadOK(u)'
  BY DEF Shape, ThreadOK, Repr
<1> QED BY <1>1, <1>2 DEF Repr

LEMMA NextOK == IInv /\ [Next]_vars => IInv'
<1> SUFFICES ASSUME IInv, [Next]_vars PROVE IInv'
  OBVIOUS
<1> USE DEF IInv
<1>1. ASSUME NEW t \in Thread, Begin(t) PROVE IInv'
  <2>1. PICK c \in Operations(class) : Accepted(class, c) /\ call' = [call EXCEPT ![t] = c]
    BY <1>1 DEF Begin
  <2>2. c \in AnyCall
    BY DEF AnyCall, Shape
  <2>3. Shape'
    BY <1>1, <2>1, <2>2 DEF Begin, Shape, Stage, temps, Repr
  <2>4. ASSUME NEW u \in Thread PROVE ThreadOK(u)'
    BY <1>1, <2>1 DEF Begin, Shape, ThreadOK, temps, Repr
  <2> QED BY <1>1, <2>3, <2>4 DEF Begin, Repr
<1>2. ASSUME NEW t \in Thread, Hoist(t) PROVE IInv'
  <2>1. Operand(call[t], evaluated[t] + 1) \in ValuesOf(class)
    BY <1>2, CallTyped DEF Hoist, Operand
  <2>2. evaluated'[t] = evaluated[t] + 1
    BY <1>2 DEF Hoist, Shape
  <2>3. Shape'
    BY <1>2, <2>1, <2>2 DEF Hoist, Shape, Stage, Repr
  <2>4. ASSUME NEW u \in Thread PROVE ThreadOK(u)'
    BY <1>2, <2>1, <2>2 DEF Hoist, Shape, ThreadOK, Repr
  <2> QED BY <1>2, <2>3, <2>4 DEF Hoist, Repr
<1>3. ASSUME NEW t \in Thread, Access(t) PROVE IInv'
  <2>0. pc[t] = "ready" /\ class \in Class /\ operand[t] \in ValuesOf(class)
    BY <1>3 DEF Access, Load, Store, Fetch, CompareExchange, Shape, ThreadOK
  <2>1. CASE Load(t)
    BY <2>0, <2>1, AccessedOK DEF Load
  <2>2. CASE Store(t)
    BY <2>0, <2>2, AccessedOK, CallTyped, WrittenTyped DEF Store
  <2>3. CASE Fetch(t)
    BY <2>0, <2>3, AccessedOK, CallTyped, UpdatedTyped DEF Fetch
  <2>4. CASE CompareExchange(t)
    <3>1. ToRepr(class, operand[t]) \in Repr(class)
      BY <2>0, ToReprTyped
    <3> QED BY <2>0, <2>4, <3>1, AccessedOK DEF CompareExchange
  <2> QED BY <1>3, <2>1, <2>2, <2>3, <2>4 DEF Access
<1>4. ASSUME NEW t \in Thread, LoopLoad(t) PROVE IInv'
  <2>1. Shape'
    BY <1>4 DEF LoopLoad, Shape, Stage, Repr
  <2>2. ASSUME NEW u \in Thread PROVE ThreadOK(u)'
    BY <1>4 DEF LoopLoad, Shape, ThreadOK, Repr
  <2> QED BY <1>4, <2>1, <2>2 DEF LoopLoad, Repr
<1>5. ASSUME NEW t \in Thread, LoopTry(t) PROVE IInv'
  <2>0. /\ pc[t] = "loop" /\ class \in Class /\ operand[t] \in ValuesOf(class)
        /\ current[t] \in Repr(class)
    BY <1>5 DEF LoopTry, Shape, ThreadOK
  <2>1. CASE object = current[t]
    BY <1>5, <2>0, <2>1, AccessedOK, CallTyped, UpdatedTyped DEF LoopTry
  <2>2. CASE object # current[t]
    <3>1. Shape'
      BY <1>5, <2>2 DEF LoopTry, Shape, Repr
    <3>2. ASSUME NEW u \in Thread PROVE ThreadOK(u)'
      BY <1>5, <2>2 DEF LoopTry, Shape, ThreadOK, Repr
    <3> QED BY <1>5, <2>2, <3>1, <3>2 DEF LoopTry, Repr
  <2> QED BY <2>1, <2>2
<1>6. ASSUME NEW t \in Thread, LoopFails(t) PROVE IInv'
  <2>1. Shape'
    BY <1>6 DEF LoopFails, Shape, Repr
  <2>2. ASSUME NEW u \in Thread PROVE ThreadOK(u)'
    BY <1>6 DEF LoopFails, Shape, ThreadOK, Repr
  <2> QED BY <1>6, <2>1, <2>2 DEF LoopFails, Repr
<1>7. ASSUME NEW t \in Thread, Finish(t) PROVE IInv'
  <2>1. Shape'
    BY <1>7 DEF Finish, Shape, Stage, Repr
  <2>2. ASSUME NEW u \in Thread PROVE ThreadOK(u)'
    BY <1>7 DEF Finish, Shape, ThreadOK, Repr
  <2> QED BY <1>7, <2>1, <2>2 DEF Finish, Repr
<1>8. CASE UNCHANGED vars
  <2>1. Shape'
    BY <1>8 DEF vars, temps, Shape, Repr
  <2>2. ASSUME NEW u \in Thread PROVE ThreadOK(u)'
    BY <1>8 DEF vars, temps, Shape, ThreadOK, Repr
  <2> QED BY <1>8, <2>1, <2>2 DEF vars, temps, Repr
<1> QED BY <1>1, <1>2, <1>3, <1>4, <1>5, <1>6, <1>7, <1>8 DEF Next, Step

(* The inductive invariant of the code. *)
THEOREM Typed == Spec => []IInv
BY InitOK, NextOK, PTL DEF Spec

-----------------------------------------------------------------------------
(* OrdersKept: an order that a method panics at is refused by the front   *)
(* end, or replaced where the code makes an order of its own.              *)
LEMMA NoPanicNow ==
    ASSUME IInv, NEW t \in Thread, pc[t] # "idle"
    PROVE  ~Panics(class, call[t])
<1> DEFINE c == call[t]
<1>1. c.kind \in Kind /\ Accepted(class, c)
  BY CallTyped
<1> HIDE DEF c
<1>2. Plan(class, c) = "load" => ValidForLoad(Success(c))
  BY <1>1 DEF Plan, Success, Accepted, ValidForLoad, Kind, Swapping, Computing
<1>3. Plan(class, c) = "store" => ValidForStore(Success(c))
  BY <1>1 DEF Plan, Success, Accepted, ValidForStore, Kind, Swapping, Computing
<1>4. Plan(class, c) \in {"cas", "loop"} => ValidForLoad(Failure(class, c))
  BY <1>1 DEF Plan, Success, Failure, FailureOrder, Accepted, ValidForLoad, Kind, Swapping,
              Computing, Order
<1>5. Plan(class, c) = "fence" => Success(c) # "Relaxed"
  BY <1>1 DEF Plan, Success, Kind, Swapping, Computing
<1> QED BY <1>2, <1>3, <1>4, <1>5 DEF Panics, c

(* Every order that was asked for is at least kept, and one that is not    *)
(* known before the program runs is taken for the strongest.               *)
THEOREM OrdersAreKept == Spec => []OrdersKept
<1>1. ASSUME IInv PROVE OrdersKept
  <2> SUFFICES ASSUME NEW t \in Thread, pc[t] # "idle",
                      NEW c, c = call[t]
               PROVE  /\ ~Panics(class, c)
                      /\ Promises(c.order) \subseteq Given(Success(c))
                      /\ c.kind = "cas" => Promises(c.failure) \subseteq Given(Failure(class, c))
    BY DEF OrdersKept
  <2>1. c.order \in 0 .. 6 /\ c.failure \in 0 .. 6
    BY <1>1, CallTyped
  <2>2. ASSUME NEW n \in 0 .. 6 PROVE Promises(n) \subseteq Given(Order(n))
    BY DEF Promises, Order, Given
  <2>3. ASSUME NEW n \in 0 .. 6 PROVE Promises(n) \subseteq Given("SeqCst")
    BY DEF Promises, Given
  <2>4. ~Panics(class, c)
    BY <1>1, NoPanicNow
  <2> QED BY <2>1, <2>2, <2>3, <2>4 DEF Success, Failure
<1> QED BY <1>1, Typed, PTL

-----------------------------------------------------------------------------
(* OneAccess: the code implements the atomic object.                       *)

(* The object's operations are those of the code's. *)
LEMMA SameCalls ==
    ASSUME NEW cl, NEW c, NEW a, NEW v, NEW b
    PROVE  /\ Promise!Class = Class
           /\ Promise!ValuesOf(cl) = ValuesOf(cl)
           /\ Promise!Operand(c, a) = Operand(c, a)
           /\ Promise!Outcomes(cl, c, a, v) = Outcomes(cl, c, a, v)
           /\ Promise!Answer(cl, c, a, v, b) = Answer(cl, c, a, v, b)
<1>1. Promise!Class = Class
  BY DEF Promise!Class, Class
<1>2. Promise!ValuesOf(cl) = ValuesOf(cl)
  BY DEF Promise!ValuesOf, ValuesOf
<1>3. Promise!Operand(c, a) = Operand(c, a)
  BY DEF Promise!Operand, Operand
<1>4. Promise!Computed(cl, c, a, v) = Computed(cl, c, a, v)
  BY DEF Promise!Computed, Computed
<1>5. Promise!Outcomes(cl, c, a, v) = Outcomes(cl, c, a, v)
  BY <1>4 DEF Promise!Outcomes, Outcomes, Promise!Swapping, Swapping, Promise!Computing, Computing
<1>6. Promise!Answer(cl, c, a, v, b) = Answer(cl, c, a, v, b)
  BY <1>4 DEF Promise!Answer, Answer, Promise!Computing, Computing
<1> QED BY <1>1, <1>2, <1>3, <1>5, <1>6

LEMMA InitImplements == Init => Promise!Init
<1> SUFFICES ASSUME Init PROVE Promise!Init
  OBVIOUS
<1>1. FromRepr(class, object) \in ValuesOf(class)
  BY RoundTrip DEF Init
<1>2. stage = [t \in Thread |-> "idle"]
  BY DEF Init, stage
<1>3. seen = [t \in Thread |-> None]
  BY DEF Init, seen
<1> QED BY <1>1, <1>2, <1>3, SameCalls DEF Init, Promise!Init

(* An access of the code is the act of the abstract object.                *)
LEMMA AccessImplements ==
    ASSUME IInv, NEW t \in Thread, NEW now \in Repr(class), NEW found \in Repr(class),
           NEW ok \in BOOLEAN, pc[t] \in {"ready", "loop"}, Accessed(t, now, found, ok),
           found = object,
           [new |-> FromRepr(class, now), swapped |-> ok] \in
               Outcomes(class, call[t], FromRepr(class, object), operand[t])
    PROVE  Promise!Act(t)
<1> USE DEF IInv, Accessed
<1>1. class' = class /\ object' = now
  OBVIOUS
<1>2. stage[t] = "ready" /\ stage' = [stage EXCEPT ![t] = "acted"]
  BY DEF Shape, stage
<1>3. seen' = [seen EXCEPT ![t] = [old |-> FromRepr(class, object), swapped |-> ok]]
  BY <1>1 DEF Shape, seen
<1> DEFINE o == [new |-> FromRepr(class, now), swapped |-> ok]
<1>4. o \in Promise!Outcomes(class, call[t], FromRepr(class, object), operand[t])
  BY SameCalls
<1>5. FromRepr(class, object)' = o.new
  BY <1>1
<1>6. seen' = [seen EXCEPT ![t] = [old |-> FromRepr(class, object), swapped |-> o.swapped]]
  BY <1>3
<1>7. UNCHANGED <<class, call, count, evaluated, operand, answer>>
  OBVIOUS
<1> HIDE DEF o, IInv, Accessed
<1> QED BY <1>2, <1>4, <1>5, <1>6, <1>7 DEF Promise!Act

(* What the access of an operation does is one of its outcomes. *)
LEMMA OutcomeOfUpdate ==
    ASSUME NEW cl \in Class, NEW c \in Operation(cl), NEW r \in Repr(cl), NEW v \in ValuesOf(cl),
           Plan(cl, c) \in {"fetch", "loop"}
    PROVE  [new |-> FromRepr(cl, Updated(cl, c, r, v)), swapped |-> TRUE] \in
               Outcomes(cl, c, FromRepr(cl, r), v)
<1>1. c.kind \in Computing
  <2> c.kind \in Kind
    BY DEF Operation
  <2> QED BY DEF Plan, Kind, Swapping, Computing
<1>2. FromRepr(cl, Updated(cl, c, r, v)) = Computed(cl, c, FromRepr(cl, r), v)
  BY UpdatedIsComputed, ComputedTyped, FromReprTyped, RoundTrip
<1> QED BY <1>1, <1>2 DEF Outcomes, Computing, Swapping

LEMMA OutcomeOfWrite ==
    ASSUME NEW cl \in Class, NEW c \in Operation(cl), NEW a, NEW v \in ValuesOf(cl),
           c.kind \in {"tas", "clear"} => cl = "int", Plan(cl, c) \in {"store", "swap"}
    PROVE  [new |-> FromRepr(cl, Written(cl, c, v)), swapped |-> TRUE] \in Outcomes(cl, c, a, v)
<1> c.kind \in Kind
  BY DEF Operation
<1> c.kind \in {"store", "exchange", "assign", "tas", "clear"}
  BY DEF Plan, Kind, Swapping, Computing
<1>1. CASE c.kind \in {"tas", "clear"}
  <2> FromRepr(cl, Written(cl, c, v)) = Written(cl, c, v)
    BY <1>1 DEF FromRepr
  <2> QED BY <1>1 DEF Written, Outcomes, Swapping, Computing
<1>2. CASE c.kind \in {"store", "exchange", "assign"}
  <2> FromRepr(cl, Written(cl, c, v)) = v
    BY <1>2, RoundTrip DEF Written
  <2> QED BY <1>2 DEF Outcomes, Swapping, Computing
<1> QED BY <1>1, <1>2

LEMMA OutcomeOfRead ==
    ASSUME NEW cl \in Class, NEW c \in Operation(cl), NEW a, NEW v,
           Plan(cl, c) \in {"load", "fence", "nothing"}
    PROVE  [new |-> a, swapped |-> TRUE] \in Outcomes(cl, c, a, v)
<1> c.kind \in Kind
  BY DEF Operation
<1> c.kind \in {"load", "read", "fence"}
  BY DEF Plan, Kind, Swapping, Computing
<1> QED BY DEF Outcomes, Swapping, Computing

LEMMA OutcomeOfSwap ==
    ASSUME NEW cl \in Class, NEW c \in Operation(cl), NEW r \in Repr(cl), NEW v \in ValuesOf(cl),
           Plan(cl, c) = "cas"
    PROVE  /\ r = ToRepr(cl, c.cmp) =>
                  [new |-> FromRepr(cl, ToRepr(cl, v)), swapped |-> TRUE] \in
                      Outcomes(cl, c, FromRepr(cl, r), v)
           /\ r # ToRepr(cl, c.cmp) \/ c.weak =>
                  [new |-> FromRepr(cl, r), swapped |-> FALSE] \in
                      Outcomes(cl, c, FromRepr(cl, r), v)
<1>1. c.kind \in Swapping
  <2> c.kind \in Kind
    BY DEF Operation
  <2> QED BY DEF Plan, Kind, Swapping, Computing
<1>2. (r = ToRepr(cl, c.cmp)) <=> (FromRepr(cl, r) = c.cmp)
  <2> c.cmp \in ValuesOf(cl)
    BY DEF Operation
  <2> QED BY ReprTellsApart
<1>3. FromRepr(cl, ToRepr(cl, v)) = v
  BY RoundTrip
<1> QED BY <1>1, <1>2, <1>3 DEF Outcomes, Swapping, Computing

(* The value that follows the access is the one that C says.               *)
LEMMA TailIsAnswer ==
    ASSUME NEW cl \in Class, NEW c \in Operation(cl), NEW r \in Repr(cl), NEW v \in ValuesOf(cl),
           NEW ok \in BOOLEAN, c.kind \in {"tas", "clear"} => cl = "int"
    PROVE  Tail(cl, c, r, v, ok) = Answer(cl, c, FromRepr(cl, r), v, ok)
<1>1. FromRepr(cl, Updated(cl, c, r, v)) = Computed(cl, c, FromRepr(cl, r), v)
  BY UpdatedIsComputed, ComputedTyped, FromReprTyped, RoundTrip
<1>2. cl = "int" => FromRepr(cl, r) = r
  BY DEF FromRepr
<1>3. c.kind \in Kind /\ c.ret \in {"old", "new"}
  BY DEF Operation
<1>4. Tail(cl, c, r, v, ok).value = Answer(cl, c, FromRepr(cl, r), v, ok).value
  BY <1>1, <1>2, <1>3 DEF Tail, Answer, Kind, Swapping, Computing
<1> QED BY <1>4 DEF Tail, Answer

LEMMA StepImplements == IInv /\ [Next]_vars => [Promise!Next]_(Promise!vars)
<1> SUFFICES ASSUME IInv, [Next]_vars PROVE [Promise!Next]_(Promise!vars)
  OBVIOUS
<1> class \in Class
  BY DEF IInv, Shape
<1>1. ASSUME NEW t \in Thread, Begin(t) PROVE Promise!Ask(t)
  <2>1. stage[t] = "idle" /\ stage' = [stage EXCEPT ![t] = "asked"]
    BY <1>1 DEF Begin, IInv, Shape, stage
  <2>2. seen' = seen
    BY <1>1 DEF Begin, IInv, Shape, seen, temps
  <2>3. FromRepr(class, object)' = FromRepr(class, object)
    BY <1>1 DEF Begin
  <2> QED BY <1>1, <2>1, <2>2, <2>3 DEF Begin, Promise!Ask, temps
<1>2. ASSUME NEW t \in Thread, Hoist(t) PROVE Promise!Evaluate(t)
  <2>1. stage[t] = "asked" /\ stage' = [stage EXCEPT ![t] = "ready"]
    BY <1>2 DEF Hoist, IInv, Shape, stage
  <2>2. seen' = seen
    BY <1>2 DEF Hoist, IInv, Shape, seen
  <2>3. FromRepr(class, object)' = FromRepr(class, object)
    BY <1>2 DEF Hoist
  <2> QED BY <1>2, <2>1, <2>2, <2>3, SameCalls DEF Hoist, Promise!Evaluate
<1>3. ASSUME NEW t \in Thread, Access(t) PROVE Promise!Act(t)
  <2>1. pc[t] = "ready" /\ operand[t] \in ValuesOf(class) /\ object \in Repr(class)
    BY <1>3 DEF Access, Load, Store, Fetch, CompareExchange, IInv, ThreadOK
  <2>2. call[t] \in Operation(class) /\ (call[t].kind \in {"tas", "clear"} => class = "int")
    BY <2>1, CallTyped
  <2>3. CASE Load(t)
    <3>1. [new |-> FromRepr(class, object), swapped |-> TRUE] \in
              Outcomes(class, call[t], FromRepr(class, object), operand[t])
      BY <2>2, <2>3, OutcomeOfRead DEF Load
    <3> QED BY <2>1, <2>3, <3>1, AccessImplements DEF Load
  <2>4. CASE Store(t)
    BY <2>1, <2>2, <2>4, OutcomeOfWrite, WrittenTyped, AccessImplements DEF Store
  <2>5. CASE Fetch(t)
    BY <2>1, <2>2, <2>5, OutcomeOfUpdate, UpdatedTyped, AccessImplements DEF Fetch
  <2>6. CASE CompareExchange(t)
    <3>1. ToRepr(class, operand[t]) \in Repr(class)
      BY <2>1, ToReprTyped
    <3>2. CASE /\ object = ToRepr(class, call[t].cmp)
               /\ Accessed(t, ToRepr(class, operand[t]), object, TRUE)
      BY <2>1, <2>2, <2>6, <3>1, <3>2, OutcomeOfSwap, AccessImplements DEF CompareExchange
    <3>3. CASE /\ object # ToRepr(class, call[t].cmp) \/ call[t].weak
               /\ Accessed(t, object, object, FALSE)
      BY <2>1, <2>2, <2>6, <3>3, OutcomeOfSwap, AccessImplements DEF CompareExchange
    <3> QED BY <2>6, <3>2, <3>3 DEF CompareExchange
  <2> QED BY <1>3, <2>3, <2>4, <2>5, <2>6 DEF Access
<1>4. ASSUME NEW t \in Thread, LoopTry(t), object = current[t] PROVE Promise!Act(t)
  <2>1. /\ pc[t] = "loop" /\ operand[t] \in ValuesOf(class) /\ object \in Repr(class)
        /\ Plan(class, call[t]) = "loop"
    BY <1>4 DEF LoopTry, IInv, ThreadOK
  <2>2. call[t] \in Operation(class)
    BY <2>1, CallTyped
  <2> QED BY <1>4, <2>1, <2>2, OutcomeOfUpdate, UpdatedTyped, AccessImplements DEF LoopTry
<1>5. ASSUME NEW t \in Thread,
             \/ LoopLoad(t) \/ LoopFails(t) \/ (LoopTry(t) /\ object # current[t])
      PROVE  UNCHANGED Promise!vars
  <2>1. stage' = stage
    BY <1>5 DEF LoopLoad, LoopFails, LoopTry, IInv, Shape, stage
  <2>2. seen' = seen
    BY <1>5 DEF LoopLoad, LoopFails, LoopTry, IInv, Shape, seen
  <2>3. UNCHANGED <<class, object, call, count, evaluated, operand, answer>>
    BY <1>5 DEF LoopLoad, LoopFails, LoopTry
  <2> QED BY <2>1, <2>2, <2>3 DEF Promise!vars
<1>6. ASSUME NEW t \in Thread, Finish(t) PROVE Promise!Finish(t)
  <2>1. pc[t] = "done" /\ operand[t] \in ValuesOf(class) /\ old[t] \in Repr(class)
    BY <1>6 DEF Finish, IInv, ThreadOK
  <2>2. call[t] \in Operation(class) /\ (call[t].kind \in {"tas", "clear"} => class = "int")
    BY <2>1, CallTyped
  <2>3. stage[t] = "acted" /\ stage' = [stage EXCEPT ![t] = "idle"]
    BY <1>6 DEF Finish, IInv, Shape, stage
  <2>4. seen' = [seen EXCEPT ![t] = None]
    BY <1>6 DEF Finish, IInv, Shape, seen
  <2>5. seen[t] = [old |-> FromRepr(class, old[t]), swapped |-> swapped[t]]
    BY <2>1 DEF seen
  <2>6. Tail(class, call[t], old[t], operand[t], swapped[t]) =
            Answer(class, call[t], seen[t].old, operand[t], seen[t].swapped)
    BY <2>1, <2>2, <2>5, TailIsAnswer DEF IInv, Shape
  <2>7. FromRepr(class, object)' = FromRepr(class, object)
    BY <1>6 DEF Finish
  <2>8. answer' = [answer EXCEPT ![t] =
            Promise!Answer(class, call[t], seen[t].old, operand[t], seen[t].swapped)]
    <3>1. Promise!Answer(class, call[t], seen[t].old, operand[t], seen[t].swapped) =
              Tail(class, call[t], old[t], operand[t], swapped[t])
      BY <2>6, SameCalls
    <3> QED BY <1>6, <3>1 DEF Finish
  <2>9. /\ operand' = [operand EXCEPT ![t] = None]
        /\ UNCHANGED <<class, call, count, evaluated>>
    BY <1>6 DEF Finish
  <2> QED BY <2>3, <2>4, <2>7, <2>8, <2>9 DEF Promise!Finish
<1>7. CASE UNCHANGED vars
  BY <1>7 DEF vars, temps, stage, seen, Promise!vars
<1> QED BY <1>1, <1>2, <1>3, <1>4, <1>5, <1>6, <1>7 DEF Next, Step, Promise!Next

(* OneAccess: every operation is the abstract object's -- its operand is   *)
(* evaluated once, it acts in one step, and its value is of that step.     *)
THEOREM Implements == Spec => OneAccess
<1>1. Init /\ [][Next]_vars /\ []IInv => Promise!Init /\ [][Promise!Next]_(Promise!vars)
  BY InitImplements, StepImplements, PTL
<1> QED BY <1>1, Typed, PTL DEF Spec, OneAccess, Promise!Spec
=============================================================================
