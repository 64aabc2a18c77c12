----------------------------- MODULE AtomicCode -----------------------------
(***************************************************************************)
(* What an operation on an atomic object becomes: sema/atomics.rs checks   *)
(* the builtins and sema/expr.rs the operators, and codegen.rs writes each *)
(* as a call of a core::sync::atomic method, or, where there is none, as a *)
(* loop around compare_exchange_weak.  Threads run the code, one access to *)
(* the object at a time.                                                   *)
(***************************************************************************)
EXTENDS AtomicCalls

CONSTANTS
    Thread, Operations(_), MaxCalls,
    MaxSpurious     \* how often one compare_exchange_weak fails for nothing

(* The byte builtins work on a byte. *)
ASSUME OperationsAssumption ==
    \A cl \in Class : \A c \in Operations(cl) :
        c \in Operation(cl) /\ (c.kind \in {"tas", "clear"} => cl = "int")

VARIABLES
    class, object,  \* the object, as the Rust atomic holds it
    pc,             \* thread -> where it is in the code of its operation
    call, count, evaluated, operand,
    current,        \* thread -> the loop's `current`
    old,            \* thread -> what the atomic access found
    swapped,        \* thread -> whether its compare-exchange did
    spurious,       \* thread -> how often that has failed for nothing
    answer

temps == <<operand, current, old, swapped>>
vars == <<class, object, pc, call, count, evaluated, temps, spurious, answer>>

-----------------------------------------------------------------------------
(* Memory orders: the number that is written, and what is made of it.      *)

(* A faulty Order: one that is only known at run time is taken for none.   *)
OrderOfConstant(n) ==
    CASE n \in {1, 2} -> "Acquire"
      [] n = 3 -> "Release"
      [] n = 4 -> "AcqRel"
      [] n = 5 -> "SeqCst"
      [] OTHER -> "Relaxed"

Order(n) ==
    CASE n = 0 -> "Relaxed"
      [] n \in {1, 2} -> "Acquire"
      [] n = 3 -> "Release"
      [] n = 4 -> "AcqRel"
      [] OTHER -> "SeqCst"

ValidForLoad(o) == o \notin {"Release", "AcqRel"}
ValidForStore(o) == o \notin {"Acquire", "AcqRel"}
Strength(o) == CASE o = "Relaxed" -> 0
                 [] o \in {"Acquire", "Release"} -> 1
                 [] o = "AcqRel" -> 2
                 [] o = "SeqCst" -> 3

(* A faulty FailureOrder: a failed exchange keeps the order of a good one. *)
FailureOrderSame(o) == o

FailureOrder(o) == CASE o = "Release" -> "Relaxed"
                     [] o = "AcqRel" -> "Acquire"
                     [] OTHER -> o

(* `rmw_operand`: what a class of objects has no arithmetic for. *)
Refused(cl, c) ==
    /\ c.kind = "rmw"
    /\ \/ cl = "float"
       \/ cl = "ptr" /\ c.op \notin {"add", "sub"}
       \/ cl = "bool" /\ c.op \in {"add", "sub"}

(* The calls that are not refused for their object or their orders. *)
Accepted(cl, c) ==
    /\ ~Refused(cl, c)
    /\ c.kind = "load" => ValidForLoad(Order(c.order))
    /\ c.kind \in {"store", "clear"} => ValidForStore(Order(c.order))
    /\ c.kind = "cas" => /\ ValidForLoad(Order(c.failure))
                         /\ Strength(Order(c.failure)) <= Strength(Order(c.order))

-----------------------------------------------------------------------------
(* The representation an atomic has of a C value. *)

ToRepr(cl, v) ==
    CASE cl = "bool"  -> v = 1
      [] cl = "float" -> [bits |-> v]
      [] OTHER -> v

FromRepr(cl, r) ==
    CASE cl = "bool"  -> IF r THEN 1 ELSE 0
      [] cl = "float" -> r.bits
      [] OTHER -> r

Methods == {"add", "sub", "and", "or", "xor"}
HasMethod(cl, op) == op \in Methods \/ (cl = "bool" /\ op = "nand")

(* The shape of the code that an operation becomes. *)
Plan(cl, c) ==
    CASE c.kind \in {"load", "read"} -> "load"
      [] c.kind \in {"store", "assign", "clear"} -> "store"
      [] c.kind \in {"exchange", "tas"} -> "swap"
      [] c.kind \in Swapping -> "cas"
      [] c.kind = "fence" -> IF Order(c.order) = "Relaxed" THEN "nothing" ELSE "fence"
      [] c.kind = "rmw" ->
             IF cl # "ptr" /\ HasMethod(cl, c.op) THEN "fetch" ELSE "loop"
      [] c.kind = "compound" ->
             IF cl = "int" /\ ~c.wide /\ c.op \in Methods THEN "fetch" ELSE "loop"
      [] c.kind = "step" -> IF cl = "int" THEN "fetch" ELSE "loop"

(* The orders in the code.  An operator of an expression is SeqCst.        *)
Success(c) == IF c.kind \in {"read", "assign", "compound", "step", "sync"}
              THEN "SeqCst" ELSE Order(c.order)
Failure(cl, c) == IF c.kind = "cas" THEN Order(c.failure)
                  ELSE IF c.kind = "sync" THEN "SeqCst" ELSE FailureOrder(Success(c))

(* What `load`, `store`, `compare_exchange` and `fence` panic at. *)
Panics(cl, c) ==
    LET plan == Plan(cl, c) IN
    \/ plan = "load" /\ ~ValidForLoad(Success(c))
    \/ plan = "store" /\ ~ValidForStore(Success(c))
    \/ plan \in {"cas", "loop"} /\ ~ValidForLoad(Failure(cl, c))
    \/ plan = "fence" /\ Success(c) = "Relaxed"

(* The value after a read-modify-write, from the one before: what the      *)
(* method of an integer atomic leaves, or the expression inside the loop.  *)
Updated(cl, c, r, v) ==
    CASE cl = "int" /\ ~c.wide -> Exact(c.op, r, v) % Size
      [] cl = "int" /\ c.wide -> (Exact(c.op, r, v) % Wide) % Size
      [] cl = "ptr" -> (r + (IF c.op = "sub" THEN - (v * c.scale) ELSE v * c.scale)) % Space
      [] OTHER -> ToRepr(cl, Computed(cl, c, FromRepr(cl, r), v))

(* The value that a store or a swap writes. *)
Written(cl, c, v) ==
    CASE c.kind = "tas"   -> 1
      [] c.kind = "clear" -> 0
      [] OTHER -> ToRepr(cl, v)

(* A faulty Tail: the value of an assignment is read back from the object, *)
(* and so is that of a compound one.                                       *)
TailReadBack(cl, c, r, v, ok) ==
    [value |-> CASE c.kind \in {"assign"} \cup Computing -> FromRepr(cl, object)
                 [] OTHER -> Answer(cl, c, FromRepr(cl, r), v, ok).value,
     expected |-> Answer(cl, c, FromRepr(cl, r), v, ok).expected]

(* The value of the expression, from what the access found.                *)
Tail(cl, c, r, v, ok) ==
    [value |->
        CASE c.kind \in {"load", "read", "exchange"} -> FromRepr(cl, r)
          [] c.kind = "tas" -> r # 0
          [] c.kind = "assign" -> v
          [] c.kind = "cas" -> ok
          [] c.kind = "sync" -> IF c.ret = "old" THEN FromRepr(cl, r) ELSE ok
          [] c.kind \in Computing ->
                 FromRepr(cl, IF c.ret = "old" THEN r ELSE Updated(cl, c, r, v))
          [] OTHER -> None,
     expected |-> IF c.kind = "cas" /\ ~ok THEN FromRepr(cl, r) ELSE c.cmp]

-----------------------------------------------------------------------------
Init ==
    /\ class \in Class
    /\ object \in {ToRepr(class, v) : v \in ValuesOf(class)}
    /\ pc = [t \in Thread |-> "idle"]
    /\ call = [t \in Thread |-> None]
    /\ count = [t \in Thread |-> 0]
    /\ evaluated = [t \in Thread |-> 0]
    /\ operand = [t \in Thread |-> None]
    /\ current = [t \in Thread |-> None]
    /\ old = [t \in Thread |-> None]
    /\ swapped = [t \in Thread |-> FALSE]
    /\ spurious = [t \in Thread |-> 0]
    /\ answer = [t \in Thread |-> None]

(* A thread comes to an operation that the front end let through.          *)
Begin(t) ==
    /\ pc[t] = "idle"
    /\ count[t] < MaxCalls
    /\ \E c \in Operations(class) :
           /\ Accepted(class, c)
           /\ call' = [call EXCEPT ![t] = c]
    /\ pc' = [pc EXCEPT ![t] = "begun"]
    /\ count' = [count EXCEPT ![t] = @ + 1]
    /\ evaluated' = [evaluated EXCEPT ![t] = 0]
    /\ spurious' = [spurious EXCEPT ![t] = 0]
    /\ answer' = [answer EXCEPT ![t] = None]
    /\ UNCHANGED <<class, object, temps>>

(* The operand is put in a temporary before anything else. *)
Hoist(t) ==
    /\ pc[t] = "begun"
    /\ evaluated' = [evaluated EXCEPT ![t] = @ + 1]
    /\ operand' = [operand EXCEPT ![t] = Operand(call[t], evaluated'[t])]
    /\ pc' = [pc EXCEPT ![t] = "ready"]
    /\ UNCHANGED <<class, object, call, count, current, old, swapped, spurious, answer>>

(* The access was made: it found `found`, and leaves `now`. *)
Accessed(t, now, found, ok) ==
    /\ object' = now
    /\ old' = [old EXCEPT ![t] = found]
    /\ swapped' = [swapped EXCEPT ![t] = ok]
    /\ pc' = [pc EXCEPT ![t] = "done"]
    /\ UNCHANGED <<class, call, count, evaluated, operand, current, spurious, answer>>

Load(t) ==
    /\ pc[t] = "ready" /\ Plan(class, call[t]) \in {"load", "fence", "nothing"}
    /\ Accessed(t, object, object, TRUE)

Store(t) ==
    /\ pc[t] = "ready" /\ Plan(class, call[t]) \in {"store", "swap"}
    /\ Accessed(t, Written(class, call[t], operand[t]), object, TRUE)

Fetch(t) ==
    /\ pc[t] = "ready" /\ Plan(class, call[t]) = "fetch"
    /\ Accessed(t, Updated(class, call[t], object, operand[t]), object, TRUE)

CompareExchange(t) ==
    LET equal == object = ToRepr(class, call[t].cmp)
        fresh == ToRepr(class, operand[t])
    IN
    /\ pc[t] = "ready" /\ Plan(class, call[t]) = "cas"
    /\ \/ Accessed(t, IF equal THEN fresh ELSE object, object, equal)
       \/ call[t].weak /\ Accessed(t, object, object, FALSE)

(* atomic_cas_loop: `let mut current = slot.load(failure)`. *)
LoopLoad(t) ==
    /\ pc[t] = "ready" /\ Plan(class, call[t]) = "loop"
    /\ current' = [current EXCEPT ![t] = object]
    /\ pc' = [pc EXCEPT ![t] = "loop"]
    /\ UNCHANGED <<class, object, call, count, evaluated, operand, old, swapped, spurious, answer>>

(* A faulty LoopTry: an attempt that fails keeps the value it tried with. *)
LoopTryAgain(t) ==
    /\ pc[t] = "loop"
    /\ IF object = current[t]
       THEN Accessed(t, Updated(class, call[t], current[t], operand[t]), current[t], TRUE)
       ELSE UNCHANGED vars

(* One turn of the loop: `Err(seen) => current = seen`. *)
LoopTry(t) ==
    /\ pc[t] = "loop"
    /\ IF object = current[t]
       THEN Accessed(t, Updated(class, call[t], current[t], operand[t]), current[t], TRUE)
       ELSE /\ current' = [current EXCEPT ![t] = object]
            /\ UNCHANGED <<class, object, pc, call, count, evaluated, operand, old, swapped,
                           spurious, answer>>

(* compare_exchange_weak may fail though the value is the expected one.    *)
LoopFails(t) ==
    /\ pc[t] = "loop"
    /\ spurious[t] < MaxSpurious
    /\ spurious' = [spurious EXCEPT ![t] = @ + 1]
    /\ current' = [current EXCEPT ![t] = object]
    /\ UNCHANGED <<class, object, pc, call, count, evaluated, operand, old, swapped, answer>>

(* What follows the access: the value of the expression. *)
Finish(t) ==
    /\ pc[t] = "done"
    /\ answer' = [answer EXCEPT ![t] =
           Tail(class, call[t], old[t], operand[t], swapped[t])]
    /\ pc' = [pc EXCEPT ![t] = "idle"]
    /\ operand' = [operand EXCEPT ![t] = None]
    /\ current' = [current EXCEPT ![t] = None]
    /\ old' = [old EXCEPT ![t] = None]
    /\ swapped' = [swapped EXCEPT ![t] = FALSE]
    /\ UNCHANGED <<class, object, call, count, evaluated, spurious>>

Access(t) == Load(t) \/ Store(t) \/ Fetch(t) \/ CompareExchange(t)

(* What a thread does without leave of the processor. *)
Step(t) == Hoist(t) \/ Access(t) \/ LoopLoad(t) \/ LoopTry(t) \/ Finish(t)

Next == \E t \in Thread : Begin(t) \/ Step(t) \/ LoopFails(t)

Spec == Init /\ [][Next]_vars

(* Every thread is run again and again, and a compare_exchange_weak does   *)
(* not fail for nothing for ever (MaxSpurious).                            *)
FairSpec == Spec /\ \A t \in Thread : WF_vars(Step(t))

-----------------------------------------------------------------------------
(* Where an operation is as C sees it, and what its access found. *)
stage == [t \in Thread |-> CASE pc[t] = "begun" -> "asked"
                             [] pc[t] \in {"ready", "loop"} -> "ready"
                             [] pc[t] = "done" -> "acted"
                             [] OTHER -> "idle"]
seen == [t \in Thread |-> IF pc[t] = "done"
                          THEN [old |-> FromRepr(class, old[t]), swapped |-> swapped[t]]
                          ELSE None]

(* Each operation is what C says: its operand evaluated once, one          *)
(* indivisible effect on the object, and the value that follows from what  *)
(* the object held then -- of a load, a store and an exchange, and of the  *)
(* operators that have no method and are a loop (7852-7889).               *)
Promise == INSTANCE AtomicObject WITH
    object <- FromRepr(class, object), stage <- stage, seen <- seen

OneAccess == Promise!Spec

Given(o) ==
    CASE o = "Relaxed" -> {}
      [] o = "Acquire" -> {"acquire"}
      [] o = "Release" -> {"release"}
      [] o = "AcqRel"  -> {"acquire", "release"}
      [] o = "SeqCst"  -> {"acquire", "release", "total"}

(* The code keeps at least the order that was asked for, for the access    *)
(* and for the one that a failed compare-exchange makes, and writes none   *)
(* that the method panics at: the load of a loop and the failed exchange   *)
(* have orders of their own.                                               *)
OrdersKept == \A t \in Thread : pc[t] # "idle" =>
    /\ ~Panics(class, call[t])
    /\ Promises(call[t].order) \subseteq Given(Success(call[t]))
    /\ call[t].kind = "cas" =>
           Promises(call[t].failure) \subseteq Given(Failure(class, call[t]))

(* An operation that has begun ends: what makes a turn of the loop fail is *)
(* another thread's success, or the processor's leave.                     *)
EveryCallEnds == \A t \in Thread : pc[t] # "idle" ~> pc[t] = "idle"

(* The code compiles: the temporary that holds the operand of a loop is    *)
(* given a value of the type it is declared with.                          *)
OperandTyped == \A t \in Thread :
    pc[t] # "idle" /\ call[t].kind = "compound" /\ Plan(class, call[t]) = "loop"
        => call[t].from = "place"
=============================================================================
