---------------------------- MODULE AtomicCalls ----------------------------
(***************************************************************************)
(* The operations that C has on an atomic object, and what C says of each: *)
(* the value it leaves in the object and the value of the expression.      *)
(* C11 7.17 and 6.5.16.2, and GCC's manual for the builtins of its own.    *)
(*                                                                         *)
(* An operation is a record:                                               *)
(*   kind      load, store, exchange, cas, sync, rmw, tas, clear, fence    *)
(*             (calls of builtins); read, assign, compound, step (the      *)
(*             operators of an expression on an _Atomic object)            *)
(*   op        what rmw, compound and step compute                         *)
(*   ret       "old" or "new": which value the expression has              *)
(*   arg       the operand; again: what a second evaluation of it yields   *)
(*   cmp, weak the expected value of a cas, and whether it may just fail   *)
(*   wide      the operation is computed in a wider type than the object's *)
(*   from      the type of the operand expression: "place" when it is the  *)
(*             type the operation is computed in                           *)
(*   scale     bytes that the pointer moves for each unit of the operand   *)
(*   order, failure   the memory orders written, or 6: known at run time    *)
(***************************************************************************)
EXTENDS Integers

CONSTANTS
    Size,               \* how many values an integer object has: 0 .. Size - 1
    Wide,               \* how many the type has that it is widened to
    Space,              \* bytes that a pointer object can point at
    Float,              \* the values of a floating object
    Exact(_, _, _),     \* an operator on integers, before it is given a width
    FloatExact(_, _, _),    \* an operator on floating values
    None                \* the value of an expression that has none

Class == {"int", "bool", "float", "ptr"}

ValuesOf(class) ==
    CASE class = "int"   -> 0 .. Size - 1
      [] class = "bool"  -> {0, 1}
      [] class = "float" -> Float
      [] class = "ptr"   -> 0 .. Space - 1

Swapping == {"cas", "sync"}
Computing == {"rmw", "compound", "step"}
Kind == {"load", "store", "exchange", "tas", "clear", "fence", "read", "assign"}
            \cup Swapping \cup Computing
Op == {"add", "sub", "mul", "shl", "and", "or", "xor", "nand"}

ASSUME SizeAssumption ==
    /\ Size \in Nat \ {0, 1} /\ Wide \in Nat \ {0} /\ Space \in Nat \ {0}
    /\ Wide % Size = 0

ASSUME ArithmeticAssumption == \A op \in Op :
    /\ \A a, b \in 0 .. Size - 1 : Exact(op, a, b) \in Int
    /\ \A a, b \in Float : FloatExact(op, a, b) \in Float

(* The operations a program may perform on an object of a class. *)
Operation(class) ==
    [kind : Kind, op : Op, ret : {"old", "new"}, arg : ValuesOf(class), again : ValuesOf(class),
     cmp : ValuesOf(class), weak : BOOLEAN, wide : BOOLEAN, from : {"place", "other"},
     scale : Nat, order : 0 .. 6, failure : 0 .. 6]

(* The value an operation computes from the object's.  That a _Bool's nand *)
(* is of its one bit is cinrs's own: GCC refuses the builtins on one.      *)
Computed(class, c, old, v) ==
    CASE class = "int"   -> Exact(c.op, old, v) % Size
      [] class = "bool" /\ c.op = "nand" -> IF old = 1 /\ v = 1 THEN 0 ELSE 1
      [] class = "bool"  -> IF Exact(c.op, old, v) = 0 THEN 0 ELSE 1
      [] class = "float" -> FloatExact(c.op, old, v)
      [] class = "ptr"   -> (IF c.op = "sub" THEN old - v * c.scale ELSE old + v * c.scale) % Space

(* What an operation may do to the object: the value it leaves, and for    *)
(* those that compare, whether it swapped.                                 *)
Outcomes(class, c, old, v) ==
    CASE c.kind \in {"load", "read", "fence"} -> {[new |-> old, swapped |-> TRUE]}
      [] c.kind \in {"store", "exchange", "assign"} -> {[new |-> v, swapped |-> TRUE]}
      [] c.kind = "tas"   -> {[new |-> 1, swapped |-> TRUE]}
      [] c.kind = "clear" -> {[new |-> 0, swapped |-> TRUE]}
      [] c.kind \in Computing ->
             {[new |-> Computed(class, c, old, v), swapped |-> TRUE]}
      [] c.kind \in Swapping ->
             {IF old = c.cmp THEN [new |-> v, swapped |-> TRUE]
                             ELSE [new |-> old, swapped |-> FALSE]}
             \cup (IF c.weak THEN {[new |-> old, swapped |-> FALSE]} ELSE {})

(* The value of the expression, and what is in the expected object after.  *)
Answer(class, c, old, v, swapped) ==
    [value |->
        CASE c.kind \in {"load", "read", "exchange"} -> old
          [] c.kind \in {"store", "clear", "fence"} -> None
          [] c.kind = "assign" -> v
          [] c.kind = "tas" -> old # 0
          [] c.kind = "cas" -> swapped
          [] c.kind = "sync" -> IF c.ret = "old" THEN old ELSE swapped
          [] c.kind \in Computing ->
                 IF c.ret = "old" THEN old ELSE Computed(class, c, old, v),
     expected |-> IF c.kind = "cas" /\ ~swapped THEN old ELSE c.cmp]

(* What the n-th evaluation of the operand yields. *)
Operand(c, n) == IF n = 1 THEN c.arg ELSE c.again

(* What an order promises.  Consume is taken for acquire, and an order     *)
(* that is known only when the program runs may be any of them.            *)
Promises(order) ==
    CASE order = 0 -> {}
      [] order \in {1, 2} -> {"acquire"}
      [] order = 3 -> {"release"}
      [] order = 4 -> {"acquire", "release"}
      [] OTHER -> {"acquire", "release", "total"}
=============================================================================
