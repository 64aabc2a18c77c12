---------------------------- MODULE MCAtomicCode ----------------------------
(***************************************************************************)
(* Two threads on one object of each class, with the operations that reach *)
(* each shape of code.  The operands are those that tell the operators     *)
(* apart, and the orders all those that C has.                             *)
(***************************************************************************)
EXTENDS AtomicCode, FiniteSetsExt

(* Two bits, and four when they are widened. *)
Bits(n) == {i \in 0 .. 1 : (n \div 2 ^ i) % 2 = 1}
FromBits(S) == SumSet({2 ^ i : i \in S})

ExactBits(op, a, b) ==
    CASE op = "add"  -> a + b
      [] op = "sub"  -> a - b
      [] op = "mul"  -> a * b
      [] op = "shl"  -> a * 2 ^ b
      [] op = "and"  -> FromBits(Bits(a) \cap Bits(b))
      [] op = "or"   -> FromBits(Bits(a) \cup Bits(b))
      [] op = "xor"  -> FromBits((Bits(a) \cup Bits(b)) \ (Bits(a) \cap Bits(b)))
      [] op = "nand" -> FromBits((0 .. 1) \ (Bits(a) \cap Bits(b)))

(* Two zeros that are equal and differ, and a NaN that is not equal to     *)
(* itself.  They are closed under addition.                                *)
Floats == {"zero", "negzero", "nan"}
FloatPlus(op, a, b) ==
    CASE "nan" \in {a, b} -> "nan"
      [] a = b            -> a
      [] OTHER            -> "zero"

Plain == [kind |-> "read", op |-> "add", ret |-> "old", arg |-> 1, again |-> 0, cmp |-> 0,
          weak |-> FALSE, wide |-> FALSE, from |-> "place", scale |-> 1,
          order |-> 5, failure |-> 5]

(* Two values of each class, and one more. *)
One(cl) == IF cl = "float" THEN "negzero" ELSE 1
Zero(cl) == IF cl = "float" THEN "zero" ELSE 0
Odd(cl) == CASE cl = "float" -> "nan" [] cl = "bool" -> 1 [] OTHER -> 3

Values(cl) == [Plain EXCEPT !.arg = One(cl), !.again = Zero(cl), !.cmp = Odd(cl)]

Accesses(cl) ==
    LET p == Values(cl) IN
    {[p EXCEPT !.kind = k] : k \in {"read", "assign", "exchange", "load", "store"}}
    \cup {[p EXCEPT !.kind = "cas", !.cmp = v, !.weak = w] :
              v \in {Zero(cl), Odd(cl)}, w \in BOOLEAN}

Builtins ==
    {[Plain EXCEPT !.kind = "rmw", !.op = op, !.ret = ret, !.arg = 3, !.again = 1] :
         op \in {"add", "sub", "xor", "nand"}, ret \in {"old", "new"}}
    \cup {[Plain EXCEPT !.kind = "sync", !.ret = ret, !.arg = 2, !.cmp = 1] : ret \in {"old", "new"}}
    \cup {[Plain EXCEPT !.kind = k] : k \in {"tas", "clear"}}

(* Of a _Bool, and of the classes that have no such arithmetic.            *)
Logic(cl) ==
    {[Values(cl) EXCEPT !.kind = "rmw", !.op = op, !.ret = ret] :
         op \in {"add", "xor", "nand"}, ret \in {"old", "new"}}

Moves ==
    {[Plain EXCEPT !.kind = k, !.op = op, !.ret = ret, !.scale = s] :
         k \in {"rmw"}, op \in {"add", "sub"}, ret \in {"old", "new"}, s \in {1, 2}}
    \cup {[Plain EXCEPT !.kind = "step", !.op = op, !.ret = ret, !.again = 1, !.scale = 2] :
         op \in {"add", "sub"}, ret \in {"old", "new"}}

Operators(cl) ==
    LET p == [Values(cl) EXCEPT !.ret = "new"] IN
    CASE cl = "int" ->
             {[p EXCEPT !.kind = "compound", !.op = op, !.wide = w, !.arg = 3] :
                  op \in {"sub", "and", "mul"}, w \in BOOLEAN}
             \cup {[p EXCEPT !.kind = "compound", !.op = "shl"]}
             \cup {[p EXCEPT !.kind = "step", !.again = 1, !.ret = r] : r \in {"old", "new"}}
      [] cl = "bool" ->
             {[p EXCEPT !.kind = "compound", !.op = op, !.wide = TRUE] : op \in {"xor", "and"}}
             \cup {[p EXCEPT !.kind = "step", !.op = op, !.again = 1, !.ret = r, !.wide = TRUE] :
                       op \in {"add", "sub"}, r \in {"old", "new"}}
      [] cl = "float" -> {[p EXCEPT !.kind = "compound", !.arg = a] : a \in {"negzero", "zero"}}
      [] cl = "ptr" -> {}

(* Every memory order, on the operations that have one.  6 is an order     *)
(* that is not known before the program runs.                              *)
Orders == 0 .. 6
Ordered(cl) ==
    CASE cl = "int" -> {[Plain EXCEPT !.kind = k, !.order = o, !.ret = "new", !.op = "nand"] :
                            k \in {"rmw", "clear"}, o \in Orders}
      [] cl = "bool" -> {[Plain EXCEPT !.kind = k, !.order = o] :
                            k \in {"load", "store", "exchange", "fence"}, o \in Orders}
                       \cup {[Plain EXCEPT !.kind = "cas", !.order = o, !.failure = f] :
                                 o, f \in Orders}
      [] OTHER -> {}

AllOperations(cl) ==
    Accesses(cl) \cup Operators(cl) \cup Ordered(cl)
    \cup (CASE cl = "int" -> Builtins [] cl = "ptr" -> Moves [] OTHER -> {})
    \cup (IF cl = "int" THEN {} ELSE Logic(cl))

(* `p += n` on an atomic pointer, and a shift by an operand of another     *)
(* type than the object's.                                                 *)
Untyped(cl) ==
    CASE cl = "ptr" -> {[Plain EXCEPT !.kind = "compound", !.ret = "new", !.scale = 2,
                                         !.from = "other"]}
      [] cl = "int" -> {[Plain EXCEPT !.kind = "compound", !.op = "shl", !.ret = "new",
                                         !.from = "other"]}
      [] OTHER -> {}
AllAndUntyped(cl) == Accesses(cl) \cup Operators(cl) \cup Untyped(cl)
=============================================================================
