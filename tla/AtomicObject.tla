---------------------------- MODULE AtomicObject ----------------------------
(***************************************************************************)
(* An atomic object as C describes it: threads ask for operations, the     *)
(* operand of each is evaluated once, the operation takes effect in one    *)
(* indivisible step between its beginning and its end, and its value comes *)
(* from what the object held in that step.                                 *)
(***************************************************************************)
EXTENDS AtomicCalls

CONSTANTS
    Thread,         \* the threads of the program
    Operations(_),  \* class -> the operations that the program performs
    MaxCalls        \* how many each thread performs

VARIABLES
    class,          \* what kind of object it is
    object,         \* its value
    stage,          \* thread -> where it is in its operation
    call,           \* thread -> the operation it performs
    count,          \* thread -> how many it has begun
    evaluated,      \* thread -> how often it has evaluated this operand
    operand,        \* thread -> the operand
    seen,           \* thread -> what the object held, and whether it swapped
    answer          \* thread -> the answer of its last operation

vars == <<class, object, stage, call, count, evaluated, operand, seen, answer>>

Init ==
    /\ class \in Class
    /\ object \in ValuesOf(class)
    /\ stage = [t \in Thread |-> "idle"]
    /\ call = [t \in Thread |-> None]
    /\ count = [t \in Thread |-> 0]
    /\ evaluated = [t \in Thread |-> 0]
    /\ operand = [t \in Thread |-> None]
    /\ seen = [t \in Thread |-> None]
    /\ answer = [t \in Thread |-> None]

Ask(t) ==
    /\ stage[t] = "idle"
    /\ count[t] < MaxCalls
    /\ \E c \in Operations(class) : call' = [call EXCEPT ![t] = c]
    /\ stage' = [stage EXCEPT ![t] = "asked"]
    /\ count' = [count EXCEPT ![t] = @ + 1]
    /\ evaluated' = [evaluated EXCEPT ![t] = 0]
    /\ answer' = [answer EXCEPT ![t] = None]
    /\ UNCHANGED <<class, object, operand, seen>>

Evaluate(t) ==
    /\ stage[t] = "asked"
    /\ evaluated' = [evaluated EXCEPT ![t] = @ + 1]
    /\ operand' = [operand EXCEPT ![t] = Operand(call[t], evaluated'[t])]
    /\ stage' = [stage EXCEPT ![t] = "ready"]
    /\ UNCHANGED <<class, object, call, count, seen, answer>>

Act(t) ==
    /\ stage[t] = "ready"
    /\ \E o \in Outcomes(class, call[t], object, operand[t]) :
           /\ object' = o.new
           /\ seen' = [seen EXCEPT ![t] = [old |-> object, swapped |-> o.swapped]]
    /\ stage' = [stage EXCEPT ![t] = "acted"]
    /\ UNCHANGED <<class, call, count, evaluated, operand, answer>>

Finish(t) ==
    /\ stage[t] = "acted"
    /\ answer' = [answer EXCEPT ![t] =
           Answer(class, call[t], seen[t].old, operand[t], seen[t].swapped)]
    /\ stage' = [stage EXCEPT ![t] = "idle"]
    /\ operand' = [operand EXCEPT ![t] = None]
    /\ seen' = [seen EXCEPT ![t] = None]
    /\ UNCHANGED <<class, object, call, count, evaluated>>

Next == \E t \in Thread : Ask(t) \/ Evaluate(t) \/ Act(t) \/ Finish(t)

Spec == Init /\ [][Next]_vars
=============================================================================
