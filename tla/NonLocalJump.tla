---------------------------- MODULE NonLocalJump ----------------------------
(***************************************************************************)
(* `setjmp` and `longjmp` as the generated code has them: the frames, the  *)
(* registry of live frames each unit keeps on each thread, and the unwind  *)
(* a `longjmp` becomes (nonlocal_jump_items and setjmp_frame in            *)
(* crates/cinrs-core/src/codegen.rs).                                      *)
(*                                                                         *)
(* A frame's address is its stack and its depth there, so that a later     *)
(* call may have the address of one that returned.  A thread has a stack   *)
(* of its own, and more for coroutines, which never leave their thread.    *)
(***************************************************************************)
EXTENDS Naturals, Sequences, FiniteSets, Functions

CONSTANTS Thread, Stack, Unit, Buf,
          MaxDepth,     \* bound: frames on a stack
          MaxSerial,    \* bound: serial numbers a thread's registries give out
          Walks,        \* whether `__cinrs_sj_reach` may be, or not be, there
          Reuses,       \* a thread may get the stack of a finished one
          Abandons      \* a coroutine may be freed with frames on its stack

ASSUME JumpBounds ==
    /\ Stack # {} /\ Unit # {}
    /\ MaxDepth \in Nat /\ MaxSerial \in Nat /\ Walks \cup {Reuses, Abandons} \subseteq BOOLEAN

VARIABLES frames,   \* stack -> its frames, the innermost last
          owner,    \* stack -> the thread that has it, if any
          had,      \* stack -> the threads that have had it
          thread,   \* thread -> "new", "runs" or "ended"
          on,       \* thread -> the stack it runs on
          head,     \* thread -> unit -> its newest live frame
          count,    \* thread -> unit -> the last serial number given out
          buf,      \* what each jmp_buf holds; serial 0 for nothing yet
          unwind,   \* thread -> the payload that unwinds it; serial 0 for none
          stop,     \* what stopped the program; "no" while it runs
          walks     \* the build walks the stack before it jumps (on Unix)

vars == <<frames, owner, had, thread, on, head, count, buf, unwind, stop, walks>>
threads == <<owner, had, thread, on, walks>>

(* What a call puts on the stack: a function that calls `setjmp`, one that *)
(* does not, and one that an unwind cannot get through (an `extern "C"`    *)
(* one, or one that a signal interrupted between calls: the two differ in  *)
(* the message alone).                                                     *)
Kind == {"sj", "plain", "blocked"}

Addr == Stack \X (1 .. MaxDepth)
Null == <<>>
Node(a) == frames[a[1]][a[2]]
Standing(a) == a # Null /\ a[2] \in DOMAIN frames[a[1]]
Top(s) == <<s, Len(frames[s])>>
NoJump == [addr |-> Null, serial |-> 0]

Init ==
    /\ frames = [s \in Stack |-> <<>>]
    /\ owner = [s \in Stack |-> {}] /\ had = [s \in Stack |-> {}]
    /\ thread = [t \in Thread |-> "new"]
    /\ on = [t \in Thread |-> CHOOSE s \in Stack : TRUE]
    /\ head = [t \in Thread |-> [u \in Unit |-> Null]]
    /\ count = [t \in Thread |-> [u \in Unit |-> 0]]
    /\ buf = [b \in Buf |-> [addr |-> Null, serial |-> 0, unit |-> CHOOSE u \in Unit : TRUE]]
    /\ unwind = [t \in Thread |-> NoJump]
    /\ stop = "no"
    /\ walks \in Walks

-----------------------------------------------------------------------------
(* The thread's list of live frames: what `prev` leads to from a frame.    *)
Follows(S) == \A x \in S : Standing(x) => Node(x).prev \in S
Linked(a) ==
    {x \in Addr : \A S \in SUBSET (Addr \cup {Null}) : a \in S /\ Follows(S) => x \in S}

is_live_address(t, u, a, serial) == a \in Linked(head[t][u])
is_live(t, u, a, serial) ==
    a \in Linked(head[t][u]) /\ Standing(a) /\ Node(a).serial = serial

(* `drop` of the frame object of a function that calls `setjmp`, and the   *)
(* end of its call: the frame is taken off the list it may be on, from the *)
(* middle if it is not the newest.                                         *)
unlinked_head(a, list) == frames
unlinked(a, list) ==
    [s \in Stack |-> [d \in DOMAIN frames[s] |->
        IF <<s, d>> \in list /\ frames[s][d].prev = a
        THEN [frames[s][d] EXCEPT !.prev = Node(a).prev]
        ELSE frames[s][d]]]
Popped(fs, s) == [fs EXCEPT ![s] = SubSeq(@, 1, Len(@) - 1)]
Drop(t, s) ==
    LET a == Top(s)
        u == Node(a).unit
    IN  IF Node(a).kind # "sj" \/ Node(a).serial = 0
        THEN frames' = Popped(frames, s) /\ UNCHANGED head
        ELSE IF head[t][u] = a
        THEN /\ head' = [head EXCEPT ![t][u] = Node(a).prev]
             /\ frames' = Popped(frames, s)
        ELSE /\ frames' = Popped(unlinked(a, Linked(head[t][u])), s)
             /\ UNCHANGED head

-----------------------------------------------------------------------------
Running(t) == stop = "no" /\ thread[t] = "runs" /\ unwind[t] = NoJump

Free(t) == {s \in Stack : owner[s] = {} /\ (Reuses \/ had[s] \subseteq {t})}
Take(t, s) ==
    /\ owner' = [owner EXCEPT ![s] = {t}]
    /\ had' = [had EXCEPT ![s] = @ \cup {t}]
    /\ on' = [on EXCEPT ![t] = s]

StartThread(t) ==
    /\ stop = "no" /\ thread[t] = "new"
    /\ \E s \in Free(t) : Take(t, s)
    /\ thread' = [thread EXCEPT ![t] = "runs"]
    /\ UNCHANGED <<frames, head, count, buf, unwind, stop, walks>>

(* Its thread-locals go with it.                                           *)
EndThread(t) ==
    /\ Running(t)
    /\ \A s \in Stack : owner[s] = {t} => frames[s] = <<>>
    /\ owner' = [s \in Stack |-> owner[s] \ {t}]
    /\ thread' = [thread EXCEPT ![t] = "ended"]
    /\ UNCHANGED <<frames, had, on, head, count, buf, unwind, stop, walks>>

(* A coroutine is made and entered, left for another, and freed.           *)
NewCoroutine(t) ==
    /\ Running(t)
    /\ \E s \in Free(t) : Take(t, s)
    /\ UNCHANGED <<frames, thread, head, count, buf, unwind, stop, walks>>
Switch(t) ==
    /\ Running(t)
    /\ \E s \in Stack \ {on[t]} : owner[s] = {t} /\ on' = [on EXCEPT ![t] = s]
    /\ UNCHANGED <<frames, owner, had, thread, head, count, buf, unwind, stop, walks>>
FreeCoroutine(t) ==
    /\ Running(t)
    /\ \E s \in Stack \ {on[t]} :
        /\ owner[s] = {t}
        /\ frames[s] = <<>> \/ Abandons
        /\ owner' = [owner EXCEPT ![s] = {}]
        /\ frames' = [frames EXCEPT ![s] = <<>>]
    /\ UNCHANGED <<had, thread, on, head, count, buf, unwind, stop, walks>>

Call(t) ==
    /\ Running(t)
    /\ Len(frames[on[t]]) < MaxDepth
    /\ \E k \in Kind : \E u \in IF k = "sj" THEN Unit ELSE {CHOOSE x \in Unit : TRUE} :
        frames' = [frames EXCEPT ![on[t]] =
            Append(@, [kind |-> k, unit |-> u, serial |-> 0, prev |-> Null, saved |-> {}])]
    /\ UNCHANGED <<threads, head, count, buf, unwind, stop>>

Return(t) ==
    /\ Running(t)
    /\ frames[on[t]] # <<>>
    /\ Drop(t, on[t])
    /\ UNCHANGED <<threads, count, buf, unwind, stop>>

(* The serial numbers the registries of a thread have given out.           *)
Given(t) == FoldFunction(+, 0, count[t])

(* `save`.  `saved` is kept for the properties alone: the buffers that     *)
(* hold this activation.                                                   *)
Forget(b) ==
    [s \in Stack |-> [d \in DOMAIN frames[s] |->
        [frames[s][d] EXCEPT !.saved = @ \ {b}]]]
SetJmp(t) ==
    LET s == on[t]
        a == Top(s)
        f == Node(a)
        fresh == f.serial = 0
        serial == IF fresh THEN count[t][f.unit] + 1 ELSE f.serial
    IN  /\ Running(t) /\ frames[s] # <<>> /\ f.kind = "sj"
        /\ fresh => Given(t) < MaxSerial
        /\ IF fresh
           THEN /\ count' = [count EXCEPT ![t][f.unit] = serial]
                /\ head' = [head EXCEPT ![t][f.unit] = a]
           ELSE UNCHANGED <<count, head>>
        /\ \E b \in Buf :
            /\ frames' = [Forget(b) EXCEPT ![s][a[2]] =
                    [f EXCEPT !.serial = serial,
                              !.prev = IF fresh THEN head[t][f.unit] ELSE @,
                              !.saved = @ \cup {b}]]
            /\ buf' = [buf EXCEPT ![b] = [addr |-> a, serial |-> serial, unit |-> f.unit]]
        /\ UNCHANGED <<threads, unwind, stop>>

-----------------------------------------------------------------------------
(* What `__cinrs_sj_reach` finds between the call of `longjmp` and the     *)
(* frame at an address of this stack.                                      *)
Hard(t, a) ==
    {d \in DOMAIN frames[on[t]] :
        /\ a[1] = on[t] => d > a[2]
        /\ frames[on[t]][d].kind = "blocked"}
reach(t, a) ==
    IF Hard(t, a) # {} THEN "blocked"
    ELSE IF a[1] = on[t] /\ a[2] \in DOMAIN frames[on[t]] THEN "no"
    ELSE "elsewhere"

(* Why `longjmp(buf)` stops the program instead, or "no".                  *)
refusal(t, b) ==
    IF buf[b].serial = 0 THEN "unfilled"
    ELSE IF ~ is_live(t, buf[b].unit, buf[b].addr, buf[b].serial) THEN "inactive"
    ELSE IF walks THEN reach(t, buf[b].addr)
    ELSE "no"

LongJmp(t, b) ==
    /\ Running(t) /\ frames[on[t]] # <<>>
    /\ IF refusal(t, b) = "no"
       THEN /\ unwind' = [unwind EXCEPT ![t] =
                    [addr |-> buf[b].addr, serial |-> buf[b].serial]]
            /\ UNCHANGED stop
       ELSE stop' = refusal(t, b) /\ UNCHANGED unwind
    /\ UNCHANGED <<frames, threads, head, count, buf>>

(* One frame of the unwind.  `land` compares the payload with its frame:   *)
(* the activation that was meant runs its graph again, any other goes on   *)
(* unwinding, and its frame is dropped.                                    *)
Unwind_newest(t) ==
    LET s == on[t]
        f == Node(Top(s))
    IN  /\ stop = "no" /\ unwind[t] # NoJump /\ frames[s] # <<>>
        /\ f.kind \in {"sj", "plain"}
        /\ IF f.kind = "sj" /\ unwind[t] = [addr |-> Top(s), serial |-> count[t][f.unit]]
           THEN unwind' = [unwind EXCEPT ![t] = NoJump] /\ UNCHANGED <<frames, head>>
           ELSE Drop(t, s) /\ UNCHANGED unwind
        /\ UNCHANGED <<threads, count, buf, stop>>
Unwind(t) ==
    LET s == on[t]
        f == Node(Top(s))
    IN  /\ stop = "no" /\ unwind[t] # NoJump /\ frames[s] # <<>>
        /\ f.kind \in {"sj", "plain"}
        /\ IF f.kind = "sj" /\ unwind[t] = [addr |-> Top(s), serial |-> f.serial]
           THEN unwind' = [unwind EXCEPT ![t] = NoJump] /\ UNCHANGED <<frames, head>>
           ELSE Drop(t, s) /\ UNCHANGED unwind
        /\ UNCHANGED <<threads, count, buf, stop>>

(* The unwinder comes to a frame it cannot leave, or to the stack's end.   *)
Lost(t) ==
    /\ stop = "no" /\ unwind[t] # NoJump
    /\ frames[on[t]] # <<>> => Node(Top(on[t])).kind = "blocked"
    /\ stop' = "lost"
    /\ UNCHANGED <<frames, threads, head, count, buf, unwind>>

Next ==
    \E t \in Thread :
        \/ StartThread(t) \/ EndThread(t)
        \/ NewCoroutine(t) \/ Switch(t) \/ FreeCoroutine(t)
        \/ Call(t) \/ Return(t) \/ SetJmp(t) \/ Unwind(t) \/ Lost(t)
        \/ \E b \in Buf : LongJmp(t, b)

Spec == Init /\ [][Next]_vars /\ \A t \in Thread : WF_vars(Unwind(t))

-----------------------------------------------------------------------------
(* The frames of a unit that a thread is in and can come back to.          *)
Live(t, u) ==
    {a \in Addr :
        /\ owner[a[1]] = {t} /\ Standing(a)
        /\ Node(a).kind = "sj" /\ Node(a).unit = u /\ Node(a).serial # 0}

(* "so the list never names a frame that is gone" (codegen.rs:3745-3748),  *)
(* nor one of another thread's or unit's; and it misses none that is live. *)
RegistryIsLive ==
    \A t \in Thread, u \in Unit : thread[t] = "runs" => Linked(head[t][u]) = Live(t, u)

(* A jump that is not refused goes to the activation that filled its       *)
(* buffer in, not to one that has its address.                             *)
JumpsToItsSetJmp ==
    [][\A t \in Thread, b \in Buf :
         LongJmp(t, b) /\ unwind'[t] # NoJump =>
             LET a == unwind'[t].addr IN Standing(a) /\ b \in Node(a).saved]_vars

(* "stops the program with a message of its own if the unwind could not    *)
(* get there" (codegen.rs:3960-3962): where the stack is walked first, an  *)
(* unwind is not lost, whatever the other threads do meanwhile: it comes   *)
(* to its frame and `land` takes it, or another thread stops the program.  *)
JumpsLand ==
    \A t \in Thread :
        walks /\ unwind[t] # NoJump ~> unwind[t] = NoJump \/ stop \notin {"no", "lost"}
=============================================================================
