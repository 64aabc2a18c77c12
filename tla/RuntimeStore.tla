---------------------------- MODULE RuntimeStore ----------------------------
(***************************************************************************)
(* What the cache of compiled runtimes promises the runs of ccinrs that    *)
(* share it (crates/ccinrs/src/runtime.rs): a place holds no runtime or a  *)
(* finished one, a finished one stays, and a run that is given the library *)
(* is given a finished one.                                                *)
(***************************************************************************)
CONSTANTS Run, Place

VARIABLES asked,    \* the place each run asked for; {} before it asks
          kept,     \* the places that hold a finished runtime
          answer    \* what each run was told

storevars == <<asked, kept, answer>>

StoreInit ==
    /\ asked = [r \in Run |-> {}]
    /\ kept = {}
    /\ answer = [r \in Run |-> "none"]

Waiting(r) == asked[r] # {} /\ answer[r] = "none"

Ask(r) ==
    /\ asked[r] = {} /\ answer[r] = "none"
    /\ \E p \in Place : asked' = [asked EXCEPT ![r] = {p}]
    /\ UNCHANGED <<kept, answer>>

(* The run puts the runtime it made in a place that has none.              *)
Keep(r) ==
    /\ Waiting(r) /\ asked[r] \cap kept = {}
    /\ kept' = kept \cup asked[r]
    /\ UNCHANGED <<asked, answer>>

Answered(r, a) ==
    /\ Waiting(r)
    /\ answer' = [answer EXCEPT ![r] = a]
    /\ UNCHANGED <<asked, kept>>

Give(r)   == asked[r] \subseteq kept /\ Answered(r, "library")
Refuse(r) == Answered(r, "failed")
Die(r) ==
    /\ asked[r] # {} /\ answer[r] # "gone"
    /\ answer' = [answer EXCEPT ![r] = "gone"]
    /\ UNCHANGED <<asked, kept>>

StoreNext == \E r \in Run : Ask(r) \/ Keep(r) \/ Give(r) \/ Refuse(r) \/ Die(r)

StoreSpec == StoreInit /\ [][StoreNext]_storevars
=============================================================================
