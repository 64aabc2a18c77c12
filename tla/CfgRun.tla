------------------------------- MODULE CfgRun -------------------------------
(***************************************************************************)
(* What a control-flow graph promises, whatever code is generated for it:  *)
(* the program runs the entry block, and after each block the one the      *)
(* terminator's branch chose.  Nothing is run in between, nothing is       *)
(* skipped, and a branch that was taken does arrive.                       *)
(* The graph and its terminators are those of crates/cinrs-core/src/cfg.rs.*)
(***************************************************************************)
EXTENDS Integers

VARIABLES succ,     \* the targets of each block's terminator
          at,       \* the block that runs, or ran last; -1 before the entry
          next      \* the target the terminator has chosen; -1 for none

cfgvars == <<succ, at, next>>

NoBlock == -1

Start == at = NoBlock /\ next = NoBlock

(* The function is called: control goes to its entry.                      *)
Begin ==
    /\ at = NoBlock /\ next = NoBlock
    /\ next' = 0
    /\ UNCHANGED <<succ, at>>

(* The terminator of the block that ran evaluates its branch.              *)
Choose ==
    /\ at # NoBlock /\ next = NoBlock
    /\ next' \in succ[at]
    /\ UNCHANGED <<succ, at>>

(* Control arrives at the block that was chosen.                           *)
Arrive ==
    /\ next # NoBlock
    /\ at' = next /\ next' = NoBlock
    /\ UNCHANGED succ

CfgNext == Begin \/ Choose \/ Arrive

CfgSteps == Start /\ [][CfgNext]_cfgvars

CfgSpec == CfgSteps /\ WF_cfgvars(Arrive)
=============================================================================
