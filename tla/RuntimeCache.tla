---------------------------- MODULE RuntimeCache ----------------------------
(***************************************************************************)
(* `find_or_compile` of crates/ccinrs/src/runtime.rs: every run of ccinrs  *)
(* that needs the runtime looks for it in the cache directory they share,  *)
(* or builds it in a scratch directory named after its process and renames *)
(* that into place.  Nothing locks.  Runs may stop dead at any step, and a *)
(* later run may be given a dead one's process id.                         *)
(*                                                                         *)
(* A directory is what is in each of its items; one that holds nothing and *)
(* one that is not there are the same to every call made here.             *)
(***************************************************************************)
EXTENDS Naturals, FiniteSets

CONSTANTS Run,      \* runs of ccinrs
          Pid,      \* process ids
          Key       \* what the runtime is kept under: the rustc and the target

(* A run without a cache directory uses its own work directory instead.    *)
Place == Key \cup Run
ASSUME PlacesDiffer == Key \cap Run = {}
ASSUME SomePid == Pid # {}

VARIABLES pc,       \* what each run does next
          pid,      \* each run's process id
          place,    \* where each run's runtime is kept
          placed,   \* place -> the directory there
          scratch,  \* <<place, pid>> -> the scratch directory there
          result,   \* what the build of each run came to
          fault     \* the runs that the system failed: an error, a crash

vars == <<pc, pid, place, placed, scratch, result, fault>>

Item == {"src", "rt", "facade"}
Dir  == [Item -> {"none", "half", "whole"}]
Nothing  == [i \in Item |-> "none"]
Finished == [i \in Item |-> "whole"]

Making == {"write", "writing", "compile_rt", "compiling_rt",
           "compile_facade", "compiling_facade"}
Building == Making \cup {"clear", "rename", "recheck", "sweep"}
Ended == {"done", "failed", "crashed"}
Live(r) == pc[r] \notin {"idle"} \cup Ended

Scratch_by_key(r) == <<place[r], CHOOSE p \in Pid : TRUE>>
Scratch(r) == <<place[r], pid[r]>>

Init ==
    /\ pc = [r \in Run |-> "idle"]
    /\ pid = [r \in Run |-> CHOOSE p \in Pid : TRUE]
    /\ place = [r \in Run |-> r]
    /\ placed = [p \in Place |-> Nothing]
    /\ scratch = [s \in Place \X Pid |-> Nothing]
    /\ result = [r \in Run |-> "none"]
    /\ fault = {}

(* A process is started: its id is none that a living one has.             *)
Start(r) ==
    /\ pc[r] = "idle"
    /\ \E p \in Pid \ {pid[q] : q \in {x \in Run : Live(x)}}, k \in Key \cup {r} :
        /\ pid' = [pid EXCEPT ![r] = p]
        /\ place' = [place EXCEPT ![r] = k]
    /\ pc' = [pc EXCEPT ![r] = "look"]
    /\ UNCHANGED <<placed, scratch, result, fault>>

Goto(r, label) == pc' = [pc EXCEPT ![r] = label]

(* `library.is_file()`: the library itself is all that is looked at.       *)
LibraryThere(p) == placed[p]["facade"] # "none"

Look_waiting(r) ==
    /\ pc[r] = "look"
    /\ LibraryThere(place[r]) \/ \A p \in Pid : scratch[<<place[r], p>>] = Nothing
    /\ Goto(r, IF LibraryThere(place[r]) THEN "have" ELSE "clear")
    /\ UNCHANGED <<pid, place, placed, scratch, result, fault>>
Look(r) ==
    /\ pc[r] = "look"
    /\ Goto(r, IF LibraryThere(place[r]) THEN "have" ELSE "clear")
    /\ UNCHANGED <<pid, place, placed, scratch, result, fault>>

(* `remove_dir_all`, whose error is ignored: it leaves nothing, or what it *)
(* had not come to.                                                        *)
LeftOf(dir) ==
    {d \in Dir : \A i \in Item :
        \/ d[i] \in {dir[i], "none"}
        \/ i = "src" /\ dir[i] # "none" /\ d[i] = "half"}

Remove(r) ==
    \E left \in LeftOf(scratch[Scratch(r)]) :
        /\ scratch' = [scratch EXCEPT ![Scratch(r)] = left]
        /\ fault' = IF left = Nothing THEN fault ELSE fault \cup {r}

Clear(r) ==
    /\ pc[r] = "clear"
    /\ Remove(r)
    /\ Goto(r, "write")
    /\ UNCHANGED <<pid, place, placed, result>>

Put(r, item, state) == scratch' = [scratch EXCEPT ![Scratch(r)][item] = state]

(* Writing the sources, and compiling each crate, takes a while.           *)
Begin(r, from, item, to) ==
    /\ pc[r] = from
    /\ Put(r, item, "half")
    /\ Goto(r, to)
    /\ UNCHANGED <<pid, place, placed, result, fault>>
Finish(r, from, item, to) ==
    /\ pc[r] = from
    /\ Put(r, item, "whole")
    /\ Goto(r, to)
    /\ UNCHANGED <<pid, place, placed, result, fault>>

(* A source that cannot be written ends the run there and then.            *)
WriteFails(r) ==
    /\ pc[r] \in {"write", "writing"}
    /\ fault' = fault \cup {r}
    /\ result' = [result EXCEPT ![r] = "failed"]
    /\ Goto(r, "failed")
    /\ UNCHANGED <<pid, place, placed, scratch>>

(* rustc fails, and has written some of its output or none.                *)
CompileFails(r, from, item) ==
    /\ pc[r] = from
    /\ \E left \in {"none", "half"} : Put(r, item, left)
    /\ fault' = fault \cup {r}
    /\ result' = [result EXCEPT ![r] = "failed"]
    /\ Goto(r, "sweep")
    /\ UNCHANGED <<pid, place, placed>>

(* `rename(&scratch, &dir)`, which a directory with anything in it refuses.*)
Rename_over(r) ==
    /\ pc[r] = "rename"
    /\ IF placed[place[r]] # Nothing
       THEN /\ placed' = [placed EXCEPT ![place[r]] = Nothing]
            /\ UNCHANGED <<pc, pid, place, scratch, result, fault>>
       ELSE /\ placed' = [placed EXCEPT ![place[r]] = scratch[Scratch(r)]]
            /\ scratch' = [scratch EXCEPT ![Scratch(r)] = Nothing]
            /\ result' = [result EXCEPT ![r] = "placed"]
            /\ Goto(r, "sweep")
            /\ UNCHANGED <<pid, place, fault>>
Rename(r) ==
    /\ pc[r] = "rename" /\ placed[place[r]] = Nothing
    /\ placed' = [placed EXCEPT ![place[r]] = scratch[Scratch(r)]]
    /\ scratch' = [scratch EXCEPT ![Scratch(r)] = Nothing]
    /\ result' = [result EXCEPT ![r] = "placed"]
    /\ Goto(r, "sweep")
    /\ UNCHANGED <<pid, place, fault>>
RenameRefused(r) ==
    /\ pc[r] = "rename" /\ placed[place[r]] # Nothing
    /\ Goto(r, "recheck")
    /\ UNCHANGED <<pid, place, placed, scratch, result, fault>>
(* It may fail for reasons of the system's own, with nothing in the way.   *)
RenameDenied(r) ==
    /\ pc[r] = "rename" /\ placed[place[r]] = Nothing
    /\ fault' = fault \cup {r}
    /\ Goto(r, "recheck")
    /\ UNCHANGED <<pid, place, placed, scratch, result>>

(* Another run may have put its runtime in place first, which is as good.  *)
Recheck_lost(r) ==
    /\ pc[r] = "recheck"
    /\ result' = [result EXCEPT ![r] = "failed"]
    /\ Goto(r, "sweep")
    /\ UNCHANGED <<pid, place, placed, scratch, fault>>
Recheck_given(r) ==
    /\ pc[r] = "recheck"
    /\ result' = [result EXCEPT ![r] = "placed"]
    /\ Goto(r, "sweep")
    /\ UNCHANGED <<pid, place, placed, scratch, fault>>
Recheck(r) ==
    /\ pc[r] = "recheck"
    /\ result' = [result EXCEPT ![r] =
                    IF LibraryThere(place[r]) THEN "placed" ELSE "failed"]
    /\ Goto(r, "sweep")
    /\ UNCHANGED <<pid, place, placed, scratch, fault>>

Sweep_kept(r) ==
    /\ pc[r] = "sweep"
    /\ Goto(r, IF result[r] = "placed" THEN "have" ELSE "failed")
    /\ UNCHANGED <<pid, place, placed, scratch, result, fault>>
Sweep(r) ==
    /\ pc[r] = "sweep"
    /\ Remove(r)
    /\ Goto(r, IF result[r] = "placed" THEN "have" ELSE "failed")
    /\ UNCHANGED <<pid, place, placed, result>>

(* The run is killed; what it had on disk stays as it is.                  *)
Crash(r) ==
    /\ Live(r)
    /\ fault' = fault \cup {r}
    /\ Goto(r, "crashed")
    /\ UNCHANGED <<pid, place, placed, scratch, result>>

Write(r) ==
    \/ Begin(r, "write", "src", "writing")
    \/ Finish(r, "writing", "src", "compile_rt")
    \/ WriteFails(r)
Compile(r) ==
    \/ Begin(r, "compile_rt", "rt", "compiling_rt")
    \/ Finish(r, "compiling_rt", "rt", "compile_facade")
    \/ CompileFails(r, "compiling_rt", "rt")
    \/ Begin(r, "compile_facade", "facade", "compiling_facade")
    \/ Finish(r, "compiling_facade", "facade", "rename")
    \/ CompileFails(r, "compiling_facade", "facade")
Install(r) == Rename(r) \/ RenameRefused(r) \/ RenameDenied(r) \/ Recheck(r)

Step(r) == Look(r) \/ Clear(r) \/ Write(r) \/ Compile(r) \/ Install(r) \/ Sweep(r)

(* The run has linked the library into what it was asked for.              *)
Exit(r) ==
    /\ pc[r] = "have"
    /\ Goto(r, "done")
    /\ UNCHANGED <<pid, place, placed, scratch, result, fault>>

Over == \A r \in Run : pc[r] \in Ended
Rest == Over /\ UNCHANGED vars

Next == (\E r \in Run : Start(r) \/ Step(r) \/ Exit(r) \/ Crash(r)) \/ Rest

Spec == Init /\ [][Next]_vars /\ \A r \in Run : WF_vars(Step(r))

-----------------------------------------------------------------------------
TypeOK ==
    /\ pc \in [Run -> {"idle", "look", "have"} \cup Building \cup Ended]
    /\ pid \in [Run -> Pid]
    /\ place \in [Run -> Place] /\ \A r \in Run : place[r] \in Key \cup {r}
    /\ placed \in [Place -> Dir]
    /\ scratch \in [Place \X Pid -> Dir]
    /\ result \in [Run -> {"none", "placed", "failed"}]
    /\ fault \subseteq Run

(* "so that two runs at once, as `make -j` starts them, never see half a   *)
(* runtime": where a library is there to be found, and in the hands of     *)
(* every run that was given one, all of the runtime is there and finished. *)
NeverHalf ==
    \A r \in Run :
        LibraryThere(place[r]) \/ pc[r] = "have" => placed[place[r]] = Finished

(* A runtime that is in place is never taken away or written over, so what *)
(* one run links against another run does not disturb.                     *)
StaysInPlace ==
    [][\A p \in Place : LibraryThere(p) => placed'[p] = placed[p]]_vars

(* Losing the race to another run is no failure: a run fails only when the *)
(* system refused it something.                                            *)
FailsForCause == \A r \in Run : pc[r] = "failed" => r \in fault

(* A scratch directory is somebody's: the one of a run that is building,   *)
(* or of one the system failed.                                            *)
NoLitter ==
    \A p \in Place, i \in Pid :
        scratch[<<p, i>>] # Nothing =>
            \E r \in Run : /\ place[r] = p /\ pid[r] = i
                           /\ pc[r] \in Building \/ r \in fault

(* Nothing one run does, or leaves behind, keeps another from its answer.  *)
EveryRunAnswered ==
    \A r \in Run : pc[r] = "look" ~> pc[r] \in {"have"} \cup Ended

(* The cache is the store of whole runtimes it promises to be.             *)
asked == [r \in Run |-> IF pc[r] = "idle" THEN {} ELSE {place[r]}]
kept  == {p \in Place : placed[p] = Finished}
Told(label) ==
    CASE label \in {"have", "done"} -> "library"
      [] label = "failed" -> "failed"
      [] label = "crashed" -> "gone"
      [] OTHER -> "none"
answer == [r \in Run |-> Told(pc[r])]
Store == INSTANCE RuntimeStore
KeepsStore == Store!StoreSpec
=============================================================================
