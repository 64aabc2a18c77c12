---------------------------- MODULE RuntimeProofs ---------------------------
(***************************************************************************)
(* Proofs about RuntimeCache, for any number of runs, process ids and      *)
(* keys.  What the properties rest on is that the scratch directory of a   *)
(* run that is alive is its own, so what it has finished there stays       *)
(* finished until it is renamed.                                           *)
(***************************************************************************)
EXTENDS RuntimeCache, TLAPS

Apart ==
    \A r, q \in Run : r # q /\ Live(r) /\ Live(q) => Scratch(r) # Scratch(q)

Whole(r, item) == scratch[Scratch(r)][item] = "whole"

BuiltInOrder ==
    \A r \in Run :
        /\ pc[r] \in {"compile_rt", "compiling_rt", "compile_facade",
                      "compiling_facade", "rename"} => Whole(r, "src")
        /\ pc[r] \in {"compile_facade", "compiling_facade", "rename"} => Whole(r, "rt")
        /\ pc[r] = "rename" => Whole(r, "facade")

PlacedFinished == \A p \in Place : placed[p] \in {Nothing, Finished}

InHand ==
    \A r \in Run :
        pc[r] = "have" \/ result[r] = "placed" => placed[place[r]] = Finished

Blame ==
    \A r \in Run :
        /\ pc[r] = "failed" \/ result[r] = "failed" => r \in fault
        /\ pc[r] = "sweep" => result[r] # "none"
        /\ pc[r] = "recheck" => placed[place[r]] = Finished \/ r \in fault
        /\ pc[r] = "idle" => r \notin fault /\ result[r] = "none"

PidsApart == \A r, q \in Run : r # q /\ Live(r) /\ Live(q) => pid[r] # pid[q]

IInv == TypeOK /\ PidsApart /\ BuiltInOrder /\ PlacedFinished /\ InHand /\ Blame /\ NoLitter

-----------------------------------------------------------------------------
LEMMA DirFacts ==
    /\ Nothing \in Dir /\ Finished \in Dir /\ Nothing # Finished
    /\ Nothing["facade"] = "none" /\ Finished["facade"] = "whole"
    /\ \A d \in Dir : (\A i \in Item : d[i] = "whole") => d = Finished
    /\ \A d \in Dir, i \in Item, s \in {"none", "half", "whole"} :
           [d EXCEPT ![i] = s] \in Dir
BY DEF Dir, Nothing, Finished, Item

LEMMA InitIInv == Init => IInv
<1> SUFFICES ASSUME Init PROVE IInv
  OBVIOUS
<1>1. (CHOOSE p \in Pid : TRUE) \in Pid
  BY SomePid
<1>2. TypeOK
  BY <1>1, DirFacts DEF Init, TypeOK, Place, Building, Making, Ended
<1>3. PidsApart
  BY DEF Init, PidsApart, Live
<1>4. BuiltInOrder /\ PlacedFinished /\ InHand /\ Blame
  BY DEF Init, BuiltInOrder, PlacedFinished, InHand, Blame
<1>5. NoLitter
  BY DEF Init, NoLitter
<1> QED
  BY <1>2, <1>3, <1>4, <1>5 DEF IInv
(* What every step of a run leaves alone: the process ids and the places,  *)
(* and every scratch directory but the run's own.                          *)
OwnStep(r) ==
    /\ \E l \in {"have"} \cup Building \cup Ended : pc' = [pc EXCEPT ![r] = l]
    /\ Live(r)
    /\ UNCHANGED <<pid, place>>
    /\ \E d \in Dir : scratch' = [scratch EXCEPT ![Scratch(r)] = d]
    /\ \E s \in {"none", "placed", "failed"} : result' = [result EXCEPT ![r] = s]
    /\ fault' \in {fault, fault \cup {r}}
    /\ \/ placed' = placed
       \/ \E d \in Dir : placed' = [placed EXCEPT ![place[r]] = d]

LEMMA StepIsOwn ==
    ASSUME TypeOK, NEW r \in Run, Step(r) \/ Exit(r) \/ Crash(r)
    PROVE  OwnStep(r)
<1> USE DEF OwnStep, TypeOK, Live, Building, Making, Ended, Goto
<1>1. Scratch(r) \in Place \X Pid /\ scratch[Scratch(r)] \in Dir
  BY DEF Scratch
<1>2. scratch = [scratch EXCEPT ![Scratch(r)] = scratch[Scratch(r)]]
  BY <1>1
<1>3. result = [result EXCEPT ![r] = result[r]]
  OBVIOUS
<1>4. \A i \in Item, s \in {"none", "half", "whole"} :
         /\ [scratch[Scratch(r)] EXCEPT ![i] = s] \in Dir
         /\ [scratch EXCEPT ![Scratch(r)][i] = s] =
               [scratch EXCEPT ![Scratch(r)] = [scratch[Scratch(r)] EXCEPT ![i] = s]]
  BY <1>1, DirFacts
<1>5. CASE Look(r)
  BY <1>1, <1>2, <1>3, <1>4, <1>5, DirFacts DEF Look
<1>6. CASE Clear(r)
  BY <1>1, <1>2, <1>3, <1>4, <1>6, DirFacts DEF Clear, Remove, LeftOf
<1>7. CASE Write(r)
  BY <1>1, <1>2, <1>3, <1>4, <1>7, DirFacts DEF Write, Begin, Finish, WriteFails, Put, Item
<1>8. CASE Compile(r)
  BY <1>1, <1>2, <1>3, <1>4, <1>8, DirFacts DEF Compile, Begin, Finish, CompileFails, Put, Item
<1>9. CASE Install(r)
  BY <1>1, <1>2, <1>3, <1>4, <1>9, DirFacts DEF Install, Rename, RenameRefused, RenameDenied, Recheck
<1>10. CASE Sweep(r)
  BY <1>1, <1>2, <1>3, <1>4, <1>10, DirFacts DEF Sweep, Remove, LeftOf
<1>11. CASE Exit(r)
  BY <1>1, <1>2, <1>3, <1>4, <1>11, DirFacts DEF Exit
<1>12. CASE Crash(r)
  BY <1>1, <1>2, <1>3, <1>4, <1>12, DirFacts DEF Crash
<1> QED
  BY <1>5, <1>6, <1>7, <1>8, <1>9, <1>10, <1>11, <1>12 DEF Step
(* The other runs see nothing of it but what is put in place.              *)
LEMMA OthersKeep ==
    ASSUME IInv, NEW r \in Run, OwnStep(r)
    PROVE  /\ TypeOK' /\ PidsApart'
           /\ \A q \in Run \ {r} :
                 /\ pc'[q] = pc[q] /\ result'[q] = result[q]
                 /\ q \in fault' <=> q \in fault
                 /\ Scratch(q)' = Scratch(q)
                 /\ Live(q) => scratch'[Scratch(q)] = scratch[Scratch(q)]
<1> USE DEF IInv, OwnStep
<1>1. Scratch(r) \in Place \X Pid
  BY DEF TypeOK, Scratch
<1>2. TypeOK'
  BY <1>1 DEF TypeOK
<1>3. \A q \in Run : Live(q)' => Live(q)
  BY DEF TypeOK, Live
<1>4. PidsApart'
  BY <1>3 DEF PidsApart
<1>5. \A q \in Run \ {r} : Live(q) => Scratch(q) # Scratch(r) /\ Scratch(q) \in Place \X Pid
  BY DEF PidsApart, Scratch, TypeOK
<1>6. \A q \in Run \ {r} :
         /\ pc'[q] = pc[q] /\ result'[q] = result[q]
         /\ q \in fault' <=> q \in fault
         /\ Scratch(q)' = Scratch(q)
  BY DEF TypeOK, Scratch
<1>7. \A q \in Run \ {r} : Live(q) => scratch'[Scratch(q)] = scratch[Scratch(q)]
  BY <1>5 DEF TypeOK
<1> HIDE DEF IInv, OwnStep
<1> QED
  BY <1>2, <1>4, <1>6, <1>7

(* What is in place is finished, and stays.                                *)
LEMMA PlacedKept ==
    ASSUME IInv, NEW r \in Run, Step(r) \/ Exit(r) \/ Crash(r)
    PROVE  /\ PlacedFinished'
           /\ \A p \in Place : placed[p] # Nothing => placed'[p] = placed[p]
<1>1. CASE Rename(r)
  <2>1. scratch[Scratch(r)] = Finished
    <3>1. scratch[Scratch(r)] \in Dir
      BY DEF IInv, TypeOK, Scratch
    <3>2. \A i \in Item : scratch[Scratch(r)][i] = "whole"
      BY <1>1 DEF IInv, BuiltInOrder, Rename, Whole, Item
    <3> QED
      BY <3>1, <3>2, DirFacts
  <2>2. placed' = [placed EXCEPT ![place[r]] = Finished] /\ placed[place[r]] = Nothing
    BY <1>1, <2>1 DEF Rename
  <2> QED
    BY <2>2 DEF IInv, TypeOK, PlacedFinished
<1>2. CASE ~ Rename(r)
  <2>1. placed' = placed
    BY <1>2 DEF Step, Exit, Crash, Look, Clear, Write, Begin, Finish, WriteFails, Compile,
                CompileFails, Install, RenameRefused, RenameDenied, Recheck, Sweep
  <2> QED
    BY <2>1 DEF IInv, PlacedFinished
<1> QED
  BY <1>1, <1>2

(* The scratch directory of the run itself.                                *)
LEMMA BuiltKept ==
    ASSUME IInv, NEW r \in Run, Step(r) \/ Exit(r) \/ Crash(r)
    PROVE  BuiltInOrder'
<1>1. OwnStep(r)
  BY StepIsOwn DEF IInv
<1>2. ASSUME NEW q \in Run \ {r}
      PROVE  /\ pc'[q] = pc[q]
             /\ Live(q) => \A i \in Item : Whole(q, i)' <=> Whole(q, i)
  BY <1>1, OthersKeep DEF Whole
<1>3. /\ pc'[r] \in {"compile_rt", "compiling_rt", "compile_facade",
                     "compiling_facade", "rename"} => Whole(r, "src")'
      /\ pc'[r] \in {"compile_facade", "compiling_facade", "rename"} => Whole(r, "rt")'
      /\ pc'[r] = "rename" => Whole(r, "facade")'
  <2>1. /\ Scratch(r) \in Place \X Pid /\ scratch[Scratch(r)] \in Dir
        /\ Scratch(r)' = Scratch(r)
    BY <1>1 DEF IInv, TypeOK, Scratch, OwnStep
  <2>2. CASE Write(r)
    BY <2>1, <2>2 DEF IInv, TypeOK, Write, Begin, Finish, WriteFails, Put, Goto, Whole, Dir, Item
  <2>3. CASE Compile(r)
    BY <2>1, <2>3 DEF IInv, TypeOK, BuiltInOrder, Compile, Begin, Finish, CompileFails, Put, Goto,
                      Whole, Dir, Item
  <2>4. CASE Look(r) \/ Clear(r) \/ Install(r) \/ Sweep(r) \/ Exit(r) \/ Crash(r)
    <3>1. pc'[r] \in {"have", "clear", "write", "sweep", "recheck", "failed", "done", "crashed"}
      BY <2>4 DEF IInv, TypeOK, Look, Clear, Install, Rename, RenameRefused, RenameDenied,
                  Recheck, Sweep, Exit, Crash, Goto
    <3> QED
      BY <3>1
  <2> QED
    BY <2>2, <2>3, <2>4 DEF Step
<1>4. \A q \in Run : pc[q] \in {"compile_rt", "compiling_rt", "compile_facade",
                               "compiling_facade", "rename"} => Live(q)
  BY DEF Live, Ended
<1>5. "src" \in Item /\ "rt" \in Item /\ "facade" \in Item
  BY DEF Item
<1> QED
  BY <1>2, <1>3, <1>4, <1>5 DEF IInv, BuiltInOrder
(* What each run was given, and what it has to blame.                      *)
LEMMA AnswersKept ==
    ASSUME IInv, NEW r \in Run, Step(r) \/ Exit(r) \/ Crash(r)
    PROVE  InHand' /\ Blame'
<1>1. OwnStep(r)
  BY StepIsOwn DEF IInv
<1>2. ASSUME NEW q \in Run, placed[place[q]] = Finished
      PROVE  placed'[place'[q]] = Finished
  <2>1. place' = place /\ place[q] \in Place /\ Finished # Nothing
    BY <1>1, DirFacts DEF OwnStep, IInv, TypeOK
  <2> QED
    BY <1>2, <2>1, PlacedKept
<1>3. ASSUME NEW q \in Run \ {r}
      PROVE  /\ pc'[q] = pc[q] /\ result'[q] = result[q]
             /\ q \in fault' <=> q \in fault
  BY <1>1, OthersKeep
<1>4. /\ placed[place[r]] \in {Nothing, Finished} /\ placed \in [Place -> Dir]
      /\ place[r] \in Place /\ r \in DOMAIN pc /\ r \in DOMAIN result
      /\ LibraryThere(place[r]) <=> placed[place[r]] = Finished
  BY DirFacts DEF IInv, TypeOK, PlacedFinished, LibraryThere
<1>5. pc'[r] = "have" \/ result'[r] = "placed" => placed'[place'[r]] = Finished
  <2>1. CASE Rename(r)
    <3>1. placed' = [placed EXCEPT ![place[r]] = placed'[place[r]]]
      BY <2>1, <1>4 DEF Rename
    <3>2. placed'[place[r]] \in {Nothing, Finished} /\ place' = place
      BY <2>1, <1>4, PlacedKept DEF PlacedFinished, Rename
    <3>3. placed'[place[r]]["facade"] = "whole"
      BY <2>1, <1>4 DEF Rename, IInv, BuiltInOrder, Whole
    <3> QED
      BY <3>2, <3>3, DirFacts
  <2>2. CASE ~ Rename(r) /\ placed[place[r]] # Finished
    <3>1. pc[r] # "have" /\ result[r] # "placed"
      BY <2>2 DEF IInv, InHand
    <3> QED
      BY <1>4, <2>2, <3>1 DEF Step, Exit, Crash, Look, Clear, Write, Begin, Finish, WriteFails,
         Compile, CompileFails, Install, RenameRefused, RenameDenied, Recheck, Sweep, Goto
  <2>3. CASE placed[place[r]] = Finished
    BY <1>2, <2>3
  <2> QED
    BY <2>1, <2>2, <2>3
<1>6. /\ pc'[r] = "failed" \/ result'[r] = "failed" => r \in fault'
      /\ pc'[r] = "sweep" => result'[r] # "none"
      /\ pc'[r] = "recheck" => placed'[place'[r]] = Finished \/ r \in fault'
      /\ pc'[r] # "idle"
  <2>0. /\ pc[r] = "failed" \/ result[r] = "failed" => r \in fault
        /\ pc[r] = "sweep" => result[r] # "none"
        /\ pc[r] = "recheck" => placed[place[r]] = Finished \/ r \in fault
        /\ pc[r] # "idle" /\ result[r] \in {"none", "placed", "failed"}
    BY <1>1 DEF IInv, Blame, OwnStep, Live, TypeOK
  <2>1. CASE Look(r) \/ Clear(r) \/ Sweep(r) \/ Exit(r) \/ Crash(r)
    BY <1>4, <2>0, <2>1 DEF Look, Clear, Remove, Sweep, Exit, Crash, Goto
  <2>2. CASE Write(r) \/ Compile(r)
    BY <1>4, <2>0, <2>2 DEF Write, Compile, Begin, Finish, WriteFails, CompileFails, Goto
  <2>3. CASE Install(r)
    BY <1>4, <2>0, <2>3 DEF Install, Rename, RenameRefused, RenameDenied, Recheck, Goto
  <2> QED
    BY <2>1, <2>2, <2>3 DEF Step
<1>7. InHand'
  BY <1>2, <1>3, <1>5 DEF IInv, InHand
<1>8. Blame'
  BY <1>2, <1>3, <1>6 DEF IInv, Blame
<1> QED
  BY <1>7, <1>8

(* A scratch directory that is left is the run's own, or still somebody's. *)
LEMMA LitterKept ==
    ASSUME IInv, NEW r \in Run, Step(r) \/ Exit(r) \/ Crash(r)
    PROVE  NoLitter'
<1>1. OwnStep(r)
  BY StepIsOwn DEF IInv
<1>2. SUFFICES ASSUME NEW p \in Place, NEW i \in Pid, scratch'[<<p, i>>] # Nothing
               PROVE  \E q \in Run :
                         /\ place'[q] = p /\ pid'[q] = i
                         /\ pc'[q] \in Building \/ q \in fault'
  BY DEF NoLitter
<1>3. place' = place /\ pid' = pid /\ fault \subseteq fault'
  BY <1>1 DEF OwnStep
<1>4. Scratch(r) \in Place \X Pid /\ scratch \in [Place \X Pid -> Dir] /\ r \in DOMAIN pc
  BY DEF IInv, TypeOK, Scratch
<1>5. CASE <<p, i>> = Scratch(r) /\ ~ (Look(r) \/ Exit(r))
  <2>1. place'[r] = p /\ pid'[r] = i
    BY <1>3, <1>5 DEF Scratch
  <2>2. pc'[r] \in Building \/ r \in fault'
    <3>2. CASE Clear(r) \/ Write(r) \/ Compile(r) \/ Install(r) \/ Crash(r)
      BY <1>4, <3>2 DEF Clear, Write, Begin, Finish, WriteFails, Compile, CompileFails, Install,
         Rename, RenameRefused, RenameDenied, Recheck, Crash, Goto, Building, Making
    <3>3. CASE Sweep(r)
      BY <1>2, <1>4, <1>5, <3>3 DEF Sweep, Remove
    <3> QED
      BY <1>5, <3>2, <3>3 DEF Step
  <2> QED
    BY <2>1, <2>2
<1>6. CASE <<p, i>> # Scratch(r) \/ Look(r) \/ Exit(r)
  <2>1. scratch'[<<p, i>>] = scratch[<<p, i>>]
    BY <1>1, <1>4, <1>6 DEF OwnStep, Look, Exit
  <2>2. PICK q \in Run :
           /\ place[q] = p /\ pid[q] = i
           /\ pc[q] \in Building \/ q \in fault
    BY <1>2, <2>1 DEF IInv, NoLitter
  <2>3. CASE q # r
    BY <1>1, <1>3, <2>2, <2>3, OthersKeep
  <2>4. CASE q = r
    <3>1. Look(r) \/ Exit(r)
      BY <1>6, <2>2, <2>4 DEF Scratch
    <3>2. pc[r] \notin Building \/ r \in fault
      BY <3>1 DEF Look, Exit, Building, Making
    <3> QED
      BY <1>3, <2>2, <2>4, <3>2
  <2> QED
    BY <2>3, <2>4
<1> QED
  BY <1>5, <1>6
(* A run that starts takes an id no living run has, so the scratch         *)
(* directory it will use is nobody else's.                                 *)
LEMMA StartKept ==
    ASSUME IInv, NEW r \in Run, Start(r)
    PROVE  IInv'
<1> USE DEF Start
<1>1. PICK i \in Pid \ {pid[q] : q \in {x \in Run : Live(x)}}, k \in Key \cup {r} :
        pid' = [pid EXCEPT ![r] = i] /\ place' = [place EXCEPT ![r] = k]
  OBVIOUS
<1>2. /\ pc[r] = "idle" /\ pc' = [pc EXCEPT ![r] = "look"] /\ k \in Place
      /\ placed' = placed /\ scratch' = scratch /\ result' = result /\ fault' = fault
  BY <1>1 DEF Place
<1> HIDE DEF Start
<1>3. TypeOK'
  BY <1>1, <1>2 DEF IInv, TypeOK
<1>4. ASSUME NEW q \in Run \ {r}
      PROVE  /\ pc'[q] = pc[q] /\ pid'[q] = pid[q] /\ place'[q] = place[q]
             /\ Live(q)' <=> Live(q)
             /\ Live(q) => pid[q] # i
  BY <1>1, <1>2 DEF IInv, TypeOK, Live
<1>5. pid'[r] = i /\ pc'[r] = "look" /\ place'[r] = k
  BY <1>1, <1>2 DEF IInv, TypeOK
<1>6. PidsApart'
  BY <1>4, <1>5 DEF IInv, PidsApart
<1>7. BuiltInOrder'
  BY <1>2, <1>4, <1>5 DEF IInv, BuiltInOrder, Whole, Scratch
<1>8. PlacedFinished' /\ InHand' /\ Blame'
  BY <1>2, <1>4, <1>5 DEF IInv, PlacedFinished, InHand, Blame
<1>9. NoLitter'
  <2>1. SUFFICES ASSUME NEW p \in Place, NEW j \in Pid, scratch'[<<p, j>>] # Nothing
                 PROVE  \E q \in Run :
                           /\ place'[q] = p /\ pid'[q] = j
                           /\ pc'[q] \in Building \/ q \in fault'
    BY DEF NoLitter
  <2>2. PICK q \in Run :
           /\ place[q] = p /\ pid[q] = j
           /\ pc[q] \in Building \/ q \in fault
    BY <1>2, <2>1 DEF IInv, NoLitter
  <2>3. q # r
    BY <1>2, <2>2 DEF IInv, Blame, Building, Making
  <2> QED
    BY <1>2, <1>4, <2>2, <2>3
<1> QED
  BY <1>3, <1>6, <1>7, <1>8, <1>9 DEF IInv

LEMMA NothingChanged == IInv /\ UNCHANGED vars => IInv'
BY DEF IInv, vars, TypeOK, PidsApart, BuiltInOrder, PlacedFinished, InHand, Blame, NoLitter,
       Live, Whole, Scratch

LEMMA IInvStep == IInv /\ [Next]_vars => IInv'
<1> SUFFICES ASSUME IInv, [Next]_vars PROVE IInv'
  OBVIOUS
<1>1. ASSUME NEW r \in Run, Start(r) PROVE IInv'
  BY <1>1, StartKept
<1>2. ASSUME NEW r \in Run, Step(r) \/ Exit(r) \/ Crash(r) PROVE IInv'
  <2>1. TypeOK' /\ PidsApart'
    BY <1>2, StepIsOwn, OthersKeep DEF IInv
  <2> QED
    BY <1>2, <2>1, PlacedKept, BuiltKept, AnswersKept, LitterKept DEF IInv
<1>3. CASE UNCHANGED vars
  BY <1>3, NothingChanged
<1> QED
  BY <1>1, <1>2, <1>3 DEF Next, Rest

-----------------------------------------------------------------------------
(* Every reachable state satisfies the invariant the properties follow     *)
(* from: no two living runs build in one scratch directory, what a run has *)
(* finished there is whole, and what is in place is whole.                 *)
THEOREM CacheInvariant == Spec => []IInv
<1>1. Init => IInv
  BY InitIInv
<1>2. IInv /\ [Next]_vars => IInv'
  BY IInvStep
<1> QED
  BY <1>1, <1>2, PTL DEF Spec

(* No run ever sees or is given half a runtime, however many runs there    *)
(* are and wherever they are killed (runtime.rs:161-163).                  *)
THEOREM NoHalfRuntime == Spec => []NeverHalf
<1>1. IInv => NeverHalf
  BY DirFacts DEF IInv, TypeOK, PlacedFinished, InHand, NeverHalf, LibraryThere
<1> QED
  BY <1>1, CacheInvariant, PTL

(* A run fails only when the system refused it something: losing the       *)
(* race for the rename never does it (runtime.rs:228-236).                 *)
THEOREM NoFalseFailure == Spec => []FailsForCause
<1>1. IInv => FailsForCause
  BY DEF IInv, Blame, FailsForCause
<1> QED
  BY <1>1, CacheInvariant, PTL

(* A scratch directory belongs to a run that builds or to one the system   *)
(* failed.                                                                 *)
THEOREM ScratchOwned == Spec => []NoLitter
<1>1. IInv => NoLitter
  BY DEF IInv
<1> QED
  BY <1>1, CacheInvariant, PTL

(* A runtime in place is never taken away or changed.                      *)
THEOREM PlacedStays == Spec => StaysInPlace
<1>1. IInv /\ [Next]_vars =>
        [\A p \in Place : LibraryThere(p) => placed'[p] = placed[p]]_vars
  <2> SUFFICES ASSUME IInv, Next, NEW p \in Place, LibraryThere(p)
               PROVE  placed'[p] = placed[p]
    OBVIOUS
  <2>1. placed[p] # Nothing
    BY DirFacts DEF LibraryThere
  <2>2. ASSUME NEW r \in Run, Step(r) \/ Exit(r) \/ Crash(r)
        PROVE  placed'[p] = placed[p]
    BY <2>1, <2>2, PlacedKept
  <2>3. ASSUME NEW r \in Run, Start(r) PROVE placed' = placed
    BY <2>3 DEF Start
  <2> QED
    BY <2>2, <2>3 DEF Next, Rest, vars
<1> QED
  BY <1>1, CacheInvariant, PTL DEF Spec, StaysInPlace

(* The cache implements the store of finished runtimes: each step of a run *)
(* asks, keeps, gives, refuses or dies as the store allows, or is not seen.*)
THEOREM CacheIsStore == Spec => KeepsStore
<1>1. Init => Store!StoreInit
  BY DirFacts DEF Init, Store!StoreInit, asked, kept, answer, Told
<1>2. ASSUME IInv, NEW r \in Run, Start(r)
      PROVE  Store!Ask(r)
  <2>1. pc[r] = "idle" /\ pc' = [pc EXCEPT ![r] = "look"] /\ placed' = placed
    BY <1>2 DEF Start
  <2>2. PICK k \in Place : place' = [place EXCEPT ![r] = k]
    BY <1>2 DEF Start, Place
  <2>3. asked' = [asked EXCEPT ![r] = {k}] /\ asked[r] = {}
    BY <1>2, <2>1, <2>2 DEF IInv, TypeOK, asked
  <2>4. answer' = answer /\ answer[r] = "none"
    BY <1>2, <2>1 DEF IInv, TypeOK, answer, Told
  <2>5. kept' = kept
    BY <2>1 DEF kept
  <2> QED
    BY <2>3, <2>4, <2>5 DEF Store!Ask
<1>3. ASSUME IInv, NEW r \in Run, Step(r) \/ Exit(r) \/ Crash(r)
      PROVE  Store!StoreNext \/ UNCHANGED Store!storevars
  <2>1. PICK l \in {"have"} \cup Building \cup Ended : pc' = [pc EXCEPT ![r] = l]
    BY <1>3, StepIsOwn DEF IInv, OwnStep
  <2>2. place' = place /\ Live(r) /\ pc'[r] = l /\ pc[r] # "idle" /\ l # "idle"
    BY <1>3, <2>1, StepIsOwn DEF IInv, TypeOK, OwnStep, Live, Ended, Building, Making
  <2>3. asked' = asked /\ asked[r] = {place[r]}
    BY <1>3, <2>1, <2>2 DEF IInv, TypeOK, asked
  <2>4. answer' = [answer EXCEPT ![r] = Told(l)] /\ answer[r] = Told(pc[r])
    BY <1>3, <2>1 DEF IInv, TypeOK, answer
  <2>5. Told(pc[r]) \in {"none", "library"} /\ (Told(pc[r]) = "library" => pc[r] = "have")
    BY <2>2 DEF Live, Ended, Told
  <2>6. CASE Rename(r)
    <3>1. placed' = [placed EXCEPT ![place[r]] = placed'[place[r]]] /\ placed[place[r]] = Nothing
      BY <1>3, <2>6 DEF IInv, TypeOK, Rename
    <3>2. placed'[place[r]] = Finished
      <4>1. l = "sweep" /\ result'[r] = "placed"
        BY <1>3, <2>2, <2>6 DEF IInv, TypeOK, Rename, Goto
      <4> QED
        BY <1>3, <2>2, <4>1, AnswersKept DEF InHand
    <3>3. kept' = kept \cup asked[r] /\ asked[r] \cap kept = {}
      <4>1. placed \in [Place -> Dir] /\ place[r] \in Place /\ Nothing # Finished
        BY <1>3, DirFacts DEF IInv, TypeOK
      <4> QED
        BY <2>3, <3>1, <3>2, <4>1 DEF kept
    <3>4. pc[r] = "rename" /\ l = "sweep"
      BY <1>3, <2>2, <2>6 DEF IInv, TypeOK, Rename, Goto
    <3>5. Told(pc[r]) = "none" /\ Told(l) = "none"
      BY <3>4 DEF Told
    <3>6. answer' = answer
      BY <2>4, <3>5 DEF answer
    <3> QED
      BY <2>3, <2>4, <3>3, <3>5, <3>6 DEF Store!StoreNext, Store!Keep, Store!Waiting
  <2>7. CASE ~ Rename(r)
    <3>1. kept' = kept
      <4>1. placed' = placed
        BY <1>3, <2>7 DEF Step, Exit, Crash, Look, Clear, Write, Begin, Finish, WriteFails,
           Compile, CompileFails, Install, RenameRefused, RenameDenied, Recheck, Sweep
      <4> QED
        BY <4>1 DEF kept
    <3>2. CASE Told(l) = Told(pc[r])
      <4>1. answer' = answer
        BY <2>4, <3>2 DEF answer
      <4> QED
        BY <2>3, <3>1, <4>1 DEF Store!storevars
    <3>3. CASE Told(l) = "gone"
      BY <2>3, <2>4, <2>5, <3>1, <3>3 DEF Store!StoreNext, Store!Die
    <3>4. CASE Told(l) = "failed" /\ Told(pc[r]) = "none"
      BY <2>3, <2>4, <3>1, <3>4
      DEF Store!StoreNext, Store!Refuse, Store!Answered, Store!Waiting
    <3>5. CASE Told(l) = "library" /\ Told(pc[r]) = "none"
      <4>1. l = "have"
        <5>1. pc[r] # "have"
          BY <3>5 DEF Told
        <5>2. ~ Exit(r)
          BY <5>1 DEF Exit
        <5>3. l # "done"
          BY <1>3, <2>2, <5>2 DEF IInv, TypeOK, Step, Crash, Look, Clear, Write, Begin, Finish,
             WriteFails, Compile, CompileFails, Install, Rename, RenameRefused, RenameDenied,
             Recheck, Sweep, Goto
        <5> QED
          BY <3>5, <5>3 DEF Told
      <4>2. placed'[place[r]] = Finished /\ place[r] \in Place
        BY <1>3, <2>2, <4>1, AnswersKept DEF InHand, IInv, TypeOK
      <4>3. asked[r] \subseteq kept
        BY <2>3, <3>1, <4>2 DEF kept
      <4> QED
        BY <2>3, <2>4, <3>1, <3>5, <4>3
        DEF Store!StoreNext, Store!Give, Store!Answered, Store!Waiting
    <3>6. CASE Told(l) \in {"none", "failed"} /\ Told(pc[r]) = "library"
      <4>1. pc[r] = "have"
        BY <2>5, <3>6
      <4>2. l \in {"done", "crashed"}
        BY <1>3, <2>2, <4>1 DEF IInv, TypeOK, Step, Exit, Crash, Look, Clear, Write, Begin,
           Finish, WriteFails, Compile, CompileFails, Install, Rename, RenameRefused,
           RenameDenied, Recheck, Sweep, Goto
      <4> QED
        BY <3>6, <4>2 DEF Told
    <3> QED
      BY <2>5, <3>2, <3>3, <3>4, <3>5, <3>6 DEF Told
  <2> QED
    BY <2>6, <2>7
<1>4. IInv /\ [Next]_vars => [Store!StoreNext]_(Store!storevars)
  <2>1. UNCHANGED vars => UNCHANGED Store!storevars
    BY DEF vars, Store!storevars, asked, kept, answer
  <2> QED
    BY <1>2, <1>3, <2>1 DEF Next, Rest, Store!StoreNext
<1> QED
  BY <1>1, <1>4, CacheInvariant, PTL DEF Spec, KeepsStore, Store!StoreSpec
=============================================================================
