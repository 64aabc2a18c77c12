------------------------------- MODULE Driver -------------------------------
(***************************************************************************)
(* crates/ccinrs/src/driver.rs: runs of ccinrs that compile C files to     *)
(* objects (`-c`) or link objects and C files into a program, at the same  *)
(* time and in the same directories, as `make -j` starts them.  A name is  *)
(* an entry for an inode, and hard links give an inode several: the work   *)
(* directory of a link shares the inodes of the objects it was given.      *)
(* A run may be killed between any two steps.                              *)
(*                                                                         *)
(* What is in a file is what a link reads out of it: the marks that an     *)
(* object carries (`check_stamp`).  A file cut short is Half, and has none.*)
(* rustc and the cache of runtimes (RuntimeCache) are seen from outside:   *)
(* they answer, or they fail.                                              *)
(***************************************************************************)
EXTENDS Naturals, Sequences

CONSTANTS
    Run,            \* the runs of ccinrs
    File,           \* what the runs' users call their files
    Unit,           \* the C files
    Compiler,       \* the versions of rustc there are
    Builds,         \* what the runs may be asked to do
    NeedsRuntime,   \* the C files that call the runtime
    Before,         \* what is in each file when the build begins, or None
    MaxInputs,      \* the inputs of the longest command
    None, Half

(* What a run is asked: with `-c` every C file becomes an object, and what  *)
(* is for the linker is not read; a link has an output, and takes both.    *)
Compiled == [unit : Unit, path : File, rule : File \cup {None}]
LinkedIn ==
    [unit : Unit, path : {None}, rule : File \cup {None}]
        \cup [unit : {None}, path : File, rule : {None}]
Command ==
    [link : {FALSE}, rustc : Compiler, lto : BOOLEAN, output : {None}, inputs : Seq(Compiled)]
        \cup [link : {TRUE}, rustc : Compiler, lto : BOOLEAN, output : File, inputs : Seq(LinkedIn)]

(* What may be in a file: an object with its marks, or what has none of    *)
(* ours -- a program, or a dependency rule -- and says what it is about.   *)
Place  == 0..MaxInputs
Crate  == Unit \X (Place \cup File)
Marked == [rustc : Compiler, runtime : BOOLEAN, crate : Crate \cup {None}, by : Run \cup {None}]
Other  == [made : File \cup {None}, by : Run \cup {None}]
Whole  == Marked \cup Other

ASSUME BuildsAssumption ==
    /\ MaxInputs \in Nat
    /\ Builds \subseteq [Run -> Command]
    /\ \A b \in Builds, r \in Run : Len(b[r].inputs) <= MaxInputs
    /\ Before \in [File -> Whole \cup {None}]

VARIABLES
    entry,          \* name -> inode, or None
    bytes,          \* inode -> what is in it
    command,        \* what each run was asked to do
    oneFs,          \* the work directories are on the users' file system
    pc, turn,       \* what each run does next, and to which of its inputs
    fd,             \* the inode each run is writing
    info,           \* `linked`: what the checked objects say
    objects,        \* what each run will link
    failed,         \* whether each run has failed
    overlapped      \* the runs at work beside one that makes their input, or that do

site == <<command, oneFs>>
vars == <<entry, bytes, site, pc, turn, fd, info, objects, failed, overlapped>>

Inputs(r) == command[r].inputs
Input(r)  == Inputs(r)[turn[r]]
IsC(input) == input.unit # None

(* The files in a run's work directory, and the inodes it may make.        *)
WorkFile == Run \X {"o", "in", "lib", "out"} \X Place
Inode    == File \cup (Run \X {"o", "in", "out", "copy", "rule"} \X Place)

(* No name, inode or content is another, or stands for its absence.        *)
ASSUME NamesApart ==
    /\ None # Half
    /\ None \notin File \cup Unit \cup WorkFile \cup Inode \cup Crate \cup Whole
    /\ Half \notin Whole
    /\ \A f \in File :
          f \notin Run \X {"o", "in", "lib", "out", "copy", "rule"} \X Place

Object(r)  == <<r, "o", turn[r]>>
(* A faulty Brought: two inputs of one file name have one name here.       *)
Brought_by_name(r) == <<r, "in", 0>>
Brought(r) == <<r, "in", turn[r]>>
Program(r) == <<r, "out", 0>>

Read(name) == IF entry[name] = None THEN None ELSE bytes[entry[name]]

(* `crate_name`: from the C file and the object it becomes, or the input's *)
(* place on the command line for an object that is not kept.               *)
CrateName(r) ==
    <<Input(r).unit, IF command[r].link THEN turn[r] ELSE Input(r).path>>

(* The object rustc makes of the C file a run has come to.                 *)
Made(r) == [rustc   |-> command[r].rustc,
            runtime |-> Input(r).unit \in NeedsRuntime,
            crate   |-> IF command[r].lto THEN CrateName(r) ELSE None,
            by      |-> r]

(* ObjectInfo: what the marks in a file say; a file cut short, one that is *)
(* not there and another compiler's say nothing.                           *)
Nothing == [runtime |-> FALSE, crates |-> {}, native |-> FALSE]
Foreign(c) == c \notin Marked
Says(c) ==
    IF Foreign(c) THEN Nothing
    ELSE [runtime |-> c.runtime, crates |-> {c.crate} \ {None},
          native  |-> c.crate = None]

(* A faulty Add: the last object decides.                                  *)
Add_last(i, other) ==
    [other EXCEPT !.crates = i.crates \cup other.crates]
Add(i, other) ==
    [runtime |-> i.runtime \/ other.runtime,
     crates  |-> i.crates \cup other.crates,
     native  |-> i.native \/ other.native]

Goto(r, label) == pc' = [pc EXCEPT ![r] = label]
(* A faulty Fail: the process exits with the directory still its own.      *)
Fail_at_once(r) == Goto(r, "ended") /\ failed' = [failed EXCEPT ![r] = TRUE]
Fail(r) == Goto(r, "drop") /\ failed' = [failed EXCEPT ![r] = TRUE]

Working(r) == pc[r] \notin {"idle", "ended", "killed"}

(* The files a run was asked for: its output or its objects, and their     *)
(* rules; and whether run `q` makes a file that run `r` links.             *)
AskedFor(r) ==
    (IF command[r].link THEN {command[r].output}
     ELSE {Inputs(r)[k].path : k \in DOMAIN Inputs(r)})
        \cup ({Inputs(r)[k].rule : k \in DOMAIN Inputs(r)} \ {None})
Feeds(q, r) ==
    \E k \in 1..Len(Inputs(r)) :
        ~IsC(Inputs(r)[k]) /\ Inputs(r)[k].path \in AskedFor(q)

Init ==
    /\ entry = [n \in File \cup WorkFile |->
                    IF n \in File /\ Before[n] # None THEN n ELSE None]
    /\ bytes = [i \in Inode |-> IF i \in File THEN Before[i] ELSE None]
    /\ command \in Builds /\ oneFs \in BOOLEAN
    /\ pc = [r \in Run |-> "idle"]
    /\ turn = [r \in Run |-> 1]
    /\ fd = [r \in Run |-> None]
    /\ info = [r \in Run |-> Nothing]
    /\ objects = [r \in Run |-> <<>>]
    /\ failed = [r \in Run |-> FALSE]
    /\ overlapped = {}

(* `run`: rustc is looked for and the work directory made, or not.         *)
Start(r) ==
    /\ pc[r] = "idle"
    /\ \/ Goto(r, "input") /\ UNCHANGED failed
       \/ Goto(r, "ended") /\ failed' = [failed EXCEPT ![r] = TRUE]
    /\ overlapped' = overlapped
          \cup {q \in Run : Working(q) /\ Feeds(r, q)}
          \cup {q \in {r} : \E w \in Run : (w = r \/ Working(w)) /\ Feeds(w, r)}
    /\ UNCHANGED <<entry, bytes, site, turn, fd, info, objects>>

AtInput(r) == pc[r] = "input" /\ turn[r] <= Len(Inputs(r))

(* `translate`: errors in one C file do not keep the others from being     *)
(* read; a file that is not there does.                                    *)
Translate(r) ==
    /\ AtInput(r) /\ IsC(Input(r))
    /\ \/ Goto(r, "rustc") /\ UNCHANGED <<turn, failed>>
       \/ /\ failed' = [failed EXCEPT ![r] = TRUE]
          /\ turn' = [turn EXCEPT ![r] = @ + 1]
          /\ UNCHANGED pc
       \/ Fail(r) /\ UNCHANGED turn
    /\ UNCHANGED <<entry, bytes, site, fd, info, objects, overlapped>>

(* What the link takes, by the name it has in the work directory.          *)
Take(r, name, says) ==
    /\ info' = [info EXCEPT ![r] = Add(@, says)]
    /\ objects' = [objects EXCEPT ![r] =
                      Append(@, [name |-> name, crates |-> says.crates])]

(* The .rs is written and rustc run, into the work directory; or one of    *)
(* them fails, or the runtime cannot be had.                               *)
Rustc(r) ==
    /\ pc[r] = "rustc"
    /\ entry' = [entry EXCEPT ![Object(r)] = Object(r)]
    /\ bytes' = [bytes EXCEPT ![Object(r)] = Made(r)]
    /\ IF command[r].link
       THEN Take(r, Object(r), Says(Made(r))) /\ Goto(r, "rule")
       ELSE Goto(r, "deliver") /\ UNCHANGED <<info, objects>>
    /\ UNCHANGED <<site, turn, fd, failed, overlapped>>
RustcFails(r) ==
    /\ pc[r] = "rustc" /\ Fail(r)
    /\ UNCHANGED <<entry, bytes, site, turn, fd, info, objects, overlapped>>

(* `File::create`: what was there is cut to nothing, whoever else has it.  *)
Open(r, name, new) ==
    LET i == IF entry[name] = None THEN new ELSE entry[name]
    IN  /\ entry' = [entry EXCEPT ![name] = i]
        /\ bytes' = [bytes EXCEPT ![i] = Half]
        /\ fd' = [fd EXCEPT ![r] = i]
Fill(r, content) == bytes' = [bytes EXCEPT ![fd[r]] = content]

(* A faulty CopyFails: a delivery that fails is passed over.               *)
CopyFails_unseen(r) ==
    /\ pc[r] \in {"opening", "writing"}
    /\ Goto(r, IF command[r].link THEN "drop" ELSE "rule")
    /\ UNCHANGED <<entry, bytes, site, turn, fd, info, objects, failed, overlapped>>

(* A copy that stops half way leaves what it wrote.                        *)
CopyFails(r) ==
    /\ pc[r] \in {"opening", "writing", "ruling", "copying", "loading"}
    /\ Fail(r)
    /\ UNCHANGED <<entry, bytes, site, turn, fd, info, objects, overlapped>>

(* `deliver`: what is delivered, and to where.                             *)
Written(r) == IF command[r].link THEN Program(r) ELSE Object(r)
Wanted(r)  == IF command[r].link THEN command[r].output ELSE Input(r).path
AfterDelivery(r) == Goto(r, IF command[r].link THEN "drop" ELSE "rule")

(* A faulty Rename: makes room for the new file first.                     *)
Rename_after_unlink(r) ==
    /\ pc[r] = "deliver" /\ oneFs
    /\ IF entry[Wanted(r)] # None
       THEN entry' = [entry EXCEPT ![Wanted(r)] = None] /\ UNCHANGED pc
       ELSE /\ entry' = [entry EXCEPT ![Wanted(r)] = entry[Written(r)],
                                      ![Written(r)] = None]
            /\ AfterDelivery(r)
    /\ UNCHANGED <<bytes, site, turn, fd, info, objects, failed, overlapped>>
Rename(r) ==
    /\ pc[r] = "deliver" /\ oneFs
    /\ entry' = [entry EXCEPT ![Wanted(r)] = entry[Written(r)],
                              ![Written(r)] = None]
    /\ AfterDelivery(r)
    /\ UNCHANGED <<bytes, site, turn, fd, info, objects, failed, overlapped>>

(* On another file system: `remove_file`, whose failure is passed over,    *)
(* and a copy.                                                             *)
Unlink(r) ==
    /\ pc[r] = "deliver" /\ ~oneFs
    /\ \/ entry' = [entry EXCEPT ![Wanted(r)] = None]
       \/ UNCHANGED entry
    /\ Goto(r, "opening")
    /\ UNCHANGED <<bytes, site, turn, fd, info, objects, failed, overlapped>>
CopyOut(r) ==
    /\ pc[r] = "opening"
    /\ Open(r, Wanted(r), <<r, "copy", Written(r)[3]>>)
    /\ Goto(r, "writing")
    /\ UNCHANGED <<site, turn, info, objects, failed, overlapped>>
CopiedOut(r) ==
    /\ pc[r] = "writing"
    /\ Fill(r, Read(Written(r)))
    /\ AfterDelivery(r)
    /\ UNCHANGED <<entry, site, turn, fd, info, objects, failed, overlapped>>

(* `write_rule`: the dependency rule of an object, written in place.       *)
NextInput(r) == Goto(r, "input") /\ turn' = [turn EXCEPT ![r] = @ + 1]
Rule(r) == Input(r).rule
NoRule(r) ==
    /\ pc[r] = "rule" /\ Rule(r) = None
    /\ NextInput(r)
    /\ UNCHANGED <<entry, bytes, site, fd, info, objects, failed, overlapped>>
WriteRule(r) ==
    /\ pc[r] = "rule" /\ Rule(r) # None
    /\ Open(r, Rule(r), <<r, "rule", turn[r]>>)
    /\ Goto(r, "ruling")
    /\ UNCHANGED <<site, turn, info, objects, failed, overlapped>>
WroteRule(r) ==
    /\ pc[r] = "ruling"
    /\ Fill(r, [made |-> Input(r).path, by |-> r])
    /\ NextInput(r)
    /\ UNCHANGED <<entry, site, fd, info, objects, failed, overlapped>>

(* `check_stamp`: an object of another rustc is refused; a file that       *)
(* cannot be read is left to the linker.                                   *)
Check(r) ==
    /\ AtInput(r) /\ ~IsC(Input(r))
    /\ LET seen == Read(Input(r).path)
       IN  IF Foreign(seen) \/ seen.rustc = command[r].rustc
           THEN /\ Take(r, Brought(r), Says(seen))
                /\ Goto(r, "bring") /\ UNCHANGED failed
           ELSE Fail(r) /\ UNCHANGED <<info, objects>>
    /\ UNCHANGED <<entry, bytes, site, turn, fd, overlapped>>

(* `link_input`: a hard link, or a copy where there can be none.           *)
Bring(r) ==
    /\ pc[r] = "bring" /\ oneFs
    /\ entry[Input(r).path] # None /\ entry[Brought(r)] = None
    /\ entry' = [entry EXCEPT ![Brought(r)] = entry[Input(r).path]]
    /\ NextInput(r)
    /\ UNCHANGED <<bytes, site, fd, info, objects, failed, overlapped>>
CopyIn(r) ==
    /\ pc[r] = "bring" /\ ~(oneFs /\ entry[Brought(r)] = None)
    /\ entry[Input(r).path] # None
    /\ Open(r, Brought(r), <<r, "in", turn[r]>>)
    /\ Goto(r, "copying")
    /\ UNCHANGED <<site, turn, info, objects, failed, overlapped>>
CopiedIn(r) ==
    /\ pc[r] = "copying"
    /\ Fill(r, Read(Input(r).path))
    /\ NextInput(r)
    /\ UNCHANGED <<entry, site, fd, info, objects, failed, overlapped>>
NotThere(r) ==
    /\ pc[r] = "bring" /\ entry[Input(r).path] = None
    /\ Fail(r)
    /\ UNCHANGED <<entry, bytes, site, turn, fd, info, objects, overlapped>>

(* After the last input: a link, if nothing failed.                        *)
InputsDone(r) ==
    /\ pc[r] = "input" /\ turn[r] > Len(Inputs(r))
    /\ IF command[r].link /\ ~failed[r]
       THEN Goto(r, "crates") /\ turn' = [turn EXCEPT ![r] = 1]
       ELSE Goto(r, "drop") /\ UNCHANGED turn
    /\ UNCHANGED <<entry, bytes, site, fd, info, objects, failed, overlapped>>

(* `link`: an object that is a crate is given the name rustc finds that    *)
(* crate by: the first one of the crate makes the name.                    *)
Loaded(r) == objects[r][turn[r]]
Library(r, k) ==
    <<r, "lib", CHOOSE j \in 1..k : /\ objects[r][j].crates = objects[r][k].crates
                                    /\ \A i \in 1..(j - 1) :
                                          objects[r][i].crates # objects[r][k].crates>>
NextObject(r) == turn' = [turn EXCEPT ![r] = @ + 1]
AtObject(r) == pc[r] = "crates" /\ turn[r] <= Len(objects[r])

NotACrate(r) ==
    /\ AtObject(r) /\ Loaded(r).crates = {}
    /\ NextObject(r)
    /\ UNCHANGED <<entry, bytes, site, pc, fd, info, objects, failed, overlapped>>
LinkCrate(r) ==
    /\ AtObject(r) /\ Loaded(r).crates # {}
    /\ entry[Library(r, turn[r])] = None
    /\ entry' = [entry EXCEPT ![Library(r, turn[r])] = entry[Loaded(r).name]]
    /\ NextObject(r)
    /\ UNCHANGED <<bytes, site, pc, fd, info, objects, failed, overlapped>>
CopyCrate(r) ==
    /\ AtObject(r) /\ Loaded(r).crates # {}
    /\ entry[Library(r, turn[r])] # None
    /\ Open(r, Library(r, turn[r]), None)
    /\ Goto(r, "loading")
    /\ UNCHANGED <<site, turn, info, objects, failed, overlapped>>
CopiedCrate(r) ==
    /\ pc[r] = "loading"
    /\ Fill(r, Read(Loaded(r).name))
    /\ Goto(r, "crates") /\ NextObject(r)
    /\ UNCHANGED <<entry, site, fd, info, objects, failed, overlapped>>

(* What rustc is given to link: a crate by its name, the others as they    *)
(* are.                                                                    *)
Parts(r) ==
    [k \in 1..Len(objects[r]) |->
        Read(IF objects[r][k].crates = {} THEN objects[r][k].name
             ELSE Library(r, k))]
Optimised(r) == command[r].lto /\ ~info[r].native

(* An object that is cut short, another rustc's, one whose runtime is not  *)
(* loaded, or machine code beside a program optimised as a whole, does not *)
(* link.                                                                   *)
Links(r) ==
    LET own == {p \in {Parts(r)[k] : k \in DOMAIN Parts(r)} : ~Foreign(p)}
    IN  /\ \A k \in DOMAIN Parts(r) : Parts(r)[k] \notin {None, Half}
        /\ \A p \in own : /\ p.rustc = command[r].rustc
                          /\ p.runtime => info[r].runtime
                          /\ p.crate = None => ~Optimised(r)

Link(r) ==
    /\ pc[r] = "crates" /\ turn[r] > Len(objects[r])
    /\ Links(r)
    /\ entry' = [entry EXCEPT ![Program(r)] = Program(r)]
    /\ bytes' = [bytes EXCEPT ![Program(r)] = [made |-> command[r].output, by |-> r]]
    /\ Goto(r, "deliver")
    /\ UNCHANGED <<site, turn, fd, info, objects, failed, overlapped>>
LinkFails(r) ==
    /\ pc[r] = "crates" /\ Fail(r)
    /\ UNCHANGED <<entry, bytes, site, turn, fd, info, objects, overlapped>>

(* However the run ends, its work directory goes with it.                  *)
Drop(r) ==
    /\ pc[r] = "drop"
    /\ entry' = [n \in File \cup WorkFile |->
                    IF n \in File \/ n[1] # r THEN entry[n] ELSE None]
    /\ Goto(r, "ended")
    /\ UNCHANGED <<bytes, site, turn, fd, info, objects, failed, overlapped>>

(* The run is killed, and its work directory stays.                        *)
Kill(r) ==
    /\ Working(r) /\ Goto(r, "killed")
    /\ UNCHANGED <<entry, bytes, site, turn, fd, info, objects, failed, overlapped>>

Compile(r) == Translate(r) \/ Rustc(r) \/ RustcFails(r)
Deliver(r) == Rename(r) \/ Unlink(r) \/ CopyOut(r) \/ CopiedOut(r)
Depend(r)  == NoRule(r) \/ WriteRule(r) \/ WroteRule(r)
TakeIn(r)  == Check(r) \/ Bring(r) \/ CopyIn(r) \/ CopiedIn(r) \/ NotThere(r)
Crates(r)  == NotACrate(r) \/ LinkCrate(r) \/ CopyCrate(r) \/ CopiedCrate(r)
Step(r) ==
    \/ Compile(r) \/ Deliver(r) \/ Depend(r) \/ TakeIn(r) \/ CopyFails(r)
    \/ InputsDone(r) \/ Crates(r) \/ Link(r) \/ LinkFails(r) \/ Drop(r)

Next == \E r \in Run : Start(r) \/ Step(r) \/ Kill(r)

(* A run goes on until it ends, unless it is killed: nothing here waits    *)
(* for another run.                                                        *)
Spec == Init /\ [][Next]_vars /\ \A r \in Run : WF_vars(Step(r))

DependencyFiles ==
    (UNION {{Inputs(r)[k].rule : k \in DOMAIN Inputs(r)} : r \in Run}) \ {None}

(* A run that was given two objects of one crate: one object twice, or one *)
(* of its two was given another name after it was made.                    *)
CratesClash(r) ==
    \E j, k \in DOMAIN objects[r] :
        /\ j # k /\ objects[r][j].crates # {}
        /\ objects[r][j].crates = objects[r][k].crates

(***************************************************************************)
(* A user's file changes when a run writes what it was asked for there,    *)
(* and at no other time: not through another name that the file has in a   *)
(* run's work directory (`link_input`, `link`).                            *)
(***************************************************************************)
LinksOnlyRead ==
    [][\A f \in File :
          Read(f)' # Read(f) =>
              \E r \in Run : pc'[r] # pc[r] /\ f \in AskedFor(r)]_vars

(***************************************************************************)
(* The same, but for a run given two objects of one crate.                 *)
(***************************************************************************)
InputsKept ==
    [][\A f \in File :
          Read(f)' # Read(f) =>
              \E r \in Run : pc'[r] # pc[r] /\ (f \in AskedFor(r) \/ CratesClash(r))]_vars

(***************************************************************************)
(* Where the work directories are on the users' file system, an object or  *)
(* a program that was there is there at every moment, and there is never   *)
(* half a one, whatever fails or is killed: `deliver` renames into place.  *)
(***************************************************************************)
Broken(f) == Read(f) = Half \/ (Read(f) = None /\ Before[f] # None)
OutputsStayWhole ==
    oneFs => \A f \in File \ DependencyFiles :
                Broken(f) => \E r \in Run : CratesClash(r)

(***************************************************************************)
(* On another file system a file that is missing or half written is one    *)
(* that a run is copying, or was when it was killed or failed: runs that   *)
(* all end well leave whole files.                                         *)
(***************************************************************************)
BrokenOutputsAreBlamed ==
    ~oneFs => \A f \in File :
                Broken(f) =>
                    \E r \in Run :
                        /\ f \in AskedFor(r)
                        /\ \/ pc[r] \in {"opening", "writing", "ruling", "killed"}
                           \/ failed[r]

(***************************************************************************)
(* What a link is about to hand rustc is what was checked when the command *)
(* line was read: no object of another rustc, the runtime loaded if one of *)
(* them calls it, and no whole-program optimisation beside machine code -- *)
(* unless a run that makes one of the objects was at work beside it, or    *)
(* some run was given two objects of one crate.                            *)
(***************************************************************************)
CheckedIsLinked ==
    (\A r \in Run : ~CratesClash(r)) => \A r \in Run \ overlapped :
        pc[r] = "crates" /\ turn[r] > Len(objects[r]) =>
            LET parts == {Parts(r)[k] : k \in DOMAIN Parts(r)}
                ours  == {p \in parts : ~Foreign(p)}
            IN  /\ \A p \in ours : p.rustc = command[r].rustc
                /\ info[r].runtime <=> \E p \in ours : p.runtime
                /\ info[r].native <=> \E p \in ours : p.crate = None

(***************************************************************************)
(* A dependency rule that is there in full describes an object that has    *)
(* been delivered: make never takes the new rule with the old object.      *)
(***************************************************************************)
RuleFollowsObject ==
    \A r \in {q \in Run : ~command[q].link} : \A k \in DOMAIN Inputs(r) :
        LET input == Inputs(r)[k]
        IN  input.rule # None /\ Read(input.rule) = [made |-> input.path, by |-> r]
              => /\ Read(input.path) \notin {None, Half}
                 /\ Read(input.path).by = r

(***************************************************************************)
(* A run that is not killed ends, and leaves nothing in the directory it   *)
(* worked in.                                                              *)
(***************************************************************************)
EveryRunCleansUp ==
    \A r \in Run :
        pc[r] = "input" ~>
            pc[r] = "killed" \/ /\ pc[r] = "ended"
                                /\ \A n \in WorkFile : n[1] = r => entry[n] = None
=============================================================================
