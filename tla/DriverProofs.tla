---------------------------- MODULE DriverProofs ----------------------------
(***************************************************************************)
(* What runs of ccinrs do to their users' files, for any number of runs,   *)
(* any commands and any files there were: nothing but the outputs a run    *)
(* was asked for is written, and an output is never there by half.         *)
(***************************************************************************)
EXTENDS Driver, FiniteSets, WellFoundedInduction, TLAPS

Phase == {"idle", "input", "rustc", "deliver", "opening", "writing", "rule",
          "ruling", "bring", "copying", "crates", "loading", "drop", "ended", "killed"}
Delivering == {"deliver", "opening", "writing"}
Part == [name : WorkFile, crates : SUBSET Crate]

TypeOK ==
    /\ entry \in [File \cup WorkFile -> Inode \cup {None}]
    /\ bytes \in [Inode -> Whole \cup {None, Half}]
    /\ command \in Builds /\ oneFs \in BOOLEAN
    /\ pc \in [Run -> Phase]
    /\ turn \in [Run -> Nat \ {0}]
    /\ fd \in [Run -> Inode \cup {None}]
    /\ info \in [Run -> [runtime : BOOLEAN, crates : SUBSET Crate, native : BOOLEAN]]
    /\ objects \in [Run -> Seq(Part)]
    /\ failed \in [Run -> BOOLEAN]
    /\ overlapped \in SUBSET Run

(* Where a run can be: at an input of the kind its step is for, at an      *)
(* object of its link, on the file system its step is for.                 *)
AtC(r)   == turn[r] \in DOMAIN Inputs(r) /\ IsC(Input(r))
AtOther(r) == turn[r] \in DOMAIN Inputs(r) /\ ~IsC(Input(r))
Where(r) ==
    /\ pc[r] \in {"rustc", "rule", "ruling"} => AtC(r)
    /\ pc[r] \in {"bring", "copying"} => AtOther(r) /\ command[r].link
    /\ pc[r] \in Delivering /\ ~command[r].link => AtC(r)
    /\ pc[r] \in {"crates", "loading"} => command[r].link
    /\ pc[r] = "loading" => turn[r] \in DOMAIN objects[r] /\ CratesClash(r)
    /\ pc[r] \in {"opening", "writing", "copying"} => ~oneFs
    /\ pc[r] = "ruling" => Rule(r) # None
(* A run has at most one object for each input it has come to.             *)
Taken(r) ==
    /\ \A k \in DOMAIN objects[r] : objects[r][k].name \in {r} \X {"o", "in"} \X Place
    /\ Len(objects[r]) <= MaxInputs
    /\ pc[r] \in {"idle", "input", "rustc"} => Len(objects[r]) < turn[r]
    /\ pc[r] \in {"rule", "ruling", "bring", "copying"} => Len(objects[r]) <= turn[r]
    /\ pc[r] \in Delivering /\ ~command[r].link => Len(objects[r]) <= turn[r]
Control == \A r \in Run : Where(r) /\ Taken(r)

(* Whether run `r` has come to where it makes a file of a kind.            *)
Past(r) == \/ pc[r] \in {"crates", "loading", "drop", "ended", "killed"}
           \/ command[r].link /\ pc[r] \in Delivering
Passed(r, k, here) == Past(r) \/ k < turn[r] \/ (k = turn[r] /\ pc[r] \in here)
Came(i) ==
    LET r == i[1]
        k == i[3]
    IN  /\ i[2] = "o"    => Passed(r, k, Delivering \cup {"rule", "ruling"})
        /\ i[2] = "in"   => Passed(r, k, {"copying"})
        /\ i[2] = "rule" => Passed(r, k, {"ruling"})
        /\ i[2] = "copy" =>
              IF command[r].link THEN pc[r] \in {"writing", "drop", "ended", "killed"}
              ELSE Passed(r, k, {"writing", "rule", "ruling"})
        /\ i[2] = "out"  => /\ command[r].link
                            /\ pc[r] \in Delivering \cup {"drop", "ended", "killed"}

(* An inode that is in use, and a name that is there, has been made.       *)
Used(i) == (\E n \in File \cup WorkFile : entry[n] = i) \/ (\E q \in Run : fd[q] = i)
NoneAhead ==
    /\ \A i \in Inode \ File : Used(i) => Came(i)
    /\ \A n \in WorkFile : entry[n] # None => Came(n)

(* What a name may be an entry for.                                        *)
UserInode == File \cup (Run \X {"o", "out", "copy", "rule"} \X Place)
Homes ==
    /\ \A f \in File : entry[f] \in UserInode \cup {None}
    /\ \A n \in WorkFile :
          /\ n[2] \in {"o", "out"} => entry[n] \in {n, None}
          /\ n[2] = "in" => entry[n] \in (IF oneFs THEN UserInode ELSE {n}) \cup {None}
(* On two file systems nothing in a work directory is a user's.            *)
OwnInode == Run \X {"o", "in", "out"} \X Place
Apart ==
    ~oneFs =>
        /\ \A f \in File : entry[f] \notin OwnInode
        /\ \A n \in WorkFile : entry[n] \in OwnInode \cup {None}
        /\ \A r \in Run : pc[r] = "loading" => fd[r] \in OwnInode
(* Two files of the users are two inodes.                                  *)
FilesApart ==
    \A f, g \in File : entry[f] = entry[g] /\ entry[f] # None => f = g

(* What is to be delivered is whole, and no one else can reach it.         *)
Private ==
    \A r \in Run : pc[r] \in Delivering =>
        /\ entry[Written(r)] = Written(r)
        /\ bytes[Written(r)] \in Whole
        /\ \A n \in File \cup WorkFile : entry[n] = Written(r) => n = Written(r)
        /\ \A q \in Run : fd[q] # Written(r)

(* What a run has open is a file it was asked for, or in its directory.    *)
Target(r) == IF pc[r] = "writing" THEN Wanted(r) ELSE Rule(r)
Hands ==
    \A r \in Run :
        /\ pc[r] \in {"writing", "ruling"} =>
              /\ fd[r] \in UserInode
              /\ \A f \in File : entry[f] = fd[r] => f = Target(r)
        /\ pc[r] = "copying" => fd[r] = Brought(r) /\ entry[Brought(r)] = Brought(r)
        /\ pc[r] = "loading" => fd[r] \in Inode

(* The names rustc finds crates by are made in the order of the objects.   *)
Libs ==
    \A r \in Run, j \in Place :
        /\ ~Past(r) => entry[<<r, "lib", j>>] = None
        /\ pc[r] \in {"crates", "loading"} /\ entry[<<r, "lib", j>>] # None =>
              \E k \in DOMAIN objects[r] :
                  /\ k < turn[r] /\ objects[r][k].crates # {}
                  /\ Library(r, k) = <<r, "lib", j>>

IInv == /\ TypeOK /\ Control /\ NoneAhead /\ Homes /\ Apart
        /\ FilesApart /\ Private /\ Hands /\ Libs

-----------------------------------------------------------------------------
(* The assumption on names, part by part.                                  *)
LEMMA NoneApart ==
    /\ None \notin File /\ None \notin Unit /\ None \notin WorkFile
    /\ None \notin Inode /\ None \notin Crate
BY NamesApart

(* What a command is: its inputs are C files and, in a link, others; what  *)
(* is asked for is a file.                                                 *)
LEMMA CommandOf ==
    ASSUME TypeOK, NEW r \in Run
    PROVE  /\ command[r].link \in BOOLEAN /\ command[r].lto \in BOOLEAN
           /\ command[r].rustc \in Compiler
           /\ command[r].link => command[r].output \in File
           /\ DOMAIN Inputs(r) = 1..Len(Inputs(r)) /\ Len(Inputs(r)) \in Nat
           /\ Len(Inputs(r)) <= MaxInputs
           /\ \A k \in DOMAIN Inputs(r) :
                 /\ Inputs(r)[k].rule \in File \cup {None}
                 /\ IsC(Inputs(r)[k]) => Inputs(r)[k].unit \in Unit
                 /\ ~command[r].link => IsC(Inputs(r)[k]) /\ Inputs(r)[k].path \in File
                 /\ ~IsC(Inputs(r)[k]) => command[r].link /\ Inputs(r)[k].path \in File
                 /\ Inputs(r)[k].path \in File \cup {None}
<1>1. command[r] \in Command /\ Len(Inputs(r)) <= MaxInputs
  BY BuildsAssumption DEF TypeOK, Inputs
<1>2. CASE command[r] \in [link : {FALSE}, rustc : Compiler, lto : BOOLEAN,
                           output : {None}, inputs : Seq(Compiled)]
  <2>1. Inputs(r) \in Seq(Compiled) /\ command[r].link = FALSE
    BY <1>2 DEF Inputs
  <2>2. \A k \in DOMAIN Inputs(r) : Inputs(r)[k] \in Compiled
    BY <2>1
  <2>3. \A k \in DOMAIN Inputs(r) :
           /\ Inputs(r)[k].rule \in File \cup {None}
           /\ Inputs(r)[k].path \in File \cup {None}
           /\ IsC(Inputs(r)[k]) => Inputs(r)[k].unit \in Unit
           /\ IsC(Inputs(r)[k]) /\ Inputs(r)[k].path \in File
    BY <2>2, NoneApart DEF Compiled, IsC
  <2>4. command[r].lto \in BOOLEAN /\ command[r].rustc \in Compiler
    BY <1>2
  <2>5. DOMAIN Inputs(r) = 1..Len(Inputs(r)) /\ Len(Inputs(r)) \in Nat
    BY <2>1
  <2> QED BY <1>1, <2>1, <2>3, <2>4, <2>5
<1>3. CASE command[r] \in [link : {TRUE}, rustc : Compiler, lto : BOOLEAN,
                           output : File, inputs : Seq(LinkedIn)]
  <2>1. Inputs(r) \in Seq(LinkedIn) /\ command[r].link = TRUE
    BY <1>3 DEF Inputs
  <2>2. \A k \in DOMAIN Inputs(r) : Inputs(r)[k] \in LinkedIn
    BY <2>1
  <2>3. \A k \in DOMAIN Inputs(r) :
           /\ Inputs(r)[k].rule \in File \cup {None}
           /\ Inputs(r)[k].path \in File \cup {None}
           /\ IsC(Inputs(r)[k]) => Inputs(r)[k].unit \in Unit
           /\ ~IsC(Inputs(r)[k]) => Inputs(r)[k].path \in File
    BY <2>2, NoneApart DEF LinkedIn, IsC
  <2>4. command[r].lto \in BOOLEAN /\ command[r].rustc \in Compiler /\ command[r].output \in File
    BY <1>3
  <2>5. DOMAIN Inputs(r) = 1..Len(Inputs(r)) /\ Len(Inputs(r)) \in Nat
    BY <2>1
  <2> QED BY <1>1, <2>1, <2>3, <2>4, <2>5
<1> QED BY <1>1, <1>2, <1>3 DEF Command

(* Where a run is at a C file it makes an object and, in a compile, writes *)
(* it to a file; the names it has are in its work directory.               *)
LEMMA Wanting ==
    ASSUME TypeOK, Control, NEW r \in Run, pc[r] \in Delivering
    PROVE  /\ Wanted(r) \in File /\ Wanted(r) \in AskedFor(r)
           /\ Written(r) \in WorkFile /\ Written(r) \in Inode
           /\ Written(r)[1] = r /\ Written(r)[2] \in {"o", "out"} /\ Written(r)[3] \in Place
           /\ <<r, "copy", Written(r)[3]>> \in Inode
<1>1. CASE command[r].link
  <2>1. command[r].output \in File /\ 0 \in Place
    BY <1>1, CommandOf, BuildsAssumption DEF Place
  <2>2. Written(r) = <<r, "out", 0>> /\ Wanted(r) = command[r].output
    BY <1>1 DEF Written, Wanted, Program
  <2> QED BY <1>1, <2>1, <2>2 DEF AskedFor, WorkFile, Inode
<1>2. CASE ~command[r].link
  <2>1. turn[r] \in DOMAIN Inputs(r)
    BY <1>2 DEF Control, Where, AtC
  <2>2. Input(r).path \in File /\ turn[r] \in Place
    BY <1>2, <2>1, CommandOf, BuildsAssumption DEF Place, Input
  <2>3. Written(r) = <<r, "o", turn[r]>> /\ Wanted(r) = Input(r).path
    BY <1>2 DEF Written, Wanted, Object
  <2> QED BY <1>2, <2>1, <2>2, <2>3 DEF AskedFor, WorkFile, Inode, Input
<1> QED BY <1>1, <1>2

-----------------------------------------------------------------------------
(* The steps that leave every file and what a run has open alone.          *)
Quiet(r) == \/ Start(r) \/ Translate(r) \/ RustcFails(r) \/ CopyFails(r) \/ NoRule(r)
            \/ Check(r) \/ NotThere(r) \/ InputsDone(r) \/ NotACrate(r)
            \/ LinkFails(r) \/ Kill(r)
Any(r) == Start(r) \/ Step(r) \/ Kill(r)

LEMMA AnyIs ==
    ASSUME NEW r \in Run, Any(r)
    PROVE  \/ Quiet(r) \/ Rustc(r) \/ Rename(r) \/ Unlink(r) \/ CopyOut(r)
           \/ CopiedOut(r) \/ WriteRule(r) \/ WroteRule(r) \/ Bring(r) \/ CopyIn(r)
           \/ CopiedIn(r) \/ LinkCrate(r) \/ CopyCrate(r) \/ CopiedCrate(r)
           \/ Link(r) \/ Drop(r)
BY DEF Any, Quiet, Step, Compile, Deliver, Depend, TakeIn, Crates

(* A run moves itself only, and keeps the objects it has taken.            *)
LEMMA OthersStay ==
    ASSUME TypeOK, NEW r \in Run, Any(r), NEW q \in Run, q # r
    PROVE  /\ pc'[q] = pc[q] /\ turn'[q] = turn[q] /\ fd'[q] = fd[q]
           /\ info'[q] = info[q] /\ objects'[q] = objects[q] /\ failed'[q] = failed[q]
<1>1. CASE Quiet(r)
  BY <1>1 DEF Quiet, Start, Translate, RustcFails, CopyFails, NoRule, Check, NotThere,
       InputsDone, NotACrate, LinkFails, Kill, Fail, Goto, NextInput, NextObject, Take, TypeOK
<1>2. CASE \/ Rustc(r) \/ Rename(r) \/ Unlink(r) \/ CopyOut(r) \/ CopiedOut(r)
           \/ WriteRule(r) \/ WroteRule(r) \/ Bring(r)
  BY <1>2 DEF Rustc, Rename, Unlink, CopyOut, CopiedOut, WriteRule, WroteRule, Bring, Open,
       Fill, AfterDelivery, Goto, NextInput, Take, TypeOK
<1>3. CASE \/ CopyIn(r) \/ CopiedIn(r) \/ LinkCrate(r) \/ CopyCrate(r) \/ CopiedCrate(r)
           \/ Link(r) \/ Drop(r)
  BY <1>3 DEF CopyIn, CopiedIn, LinkCrate, CopyCrate, CopiedCrate, Link, Drop, Open,
       Fill, Goto, NextInput, NextObject, TypeOK
<1> QED BY <1>1, <1>2, <1>3, AnyIs

LEMMA SiteStays ==
    ASSUME NEW r \in Run, Any(r)
    PROVE  UNCHANGED site
BY DEF Any, Step, Compile, Deliver, Depend, TakeIn, Crates, Start, Translate, RustcFails,
     CopyFails, NoRule, Check, NotThere, InputsDone, NotACrate, LinkFails, Kill, Rustc, Rename,
     Unlink, CopyOut, CopiedOut, WriteRule, WroteRule, Bring, CopyIn, CopiedIn, LinkCrate,
     CopyCrate, CopiedCrate, Link, Drop

LEMMA QuietLeaves ==
    ASSUME TypeOK, NEW r \in Run, Quiet(r)
    PROVE  /\ UNCHANGED <<entry, bytes, fd, site>>
           /\ pc'[r] \in {"input", "rustc", "bring", "crates", "drop", "ended", "killed"}
BY DEF Quiet, Start, Translate, RustcFails, CopyFails, NoRule, Check, NotThere, InputsDone,
     AtInput, NotACrate, AtObject, LinkFails, Kill, Fail, Goto, NextInput, TypeOK, Phase

(* What rustc makes, and what a run says of what it links, is of its type. *)
LEMMA MadeTyped ==
    ASSUME TypeOK, Control, NEW r \in Run, pc[r] = "rustc"
    PROVE  /\ Made(r) \in Whole /\ Object(r) \in WorkFile /\ Object(r) \in Inode
           /\ turn[r] \in Place
<1>1. turn[r] \in DOMAIN Inputs(r) /\ IsC(Input(r)) /\ turn[r] \in Place
  BY CommandOf, BuildsAssumption DEF Control, Where, AtC, Place
<1>2. Input(r).unit \in Unit
  BY <1>1, CommandOf DEF Input
<1>3. command[r].link \/ Input(r).path \in File
  BY <1>1, CommandOf DEF Input
<1>4. CrateName(r) \in Crate
  BY <1>1, <1>2, <1>3 DEF CrateName, Crate
<1>5. Made(r) \in Marked
  BY <1>4, CommandOf DEF Made, Marked
<1> QED BY <1>1, <1>5 DEF Whole, Object, WorkFile, Inode

LEMMA SaysTyped ==
    ASSUME NEW c
    PROVE  Says(c) \in [runtime : BOOLEAN, crates : SUBSET Crate, native : BOOLEAN]
<1>1. CASE c \notin Marked
  BY <1>1 DEF Says, Foreign, Nothing
<1>2. CASE c \in Marked
  <2>1. c.runtime \in BOOLEAN /\ {c.crate} \ {None} \in SUBSET Crate
    BY <1>2 DEF Marked
  <2> QED BY <1>2, <2>1 DEF Says, Foreign
<1> QED BY <1>1, <1>2

LEMMA TakeTyped ==
    ASSUME TypeOK, NEW r \in Run, NEW name \in WorkFile,
           NEW says \in [runtime : BOOLEAN, crates : SUBSET Crate, native : BOOLEAN],
           Take(r, name, says)
    PROVE  /\ info' \in [Run -> [runtime : BOOLEAN, crates : SUBSET Crate, native : BOOLEAN]]
           /\ objects' \in [Run -> Seq(Part)]
           /\ objects'[r] = Append(objects[r], [name |-> name, crates |-> says.crates])
<1>1. Add(info[r], says) \in [runtime : BOOLEAN, crates : SUBSET Crate, native : BOOLEAN]
  BY DEF Add, TypeOK
<1>2. [name |-> name, crates |-> says.crates] \in Part
  BY DEF Part
<1>3. info' = [info EXCEPT ![r] = Add(info[r], says)]
  BY DEF Take
<1>4. objects' = [objects EXCEPT ![r] = Append(objects[r], [name |-> name, crates |-> says.crates])]
  BY DEF Take
<1>5. Append(objects[r], [name |-> name, crates |-> says.crates]) \in Seq(Part)
  BY <1>2 DEF TypeOK
<1> QED BY <1>1, <1>3, <1>4, <1>5 DEF TypeOK

(* What a write leaves: the file opened has the new inode or the one it    *)
(* had, which is cut short.                                                *)
LEMMA OpenTyped ==
    ASSUME TypeOK, NEW r \in Run, NEW name \in File \cup WorkFile, NEW new,
           entry[name] # None \/ new \in Inode, Open(r, name, new)
    PROVE  \E i \in Inode :
              /\ i = (IF entry[name] = None THEN new ELSE entry[name])
              /\ entry' = [entry EXCEPT ![name] = i]
              /\ bytes' = [bytes EXCEPT ![i] = Half]
              /\ fd' = [fd EXCEPT ![r] = i]
              /\ entry' \in [File \cup WorkFile -> Inode \cup {None}]
              /\ bytes' \in [Inode -> Whole \cup {None, Half}]
              /\ fd' \in [Run -> Inode \cup {None}]
<1> DEFINE i == IF entry[name] = None THEN new ELSE entry[name]
<1>1. i \in Inode
  BY DEF TypeOK
<1>2. /\ entry' = [entry EXCEPT ![name] = i]
      /\ bytes' = [bytes EXCEPT ![i] = Half]
      /\ fd' = [fd EXCEPT ![r] = i]
  BY DEF Open
<1> QED BY <1>1, <1>2 DEF TypeOK

(* The library a crate is loaded as has the name of the first object that  *)
(* is that crate.                                                          *)
LEMMA FirstOfCrate ==
    ASSUME TypeOK, NEW r \in Run, NEW k \in DOMAIN objects[r],
           Len(objects[r]) <= MaxInputs
    PROVE  \E j \in 1..k :
              /\ Library(r, k) = <<r, "lib", j>>
              /\ j \in DOMAIN objects[r] /\ objects[r][j].crates = objects[r][k].crates
              /\ Library(r, k) \in WorkFile
<1> DEFINE Same == {j \in 1..k : objects[r][j].crates = objects[r][k].crates}
<1> DEFINE First(j) == /\ objects[r][j].crates = objects[r][k].crates
                       /\ \A i \in 1..(j - 1) :
                             objects[r][i].crates # objects[r][k].crates
<1>1. k \in Nat /\ k >= 1 /\ k <= Len(objects[r]) /\ DOMAIN objects[r] = 1..Len(objects[r])
  BY DEF TypeOK
<1>2. Same # {} /\ Same \subseteq Nat
  BY <1>1
<1>3. \A i, j \in Nat : i < j => <<i, j>> \in OpToRel(<, Nat)
  BY DEF OpToRel
<1>4. \E j \in Same : \A i \in Same : ~(<<i, j>> \in OpToRel(<, Nat))
  BY <1>2, NatLessThanWellFounded, WFMin
<1>5. PICK j \in Same : \A i \in Same : ~(i < j)
  BY <1>2, <1>3, <1>4
<1>6. \A i \in 1..(j - 1) : objects[r][i].crates # objects[r][k].crates
  BY <1>1, <1>5
<1> DEFINE f == CHOOSE m \in 1..k : First(m)
<1>7. f \in 1..k /\ First(f)
  BY <1>5, <1>6
<1>8. Library(r, k) = <<r, "lib", f>>
  BY DEF Library
<1> HIDE DEF f
<1>9. f \in Place /\ f \in DOMAIN objects[r]
  BY <1>1, <1>7, BuildsAssumption DEF Place
<1>10. Library(r, k) \in WorkFile
  BY <1>8, <1>9 DEF WorkFile
<1> QED BY <1>7, <1>8, <1>9, <1>10

-----------------------------------------------------------------------------
LEMMA NextTurn ==
    ASSUME TypeOK, NEW r \in Run
    PROVE  [turn EXCEPT ![r] = @ + 1] \in [Run -> Nat \ {0}]
<1>1. turn[r] + 1 \in Nat \ {0}
  BY DEF TypeOK
<1> QED BY <1>1 DEF TypeOK

LEMMA TypeQuiet ==
    ASSUME TypeOK, Control, NEW r \in Run, Quiet(r)
    PROVE  TypeOK'
<1>1. CASE Check(r)
  <2>1. Brought(r) \in WorkFile
    <3>1. turn[r] \in Place
      BY <1>1, CommandOf, BuildsAssumption DEF Check, AtInput, Place, TypeOK
    <3> QED BY <3>1 DEF Brought, WorkFile
  <2>2. CASE Take(r, Brought(r), Says(Read(Input(r).path)))
    BY <1>1, <2>1, <2>2, SaysTyped, TakeTyped
       DEF Check, TypeOK, Phase, Goto, Fail, site
  <2>3. CASE UNCHANGED <<info, objects>>
    BY <1>1, <2>3 DEF Check, TypeOK, Phase, Goto, Fail, site
  <2> QED BY <1>1, <2>2, <2>3 DEF Check
<1>2. CASE Start(r)
  BY <1>2 DEF Start, TypeOK, Phase, Goto, site
<1>3. CASE Translate(r)
  BY <1>3, NextTurn DEF Translate, Fail, Goto, TypeOK, Phase, site
<1>4. CASE RustcFails(r)
  BY <1>4 DEF RustcFails, Fail, Goto, TypeOK, Phase, site
<1>5. CASE CopyFails(r)
  BY <1>5 DEF CopyFails, Fail, Goto, TypeOK, Phase, site
<1>6. CASE NoRule(r)
  BY <1>6, NextTurn DEF NoRule, NextInput, Goto, TypeOK, Phase, site
<1>7. CASE NotThere(r)
  BY <1>7 DEF NotThere, Fail, Goto, TypeOK, Phase, site
<1>8. CASE InputsDone(r)
  <2>1. [turn EXCEPT ![r] = 1] \in [Run -> Nat \ {0}]
    BY DEF TypeOK
  <2> QED BY <1>8, <2>1 DEF InputsDone, Goto, TypeOK, Phase, site
<1>9. CASE NotACrate(r)
  BY <1>9, NextTurn DEF NotACrate, NextObject, TypeOK, Phase, site
<1>10. CASE LinkFails(r)
  BY <1>10 DEF LinkFails, Fail, Goto, TypeOK, Phase, site
<1>11. CASE Kill(r)
  BY <1>11 DEF Kill, Goto, TypeOK, Phase, site
<1> QED BY <1>1, <1>2, <1>3, <1>4, <1>5, <1>6, <1>7, <1>8, <1>9, <1>10, <1>11 DEF Quiet

(* What a copy reads is there to be read.                                  *)
LEMMA ReadTyped ==
    ASSUME TypeOK, NEW name \in File \cup WorkFile
    PROVE  Read(name) \in Whole \cup {None, Half}
BY DEF TypeOK, Read

LEMMA TypeNext ==
    ASSUME IInv, NEW r \in Run, Any(r)
    PROVE  TypeOK'
<1> USE DEF IInv
<1>1. CASE Quiet(r)
  BY <1>1, TypeQuiet
<1>2. CASE Rustc(r)
  <2>1. CASE command[r].link
    BY <1>2, <2>1, MadeTyped, SaysTyped, TakeTyped DEF Rustc, TypeOK, Phase, Goto, site
  <2>2. CASE ~command[r].link
    BY <1>2, <2>2, MadeTyped DEF Rustc, TypeOK, Phase, Goto, site
  <2> QED BY <2>1, <2>2
<1>3. CASE Rename(r) \/ Unlink(r)
  <2>1. Wanted(r) \in File /\ Written(r) \in WorkFile
    BY <1>3, Wanting DEF Rename, Unlink, Delivering
  <2> QED BY <1>3, <2>1 DEF Rename, Unlink, TypeOK, Phase, Goto, AfterDelivery, site
<1>4. CASE CopyOut(r)
  <2>1. Wanted(r) \in File /\ <<r, "copy", Written(r)[3]>> \in Inode
    BY <1>4, Wanting DEF CopyOut, Delivering
  <2> QED BY <1>4, <2>1, OpenTyped DEF CopyOut, TypeOK, Phase, Goto, site
<1>5. CASE CopiedOut(r)
  <2>1. Written(r) \in WorkFile
    BY <1>5, Wanting DEF CopiedOut, Delivering
  <2>2. Read(Written(r)) \in Whole \cup {None, Half}
    BY <2>1, ReadTyped
  <2> QED BY <1>5, <2>2 DEF CopiedOut, Fill, TypeOK, Phase, Goto, AfterDelivery, site
<1>6. CASE WriteRule(r)
  <2>1. Rule(r) \in File /\ turn[r] \in Place
    BY <1>6, CommandOf, BuildsAssumption DEF WriteRule, Rule, Control, Where, AtC, Input, Place
  <2>2. <<r, "rule", turn[r]>> \in Inode
    BY <2>1 DEF Inode
  <2> QED BY <1>6, <2>1, <2>2, OpenTyped DEF WriteRule, TypeOK, Phase, Goto, site
<1>7. CASE WroteRule(r)
  <2>1. [made |-> Input(r).path, by |-> r] \in Whole
    BY <1>7, CommandOf DEF WroteRule, Control, Where, AtC, Input, Whole, Other
  <2> QED BY <1>7, <2>1, NextTurn DEF WroteRule, Fill, TypeOK, Phase, Goto, NextInput, site
<1>8. CASE Bring(r) \/ CopyIn(r) \/ CopiedIn(r)
  <2>1. Input(r).path \in File /\ turn[r] \in Place
    BY <1>8, CommandOf, BuildsAssumption
       DEF Bring, CopyIn, CopiedIn, Control, Where, AtOther, Input, Place
  <2>2. Brought(r) \in WorkFile /\ <<r, "in", turn[r]>> \in Inode
    BY <2>1 DEF Brought, WorkFile, Inode
  <2>3. CASE Bring(r)
    BY <2>1, <2>2, <2>3, NextTurn DEF Bring, TypeOK, Phase, Goto, NextInput, site
  <2>4. CASE CopyIn(r)
    BY <2>2, <2>4, OpenTyped DEF CopyIn, TypeOK, Phase, Goto, site
  <2>5. CASE CopiedIn(r)
    <3>1. Read(Input(r).path) \in Whole \cup {None, Half}
      BY <2>1, ReadTyped
    <3> QED BY <2>5, <3>1, NextTurn DEF CopiedIn, Fill, TypeOK, Phase, Goto, NextInput, site
  <2> QED BY <1>8, <2>3, <2>4, <2>5
<1>9. CASE LinkCrate(r) \/ CopyCrate(r) \/ CopiedCrate(r)
  <2>1. turn[r] \in DOMAIN objects[r]
    BY <1>9 DEF LinkCrate, CopyCrate, CopiedCrate, AtObject, Control, Where, TypeOK
  <2>2. Loaded(r).name \in WorkFile /\ Library(r, turn[r]) \in WorkFile
    <3>1. Loaded(r) \in Part
      BY <2>1 DEF Loaded, TypeOK
    <3>2. Library(r, turn[r]) \in WorkFile
      BY <2>1, FirstOfCrate DEF Control, Taken
    <3> QED BY <3>1, <3>2 DEF Part
  <2>3. CASE LinkCrate(r)
    BY <2>2, <2>3, NextTurn DEF LinkCrate, TypeOK, Phase, NextObject, site
  <2>4. CASE CopyCrate(r)
    BY <2>2, <2>4, OpenTyped DEF CopyCrate, TypeOK, Phase, Goto, site
  <2>5. CASE CopiedCrate(r)
    BY <2>2, <2>5, ReadTyped, NextTurn DEF CopiedCrate, Fill, TypeOK, Phase, Goto, NextObject, site
  <2> QED BY <1>9, <2>3, <2>4, <2>5
<1>10. CASE Link(r)
  <2>1. [made |-> command[r].output, by |-> r] \in Whole
    BY <1>10, CommandOf DEF Link, Control, Where, Whole, Other
  <2>2. Program(r) \in WorkFile /\ Program(r) \in Inode
    BY BuildsAssumption DEF Program, WorkFile, Inode, Place
  <2> QED BY <1>10, <2>1, <2>2 DEF Link, TypeOK, Phase, Goto, site
<1>11. CASE Drop(r)
  BY <1>11 DEF Drop, TypeOK, Phase, Goto, site
<1> QED BY <1>1, <1>2, <1>3, <1>4, <1>5, <1>6, <1>7, <1>8, <1>9, <1>10, <1>11, AnyIs

-----------------------------------------------------------------------------
LEMMA ControlOthers ==
    ASSUME TypeOK, Control, NEW r \in Run, Any(r), NEW q \in Run, q # r
    PROVE  Where(q)' /\ Taken(q)'
<1>1. /\ pc'[q] = pc[q] /\ turn'[q] = turn[q] /\ objects'[q] = objects[q]
      /\ command' = command /\ oneFs' = oneFs
  BY OthersStay, SiteStays DEF site
<1>2. Where(q) /\ Taken(q)
  BY DEF Control
<1>3. Taken(q)'
  BY <1>1, <1>2 DEF Taken
<1>4. Where(q)'
  BY <1>1, <1>2 DEF Where, AtC, AtOther, Inputs, Input, Rule, CratesClash
<1> QED BY <1>3, <1>4

(* An object that is taken is one more, under a name of the run's own.     *)
LEMMA TakeCounts ==
    ASSUME TypeOK, Control, NEW r \in Run, NEW name \in {r} \X {"o", "in"} \X Place,
           NEW says \in [runtime : BOOLEAN, crates : SUBSET Crate, native : BOOLEAN],
           Take(r, name, says), Len(objects[r]) < turn[r], turn[r] <= MaxInputs
    PROVE  /\ \A k \in DOMAIN objects'[r] : objects'[r][k].name \in {r} \X {"o", "in"} \X Place
           /\ Len(objects'[r]) <= MaxInputs
           /\ Len(objects'[r]) <= turn[r]
<1>1. name \in WorkFile
  BY DEF WorkFile
<1>2. objects'[r] = Append(objects[r], [name |-> name, crates |-> says.crates])
  BY <1>1, TakeTyped
<1>3. objects[r] \in Seq(Part) /\ turn[r] \in Nat /\ MaxInputs \in Nat
  BY BuildsAssumption DEF TypeOK
<1>4. /\ Len(objects'[r]) = Len(objects[r]) + 1
      /\ DOMAIN objects'[r] = 1..(Len(objects[r]) + 1)
      /\ \A k \in 1..Len(objects[r]) : objects'[r][k] = objects[r][k]
      /\ objects'[r][Len(objects[r]) + 1] = [name |-> name, crates |-> says.crates]
  BY <1>2, <1>3
<1>5. \A k \in 1..Len(objects[r]) : objects[r][k].name \in {r} \X {"o", "in"} \X Place
  BY <1>3 DEF Control, Taken
<1>6. ASSUME NEW k \in DOMAIN objects'[r]
      PROVE  objects'[r][k].name \in {r} \X {"o", "in"} \X Place
  BY <1>3, <1>4, <1>5
<1>7. Len(objects[r]) + 1 <= turn[r] /\ Len(objects[r]) \in Nat
  BY <1>3
<1> QED BY <1>3, <1>4, <1>6, <1>7

LEMMA ControlNext ==
    ASSUME IInv, NEW r \in Run, Any(r)
    PROVE  Control'
<1> USE DEF IInv
<1> SUFFICES Where(r)' /\ Taken(r)'
  BY ControlOthers DEF Control
<1>0. /\ Where(r) /\ Taken(r) /\ pc[r] \in Phase /\ turn[r] \in Nat \ {0}
      /\ Len(objects[r]) \in Nat /\ MaxInputs \in Nat
      /\ command' = command /\ oneFs' = oneFs
  BY SiteStays, BuildsAssumption DEF Control, TypeOK, site
<1>1. /\ DOMAIN Inputs(r) = 1..Len(Inputs(r)) /\ Len(Inputs(r)) \in Nat
      /\ Len(Inputs(r)) <= MaxInputs
      /\ \A k \in DOMAIN Inputs(r) : ~IsC(Inputs(r)[k]) => command[r].link
  BY CommandOf
<1> DEFINE Same == objects'[r] = objects[r]
<1>2. CASE Check(r)
  <2>1. turn[r] \in DOMAIN Inputs(r) /\ turn[r] \in Place /\ turn[r] <= MaxInputs
    BY <1>0, <1>1, <1>2 DEF Check, AtInput, Place
  <2>2. CASE Take(r, Brought(r), Says(Read(Input(r).path))) /\ Goto(r, "bring")
    <3>1. Brought(r) \in {r} \X {"o", "in"} \X Place
      BY <2>1 DEF Brought
    <3>2. /\ \A k \in DOMAIN objects'[r] : objects'[r][k].name \in {r} \X {"o", "in"} \X Place
          /\ Len(objects'[r]) <= MaxInputs
          /\ Len(objects'[r]) <= turn[r]
      BY <1>0, <1>2, <2>1, <2>2, <3>1, SaysTyped, TakeCounts DEF Check, AtInput, Taken
    <3>3. pc'[r] = "bring" /\ turn'[r] = turn[r]
      BY <1>2, <2>2 DEF Check, Goto, TypeOK
    <3>4. Taken(r)'
      BY <3>2, <3>3 DEF Taken, Delivering
    <3>5. Where(r)'
      BY <1>0, <1>1, <1>2, <2>1, <3>3 DEF Where, AtOther, Check, AtC, Inputs, Input, Delivering
    <3> QED BY <3>4, <3>5
  <2>3. CASE Fail(r) /\ UNCHANGED <<info, objects>>
    BY <1>0, <1>2, <2>3 DEF Check, Fail, Goto, TypeOK, Where, Taken, Delivering
  <2> QED BY <1>2, <2>2, <2>3 DEF Check
<1>3. CASE Start(r) \/ RustcFails(r) \/ CopyFails(r) \/ NotThere(r) \/ LinkFails(r) \/ Kill(r)
  BY <1>0, <1>3 DEF Start, RustcFails, CopyFails, NotThere, LinkFails, Kill, Fail, Goto,
       TypeOK, Where, Taken, Delivering
<1>4. CASE Translate(r)
  BY <1>0, <1>1, <1>4 DEF Translate, AtInput, Fail, Goto, TypeOK, Where, Taken, Delivering,
       AtC, Inputs, Input
<1>5. CASE NoRule(r)
  BY <1>0, <1>5 DEF NoRule, NextInput, Goto, TypeOK, Where, Taken, Delivering
<1>6. CASE InputsDone(r)
  BY <1>0, <1>6 DEF InputsDone, Goto, TypeOK, Where, Taken, Delivering
<1>7. CASE NotACrate(r)
  BY <1>0, <1>7 DEF NotACrate, AtObject, NextObject, TypeOK, Where, Taken, Delivering
<1>8. CASE Quiet(r)
  BY <1>2, <1>3, <1>4, <1>5, <1>6, <1>7, <1>8 DEF Quiet
<1>9. CASE Rustc(r)
  <2>1. AtC(r) /\ turn[r] <= MaxInputs /\ pc[r] = "rustc"
    BY <1>0, <1>1, <1>9 DEF Rustc, Where, AtC
  <2>2. CASE command[r].link
    <3>1. Object(r) \in {r} \X {"o", "in"} \X Place
      BY <2>1, MadeTyped DEF Object
    <3>2. /\ \A k \in DOMAIN objects'[r] : objects'[r][k].name \in {r} \X {"o", "in"} \X Place
          /\ Len(objects'[r]) <= MaxInputs
          /\ Len(objects'[r]) <= turn[r]
      BY <1>0, <1>9, <2>1, <2>2, <3>1, SaysTyped, TakeCounts DEF Rustc, Taken
    <3>3. pc'[r] = "rule" /\ turn'[r] = turn[r]
      BY <1>9, <2>2 DEF Rustc, Goto, TypeOK
    <3>4. Taken(r)'
      BY <3>2, <3>3 DEF Taken, Delivering
    <3>5. Where(r)'
      BY <1>0, <2>1, <3>3 DEF Where, AtC, Inputs, Input, Delivering
    <3> QED BY <3>4, <3>5
  <2>3. CASE ~command[r].link
    BY <1>0, <1>9, <2>1, <2>3 DEF Rustc, Goto, TypeOK, Where, Taken, Delivering, AtC, Inputs, Input
  <2> QED BY <2>2, <2>3
<1>10. CASE Rename(r) \/ Unlink(r) \/ CopiedOut(r)
  BY <1>0, <1>10 DEF Rename, Unlink, CopiedOut, AfterDelivery, Goto, TypeOK, Where, Taken,
       Delivering, AtC, Inputs, Input
<1>11. CASE CopyOut(r)
  BY <1>0, <1>11 DEF CopyOut, Goto, TypeOK, Where, Taken, Delivering, AtC, Inputs, Input
<1>12. CASE WriteRule(r) \/ WroteRule(r)
  BY <1>0, <1>12 DEF WriteRule, WroteRule, NextInput, Goto, TypeOK, Where, Taken, Delivering,
       AtC, Inputs, Input, Rule
<1>13. CASE Bring(r) \/ CopiedIn(r)
  BY <1>0, <1>13 DEF Bring, CopiedIn, NextInput, Goto, TypeOK, Where, Taken, Delivering
<1>14. CASE CopyIn(r)
  <2>1. entry[Brought(r)] = None
    <3>1. Brought(r) \in WorkFile
      BY <1>0, <1>1, <1>14 DEF CopyIn, Where, AtOther, Brought, WorkFile, Place
    <3>2. ~Came(Brought(r))
      BY <1>0, <1>14 DEF CopyIn, Came, Passed, Past, Brought, Delivering
    <3> QED BY <3>1, <3>2 DEF NoneAhead
  <2> QED BY <1>0, <1>14, <2>1 DEF CopyIn, Goto, TypeOK, Where, Taken, Delivering,
       AtOther, Inputs, Input
<1>15. CASE LinkCrate(r) \/ CopiedCrate(r)
  BY <1>0, <1>15 DEF LinkCrate, CopiedCrate, NextObject, AtObject, Goto, TypeOK, Where,
       Taken, Delivering
<1>16. CASE CopyCrate(r)
  <2>1. turn[r] \in DOMAIN objects[r] /\ Loaded(r).crates # {}
    BY <1>0, <1>16 DEF CopyCrate, AtObject, TypeOK
  <2>2. PICK j \in 1..turn[r] :
           /\ Library(r, turn[r]) = <<r, "lib", j>>
           /\ objects[r][j].crates = objects[r][turn[r]].crates
           /\ Library(r, turn[r]) \in WorkFile
    BY <2>1, FirstOfCrate DEF Control, Taken
  <2>3. j \in Place
    BY <2>2 DEF WorkFile
  <2>4. PICK k \in DOMAIN objects[r] :
           k < turn[r] /\ Library(r, k) = <<r, "lib", j>>
    BY <1>16, <2>2, <2>3 DEF Libs, CopyCrate, AtObject
  <2>5. PICK i \in 1..k :
           /\ Library(r, k) = <<r, "lib", i>>
           /\ objects[r][i].crates = objects[r][k].crates
    BY <2>4, FirstOfCrate DEF Control, Taken
  <2>6. objects[r][k].crates = objects[r][turn[r]].crates
    BY <2>2, <2>4, <2>5
  <2>7. CratesClash(r)
    <3>1. k # turn[r]
      BY <1>0, <2>4
    <3>2. objects[r][k].crates # {}
      BY <2>1, <2>6 DEF Loaded
    <3> QED BY <2>1, <2>4, <2>6, <3>1, <3>2 DEF CratesClash
  <2>8. objects' = objects /\ pc'[r] = "loading" /\ turn'[r] = turn[r]
    BY <1>16 DEF CopyCrate, Goto, TypeOK
  <2>9. Taken(r)'
    BY <1>0, <2>8 DEF Taken, Delivering
  <2>10. Where(r)'
    BY <1>0, <1>16, <2>1, <2>7, <2>8 DEF Where, Delivering, CratesClash, CopyCrate, AtObject
  <2> QED BY <2>9, <2>10
<1>17. CASE Link(r)
  BY <1>0, <1>17 DEF Link, Goto, TypeOK, Where, Taken, Delivering
<1>18. CASE Drop(r)
  BY <1>0, <1>18 DEF Drop, Goto, TypeOK, Where, Taken, Delivering
<1> QED BY <1>8, <1>9, <1>10, <1>11, <1>12, <1>13, <1>14, <1>15, <1>16, <1>17, <1>18, AnyIs

-----------------------------------------------------------------------------
(* What a run has made it has made: it never comes to a place again.       *)
LEMMA CameStays ==
    ASSUME IInv, NEW r \in Run, Any(r), NEW i, i[1] \in Run, i[3] \in Nat, Came(i)
    PROVE  Came(i)'
<1> USE DEF IInv
<1>0. command' = command
  BY SiteStays DEF site
<1>1. CASE i[1] # r
  BY <1>0, <1>1, OthersStay DEF Came, Passed, Past
<1>2. CASE i[1] = r
  <2>0. pc[r] \in Phase /\ turn[r] \in Nat \ {0} /\ Where(r)
    BY DEF TypeOK, Control
  <2>1. CASE Start(r) \/ Translate(r) \/ RustcFails(r) \/ NoRule(r) \/ Check(r)
    BY <1>0, <1>2, <2>0, <2>1 DEF Start, Translate, RustcFails, NoRule,
       Check, AtInput, Fail, Goto, NextInput, TypeOK, Came, Passed, Past, Delivering, Where
  <2>2. CASE CopyFails(r)
    BY <1>0, <1>2, <2>0, <2>2 DEF CopyFails, Fail, Goto, TypeOK, Came, Passed, Past
  <2>3. CASE NotThere(r) \/ LinkFails(r)
    BY <1>0, <1>2, <2>0, <2>3 DEF NotThere, LinkFails, Fail, Goto, TypeOK, Came, Passed, Past
  <2>4. CASE InputsDone(r)
    BY <1>0, <1>2, <2>0, <2>4 DEF InputsDone, Goto, TypeOK, Came, Passed, Past, Delivering
  <2>5. CASE NotACrate(r)
    <3>1. pc[r] = "crates" /\ pc'[r] = "crates" /\ command[r].link
      BY <2>0, <2>5 DEF NotACrate, AtObject, Where
    <3> QED BY <1>0, <1>2, <3>1 DEF Came, Passed, Past, Delivering
  <2>6. CASE Kill(r)
    BY <1>0, <1>2, <2>0, <2>6 DEF Kill, Goto, TypeOK, Came, Passed, Past
  <2>7. CASE Rustc(r)
    BY <1>0, <1>2, <2>0, <2>7 DEF Rustc, Goto, TypeOK, Came, Passed, Past, Delivering, Where
  <2>8. CASE Rename(r)
    BY <1>0, <1>2, <2>0, <2>8 DEF Rename, AfterDelivery, Goto, TypeOK, Came, Passed, Past, Delivering, Where
  <2>9. CASE Unlink(r) \/ CopyOut(r)
    BY <1>0, <1>2, <2>0, <2>9 DEF Unlink, CopyOut, Goto, TypeOK, Came, Passed, Past, Delivering, Where
  <2>10. CASE CopiedOut(r)
    BY <1>0, <1>2, <2>0, <2>10 DEF CopiedOut, AfterDelivery, Goto, TypeOK, Came, Passed, Past, Delivering, Where
  <2>11. CASE WriteRule(r) \/ WroteRule(r) \/ Bring(r) \/ CopyIn(r) \/ CopiedIn(r)
    BY <1>0, <1>2, <2>0, <2>11 DEF WriteRule, WroteRule, Bring,
       CopyIn, CopiedIn, Goto, NextInput, TypeOK, Came, Passed, Past, Delivering, Where
  <2>12. CASE LinkCrate(r) \/ CopyCrate(r) \/ CopiedCrate(r) \/ Link(r) \/ Drop(r)
    BY <1>0, <1>2, <2>0, <2>12 DEF LinkCrate, CopyCrate, CopiedCrate, Link,
       Drop, AtObject, Goto, NextObject, TypeOK, Came, Passed, Past, Delivering, Where
  <2> QED BY <2>1, <2>2, <2>3, <2>4, <2>5, <2>6, <2>7, <2>8, <2>9, <2>10, <2>11, <2>12, AnyIs DEF Quiet
<1> QED BY <1>1, <1>2

(* The places of a name and of an inode that is not a file of the users.   *)
LEMMA PlacesOf ==
    /\ \A n \in WorkFile : n[1] \in Run /\ n[2] \in {"o", "in", "lib", "out"} /\ n[3] \in Nat
                           /\ n = <<n[1], n[2], n[3]>>
    /\ \A i \in Inode \ File : i[1] \in Run /\ i[3] \in Nat /\ i = <<i[1], i[2], i[3]>>
    /\ \A f \in File : /\ f \notin WorkFile
                       /\ f \notin Run \X {"o", "in", "copy", "rule", "out"} \X Place
<1>1. Place \subseteq Nat
  BY BuildsAssumption DEF Place
<1>2. \A f \in File :
         f \notin Run \X {"o", "in", "lib", "out", "copy", "rule"} \X Place
  BY NamesApart
<1>3. WorkFile \subseteq Run \X {"o", "in", "lib", "out", "copy", "rule"} \X Place
  BY DEF WorkFile
<1> QED BY <1>1, <1>2, <1>3 DEF WorkFile, Inode

(* Where a step takes the inode of a name, and of what it opens, from: the *)
(* inode was in use already, or it is one the run has now come to make.    *)
LEMMA Sources ==
    ASSUME IInv, NEW r \in Run, Any(r)
    PROVE  /\ \A i \in Inode : Used(i)' => Used(i) \/ Came(i)'
           /\ \A n \in WorkFile : entry'[n] # None => entry[n] # None \/ Came(n)'
<1> USE DEF IInv
<1>0. command' = command /\ turn[r] \in Nat
  BY SiteStays DEF site, TypeOK
<1>1. CASE Quiet(r)
  BY <1>1, QuietLeaves DEF Used
<1>2. CASE Rustc(r)
  <2>1. PICK o : o = <<r, "o", turn[r]>>
    OBVIOUS
  <2>2. Came(o)'
    BY <1>0, <1>2, <2>1 DEF Rustc, Came, Passed, Past, Goto, TypeOK, Delivering
  <2>3. entry' = [entry EXCEPT ![o] = o] /\ fd' = fd
    BY <1>2, <2>1 DEF Rustc, Object
  <2> QED BY <2>2, <2>3 DEF Used, TypeOK
<1>3. CASE Rename(r)
  <2>1. Written(r) \in WorkFile /\ Wanted(r) \in File
    BY <1>3, Wanting DEF Rename, Delivering
  <2>2. /\ entry' = [entry EXCEPT ![Wanted(r)] = entry[Written(r)], ![Written(r)] = None]
        /\ fd' = fd
    BY <1>3 DEF Rename
  <2>3. \A n \in File \cup WorkFile : entry'[n] \in {entry[n], entry[Written(r)], None}
    BY <2>1, <2>2 DEF TypeOK
  <2>4. \A n \in WorkFile : entry'[n] \in {entry[n], None}
    BY <2>1, <2>2, PlacesOf DEF TypeOK
  <2> QED BY <2>1, <2>2, <2>3, <2>4, NoneApart DEF Used
<1>4. CASE Unlink(r)
  <2>1. \A n \in File \cup WorkFile : entry'[n] \in {entry[n], None}
    BY <1>4 DEF Unlink, TypeOK
  <2> QED BY <1>4, <2>1, NoneApart DEF Unlink, Used
<1>5. CASE CopyOut(r)
  <2>1. Wanted(r) \in File
    BY <1>5, Wanting DEF CopyOut, Delivering
  <2>2. PICK new \in Inode : new = <<r, "copy", Written(r)[3]>>
    BY <1>5, Wanting DEF CopyOut, Delivering
  <2>3. Came(new)'
    BY <1>0, <1>5, <2>2 DEF CopyOut, Came, Passed, Goto, Written, Object, TypeOK
  <2>4. PICK i \in Inode :
           /\ i = (IF entry[Wanted(r)] = None THEN new ELSE entry[Wanted(r)])
           /\ entry' = [entry EXCEPT ![Wanted(r)] = i]
           /\ fd' = [fd EXCEPT ![r] = i]
    BY <1>5, <2>1, <2>2, OpenTyped DEF CopyOut
  <2>5. Used(i) \/ Came(i)'
    BY <2>1, <2>3, <2>4 DEF Used
  <2>6. \A n \in WorkFile : entry'[n] = entry[n]
    BY <2>1, <2>4, PlacesOf DEF TypeOK
  <2> QED BY <2>4, <2>5, <2>6 DEF Used, TypeOK
<1>6. CASE WriteRule(r)
  <2>1. Rule(r) \in File /\ turn[r] \in Place
    BY <1>6, CommandOf, BuildsAssumption DEF WriteRule, Rule, Control, Where, AtC, Input, Place
  <2>2. PICK new \in Inode : new = <<r, "rule", turn[r]>>
    BY <2>1 DEF Inode
  <2>3. Came(new)'
    BY <1>0, <1>6, <2>2 DEF WriteRule, Came, Passed, Goto, TypeOK
  <2>4. PICK i \in Inode :
           /\ i = (IF entry[Rule(r)] = None THEN new ELSE entry[Rule(r)])
           /\ entry' = [entry EXCEPT ![Rule(r)] = i]
           /\ fd' = [fd EXCEPT ![r] = i]
    BY <1>6, <2>1, <2>2, OpenTyped DEF WriteRule
  <2>5. Used(i) \/ Came(i)'
    BY <2>1, <2>3, <2>4 DEF Used
  <2>6. \A n \in WorkFile : entry'[n] = entry[n]
    BY <2>1, <2>4, PlacesOf DEF TypeOK
  <2> QED BY <2>4, <2>5, <2>6 DEF Used, TypeOK
<1>7. CASE CopiedOut(r) \/ WroteRule(r) \/ CopiedIn(r) \/ CopiedCrate(r)
  BY <1>7 DEF CopiedOut, WroteRule, CopiedIn, CopiedCrate, Used
<1>8. CASE Bring(r) \/ CopyIn(r)
  <2>1. Input(r).path \in File /\ turn[r] \in Place
    BY <1>8, CommandOf, BuildsAssumption DEF Bring, CopyIn, Control, Where, AtOther, Input, Place
  <2>2. PICK new \in Inode : new = <<r, "in", turn[r]>> /\ new \in WorkFile
    <3>1. <<r, "in", turn[r]>> \in Inode /\ <<r, "in", turn[r]>> \in WorkFile
      BY <2>1 DEF WorkFile, Inode
    <3> QED BY <3>1
  <2>3. Came(new)'
    BY <1>0, <1>8, <2>2 DEF Bring, CopyIn, Came, Passed, Goto, NextInput, TypeOK
  <2>4. CASE Bring(r)
    <3>1. entry' = [entry EXCEPT ![new] = entry[Input(r).path]] /\ fd' = fd
      BY <2>2, <2>4 DEF Bring, Brought
    <3> QED BY <2>1, <2>2, <2>3, <3>1 DEF Used, TypeOK
  <2>5. CASE CopyIn(r)
    <3>1. PICK i \in Inode :
             /\ i = (IF entry[new] = None THEN new ELSE entry[new])
             /\ entry' = [entry EXCEPT ![new] = i]
             /\ fd' = [fd EXCEPT ![r] = i]
      BY <2>2, <2>5, OpenTyped DEF CopyIn, Brought
    <3>2. Used(i) \/ Came(i)'
      BY <2>2, <2>3, <3>1 DEF Used
    <3> QED BY <2>2, <2>3, <3>1, <3>2 DEF Used, TypeOK
  <2> QED BY <1>8, <2>4, <2>5
<1>9. CASE LinkCrate(r) \/ CopyCrate(r)
  <2>1. turn[r] \in DOMAIN objects[r]
    BY <1>9 DEF LinkCrate, CopyCrate, AtObject, TypeOK
  <2>2. Loaded(r).name \in WorkFile
    <3>1. Loaded(r) \in Part
      BY <2>1 DEF Loaded, TypeOK
    <3> QED BY <3>1 DEF Part
  <2>3. PICK lib \in WorkFile : lib = Library(r, turn[r]) /\ \E j \in 1..turn[r] : lib = <<r, "lib", j>>
    BY <2>1, FirstOfCrate DEF Control, Taken
  <2>4. Came(lib)'
    BY <2>3 DEF Came
  <2>5. CASE LinkCrate(r)
    <3>1. entry' = [entry EXCEPT ![lib] = entry[Loaded(r).name]] /\ fd' = fd
      BY <2>3, <2>5 DEF LinkCrate
    <3> QED BY <2>2, <2>3, <2>4, <3>1 DEF Used, TypeOK
  <2>6. CASE CopyCrate(r)
    <3>1. PICK i \in Inode :
             /\ i = entry[lib]
             /\ entry' = [entry EXCEPT ![lib] = i]
             /\ fd' = [fd EXCEPT ![r] = i]
      BY <2>3, <2>6, OpenTyped DEF CopyCrate
    <3> QED BY <2>3, <2>4, <3>1 DEF Used, TypeOK
  <2> QED BY <1>9, <2>5, <2>6
<1>10. CASE Link(r)
  <2>1. PICK out \in WorkFile : out = <<r, "out", 0>>
    <3>1. <<r, "out", 0>> \in WorkFile
      BY BuildsAssumption DEF WorkFile, Place
    <3> QED BY <3>1
  <2>2. Came(out)'
    BY <1>0, <1>10, <2>1 DEF Link, Came, Goto, TypeOK, Delivering, Control, Where
  <2>3. entry' = [entry EXCEPT ![out] = out] /\ fd' = fd
    BY <1>10, <2>1 DEF Link, Program
  <2> QED BY <2>1, <2>2, <2>3 DEF Used, TypeOK
<1>11. CASE Drop(r)
  <2>1. \A n \in File \cup WorkFile : entry'[n] \in {entry[n], None}
    BY <1>11 DEF Drop, TypeOK
  <2> QED BY <1>11, <2>1, NoneApart DEF Drop, Used
<1> QED BY <1>1, <1>2, <1>3, <1>4, <1>5, <1>6, <1>7, <1>8, <1>9, <1>10, <1>11, AnyIs

LEMMA NoneAheadNext ==
    ASSUME IInv, NEW r \in Run, Any(r)
    PROVE  NoneAhead'
<1>1. TypeOK'
  BY TypeNext
<1>2. ASSUME NEW i \in Inode \ File, Used(i)'
      PROVE  Came(i)'
  <2>1. Used(i) \/ Came(i)'
    BY <1>2, Sources
  <2>2. Used(i) => Came(i)
    BY DEF IInv, NoneAhead
  <2> QED BY <2>1, <2>2, CameStays, PlacesOf
<1>3. ASSUME NEW n \in WorkFile, entry'[n] # None
      PROVE  Came(n)'
  BY <1>3, Sources, CameStays, PlacesOf DEF IInv, NoneAhead
<1> QED BY <1>2, <1>3 DEF NoneAhead

-----------------------------------------------------------------------------
(* What each step does to the files, in one shape for the steps alike.     *)
(* rustc and the linker make a file that is whole, and no one else has.    *)
LEMMA Creates ==
    ASSUME IInv, NEW r \in Run, Rustc(r) \/ Link(r)
    PROVE  \E o \in Run \X {"o", "out"} \X Place :
              /\ o[1] = r /\ o \in WorkFile /\ o \in Inode /\ ~Used(o)
              /\ entry' = [entry EXCEPT ![o] = o]
              /\ \E c \in Whole : bytes' = [bytes EXCEPT ![o] = c]
              /\ fd' = fd
              /\ pc'[r] \in Delivering => o = Written(r)'
<1> USE DEF IInv
<1>0. command' = command
  BY SiteStays DEF site, Any, Step, Compile
<1>1. CASE Rustc(r)
  <2>1. /\ Made(r) \in Whole /\ Object(r) \in WorkFile /\ Object(r) \in Inode
        /\ turn[r] \in Place
    BY <1>1, MadeTyped DEF Rustc
  <2>2. ~Came(Object(r))
    BY <1>1 DEF Rustc, Came, Passed, Past, Object, Delivering, TypeOK
  <2>3. ~Used(Object(r))
    BY <2>1, <2>2, PlacesOf DEF NoneAhead
  <2>4. Object(r) \in Run \X {"o", "out"} \X Place /\ Object(r)[1] = r
    BY <2>1 DEF Object
  <2>5. pc'[r] \in Delivering => Object(r) = Written(r)'
    BY <1>0, <1>1 DEF Rustc, Goto, TypeOK, Delivering, Written, Object
  <2> QED BY <1>1, <2>1, <2>3, <2>4, <2>5 DEF Rustc
<1>2. CASE Link(r)
  <2>1. 0 \in Place
    BY BuildsAssumption DEF Place
  <2>2. [made |-> command[r].output, by |-> r] \in Whole
    BY <1>2, CommandOf DEF Link, Control, Where, Whole, Other
  <2>3. Program(r) \in Inode /\ Program(r) \in WorkFile
    BY <2>1 DEF Program, Inode, WorkFile
  <2>4. ~Came(Program(r))
    BY <1>2 DEF Link, Came, Program, Delivering
  <2>5. ~Used(Program(r))
    BY <2>3, <2>4, PlacesOf DEF NoneAhead
  <2>6. Program(r) \in Run \X {"o", "out"} \X Place /\ Program(r)[1] = r
    BY <2>1 DEF Program
  <2>7. Program(r) = Written(r)'
    BY <1>0, <1>2 DEF Link, Written, Program, Control, Where
  <2> QED BY <1>2, <2>2, <2>3, <2>5, <2>6, <2>7 DEF Link
<1> QED BY <1>1, <1>2

(* A copy to a user's file, or a rule, opens a file that was asked for.    *)
LEMMA Opens ==
    ASSUME IInv, NEW r \in Run, CopyOut(r) \/ WriteRule(r)
    PROVE  \E f \in File, new \in Run \X {"copy", "rule"} \X Place, i \in Inode :
              /\ new \in Inode /\ ~Used(new)
              /\ i = (IF entry[f] = None THEN new ELSE entry[f])
              /\ entry' = [entry EXCEPT ![f] = i]
              /\ bytes' = [bytes EXCEPT ![i] = Half]
              /\ fd' = [fd EXCEPT ![r] = i]
              /\ pc'[r] \in {"writing", "ruling"} /\ f = Target(r)' /\ f \in AskedFor(r)
              /\ pc'[r] # pc[r]
              /\ pc'[r] = "ruling" => f \in DependencyFiles
              /\ pc'[r] = "writing" => ~oneFs
<1> USE DEF IInv
<1>0. command' = command
  BY SiteStays DEF site, Any, Step, Deliver, Depend
<1>1. CASE CopyOut(r)
  <2>1. /\ Wanted(r) \in File /\ Wanted(r) \in AskedFor(r)
        /\ Written(r)[3] \in Place /\ <<r, "copy", Written(r)[3]>> \in Inode
    BY <1>1, Wanting DEF CopyOut, Delivering
  <2>2. PICK new \in Run \X {"copy", "rule"} \X Place :
           new = <<r, "copy", Written(r)[3]>> /\ new \in Inode
    BY <2>1
  <2>3. ~Came(new)
    BY <1>1, <2>2 DEF CopyOut, Came, Passed, Past, Written, Object, Delivering, TypeOK
  <2>4. ~Used(new)
    <3>1. new \notin File
      BY PlacesOf
    <3> QED BY <2>2, <2>3, <3>1 DEF NoneAhead
  <2>5. /\ pc'[r] = "writing" /\ pc[r] = "opening" /\ ~oneFs
        /\ Wanted(r) = Target(r)'
    BY <1>0, <1>1 DEF CopyOut, Goto, TypeOK, Target, Wanted, Input, Inputs, Control, Where
  <2>6. PICK i \in Inode :
           /\ i = (IF entry[Wanted(r)] = None THEN new ELSE entry[Wanted(r)])
           /\ entry' = [entry EXCEPT ![Wanted(r)] = i]
           /\ bytes' = [bytes EXCEPT ![i] = Half]
           /\ fd' = [fd EXCEPT ![r] = i]
    BY <1>1, <2>1, <2>2, OpenTyped DEF CopyOut
  <2> QED BY <2>1, <2>2, <2>4, <2>5, <2>6
<1>2. CASE WriteRule(r)
  <2>1. turn[r] \in DOMAIN Inputs(r) /\ turn[r] \in Place
    BY <1>2, CommandOf, BuildsAssumption DEF WriteRule, Control, Where, AtC, Place
  <2>2. Rule(r) \in File /\ Rule(r) # None
    BY <1>2, <2>1, CommandOf DEF WriteRule, Rule, Input
  <2>3. Rule(r) \in AskedFor(r) /\ Rule(r) \in DependencyFiles
    <3>1. Rule(r) \in {Inputs(r)[k].rule : k \in DOMAIN Inputs(r)}
      BY <2>1 DEF Rule, Input
    <3>2. Rule(r) \in AskedFor(r)
      BY <2>2, <3>1 DEF AskedFor
    <3> DEFINE Rules(q) == {Inputs(q)[k].rule : k \in DOMAIN Inputs(q)}
    <3> HIDE DEF Rules
    <3>3. Rule(r) \in Rules(r)
      BY <3>1 DEF Rules
    <3>4. DependencyFiles = (UNION {Rules(q) : q \in Run}) \ {None}
      BY DEF DependencyFiles, Rules
    <3> QED BY <2>2, <3>2, <3>3, <3>4
  <2>4. PICK new \in Run \X {"copy", "rule"} \X Place :
           new = <<r, "rule", turn[r]>> /\ new \in Inode
    <3>1. <<r, "rule", turn[r]>> \in Inode
      BY <2>1 DEF Inode
    <3> QED BY <2>1, <3>1
  <2>5. ~Came(new)
    BY <1>2, <2>4 DEF WriteRule, Came, Passed, Past, Delivering, TypeOK
  <2>6. ~Used(new)
    <3>1. new \notin File
      BY PlacesOf
    <3> QED BY <2>4, <2>5, <3>1 DEF NoneAhead
  <2>7. pc'[r] = "ruling" /\ pc[r] = "rule" /\ Rule(r) = Target(r)'
    BY <1>0, <1>2 DEF WriteRule, Goto, TypeOK, Target, Rule, Input, Inputs
  <2>8. PICK i \in Inode :
           /\ i = (IF entry[Rule(r)] = None THEN new ELSE entry[Rule(r)])
           /\ entry' = [entry EXCEPT ![Rule(r)] = i]
           /\ bytes' = [bytes EXCEPT ![i] = Half]
           /\ fd' = [fd EXCEPT ![r] = i]
    BY <1>2, <2>2, <2>4, OpenTyped DEF WriteRule
  <2> QED BY <2>2, <2>3, <2>4, <2>6, <2>7, <2>8
<1> QED BY <1>1, <1>2

(* A copy into the work directory makes a file of the run's own.           *)
LEMMA CopiesIn ==
    ASSUME IInv, NEW r \in Run, CopyIn(r)
    PROVE  \E i \in Run \X {"in"} \X Place :
              /\ i = Brought(r) /\ i[1] = r /\ i \in Inode /\ i \in WorkFile /\ ~Used(i)
              /\ entry[i] = None /\ ~oneFs
              /\ entry' = [entry EXCEPT ![i] = i]
              /\ bytes' = [bytes EXCEPT ![i] = Half]
              /\ fd' = [fd EXCEPT ![r] = i]
              /\ pc'[r] = "copying" /\ Brought(r)' = i
<1> USE DEF IInv
<1>1. turn[r] \in Place
  BY CommandOf, BuildsAssumption DEF CopyIn, Control, Where, AtOther, Input, Place
<1>2. PICK i \in Run \X {"in"} \X Place : i = <<r, "in", turn[r]>> /\ i \in Inode /\ i \in WorkFile
  <2>1. /\ <<r, "in", turn[r]>> \in Inode
        /\ <<r, "in", turn[r]>> \in WorkFile
    BY <1>1 DEF Inode, WorkFile
  <2> QED BY <1>1, <2>1
<1>3. ~Came(i)
  BY <1>2 DEF CopyIn, Came, Passed, Past, Delivering, TypeOK
<1>4. i \notin File
  BY PlacesOf
<1>5. ~Used(i) /\ entry[i] = None
  BY <1>2, <1>3, <1>4 DEF NoneAhead
<1>6. pc'[r] = "copying" /\ turn' = turn
  BY DEF CopyIn, Goto, TypeOK
<1>7. i = Brought(r) /\ i = Brought(r)'
  BY <1>2, <1>6 DEF Brought
<1>8. /\ entry' = [entry EXCEPT ![i] = i]
      /\ bytes' = [bytes EXCEPT ![i] = Half]
      /\ fd' = [fd EXCEPT ![r] = i]
  BY <1>2, <1>5, <1>7, OpenTyped DEF CopyIn
<1> QED BY <1>2, <1>5, <1>6, <1>7, <1>8 DEF CopyIn

(* A crate of a name that is taken is written to the file of that name.    *)
LEMMA CopiesCrate ==
    ASSUME IInv, NEW r \in Run, CopyCrate(r)
    PROVE  \E lib \in Run \X {"lib"} \X Place, i \in Inode :
              /\ lib = Library(r, turn[r]) /\ lib[1] = r /\ lib \in WorkFile /\ entry[lib] = i
              /\ entry' = entry
              /\ bytes' = [bytes EXCEPT ![i] = Half]
              /\ fd' = [fd EXCEPT ![r] = i]
              /\ pc'[r] = "loading" /\ CratesClash(r)'
<1> USE DEF IInv
<1>1. turn[r] \in DOMAIN objects[r]
  BY DEF CopyCrate, AtObject, TypeOK
<1>2. PICK j \in 1..turn[r] :
         /\ Library(r, turn[r]) = <<r, "lib", j>>
         /\ Library(r, turn[r]) \in WorkFile
  BY <1>1, FirstOfCrate DEF Control, Taken
<1>3. j \in Place
  BY <1>2 DEF WorkFile
<1>4. PICK lib \in Run \X {"lib"} \X Place : lib = Library(r, turn[r]) /\ lib[1] = r /\ lib \in WorkFile
  BY <1>2, <1>3
<1>5. PICK i \in Inode :
         /\ i = entry[lib]
         /\ entry' = [entry EXCEPT ![lib] = i]
         /\ bytes' = [bytes EXCEPT ![i] = Half]
         /\ fd' = [fd EXCEPT ![r] = i]
  BY <1>4, OpenTyped DEF CopyCrate
<1>6. pc'[r] = "loading"
  BY DEF CopyCrate, Goto, TypeOK
<1>7. CratesClash(r)'
  <2>1. Any(r)
    BY DEF Any, Step, Crates
  <2> QED BY <1>6, <2>1, ControlNext DEF Control, Where
<1> QED BY <1>4, <1>5, <1>6, <1>7 DEF TypeOK

(* A copy that is done fills what was opened.                              *)
LEMMA Fills ==
    ASSUME IInv, NEW r \in Run,
           CopiedOut(r) \/ WroteRule(r) \/ CopiedIn(r) \/ CopiedCrate(r)
    PROVE  /\ entry' = entry /\ fd' = fd
           /\ \E c : bytes' = [bytes EXCEPT ![fd[r]] = c]
           /\ pc[r] \in {"writing", "ruling", "copying", "loading"}
           /\ pc'[r] \in {"drop", "rule", "input", "crates"}
BY DEF IInv, CopiedOut, WroteRule, CopiedIn, CopiedCrate, AfterDelivery, NextInput, NextObject,
     Goto, Fill, TypeOK

(* A rename takes the file from the work directory to where it is wanted.  *)
LEMMA Renames ==
    ASSUME IInv, NEW r \in Run, Rename(r)
    PROVE  \E f \in File, w \in Run \X {"o", "out"} \X Place :
              /\ f = Wanted(r) /\ f \in AskedFor(r)
              /\ w = Written(r) /\ w \in WorkFile /\ w \in Inode /\ w[1] = r
              /\ entry[w] = w /\ bytes[w] \in Whole
              /\ \A n \in File \cup WorkFile : entry[n] = w => n = w
              /\ \A q \in Run : fd[q] # w
              /\ entry' = [entry EXCEPT ![f] = w, ![w] = None]
              /\ bytes' = bytes /\ fd' = fd /\ oneFs
              /\ pc[r] = "deliver" /\ pc'[r] \in {"drop", "rule"}
<1> USE DEF IInv
<1>1. /\ Wanted(r) \in File /\ Wanted(r) \in AskedFor(r)
      /\ Written(r) \in WorkFile /\ Written(r) \in Inode
      /\ Written(r)[1] = r /\ Written(r)[2] \in {"o", "out"} /\ Written(r)[3] \in Place
  BY Wanting DEF Rename, Delivering
<1>2. Written(r) \in Run \X {"o", "out"} \X Place
  BY <1>1 DEF WorkFile
<1>3. pc'[r] \in {"drop", "rule"}
  BY DEF Rename, AfterDelivery, Goto, TypeOK
<1>4. /\ entry[Written(r)] = Written(r)
      /\ bytes[Written(r)] \in Whole
      /\ \A n \in File \cup WorkFile : entry[n] = Written(r) => n = Written(r)
      /\ \A q \in Run : fd[q] # Written(r)
  BY DEF Private, Rename, Delivering
<1> QED BY <1>1, <1>2, <1>3, <1>4 DEF Rename

(* The steps that only give a name an inode, or take it away.              *)
LEMMA Unlinks ==
    ASSUME IInv, NEW r \in Run, Unlink(r)
    PROVE  \E f \in File :
              /\ f = Wanted(r) /\ f \in AskedFor(r)
              /\ entry' = [entry EXCEPT ![f] = None] \/ entry' = entry
              /\ bytes' = bytes /\ fd' = fd /\ ~oneFs
              /\ pc[r] = "deliver" /\ pc'[r] = "opening" /\ Wanted(r)' = f /\ Written(r)' = Written(r)
<1>1. Wanted(r) \in File /\ Wanted(r) \in AskedFor(r)
  BY Wanting DEF Unlink, Delivering, IInv
<1>2. Wanted(r)' = Wanted(r) /\ Written(r)' = Written(r)
  BY DEF Unlink, site, Wanted, Written, Input, Inputs, Program, Object
<1> QED BY <1>1, <1>2 DEF Unlink, Goto, TypeOK, IInv

LEMMA Brings ==
    ASSUME IInv, NEW r \in Run, Bring(r)
    PROVE  \E f \in File, n \in Run \X {"in"} \X Place :
              /\ f = Input(r).path /\ n = Brought(r) /\ n \in WorkFile /\ n[1] = r
              /\ entry[n] = None /\ entry[f] # None /\ oneFs
              /\ entry' = [entry EXCEPT ![n] = entry[f]]
              /\ bytes' = bytes /\ fd' = fd /\ pc'[r] = "input"
<1> USE DEF IInv
<1>1. turn[r] \in Place /\ Input(r).path \in File
  BY CommandOf, BuildsAssumption DEF Bring, Control, Where, AtOther, Input, Place
<1>2. Brought(r) \in Run \X {"in"} \X Place /\ Brought(r) \in WorkFile /\ Brought(r)[1] = r
  BY <1>1 DEF Brought, WorkFile
<1> QED BY <1>1, <1>2 DEF Bring, NextInput, Goto, TypeOK

LEMMA LinksCrate ==
    ASSUME IInv, NEW r \in Run, LinkCrate(r)
    PROVE  \E n \in Run \X {"lib"} \X Place, m \in {r} \X {"o", "in"} \X Place :
              /\ n = Library(r, turn[r]) /\ m = Loaded(r).name
              /\ n \in WorkFile /\ m \in WorkFile /\ n[1] = r
              /\ entry[n] = None
              /\ entry' = [entry EXCEPT ![n] = entry[m]]
              /\ bytes' = bytes /\ fd' = fd /\ pc' = pc /\ pc[r] = "crates"
<1> USE DEF IInv
<1>1. turn[r] \in DOMAIN objects[r]
  BY DEF LinkCrate, AtObject, TypeOK
<1>2. PICK j \in 1..turn[r] :
         /\ Library(r, turn[r]) = <<r, "lib", j>>
         /\ Library(r, turn[r]) \in WorkFile
  BY <1>1, FirstOfCrate DEF Control, Taken
<1>3. j \in Place
  BY <1>2 DEF WorkFile
<1>4. Loaded(r).name \in {r} \X {"o", "in"} \X Place
  BY <1>1 DEF Control, Taken, Loaded
<1>5. Loaded(r).name \in WorkFile
  BY <1>4 DEF WorkFile
<1> QED BY <1>2, <1>3, <1>4, <1>5 DEF LinkCrate, AtObject

(* However a run ends, what users call their files stays.                  *)
LEMMA Drops ==
    ASSUME IInv, NEW r \in Run, Drop(r)
    PROVE  /\ \A f \in File : entry'[f] = entry[f]
           /\ \A n \in WorkFile : entry'[n] = (IF n[1] = r THEN None ELSE entry[n])
           /\ bytes' = bytes /\ fd' = fd /\ pc'[r] = "ended"
BY PlacesOf DEF Drop, Goto, TypeOK, IInv

-----------------------------------------------------------------------------
LEMMA HomesNext ==
    ASSUME IInv, NEW r \in Run, Any(r)
    PROVE  Homes'
<1> USE DEF IInv
<1>0. /\ entry \in [File \cup WorkFile -> Inode \cup {None}] /\ oneFs' = oneFs
      /\ \A f \in File : entry[f] \in UserInode \cup {None}
      /\ \A n \in WorkFile :
            /\ n[2] \in {"o", "out"} => entry[n] \in {n, None}
            /\ n[2] = "in" => entry[n] \in (IF oneFs THEN UserInode ELSE {n}) \cup {None}
  BY SiteStays DEF Homes, TypeOK, site
<1>1. CASE Quiet(r)
  BY <1>0, <1>1, QuietLeaves DEF Homes
<1>2. CASE Rustc(r) \/ Link(r)
  <2>1. PICK o \in Run \X {"o", "out"} \X Place :
           o \in WorkFile /\ entry' = [entry EXCEPT ![o] = o]
    BY <1>2, Creates
  <2> QED BY <1>0, <2>1, PlacesOf DEF Homes
<1>3. CASE CopyOut(r) \/ WriteRule(r)
  <2>1. PICK f \in File, new \in Run \X {"copy", "rule"} \X Place, i \in Inode :
           /\ i = (IF entry[f] = None THEN new ELSE entry[f])
           /\ entry' = [entry EXCEPT ![f] = i]
    BY <1>3, Opens
  <2>2. i \in UserInode
    BY <1>0, <2>1 DEF UserInode
  <2> QED BY <1>0, <2>1, <2>2, PlacesOf DEF Homes
<1>4. CASE CopiedOut(r) \/ WroteRule(r) \/ CopiedIn(r) \/ CopiedCrate(r)
  BY <1>0, <1>4, Fills DEF Homes
<1>5. CASE CopyIn(r)
  <2>1. PICK i \in Run \X {"in"} \X Place :
           i \in WorkFile /\ ~oneFs /\ entry' = [entry EXCEPT ![i] = i]
    BY <1>5, CopiesIn
  <2> QED BY <1>0, <2>1, PlacesOf DEF Homes
<1>6. CASE CopyCrate(r)
  BY <1>0, <1>6, CopiesCrate DEF Homes
<1>7. CASE Rename(r)
  <2>1. PICK f \in File, w \in Run \X {"o", "out"} \X Place :
           w \in WorkFile /\ entry' = [entry EXCEPT ![f] = w, ![w] = None]
    BY <1>7, Renames
  <2>2. w \in UserInode
    BY DEF UserInode
  <2>3. \A g \in File : entry'[g] \in {entry[g], w}
    BY <1>0, <2>1, PlacesOf
  <2>4. \A n \in WorkFile : entry'[n] \in {entry[n], None}
    BY <1>0, <2>1, PlacesOf
  <2> QED BY <1>0, <2>2, <2>3, <2>4 DEF Homes
<1>8. CASE Unlink(r)
  <2>1. \A n \in File \cup WorkFile : entry'[n] \in {entry[n], None}
    BY <1>0, <1>8, Unlinks
  <2> QED BY <1>0, <2>1 DEF Homes
<1>9. CASE Bring(r)
  <2>1. PICK f \in File, n \in Run \X {"in"} \X Place :
           /\ n \in WorkFile /\ entry[f] # None /\ oneFs
           /\ entry' = [entry EXCEPT ![n] = entry[f]]
    BY <1>9, Brings
  <2> QED BY <1>0, <2>1, PlacesOf DEF Homes
<1>10. CASE LinkCrate(r)
  <2>1. PICK n \in Run \X {"lib"} \X Place, m \in WorkFile :
           n \in WorkFile /\ entry' = [entry EXCEPT ![n] = entry[m]]
    BY <1>10, LinksCrate
  <2> QED BY <1>0, <2>1, PlacesOf DEF Homes
<1>11. CASE Drop(r)
  <2>1. \A n \in File \cup WorkFile : entry'[n] \in {entry[n], None}
    BY <1>11, Drops
  <2> QED BY <1>0, <2>1 DEF Homes
<1> QED BY <1>1, <1>2, <1>3, <1>4, <1>5, <1>6, <1>7, <1>8, <1>9, <1>10, <1>11, AnyIs

LEMMA FilesApartNext ==
    ASSUME IInv, NEW r \in Run, Any(r)
    PROVE  FilesApart'
<1> USE DEF IInv
<1>0. /\ entry \in [File \cup WorkFile -> Inode \cup {None}]
      /\ \A f, g \in File : entry[f] = entry[g] /\ entry[f] # None => f = g
  BY DEF FilesApart, TypeOK
<1>1. CASE \A f \in File : entry'[f] \in {entry[f], None}
  BY <1>0, <1>1 DEF FilesApart
<1>2. ASSUME NEW f \in File, NEW i,
             \A g \in File : g # f => entry'[g] = entry[g] /\ entry[g] # i,
             entry'[f] = i
      PROVE  FilesApart'
  BY <1>0, <1>2 DEF FilesApart
<1>3. CASE Quiet(r)
  BY <1>1, <1>3, QuietLeaves
<1>4. CASE Rustc(r) \/ Link(r)
  <2>1. PICK o \in WorkFile : entry' = [entry EXCEPT ![o] = o]
    BY <1>4, Creates
  <2> QED BY <1>0, <1>1, <2>1, PlacesOf
<1>5. CASE CopyOut(r) \/ WriteRule(r)
  <2>1. PICK f \in File, new \in Inode, i \in Inode :
           /\ ~Used(new)
           /\ i = (IF entry[f] = None THEN new ELSE entry[f])
           /\ entry' = [entry EXCEPT ![f] = i]
    BY <1>5, Opens
  <2>2. \A g \in File : g # f => entry'[g] = entry[g] /\ entry[g] # i
    BY <1>0, <2>1 DEF Used
  <2> QED BY <1>0, <1>2, <2>1, <2>2
<1>6. CASE CopiedOut(r) \/ WroteRule(r) \/ CopiedIn(r) \/ CopiedCrate(r)
  BY <1>1, <1>6, Fills
<1>7. CASE CopyIn(r)
  <2>1. PICK i \in WorkFile : entry' = [entry EXCEPT ![i] = i]
    BY <1>7, CopiesIn
  <2> QED BY <1>0, <1>1, <2>1, PlacesOf
<1>8. CASE CopyCrate(r)
  BY <1>1, <1>8, CopiesCrate
<1>9. CASE Rename(r)
  <2>1. PICK f \in File, w \in WorkFile :
           /\ \A n \in File \cup WorkFile : entry[n] = w => n = w
           /\ entry' = [entry EXCEPT ![f] = w, ![w] = None]
    BY <1>9, Renames
  <2>2. \A g \in File : g # f => entry'[g] = entry[g] /\ entry[g] # w
    BY <1>0, <2>1, PlacesOf
  <2>3. entry'[f] = w
    BY <1>0, <2>1, PlacesOf
  <2> QED BY <1>2, <2>2, <2>3
<1>10. CASE Unlink(r)
  BY <1>0, <1>1, <1>10, Unlinks
<1>11. CASE Bring(r)
  <2>1. PICK n \in WorkFile, f \in File : entry' = [entry EXCEPT ![n] = entry[f]]
    BY <1>11, Brings
  <2> QED BY <1>0, <1>1, <2>1, PlacesOf
<1>12. CASE LinkCrate(r)
  <2>1. PICK n \in WorkFile, m \in WorkFile : entry' = [entry EXCEPT ![n] = entry[m]]
    BY <1>12, LinksCrate
  <2> QED BY <1>0, <1>1, <2>1, PlacesOf
<1>13. CASE Drop(r)
  BY <1>1, <1>13, Drops
<1> QED BY <1>3, <1>4, <1>5, <1>6, <1>7, <1>8, <1>9, <1>10, <1>11, <1>12, <1>13, AnyIs

LEMMA ApartNext ==
    ASSUME IInv, NEW r \in Run, Any(r)
    PROVE  Apart'
<1> USE DEF IInv
<1> SUFFICES ASSUME ~oneFs
             PROVE  /\ \A f \in File : entry'[f] \notin OwnInode
                    /\ \A n \in WorkFile : entry'[n] \in OwnInode \cup {None}
                    /\ \A q \in Run : pc'[q] = "loading" => fd'[q] \in OwnInode
  BY SiteStays DEF Apart, site
<1>0. /\ entry \in [File \cup WorkFile -> Inode \cup {None}] /\ fd \in [Run -> Inode \cup {None}]
      /\ \A f \in File : entry[f] \notin OwnInode
      /\ \A n \in WorkFile : entry[n] \in OwnInode \cup {None}
      /\ \A q \in Run : pc[q] = "loading" => fd[q] \in OwnInode
      /\ None \notin OwnInode
  BY NoneApart DEF Apart, TypeOK, OwnInode, Inode
<1>1. \A q \in Run : q # r => pc'[q] = pc[q] /\ fd'[q] = fd[q]
  BY OthersStay
<1>2. CASE Quiet(r)
  BY <1>0, <1>1, <1>2, QuietLeaves
<1>3. CASE Rustc(r) \/ Link(r)
  <2>1. PICK o \in Run \X {"o", "out"} \X Place :
           o \in WorkFile /\ entry' = [entry EXCEPT ![o] = o]
    BY <1>3, Creates
  <2>2. o \in OwnInode
    BY DEF OwnInode
  <2>3. pc'[r] # "loading"
    BY <1>3 DEF Rustc, Link, Goto, TypeOK
  <2> QED BY <1>0, <1>1, <2>1, <2>2, <2>3, PlacesOf
<1>4. CASE CopyOut(r) \/ WriteRule(r)
  <2>1. PICK f \in File, new \in Run \X {"copy", "rule"} \X Place, i \in Inode :
           /\ i = (IF entry[f] = None THEN new ELSE entry[f])
           /\ entry' = [entry EXCEPT ![f] = i]
           /\ pc'[r] \in {"writing", "ruling"}
    BY <1>4, Opens
  <2>2. i \notin OwnInode
    BY <1>0, <2>1 DEF OwnInode
  <2> QED BY <1>0, <1>1, <2>1, <2>2, PlacesOf
<1>5. CASE CopiedOut(r) \/ WroteRule(r) \/ CopiedIn(r) \/ CopiedCrate(r)
  BY <1>0, <1>1, <1>5, Fills
<1>6. CASE CopyIn(r)
  <2>1. PICK i \in Run \X {"in"} \X Place :
           i \in WorkFile /\ entry' = [entry EXCEPT ![i] = i] /\ pc'[r] = "copying"
    BY <1>6, CopiesIn
  <2>2. i \in OwnInode
    BY DEF OwnInode
  <2> QED BY <1>0, <1>1, <2>1, <2>2, PlacesOf
<1>7. CASE CopyCrate(r)
  <2>1. PICK lib \in WorkFile, i \in Inode :
           entry[lib] = i /\ entry' = entry /\ fd' = [fd EXCEPT ![r] = i]
    BY <1>7, CopiesCrate
  <2>2. i \in OwnInode
    BY <1>0, <2>1, NoneApart
  <2> QED BY <1>0, <1>1, <2>1, <2>2
<1>8. CASE Rename(r)
  BY <1>8, Renames
<1>9. CASE Unlink(r)
  BY <1>0, <1>1, <1>9, Unlinks, PlacesOf
<1>10. CASE Bring(r)
  BY <1>10, Brings
<1>11. CASE LinkCrate(r)
  <2>1. PICK n \in WorkFile, m \in WorkFile :
           entry' = [entry EXCEPT ![n] = entry[m]] /\ pc' = pc /\ fd' = fd
    BY <1>11, LinksCrate
  <2> QED BY <1>0, <2>1, PlacesOf
<1>12. CASE Drop(r)
  BY <1>0, <1>1, <1>12, Drops
<1> QED BY <1>2, <1>3, <1>4, <1>5, <1>6, <1>7, <1>8, <1>9, <1>10, <1>11, <1>12, AnyIs

-----------------------------------------------------------------------------
(* What a run has made and not delivered is its own until then: no step of *)
(* another writes it or gets a name for it.                                *)
LEMMA PrivateStays ==
    ASSUME IInv, NEW r \in Run, Any(r), NEW q \in Run, pc[q] \in Delivering,
           NEW w, w = Written(q), q = r => entry'[w] = w
    PROVE  /\ entry'[w] = w /\ bytes'[w] \in Whole
           /\ \A n \in File \cup WorkFile : entry'[n] = w => n = w
           /\ \A s \in Run : fd'[s] # w
<1> USE DEF IInv
<1>0. /\ entry[w] = w /\ bytes[w] \in Whole
      /\ \A n \in File \cup WorkFile : entry[n] = w => n = w
      /\ \A s \in Run : fd[s] # w
      /\ w \in Inode /\ w \in WorkFile /\ w[1] = q
      /\ w \in Run \X {"o", "out"} \X Place
      /\ entry \in [File \cup WorkFile -> Inode \cup {None}]
      /\ bytes \in [Inode -> Whole \cup {None, Half}] /\ fd \in [Run -> Inode \cup {None}]
      /\ w \notin File /\ w # None
  <2>1. /\ w \in Inode /\ w \in WorkFile /\ w[1] = q
        /\ w[2] \in {"o", "out"} /\ w[3] \in Place
    BY Wanting
  <2>2. w \in Run \X {"o", "out"} \X Place
    BY <2>1 DEF WorkFile
  <2> QED BY <2>1, <2>2, PlacesOf, NoneApart DEF Private, TypeOK
<1>1. CASE Quiet(r)
  BY <1>0, <1>1, QuietLeaves
<1>2. CASE Rustc(r) \/ Link(r)
  <2>1. PICK o \in Run \X {"o", "out"} \X Place :
           /\ o[1] = r /\ o \in WorkFile /\ ~Used(o)
           /\ entry' = [entry EXCEPT ![o] = o]
           /\ \E c \in Whole : bytes' = [bytes EXCEPT ![o] = c]
           /\ fd' = fd
    BY <1>2, Creates
  <2>2. o # w
    BY <1>0, <2>1 DEF Used
  <2> QED BY <1>0, <2>1, <2>2
<1>3. CASE CopyOut(r) \/ WriteRule(r)
  <2>1. PICK f \in File, new \in Run \X {"copy", "rule"} \X Place, i \in Inode :
           /\ i = (IF entry[f] = None THEN new ELSE entry[f])
           /\ entry' = [entry EXCEPT ![f] = i]
           /\ bytes' = [bytes EXCEPT ![i] = Half]
           /\ fd' = [fd EXCEPT ![r] = i]
    BY <1>3, Opens
  <2>2. i # w
    BY <1>0, <2>1
  <2> QED BY <1>0, <2>1, <2>2
<1>4. CASE CopiedOut(r) \/ WroteRule(r) \/ CopiedIn(r) \/ CopiedCrate(r)
  BY <1>0, <1>4, Fills
<1>5. CASE CopyIn(r)
  <2>1. PICK i \in Run \X {"in"} \X Place :
           /\ entry' = [entry EXCEPT ![i] = i]
           /\ bytes' = [bytes EXCEPT ![i] = Half]
           /\ fd' = [fd EXCEPT ![r] = i]
    BY <1>5, CopiesIn
  <2> QED BY <1>0, <2>1
<1>6. CASE CopyCrate(r)
  <2>1. PICK lib \in Run \X {"lib"} \X Place, i \in Inode :
           /\ lib \in WorkFile /\ entry[lib] = i /\ entry' = entry
           /\ bytes' = [bytes EXCEPT ![i] = Half]
           /\ fd' = [fd EXCEPT ![r] = i]
    BY <1>6, CopiesCrate
  <2>2. i # w
    BY <1>0, <2>1
  <2> QED BY <1>0, <2>1, <2>2
<1>7. CASE Rename(r)
  <2>1. PICK f \in File, v \in WorkFile :
           /\ v = Written(r) /\ v[1] = r
           /\ entry[v] = v
           /\ entry' = [entry EXCEPT ![f] = v, ![v] = None]
           /\ bytes' = bytes /\ fd' = fd
    BY <1>7, Renames
  <2>2. v # w
    BY <1>0, <2>1, PlacesOf
  <2> QED BY <1>0, <2>1, <2>2
<1>8. CASE Unlink(r)
  BY <1>0, <1>8, Unlinks
<1>9. CASE Bring(r)
  <2>1. PICK f \in File, n \in Run \X {"in"} \X Place :
           /\ n \in WorkFile /\ entry' = [entry EXCEPT ![n] = entry[f]]
           /\ bytes' = bytes /\ fd' = fd
    BY <1>9, Brings
  <2> QED BY <1>0, <2>1
<1>10. CASE LinkCrate(r)
  <2>1. PICK n \in Run \X {"lib"} \X Place, m \in {r} \X {"o", "in"} \X Place :
           /\ n \in WorkFile /\ m \in WorkFile
           /\ entry' = [entry EXCEPT ![n] = entry[m]]
           /\ bytes' = bytes /\ fd' = fd /\ pc[r] = "crates"
    BY <1>10, LinksCrate
  <2>2. q # r
    BY <2>1 DEF Delivering
  <2>3. m # w
    BY <1>0, <2>2
  <2> QED BY <1>0, <2>1, <2>3
<1>11. CASE Drop(r)
  BY <1>0, <1>11, Drops DEF Drop, Delivering
<1> QED BY <1>1, <1>2, <1>3, <1>4, <1>5, <1>6, <1>7, <1>8, <1>9, <1>10, <1>11, AnyIs

LEMMA PrivateNext ==
    ASSUME IInv, NEW r \in Run, Any(r)
    PROVE  Private'
<1> USE DEF IInv
<1> SUFFICES ASSUME NEW q \in Run, pc'[q] \in Delivering
             PROVE  /\ entry'[Written(q)'] = Written(q)'
                    /\ bytes'[Written(q)'] \in Whole
                    /\ \A n \in File \cup WorkFile : entry'[n] = Written(q)' => n = Written(q)'
                    /\ \A s \in Run : fd'[s] # Written(q)'
  BY DEF Private
<1>0. command' = command
  BY SiteStays DEF site
<1>1. CASE q # r
  <2>1. pc[q] \in Delivering /\ Written(q)' = Written(q)
    BY <1>0, <1>1, OthersStay DEF Written, Program, Object
  <2> QED BY <1>1, <2>1, PrivateStays
<1>2. CASE q = r /\ (Rustc(r) \/ Link(r))
  <2>1. PICK o \in Inode :
           /\ o \in WorkFile /\ ~Used(o)
           /\ entry' = [entry EXCEPT ![o] = o]
           /\ \E c \in Whole : bytes' = [bytes EXCEPT ![o] = c]
           /\ fd' = fd /\ o = Written(r)'
    BY <1>2, Creates
  <2> QED BY <1>2, <2>1 DEF Used, TypeOK
<1>3. CASE q = r /\ CopyOut(r)
  <2>1. pc[q] \in Delivering /\ Written(q)' = Written(q)
    BY <1>0, <1>3 DEF CopyOut, Delivering, Written, Program, Object
  <2>2. PICK f \in File, i \in Inode : entry' = [entry EXCEPT ![f] = i]
    BY <1>3, Opens
  <2>3. Written(q) \notin File /\ entry[Written(q)] = Written(q) /\ Written(q) \in WorkFile
    BY <2>1, Wanting, PlacesOf DEF Private
  <2>4. entry'[Written(q)] = Written(q)
    BY <2>2, <2>3 DEF TypeOK
  <2> QED BY <2>1, <2>4, PrivateStays
<1>4. CASE q = r /\ Unlink(r)
  <2>1. pc[q] \in Delivering /\ Written(q)' = Written(q)
    BY <1>4, Unlinks DEF Delivering
  <2>2. PICK f \in File : entry' = [entry EXCEPT ![f] = None] \/ entry' = entry
    BY <1>4, Unlinks
  <2>3. Written(q) \notin File /\ entry[Written(q)] = Written(q) /\ Written(q) \in WorkFile
    BY <2>1, Wanting, PlacesOf DEF Private
  <2>4. entry'[Written(q)] = Written(q)
    BY <2>2, <2>3 DEF TypeOK
  <2> QED BY <2>1, <2>4, PrivateStays
<1>5. pc'[r] \notin Delivering \/ Rustc(r) \/ Link(r) \/ CopyOut(r) \/ Unlink(r)
  <2>1. CASE Quiet(r)
    BY <2>1, QuietLeaves DEF Delivering
  <2>2. CASE WriteRule(r)
    BY <2>2 DEF WriteRule, Goto, TypeOK, Delivering
  <2>3. CASE CopiedOut(r) \/ WroteRule(r) \/ CopiedIn(r) \/ CopiedCrate(r)
    BY <2>3, Fills DEF Delivering
  <2>4. CASE CopyIn(r) \/ CopyCrate(r) \/ Rename(r)
    BY <2>4, CopiesIn, CopiesCrate, Renames DEF Delivering
  <2>5. CASE Bring(r) \/ LinkCrate(r) \/ Drop(r)
    BY <2>5, Brings, LinksCrate, Drops DEF Delivering
  <2> QED BY <2>1, <2>2, <2>3, <2>4, <2>5, AnyIs
<1> QED BY <1>1, <1>2, <1>3, <1>4, <1>5

LEMMA HandsOfOthers ==
    ASSUME IInv, NEW r \in Run, Any(r), NEW q \in Run, q # r
    PROVE  /\ pc[q] \in {"writing", "ruling"} =>
                 \A f \in File : entry'[f] = fd[q] => f = Target(q)
           /\ pc[q] = "copying" => entry'[Brought(q)] = Brought(q)
<1> USE DEF IInv
<1>0. /\ entry \in [File \cup WorkFile -> Inode \cup {None}] /\ fd \in [Run -> Inode \cup {None}]
      /\ pc[q] \in {"writing", "ruling"} =>
            fd[q] # None /\ \A f \in File : entry[f] = fd[q] => f = Target(q)
      /\ pc[q] = "copying" =>
            /\ entry[Brought(q)] = Brought(q) /\ Brought(q) \in WorkFile
            /\ Brought(q)[1] = q /\ Brought(q) \notin File
  <2>1. pc[q] \in {"writing", "ruling"} => fd[q] \in UserInode
    BY DEF Hands
  <2>2. UserInode \subseteq Inode
    BY DEF UserInode, Inode, WorkFile
  <2>3. ASSUME pc[q] = "copying"
        PROVE  /\ Brought(q) \in WorkFile
               /\ Brought(q)[1] = q /\ Brought(q) \notin File
    <3>1. turn[q] \in Place
      BY <2>3, CommandOf, BuildsAssumption DEF Control, Where, AtOther, Place
    <3> QED BY <3>1, PlacesOf DEF Brought, WorkFile
  <2>4. pc[q] \in {"writing", "ruling"} =>
           fd[q] # None /\ \A f \in File : entry[f] = fd[q] => f = Target(q)
    BY <2>1, <2>2, NoneApart DEF Hands
  <2>5. pc[q] = "copying" => entry[Brought(q)] = Brought(q)
    BY DEF Hands
  <2> QED BY <2>3, <2>4, <2>5 DEF TypeOK
<1>2. CASE Quiet(r)
  BY <1>0, <1>2, QuietLeaves
<1>3. CASE Rustc(r) \/ Link(r)
  <2>1. PICK o \in WorkFile : o[1] = r /\ entry' = [entry EXCEPT ![o] = o]
    BY <1>3, Creates
  <2> QED BY <1>0, <2>1, PlacesOf
<1>4. CASE CopyOut(r) \/ WriteRule(r)
  <2>1. PICK f \in File, new \in Inode, i \in Inode :
           /\ ~Used(new)
           /\ i = (IF entry[f] = None THEN new ELSE entry[f])
           /\ entry' = [entry EXCEPT ![f] = i]
    BY <1>4, Opens
  <2>2. fd[q] # new
    BY <2>1 DEF Used
  <2> QED BY <1>0, <2>1, <2>2
<1>5. CASE CopiedOut(r) \/ WroteRule(r) \/ CopiedIn(r) \/ CopiedCrate(r)
  BY <1>0, <1>5, Fills
<1>6. CASE CopyIn(r)
  <2>1. PICK i \in WorkFile : i[1] = r /\ entry' = [entry EXCEPT ![i] = i]
    BY <1>6, CopiesIn
  <2> QED BY <1>0, <2>1, PlacesOf
<1>7. CASE CopyCrate(r)
  BY <1>0, <1>7, CopiesCrate
<1>8. CASE Rename(r)
  <2>1. PICK f \in File, w \in WorkFile :
           /\ w[1] = r /\ \A s \in Run : fd[s] # w
           /\ entry' = [entry EXCEPT ![f] = w, ![w] = None]
    BY <1>8, Renames
  <2> QED BY <1>0, <2>1, PlacesOf
<1>9. CASE Unlink(r)
  BY <1>0, <1>9, Unlinks
<1>10. CASE Bring(r)
  <2>1. PICK n \in WorkFile, f \in File :
           n[1] = r /\ entry' = [entry EXCEPT ![n] = entry[f]]
    BY <1>10, Brings
  <2> QED BY <1>0, <2>1, PlacesOf
<1>11. CASE LinkCrate(r)
  <2>1. PICK n \in WorkFile, m \in WorkFile :
           n[1] = r /\ entry' = [entry EXCEPT ![n] = entry[m]]
    BY <1>11, LinksCrate
  <2> QED BY <1>0, <2>1, PlacesOf
<1>12. CASE Drop(r)
  BY <1>0, <1>12, Drops
<1> QED BY <1>2, <1>3, <1>4, <1>5, <1>6, <1>7, <1>8, <1>9, <1>10, <1>11, <1>12, AnyIs

LEMMA HandsNext ==
    ASSUME IInv, NEW r \in Run, Any(r)
    PROVE  Hands'
<1> USE DEF IInv
<1> SUFFICES ASSUME NEW q \in Run
             PROVE  /\ pc'[q] \in {"writing", "ruling"} =>
                          /\ fd'[q] \in UserInode
                          /\ \A f \in File : entry'[f] = fd'[q] => f = Target(q)'
                    /\ pc'[q] = "copying" =>
                          fd'[q] = Brought(q)' /\ entry'[Brought(q)'] = Brought(q)'
                    /\ pc'[q] = "loading" => fd'[q] \in Inode
  BY DEF Hands
<1>0. command' = command
  BY SiteStays DEF site
<1>1. CASE q # r
  <2>1. /\ pc'[q] = pc[q] /\ fd'[q] = fd[q] /\ turn'[q] = turn[q]
    BY <1>1, OthersStay
  <2>2. Target(q)' = Target(q) /\ Brought(q)' = Brought(q)
    BY <1>0, <2>1 DEF Target, Brought, Wanted, Rule, Input, Inputs
  <2> QED BY <1>1, <2>1, <2>2, HandsOfOthers DEF Hands
<1>2. CASE q = r /\ (CopyOut(r) \/ WriteRule(r))
  <2>1. PICK f \in File, new \in Run \X {"copy", "rule"} \X Place, i \in Inode :
           /\ new \in Inode /\ ~Used(new)
           /\ i = (IF entry[f] = None THEN new ELSE entry[f])
           /\ entry' = [entry EXCEPT ![f] = i]
           /\ fd' = [fd EXCEPT ![r] = i]
           /\ pc'[r] \in {"writing", "ruling"} /\ f = Target(r)'
    BY <1>2, Opens
  <2>2. i \in UserInode /\ fd'[r] = i
    BY <2>1 DEF UserInode, Homes, TypeOK
  <2>3. \A g \in File : entry'[g] = i => g = f
    BY <2>1 DEF FilesApart, Used, TypeOK
  <2> QED BY <1>2, <2>1, <2>2, <2>3
<1>3. CASE q = r /\ CopyIn(r)
  <2>1. PICK i \in WorkFile :
           /\ entry' = [entry EXCEPT ![i] = i]
           /\ fd' = [fd EXCEPT ![r] = i]
           /\ pc'[r] = "copying" /\ Brought(r)' = i
    BY <1>3, CopiesIn
  <2> QED BY <1>3, <2>1 DEF TypeOK
<1>4. CASE q = r /\ CopyCrate(r)
  <2>1. PICK i \in Inode : fd' = [fd EXCEPT ![r] = i] /\ pc'[r] = "loading"
    BY <1>4, CopiesCrate
  <2> QED BY <1>4, <2>1 DEF TypeOK
<1>5. \/ pc'[r] \notin {"writing", "ruling", "copying", "loading"}
      \/ CopyOut(r) \/ WriteRule(r) \/ CopyIn(r) \/ CopyCrate(r)
  <2>1. CASE Quiet(r)
    BY <2>1, QuietLeaves
  <2>2. CASE Rustc(r) \/ Link(r)
    BY <2>2 DEF Rustc, Link, Goto, TypeOK
  <2>3. CASE CopiedOut(r) \/ WroteRule(r) \/ CopiedIn(r) \/ CopiedCrate(r)
    BY <2>3, Fills
  <2>4. CASE Rename(r) \/ Unlink(r) \/ Bring(r) \/ LinkCrate(r) \/ Drop(r)
    BY <2>4, Renames, Unlinks, Brings, LinksCrate, Drops
  <2> QED BY <2>1, <2>2, <2>3, <2>4, AnyIs
<1> QED BY <1>1, <1>2, <1>3, <1>4, <1>5

-----------------------------------------------------------------------------
LEMMA LibsNext ==
    ASSUME IInv, NEW r \in Run, Any(r)
    PROVE  Libs'
<1> USE DEF IInv
<1> SUFFICES ASSUME NEW q \in Run, NEW j \in Place
             PROVE  /\ ~Past(q)' => entry'[<<q, "lib", j>>] = None
                    /\ pc'[q] \in {"crates", "loading"} /\ entry'[<<q, "lib", j>>] # None =>
                          \E k \in DOMAIN objects'[q] :
                              /\ k < turn'[q] /\ objects'[q][k].crates # {}
                              /\ Library(q, k)' = <<q, "lib", j>>
  BY DEF Libs
<1> DEFINE n == <<q, "lib", j>>
<1>0. /\ ~Past(q) => entry[n] = None
      /\ pc[q] \in {"crates", "loading"} /\ entry[n] # None =>
            \E k \in DOMAIN objects[q] :
                /\ k < turn[q] /\ objects[q][k].crates # {} /\ Library(q, k) = n
      /\ n \in WorkFile /\ n \notin File /\ n[1] = q /\ n[2] = "lib"
      /\ command' = command /\ turn[q] \in Nat
      /\ entry \in [File \cup WorkFile -> Inode \cup {None}]
  BY SiteStays, PlacesOf DEF Libs, WorkFile, TypeOK, site
<1>1. objects'[q] = objects[q] => \A k : Library(q, k)' = Library(q, k)
  BY DEF Library
<1> HIDE DEF n
<1>2. entry'[n] \in {entry[n], None} \/ (LinkCrate(r) /\ n = Library(r, turn[r]))
  <2>1. CASE Quiet(r)
    BY <2>1, QuietLeaves
  <2>2. CASE Rustc(r) \/ Link(r)
    <3>1. PICK o \in Run \X {"o", "out"} \X Place : entry' = [entry EXCEPT ![o] = o]
      BY <2>2, Creates
    <3> QED BY <1>0, <3>1
  <2>3. CASE CopyOut(r) \/ WriteRule(r)
    <3>1. PICK f \in File, i \in Inode : entry' = [entry EXCEPT ![f] = i]
      BY <2>3, Opens
    <3> QED BY <1>0, <3>1
  <2>4. CASE CopiedOut(r) \/ WroteRule(r) \/ CopiedIn(r) \/ CopiedCrate(r)
    BY <2>4, Fills
  <2>5. CASE CopyIn(r)
    <3>1. PICK i \in Run \X {"in"} \X Place : entry' = [entry EXCEPT ![i] = i]
      BY <2>5, CopiesIn
    <3> QED BY <1>0, <3>1
  <2>6. CASE CopyCrate(r)
    BY <2>6, CopiesCrate
  <2>7. CASE Rename(r)
    <3>1. PICK f \in File, w \in Run \X {"o", "out"} \X Place :
             entry' = [entry EXCEPT ![f] = w, ![w] = None]
      BY <2>7, Renames
    <3> QED BY <1>0, <3>1
  <2>8. CASE Unlink(r)
    BY <1>0, <2>8, Unlinks
  <2>9. CASE Bring(r)
    <3>1. PICK f \in File, m \in Run \X {"in"} \X Place : entry' = [entry EXCEPT ![m] = entry[f]]
      BY <2>9, Brings
    <3> QED BY <1>0, <3>1
  <2>10. CASE LinkCrate(r)
    <3>1. PICK m \in WorkFile, s \in WorkFile :
             m = Library(r, turn[r]) /\ entry' = [entry EXCEPT ![m] = entry[s]]
      BY <2>10, LinksCrate
    <3> QED BY <1>0, <2>10, <3>1
  <2>11. CASE Drop(r)
    BY <1>0, <2>11, Drops
  <2> QED BY <2>1, <2>2, <2>3, <2>4, <2>5, <2>6, <2>7, <2>8, <2>9, <2>10, <2>11, AnyIs
<1>3. CASE q # r
  <2>1. pc'[q] = pc[q] /\ turn'[q] = turn[q] /\ objects'[q] = objects[q]
    BY <1>3, OthersStay
  <2>2. entry'[n] \in {entry[n], None}
    <3>1. LinkCrate(r) => n # Library(r, turn[r])
      BY <1>0, <1>3, LinksCrate
    <3> QED BY <1>2, <3>1
  <2>3. Past(q)' = Past(q)
    BY <1>0, <2>1 DEF Past
  <2> QED BY <1>0, <1>1, <2>1, <2>2, <2>3 DEF n
<1>4. CASE q = r
  <2>1. CASE LinkCrate(r)
    <3>1. turn[r] \in DOMAIN objects[r] /\ Loaded(r).crates # {} /\ pc[r] = "crates"
      BY <2>1 DEF LinkCrate, AtObject, TypeOK
    <3>2. pc'[r] = "crates" /\ objects' = objects /\ turn'[r] = turn[r] + 1
      BY <2>1, <3>1 DEF LinkCrate, NextObject, TypeOK
    <3>3. Past(r)'
      BY <3>2 DEF Past
    <3>4. ASSUME entry'[n] # None
          PROVE  \E k \in DOMAIN objects[r] :
                    /\ k < turn[r] + 1 /\ objects[r][k].crates # {} /\ Library(r, k) = n
      <4>1. CASE n = Library(r, turn[r])
        BY <1>0, <1>4, <3>1, <4>1 DEF Loaded
      <4>2. CASE n # Library(r, turn[r])
        <5>1. entry[n] # None
          BY <1>2, <3>4, <4>2
        <5>2. PICK k \in DOMAIN objects[r] :
                 k < turn[r] /\ objects[r][k].crates # {} /\ Library(r, k) = n
          BY <1>0, <1>4, <3>1, <5>1
        <5>3. k \in Nat
          BY DEF TypeOK
        <5> QED BY <1>0, <1>4, <5>2, <5>3
      <4> QED BY <4>1, <4>2
    <3> QED BY <1>1, <1>4, <3>2, <3>3, <3>4 DEF n
  <2>2. CASE ~LinkCrate(r)
    <3>1. entry'[n] # None => entry[n] # None
      BY <1>2, <2>2
    <3>2. Past(r) => Past(r)'
      <4>1. CASE Quiet(r)
        BY <1>0, <4>1 DEF Quiet, Start, Translate, RustcFails, CopyFails, NoRule, Check, NotThere,
           InputsDone, NotACrate, LinkFails, Kill, AtInput, Fail, Goto, TypeOK, Past, Delivering
      <4>2. CASE Rustc(r) \/ Rename(r) \/ Unlink(r) \/ CopyOut(r) \/ CopiedOut(r)
        BY <1>0, <4>2 DEF Rustc, Rename, Unlink, CopyOut, CopiedOut, AfterDelivery, Goto, TypeOK,
           Past, Delivering
      <4>3. CASE WriteRule(r) \/ WroteRule(r) \/ Bring(r) \/ CopyIn(r) \/ CopiedIn(r)
        BY <4>3 DEF WriteRule, WroteRule, Bring, CopyIn, CopiedIn, Past, Delivering
      <4>4. CASE LinkCrate(r) \/ CopyCrate(r) \/ CopiedCrate(r) \/ Link(r) \/ Drop(r)
        BY <1>0, <4>4 DEF LinkCrate, CopyCrate, CopiedCrate, Link, Drop, AtObject, Goto, TypeOK,
           Past, Delivering, Control, Where
      <4> QED BY <4>1, <4>2, <4>3, <4>4, AnyIs
    <3>3. ASSUME pc'[r] \in {"crates", "loading"}, entry[n] # None
          PROVE  /\ pc[r] \in {"crates", "loading"} /\ objects'[r] = objects[r]
                 /\ turn'[r] >= turn[r]
      <4>1. Past(r)
        BY <1>0, <1>4, <3>3
      <4>2. CASE Quiet(r)
        BY <1>0, <1>4, <3>3, <4>1, <4>2 DEF Quiet, Start, Translate, RustcFails, CopyFails, NoRule,
           Check, NotThere, InputsDone, NotACrate, LinkFails, Kill, AtInput, AtObject, Fail, Goto,
           NextObject, TypeOK, Past, Delivering
      <4>3. CASE CopyCrate(r) \/ CopiedCrate(r)
        BY <1>0, <1>4, <4>3 DEF CopyCrate, CopiedCrate, AtObject, NextObject, TypeOK
      <4>4. CASE Rustc(r) \/ Rename(r) \/ Unlink(r) \/ CopyOut(r) \/ CopiedOut(r) \/ WriteRule(r)
        BY <3>3, <4>4 DEF Rustc, Rename, Unlink, CopyOut, CopiedOut, WriteRule, AfterDelivery, Goto,
           TypeOK
      <4>5. CASE WroteRule(r) \/ Bring(r) \/ CopyIn(r) \/ CopiedIn(r) \/ Link(r) \/ Drop(r)
        BY <3>3, <4>5 DEF WroteRule, Bring, CopyIn, CopiedIn, Link, Drop, NextInput, Goto, TypeOK
      <4> QED BY <2>2, <4>2, <4>3, <4>4, <4>5, AnyIs
    <3>4. ~Past(r)' => entry'[n] = None
      BY <1>0, <1>4, <3>1, <3>2
    <3>5. ASSUME pc'[r] \in {"crates", "loading"}, entry'[n] # None
          PROVE  \E k \in DOMAIN objects'[r] :
                    /\ k < turn'[r] /\ objects'[r][k].crates # {}
                    /\ Library(r, k)' = n
      <4>1. /\ pc[r] \in {"crates", "loading"} /\ objects'[r] = objects[r]
            /\ turn'[r] >= turn[r] /\ turn'[r] \in Nat
        BY <3>1, <3>3, <3>5, TypeNext DEF TypeOK
      <4>2. PICK k \in DOMAIN objects[r] :
               k < turn[r] /\ objects[r][k].crates # {} /\ Library(r, k) = n
        BY <1>0, <1>4, <3>1, <3>5, <4>1
      <4>3. k \in Nat
        BY DEF TypeOK
      <4> QED BY <1>0, <1>1, <1>4, <4>1, <4>2, <4>3
    <3> QED BY <1>4, <3>4, <3>5 DEF n
  <2> QED BY <2>1, <2>2
<1> QED BY <1>3, <1>4

-----------------------------------------------------------------------------
LEMMA InitIInv == Init => IInv
<1> SUFFICES ASSUME Init
             PROVE  IInv
  OBVIOUS
<1>1. /\ \A f \in File : entry[f] \in {f, None}
      /\ \A n \in WorkFile : entry[n] = None
      /\ \A r \in Run : /\ pc[r] = "idle" /\ turn[r] = 1 /\ fd[r] = None
                        /\ objects[r] = <<>>
  BY PlacesOf DEF Init
<1>2. TypeOK
  <2>1. entry \in [File \cup WorkFile -> Inode \cup {None}]
    BY DEF Init, Inode
  <2>2. bytes \in [Inode -> Whole \cup {None, Half}]
    BY BuildsAssumption DEF Init
  <2>3. Nothing \in [runtime : BOOLEAN, crates : SUBSET Crate, native : BOOLEAN]
    BY DEF Nothing
  <2> QED BY <2>1, <2>2, <2>3 DEF Init, TypeOK, Phase
<1>3. Control
  <2>1. Len(<<>>) = 0 /\ DOMAIN <<>> = {} /\ 0 <= MaxInputs
    BY BuildsAssumption
  <2>2. ASSUME NEW r \in Run
        PROVE  Where(r) /\ Taken(r)
    <3>1. pc[r] = "idle" /\ turn[r] = 1 /\ objects[r] = <<>>
      BY <1>1
    <3>2. Where(r)
      BY <3>1 DEF Where, Delivering
    <3>3. Taken(r)
      BY <2>1, <3>1 DEF Taken, Delivering
    <3> QED BY <3>2, <3>3
  <2> QED BY <2>2 DEF Control
<1>4. NoneAhead
  BY <1>1, NoneApart DEF NoneAhead, Used
<1>5. Homes /\ FilesApart /\ Private /\ Hands
  BY <1>1 DEF Homes, FilesApart, Private, Hands, UserInode, Delivering
<1>6. Apart
  BY <1>1, PlacesOf, NoneApart DEF Apart, OwnInode, Inode
<1>7. Libs
  <2>1. \A r \in Run, j \in Place : <<r, "lib", j>> \in WorkFile
    BY DEF WorkFile
  <2> QED BY <1>1, <2>1 DEF Libs
<1> QED BY <1>2, <1>3, <1>4, <1>5, <1>6, <1>7 DEF IInv

LEMMA NextIInv == IInv /\ [Next]_vars => IInv'
<1> SUFFICES ASSUME IInv, [Next]_vars
             PROVE  IInv'
  OBVIOUS
<1>1. CASE Next
  <2>1. PICK r \in Run : Any(r)
    BY <1>1 DEF Next, Any
  <2> QED BY <2>1, TypeNext, ControlNext, NoneAheadNext, HomesNext, ApartNext, FilesApartNext,
       PrivateNext, HandsNext, LibsNext DEF IInv
<1>2. CASE UNCHANGED vars
  <2>1. /\ entry' = entry /\ bytes' = bytes /\ command' = command /\ oneFs' = oneFs
        /\ pc' = pc /\ turn' = turn /\ fd' = fd /\ info' = info /\ objects' = objects
        /\ failed' = failed /\ overlapped' = overlapped
    BY <1>2 DEF vars, site
  <2>2. TypeOK'
    BY <2>1 DEF IInv, TypeOK
  <2>3. Control'
    BY <2>1 DEF IInv, Control, Where, Taken, AtC, AtOther, Input, Inputs, Rule, CratesClash
  <2>4. NoneAhead'
    BY <2>1 DEF IInv, NoneAhead, Used, Came, Passed, Past
  <2>5. Homes' /\ Apart' /\ FilesApart'
    BY <2>1 DEF IInv, Homes, Apart, FilesApart
  <2>6. Private'
    BY <2>1 DEF IInv, Private, Written, Object, Program
  <2>7. Hands'
    BY <2>1 DEF IInv, Hands, Target, Wanted, Rule, Input, Inputs, Brought
  <2>8. Libs'
    <3>1. \A r : Past(r)' = Past(r)
      BY <2>1 DEF Past
    <3>2. \A r, k : Library(r, k)' = Library(r, k)
      BY <2>1 DEF Library
    <3>3. Libs
      BY DEF IInv
    <3> QED BY <2>1, <3>1, <3>2, <3>3 DEF Libs
  <2> QED BY <2>2, <2>3, <2>4, <2>5, <2>6, <2>7, <2>8 DEF IInv
<1> QED BY <1>1, <1>2

(***************************************************************************)
(* Whatever the runs do, an inode is reached from the names it was made    *)
(* for, each run writes to a file of its own or to one it was asked for,   *)
(* and what waits to be delivered is whole.                                *)
(***************************************************************************)
THEOREM DriverInvariant == Spec => []IInv
<1> QED BY InitIInv, NextIInv, PTL DEF Spec

-----------------------------------------------------------------------------
LEMMA KeepsInputs ==
    ASSUME IInv, NEW r \in Run, Any(r), NEW f \in File, Read(f)' # Read(f)
    PROVE  pc'[r] # pc[r] /\ (f \in AskedFor(r) \/ CratesClash(r))
<1> USE DEF IInv
<1>0. /\ entry \in [File \cup WorkFile -> Inode \cup {None}]
      /\ bytes \in [Inode -> Whole \cup {None, Half}]
      /\ fd \in [Run -> Inode \cup {None}] /\ pc \in [Run -> Phase]
      /\ entry[f] \in UserInode \cup {None}
  BY DEF TypeOK, Homes
<1>1. entry'[f] = entry[f] => entry[f] # None /\ bytes'[entry[f]] # bytes[entry[f]]
  BY DEF Read
<1>2. CASE Quiet(r)
  BY <1>1, <1>2, QuietLeaves
<1>3. CASE Rustc(r) \/ Link(r)
  <2>1. PICK o \in Run \X {"o", "out"} \X Place :
           /\ o \in WorkFile /\ ~Used(o) /\ entry' = [entry EXCEPT ![o] = o]
           /\ \E c \in Whole : bytes' = [bytes EXCEPT ![o] = c]
    BY <1>3, Creates
  <2> QED BY <1>0, <1>1, <2>1, PlacesOf DEF Used
<1>4. CASE CopyOut(r) \/ WriteRule(r)
  <2>1. PICK g \in File, new \in Run \X {"copy", "rule"} \X Place, i \in Inode :
           /\ ~Used(new)
           /\ i = (IF entry[g] = None THEN new ELSE entry[g])
           /\ entry' = [entry EXCEPT ![g] = i]
           /\ bytes' = [bytes EXCEPT ![i] = Half]
           /\ g \in AskedFor(r) /\ pc'[r] # pc[r]
    BY <1>4, Opens
  <2>2. CASE f # g
    <3>1. entry'[f] = entry[f]
      BY <1>0, <2>1, <2>2
    <3>2. entry[f] # None => entry[f] # i
      BY <2>1, <2>2 DEF FilesApart, Used
    <3> QED BY <1>0, <1>1, <2>1, <3>1, <3>2
  <2> QED BY <2>1, <2>2
<1>5. CASE CopiedOut(r) \/ WroteRule(r)
  <2>1. entry' = entry /\ \E c : bytes' = [bytes EXCEPT ![fd[r]] = c]
    BY <1>5, Fills
  <2>2. entry[f] = fd[r]
    BY <1>0, <1>1, <2>1
  <2>3. f = Target(r)
    BY <1>5, <2>2 DEF CopiedOut, WroteRule, Hands
  <2>4. Target(r) \in AskedFor(r)
    <3>1. CASE CopiedOut(r)
      BY <3>1, Wanting DEF CopiedOut, Delivering, Target
    <3>2. CASE WroteRule(r)
      <4>1. turn[r] \in DOMAIN Inputs(r) /\ Rule(r) # None
        BY <3>2 DEF WroteRule, Control, Where, AtC
      <4>2. Rule(r) \in {Inputs(r)[k].rule : k \in DOMAIN Inputs(r)}
        BY <4>1 DEF Rule, Input
      <4> QED BY <3>2, <4>1, <4>2 DEF WroteRule, Target, AskedFor
    <3> QED BY <1>5, <3>1, <3>2
  <2>5. pc'[r] # pc[r]
    BY <1>5, Fills
  <2> QED BY <2>3, <2>4, <2>5
<1>6. CASE CopyIn(r)
  <2>1. PICK i \in Run \X {"in"} \X Place :
           /\ i \in WorkFile /\ ~Used(i) /\ entry' = [entry EXCEPT ![i] = i]
           /\ bytes' = [bytes EXCEPT ![i] = Half]
    BY <1>6, CopiesIn
  <2> QED BY <1>0, <1>1, <2>1, PlacesOf DEF Used
<1>7. CASE CopiedIn(r)
  <2>1. entry' = entry /\ \E c : bytes' = [bytes EXCEPT ![fd[r]] = c]
    BY <1>7, Fills
  <2>2. fd[r] = <<r, "in", turn[r]>> /\ turn[r] \in Place
    <3>1. fd[r] = <<r, "in", turn[r]>>
      BY <1>7 DEF CopiedIn, Hands, Brought
    <3>2. turn[r] \in DOMAIN Inputs(r)
      BY <1>7 DEF CopiedIn, Control, Where, AtOther
    <3>3. turn[r] \in Place
      BY <3>2, CommandOf, BuildsAssumption DEF Place
    <3> QED BY <3>1, <3>3
  <2>3. fd[r] \notin UserInode
    BY <2>2, PlacesOf DEF UserInode
  <2> QED BY <1>0, <1>1, <2>1, <2>3
<1>8. CASE CopyCrate(r)
  <2>1. CratesClash(r)' /\ objects' = objects /\ pc'[r] # pc[r]
    BY <1>8, CopiesCrate DEF CopyCrate, AtObject
  <2> QED BY <2>1 DEF CratesClash
<1>9. CASE CopiedCrate(r)
  BY <1>9, Fills DEF CopiedCrate, Control, Where
<1>10. CASE Rename(r)
  <2>1. PICK g \in File, w \in WorkFile :
           /\ entry' = [entry EXCEPT ![g] = w, ![w] = None] /\ bytes' = bytes
           /\ g \in AskedFor(r) /\ pc[r] = "deliver" /\ pc'[r] \in {"drop", "rule"}
    BY <1>10, Renames
  <2>2. f = g
    BY <1>0, <1>1, <2>1, PlacesOf
  <2> QED BY <2>1, <2>2
<1>11. CASE Unlink(r)
  <2>1. PICK g \in File :
           /\ entry' = [entry EXCEPT ![g] = None] \/ entry' = entry
           /\ bytes' = bytes
           /\ g \in AskedFor(r) /\ pc[r] = "deliver" /\ pc'[r] = "opening"
    BY <1>11, Unlinks
  <2>2. f = g
    BY <1>0, <1>1, <2>1
  <2> QED BY <2>1, <2>2
<1>12. CASE Bring(r)
  <2>1. PICK n \in WorkFile, g \in File :
           entry' = [entry EXCEPT ![n] = entry[g]] /\ bytes' = bytes
    BY <1>12, Brings
  <2> QED BY <1>0, <1>1, <2>1, PlacesOf
<1>13. CASE LinkCrate(r)
  <2>1. PICK n \in WorkFile, m \in WorkFile :
           entry' = [entry EXCEPT ![n] = entry[m]] /\ bytes' = bytes
    BY <1>13, LinksCrate
  <2> QED BY <1>0, <1>1, <2>1, PlacesOf
<1>14. CASE Drop(r)
  BY <1>1, <1>14, Drops
<1> QED BY <1>2, <1>3, <1>4, <1>5, <1>6, <1>7, <1>8, <1>9, <1>10, <1>11, <1>12, <1>13, <1>14, AnyIs

(***************************************************************************)
(* A user's file changes only when a run that was asked for it writes it,  *)
(* or one that was given two objects of one crate: not through the other   *)
(* names `link_input` and `link` give the file in a work directory.        *)
(***************************************************************************)
THEOREM InputsAreKept == Spec => InputsKept
<1>1. ASSUME IInv, [Next]_vars
      PROVE  [\A f \in File :
                 Read(f)' # Read(f) =>
                    \E r \in Run : pc'[r] # pc[r] /\ (f \in AskedFor(r) \/ CratesClash(r))]_vars
  <2>1. CASE Next
    <3>1. PICK r \in Run : Any(r)
      BY <2>1 DEF Next, Any
    <3> QED BY <1>1, <3>1, KeepsInputs
  <2> QED BY <1>1, <2>1
<1> QED BY <1>1, DriverInvariant, PTL DEF Spec, InputsKept


-----------------------------------------------------------------------------
(* The objects of a run are taken one after another, and a clash stays.    *)
LEMMA ClashStays ==
    ASSUME IInv, NEW r \in Run, Any(r), NEW q \in Run, CratesClash(q)
    PROVE  CratesClash(q)'
<1> USE DEF IInv
<1>1. CASE objects'[q] = objects[q]
  BY <1>1 DEF CratesClash
<1>2. CASE q = r /\ \E p : objects' = [objects EXCEPT ![r] = Append(@, p)]
  <2>1. PICK p : objects' = [objects EXCEPT ![r] = Append(objects[r], p)]
    BY <1>2
  <2>2. objects'[r] = Append(objects[r], p) /\ objects[r] \in Seq(Part)
    BY <2>1 DEF TypeOK
  <2>3. /\ \A k \in DOMAIN objects[r] : objects'[r][k] = objects[r][k]
        /\ DOMAIN objects[r] \subseteq DOMAIN objects'[r]
    BY <2>2
  <2> QED BY <1>2, <2>3 DEF CratesClash
<1>3. CASE q # r
  BY <1>1, <1>3, OthersStay
<1>4. CASE q = r /\ (Check(r) \/ Rustc(r))
  <2>1. \/ UNCHANGED objects
        \/ \E name, says : Take(r, name, says)
    BY <1>4 DEF Check, Rustc
  <2> QED BY <1>1, <1>2, <1>4, <2>1 DEF Take
<1>5. CASE q = r /\ ~(Check(r) \/ Rustc(r))
  <2>1. UNCHANGED objects
    BY <1>5 DEF Any, Step, Compile, Deliver, Depend, TakeIn, Crates, Start, Translate, RustcFails,
       CopyFails, NoRule, NotThere, InputsDone, NotACrate, LinkFails, Kill, Rename, Unlink,
       CopyOut, CopiedOut, WriteRule, WroteRule, Bring, CopyIn, CopiedIn, LinkCrate, CopyCrate,
       CopiedCrate, Link, Drop
  <2> QED BY <1>1, <2>1
<1> QED BY <1>3, <1>4, <1>5

(* What a run is at work on in place: its file for another file system, or *)
(* a dependency rule.                                                      *)
LEMMA RulesAre ==
    ASSUME IInv, NEW r \in Run, pc[r] = "ruling"
    PROVE  Rule(r) \in DependencyFiles /\ Rule(r) \in AskedFor(r)
<1>1. turn[r] \in DOMAIN Inputs(r) /\ Rule(r) # None
  BY DEF IInv, Control, Where, AtC
<1> DEFINE Rules(q) == {Inputs(q)[k].rule : k \in DOMAIN Inputs(q)}
<1>2. Rule(r) \in Rules(r)
  BY <1>1 DEF Rule, Input
<1>3. Rule(r) \in AskedFor(r)
  BY <1>1, <1>2 DEF AskedFor
<1>4. DependencyFiles = (UNION {Rules(q) : q \in Run}) \ {None}
  BY DEF DependencyFiles
<1> HIDE DEF Rules
<1> QED BY <1>1, <1>2, <1>3, <1>4

(* On one file system a step leaves a user's file as it is, or puts a      *)
(* whole one in its place.                                                 *)
LEMMA WholeStep ==
    ASSUME IInv, oneFs, NEW r \in Run, Any(r), \A q \in Run : ~CratesClash(q)',
           NEW f \in File \ DependencyFiles
    PROVE  Read(f)' \in {Read(f)} \cup Whole
<1> USE DEF IInv
<1>0. /\ entry \in [File \cup WorkFile -> Inode \cup {None}]
      /\ bytes \in [Inode -> Whole \cup {None, Half}]
      /\ ~CratesClash(r)
  BY ClashStays DEF TypeOK
<1>1. entry'[f] = entry[f] /\ (entry[f] # None => bytes'[entry[f]] = bytes[entry[f]])
         => Read(f)' = Read(f)
  BY DEF Read
<1>2. CASE Quiet(r) \/ Drop(r)
  BY <1>1, <1>2, QuietLeaves, Drops
<1>3. CASE Rustc(r) \/ Link(r)
  <2>1. PICK o \in Run \X {"o", "out"} \X Place :
           /\ o \in WorkFile /\ ~Used(o) /\ entry' = [entry EXCEPT ![o] = o]
           /\ \E c \in Whole : bytes' = [bytes EXCEPT ![o] = c]
    BY <1>3, Creates
  <2> QED BY <1>0, <1>1, <2>1, PlacesOf DEF Used
<1>4. CASE CopyOut(r) \/ WriteRule(r)
  <2>1. PICK g \in File, new \in Run \X {"copy", "rule"} \X Place, i \in Inode :
           /\ ~Used(new)
           /\ i = (IF entry[g] = None THEN new ELSE entry[g])
           /\ entry' = [entry EXCEPT ![g] = i]
           /\ bytes' = [bytes EXCEPT ![i] = Half]
           /\ g \in DependencyFiles
    BY <1>4, Opens
  <2>2. entry'[f] = entry[f] /\ (entry[f] # None => entry[f] # i)
    BY <1>0, <2>1 DEF FilesApart, Used
  <2> QED BY <1>0, <1>1, <2>1, <2>2
<1>5. CASE WroteRule(r)
  <2>1. entry' = entry /\ \E c : bytes' = [bytes EXCEPT ![fd[r]] = c]
    BY <1>5, Fills
  <2>2. entry[f] # fd[r]
    BY <1>5, RulesAre DEF WroteRule, Hands, Target
  <2> QED BY <1>0, <1>1, <2>1, <2>2
<1>6. CASE CopiedOut(r) \/ CopyIn(r) \/ CopiedIn(r) \/ CopyCrate(r) \/ CopiedCrate(r) \/ Unlink(r)
  <2>1. CASE CopiedOut(r) \/ CopiedIn(r) \/ CopiedCrate(r)
    BY <1>0, <2>1 DEF Control, Where, CopiedOut, CopiedIn, CopiedCrate
  <2> QED BY <1>6, <2>1, CopiesIn, CopiesCrate, Unlinks
<1>7. CASE Rename(r)
  <2>1. PICK g \in File, w \in WorkFile :
           /\ w \in Inode /\ bytes[w] \in Whole
           /\ entry' = [entry EXCEPT ![g] = w, ![w] = None] /\ bytes' = bytes
    BY <1>7, Renames
  <2>2. CASE f = g
    <3>1. entry'[f] = w /\ w # None
      BY <1>0, <2>1, <2>2, PlacesOf, NoneApart
    <3> QED BY <2>1, <3>1 DEF Read
  <2>3. CASE f # g
    BY <1>0, <1>1, <2>1, <2>3, PlacesOf
  <2> QED BY <2>2, <2>3
<1>8. CASE Bring(r)
  <2>1. PICK n \in WorkFile, g \in File :
           entry' = [entry EXCEPT ![n] = entry[g]] /\ bytes' = bytes
    BY <1>8, Brings
  <2> QED BY <1>0, <1>1, <2>1, PlacesOf
<1>9. CASE LinkCrate(r)
  <2>1. PICK n \in WorkFile, m \in WorkFile :
           entry' = [entry EXCEPT ![n] = entry[m]] /\ bytes' = bytes
    BY <1>9, LinksCrate
  <2> QED BY <1>0, <1>1, <2>1, PlacesOf
<1> QED BY <1>2, <1>3, <1>4, <1>5, <1>6, <1>7, <1>8, <1>9, AnyIs

(* What is there on one file system, other than rules, is whole, and what  *)
(* was there is.                                                           *)
Steady ==
    oneFs /\ (\A r \in Run : ~CratesClash(r)) =>
        \A f \in File \ DependencyFiles :
            Read(f) \in Whole \cup {None} /\ (Before[f] # None => Read(f) # None)

LEMMA SteadyNext == IInv /\ Steady /\ [Next]_vars => Steady'
<1> SUFFICES ASSUME IInv, Steady, [Next]_vars
             PROVE  Steady'
  OBVIOUS
<1>1. CASE Next
  <2>1. PICK r \in Run : Any(r)
    BY <1>1 DEF Next, Any
  <2>2. command' = command /\ oneFs' = oneFs
    BY <2>1, SiteStays DEF site
  <2>3. DependencyFiles' = DependencyFiles
    BY <2>2 DEF DependencyFiles, Inputs
  <2>4. ASSUME oneFs, \A q \in Run : ~CratesClash(q)', NEW f \in File \ DependencyFiles
        PROVE  Read(f)' \in Whole \cup {None} /\ (Before[f] # None => Read(f)' # None)
    <3>1. Read(f)' \in {Read(f)} \cup Whole
      BY <2>1, <2>4, WholeStep
    <3>2. Read(f) \in Whole \cup {None} /\ (Before[f] # None => Read(f) # None)
      BY <2>1, <2>4, ClashStays DEF Steady
    <3>3. None \notin Whole
      BY NamesApart
    <3> QED BY <3>1, <3>2, <3>3
  <2> QED BY <2>2, <2>3, <2>4 DEF Steady
<1>2. CASE UNCHANGED vars
  <2>1. /\ entry' = entry /\ bytes' = bytes /\ command' = command /\ oneFs' = oneFs
        /\ objects' = objects
    BY <1>2 DEF vars, site
  <2>2. DependencyFiles' = DependencyFiles
    BY <2>1 DEF DependencyFiles, Inputs
  <2>3. \A r : CratesClash(r)' = CratesClash(r)
    BY <2>1 DEF CratesClash
  <2>4. \A f : Read(f)' = Read(f)
    BY <2>1 DEF Read
  <2> QED BY <2>1, <2>2, <2>3, <2>4 DEF Steady
<1> QED BY <1>1, <1>2

(***************************************************************************)
(* Where the work directories are on the users' file system, `deliver`     *)
(* never leaves half an object or program, nor takes one away, whatever    *)
(* fails or is killed, unless a run was given two objects of one crate.    *)
(***************************************************************************)
THEOREM OutputsAreWhole == Spec => []OutputsStayWhole
<1>1. Init => Steady
  <2> SUFFICES ASSUME Init, NEW f \in File
               PROVE  Read(f) \in Whole \cup {None} /\ (Before[f] # None => Read(f) # None)
    BY DEF Steady
  <2>1. entry[f] = (IF Before[f] # None THEN f ELSE None) /\ bytes[f] = Before[f]
    BY DEF Init, Inode
  <2>2. f # None /\ Before[f] \in Whole \cup {None}
    BY NoneApart, BuildsAssumption
  <2> QED BY <2>1, <2>2 DEF Read
<1>2. Steady => OutputsStayWhole
  <2>1. Half \notin Whole \cup {None}
    BY NamesApart
  <2> QED BY <2>1 DEF Steady, OutputsStayWhole, Broken
<1> QED BY <1>1, <1>2, SteadyNext, DriverInvariant, PTL DEF Spec


-----------------------------------------------------------------------------
(* A run that was killed or that failed stays so.                          *)
Excused(r) == pc[r] = "killed" \/ failed[r]

LEMMA ExcusedStays ==
    ASSUME IInv, NEW r \in Run, Any(r), NEW q \in Run, Excused(q)
    PROVE  Excused(q)'
<1> USE DEF IInv
<1>1. CASE q # r
  BY <1>1, OthersStay DEF Excused
<1>2. CASE q = r
  <2>1. pc[r] # "killed"
    BY DEF Any, Step, Compile, Deliver, Depend, TakeIn, Crates, Start, Translate, RustcFails,
       CopyFails, NoRule, Check, AtInput, NotThere, InputsDone, NotACrate, AtObject, LinkFails,
       Kill, Working, Rustc, Rename, Unlink, CopyOut, CopiedOut, WriteRule, WroteRule, Bring,
       CopyIn, CopiedIn, LinkCrate, CopyCrate, CopiedCrate, Link, Drop
  <2>2. failed' = failed \/ failed'[r] = TRUE
    BY DEF TypeOK, Any, Step, Compile, Deliver, Depend, TakeIn, Crates, Start, Translate,
       RustcFails, CopyFails, NoRule, Check, NotThere, InputsDone, NotACrate, LinkFails, Kill,
       Rustc, Rename, Unlink, CopyOut, CopiedOut, WriteRule, WroteRule, Bring, CopyIn, CopiedIn,
       LinkCrate, CopyCrate, CopiedCrate, Link, Drop, Fail
  <2> QED BY <1>2, <2>1, <2>2 DEF Excused
<1> QED BY <1>1, <1>2

(* A run leaves a file it has taken away or cut short when it is done with *)
(* it, or killed, or when it fails.                                        *)
LEMMA LeavesDone ==
    ASSUME IInv, NEW r \in Run, Any(r)
    PROVE  /\ pc[r] \in {"writing", "ruling"} => Excused(r)' \/ CopiedOut(r) \/ WroteRule(r)
           /\ pc[r] = "opening" => Excused(r)' \/ CopyOut(r)
<1>1. CASE Kill(r) \/ CopyFails(r)
  BY <1>1 DEF IInv, TypeOK, Kill, CopyFails, Fail, Goto, Excused
<1>2. CASE CopiedOut(r) \/ WroteRule(r) \/ CopyOut(r)
  BY <1>2 DEF CopiedOut, WroteRule, CopyOut
<1>3. CASE ~(Kill(r) \/ CopyFails(r) \/ CopiedOut(r) \/ WroteRule(r) \/ CopyOut(r))
  BY <1>3 DEF Any, Step, Compile, Deliver, Depend, TakeIn, Crates, Start, Translate, RustcFails,
     NoRule, Check, AtInput, NotThere, InputsDone, NotACrate, AtObject, LinkFails, Rustc, Rename,
     Unlink, WriteRule, Bring, CopyIn, CopiedIn, LinkCrate, CopyCrate, CopiedCrate, Link, Drop
<1> QED BY <1>1, <1>2, <1>3

(* What a step on two file systems does to a user's file.                  *)
Kept(f) == entry'[f] = entry[f] /\ (entry[f] # None => bytes'[entry[f]] = bytes[entry[f]])
Opened(r, f) ==
    /\ entry'[f] \in Inode /\ bytes'[entry'[f]] = Half /\ fd'[r] = entry'[f]
    /\ pc'[r] \in {"writing", "ruling"} /\ f \in AskedFor(r)
Filled(r, f) ==
    /\ entry'[f] = entry[f] /\ entry[f] = fd[r] /\ entry[f] \in Inode
    /\ bytes'[entry[f]] \in Whole
Removed(r, f) ==
    /\ entry'[f] = None
    /\ pc'[r] = "opening" /\ Wanted(r)' = f /\ f \in AskedFor(r)

LEMMA FillsWhole ==
    ASSUME IInv, NEW r \in Run, CopiedOut(r) \/ WroteRule(r), NEW f \in File
    PROVE  (Kept(f) /\ entry[f] # fd[r]) \/ entry[f] = None \/ Filled(r, f)
<1> USE DEF IInv
<1>0. /\ entry[f] \in Inode \cup {None}
      /\ bytes \in [Inode -> Whole \cup {None, Half}]
      /\ entry' = entry
  BY Fills DEF TypeOK
<1>1. \E c \in Whole : bytes' = [bytes EXCEPT ![fd[r]] = c]
  <2>1. CASE CopiedOut(r)
    <3>1. bytes[Written(r)] \in Whole /\ entry[Written(r)] = Written(r) /\ Written(r) # None
      BY <2>1, Wanting, NoneApart DEF CopiedOut, Private, Delivering
    <3>2. Read(Written(r)) \in Whole
      BY <3>1 DEF Read
    <3> QED BY <2>1, <3>2 DEF CopiedOut, Fill
  <2>2. CASE WroteRule(r)
    <3>1. turn[r] \in DOMAIN Inputs(r)
      BY <2>2 DEF WroteRule, Control, Where, AtC
    <3>2. Input(r).path \in File \cup {None}
      BY <3>1, CommandOf DEF Input
    <3>3. [made |-> Input(r).path, by |-> r] \in Whole
      BY <3>2 DEF Whole, Other
    <3> QED BY <2>2, <3>3 DEF WroteRule, Fill
  <2> QED BY <2>1, <2>2
<1> QED BY <1>0, <1>1 DEF Kept, Filled

LEMMA OpensIt ==
    ASSUME IInv, NEW r \in Run, CopyOut(r) \/ WriteRule(r), NEW f \in File
    PROVE  /\ Kept(f) \/ Opened(r, f)
           /\ CopyOut(r) /\ Wanted(r) = f => Opened(r, f)
<1> USE DEF IInv
<1>0. /\ entry \in [File \cup WorkFile -> Inode \cup {None}]
      /\ bytes \in [Inode -> Whole \cup {None, Half}]
      /\ fd \in [Run -> Inode \cup {None}]
  BY DEF TypeOK
<1>1. PICK g \in File, new \in Inode, i \in Inode :
         /\ ~Used(new)
         /\ i = (IF entry[g] = None THEN new ELSE entry[g])
         /\ entry' = [entry EXCEPT ![g] = i]
         /\ bytes' = [bytes EXCEPT ![i] = Half]
         /\ fd' = [fd EXCEPT ![r] = i]
         /\ pc'[r] \in {"writing", "ruling"} /\ g = Target(r)' /\ g \in AskedFor(r)
  BY Opens
<1>2. CASE f = g
  BY <1>0, <1>1, <1>2 DEF Opened
<1>3. CASE f # g
  <2>1. entry'[f] = entry[f] /\ (entry[f] # None => entry[f] # i)
    BY <1>0, <1>1, <1>3 DEF FilesApart, Used
  <2>2. ~(CopyOut(r) /\ Wanted(r) = f)
    <3>1. CopyOut(r) => Target(r)' = Wanted(r)
      BY DEF CopyOut, Goto, TypeOK, Target, Wanted, Input, Inputs, site
    <3> QED BY <1>1, <1>3, <3>1
  <2> QED BY <1>0, <1>1, <2>1, <2>2 DEF Kept
<1> QED BY <1>2, <1>3

LEMMA FileStep ==
    ASSUME IInv, ~oneFs, NEW r \in Run, Any(r), NEW f \in File
    PROVE  Kept(f) \/ Opened(r, f) \/ Filled(r, f) \/ Removed(r, f)
<1> USE DEF IInv
<1>0. /\ entry \in [File \cup WorkFile -> Inode \cup {None}]
      /\ bytes \in [Inode -> Whole \cup {None, Half}]
      /\ entry[f] \notin OwnInode
      /\ \A n \in WorkFile : entry[n] \in OwnInode \cup {None}
  BY DEF TypeOK, Apart
<1>1. CASE Quiet(r) \/ Drop(r)
  BY <1>1, QuietLeaves, Drops DEF Kept
<1>2. CASE CopyOut(r) \/ WriteRule(r)
  BY <1>2, OpensIt
<1>3. CASE CopiedOut(r) \/ WroteRule(r)
  <2>1. entry' = entry
    BY <1>3, Fills
  <2> QED BY <1>3, <2>1, FillsWhole DEF Kept
<1>4. CASE Rustc(r) \/ Link(r)
  <2>1. PICK o \in WorkFile :
           /\ ~Used(o) /\ entry' = [entry EXCEPT ![o] = o]
           /\ \E c \in Whole : bytes' = [bytes EXCEPT ![o] = c]
    BY <1>4, Creates
  <2> QED BY <1>0, <2>1, PlacesOf DEF Used, Kept
<1>5. CASE CopyIn(r)
  <2>1. PICK i \in WorkFile :
           /\ ~Used(i) /\ entry' = [entry EXCEPT ![i] = i]
           /\ bytes' = [bytes EXCEPT ![i] = Half]
    BY <1>5, CopiesIn
  <2> QED BY <1>0, <2>1, PlacesOf DEF Used, Kept
<1>6. CASE CopiedIn(r) \/ CopiedCrate(r)
  <2>1. entry' = entry /\ \E c : bytes' = [bytes EXCEPT ![fd[r]] = c]
    BY <1>6, Fills
  <2>2. fd[r] # entry[f] \/ entry[f] = None
    <3>1. CASE CopiedIn(r)
      <4>1. fd[r] = entry[Brought(r)] /\ Brought(r) \in WorkFile
        <5>1. turn[r] \in DOMAIN Inputs(r)
          BY <3>1 DEF CopiedIn, Control, Where, AtOther
        <5>2. turn[r] \in Place
          BY <5>1, CommandOf, BuildsAssumption DEF Place
        <5> QED BY <3>1, <5>2 DEF CopiedIn, Hands, Brought, WorkFile
      <4> QED BY <1>0, <4>1
    <3>2. CASE CopiedCrate(r)
      BY <1>0, <3>2 DEF CopiedCrate, Apart
    <3> QED BY <1>6, <3>1, <3>2
  <2> QED BY <1>0, <2>1, <2>2 DEF Kept
<1>7. CASE CopyCrate(r)
  <2>1. PICK lib \in WorkFile, i \in Inode :
           entry[lib] = i /\ entry' = entry /\ bytes' = [bytes EXCEPT ![i] = Half]
    BY <1>7, CopiesCrate
  <2>2. i # entry[f] \/ entry[f] = None
    BY <1>0, <2>1
  <2> QED BY <1>0, <2>1, <2>2 DEF Kept
<1>8. CASE Rename(r) \/ Bring(r)
  BY <1>8 DEF Rename, Bring
<1>9. CASE Unlink(r)
  <2>1. PICK g \in File :
           /\ entry' = [entry EXCEPT ![g] = None] \/ entry' = entry
           /\ bytes' = bytes
           /\ g \in AskedFor(r) /\ pc'[r] = "opening" /\ Wanted(r)' = g
    BY <1>9, Unlinks
  <2> QED BY <1>0, <2>1 DEF Kept, Removed
<1>10. CASE LinkCrate(r)
  <2>1. PICK n \in WorkFile, m \in WorkFile :
           entry' = [entry EXCEPT ![n] = entry[m]] /\ bytes' = bytes
    BY <1>10, LinksCrate
  <2> QED BY <1>0, <2>1, PlacesOf DEF Kept
<1> QED BY <1>1, <1>2, <1>3, <1>4, <1>5, <1>6, <1>7, <1>8, <1>9, <1>10, AnyIs

-----------------------------------------------------------------------------
(* A file that is cut short is open in the run that is writing it, or one  *)
(* that wrote it was killed or failed; one that was taken away, likewise.  *)
Writing(r, f)  == pc[r] \in {"writing", "ruling"} /\ fd[r] = entry[f]
Removing(r, f) == pc[r] = "opening" /\ Wanted(r) = f
Explained(f) ==
    /\ entry[f] # None => bytes[entry[f]] # None
    /\ entry[f] # None /\ bytes[entry[f]] = Half =>
          \E r \in Run : f \in AskedFor(r) /\ (Writing(r, f) \/ Excused(r))
    /\ entry[f] = None /\ Before[f] # None =>
          \E r \in Run : f \in AskedFor(r) /\ (Removing(r, f) \/ Excused(r))
Blamed == ~oneFs => \A f \in File : Explained(f)

LEMMA ExplainedNext ==
    ASSUME IInv, ~oneFs, NEW r \in Run, Any(r), NEW f \in File, Explained(f)
    PROVE  Explained(f)'
<1> USE DEF IInv
<1>0. /\ command' = command /\ None # Half /\ None \notin Whole /\ Half \notin Whole
      /\ None \notin Inode /\ entry[f] \in Inode \cup {None}
      /\ \A q : AskedFor(q)' = AskedFor(q)
  <2>1. command' = command
    BY SiteStays DEF site
  <2> QED BY <2>1, NamesApart, NoneApart DEF TypeOK, AskedFor, Inputs
<1>1. CASE Opened(r, f)
  <2>1. Writing(r, f)'
    BY <1>1 DEF Opened, Writing
  <2>2. entry'[f] # None /\ bytes'[entry'[f]] # None
    BY <1>0, <1>1 DEF Opened
  <2> QED BY <1>0, <1>1, <2>1, <2>2 DEF Opened, Explained
<1>2. CASE Filled(r, f)
  BY <1>0, <1>2 DEF Filled, Explained
<1>3. CASE Removed(r, f)
  <2>1. Removing(r, f)'
    BY <1>3 DEF Removed, Removing
  <2> QED BY <1>0, <1>3, <2>1 DEF Removed, Explained
<1>4. CASE Kept(f) /\ ~Opened(r, f) /\ ~Filled(r, f)
  <2>1. ASSUME NEW q \in Run, Writing(q, f) \/ Excused(q), entry[f] # None
        PROVE  Writing(q, f)' \/ Excused(q)'
    <3>1. CASE Excused(q)
      BY <3>1, ExcusedStays
    <3>2. CASE Writing(q, f) /\ q # r
      <4>1. pc'[q] = pc[q] /\ fd'[q] = fd[q]
        BY <3>2, OthersStay
      <4> QED BY <1>4, <3>2, <4>1 DEF Writing, Kept
    <3>3. CASE Writing(q, f) /\ q = r
      <4>1. ~CopiedOut(r) /\ ~WroteRule(r)
        BY <1>4, <2>1, <3>3, FillsWhole DEF Writing
      <4> QED BY <3>3, <4>1, LeavesDone DEF Writing
    <3> QED BY <2>1, <3>1, <3>2, <3>3
  <2>2. ASSUME NEW q \in Run, Removing(q, f) \/ Excused(q), entry[f] = None
        PROVE  Removing(q, f)' \/ Excused(q)'
    <3>1. CASE Excused(q)
      BY <3>1, ExcusedStays
    <3>2. CASE Removing(q, f) /\ q # r
      <4>1. pc'[q] = pc[q] /\ turn'[q] = turn[q]
        BY <3>2, OthersStay
      <4> QED BY <1>0, <3>2, <4>1 DEF Removing, Wanted, Input, Inputs
    <3>3. CASE Removing(q, f) /\ q = r
      <4>1. ~CopyOut(r)
        BY <1>4, <3>3, OpensIt DEF Removing
      <4> QED BY <3>3, <4>1, LeavesDone DEF Removing
    <3> QED BY <2>2, <3>1, <3>2, <3>3
  <2>3. entry'[f] = entry[f] /\ (entry[f] # None => bytes'[entry[f]] = bytes[entry[f]])
    BY <1>4 DEF Kept
  <2>4. entry[f] # None => bytes'[entry'[f]] # None
    BY <2>3 DEF Explained
  <2>5. ASSUME entry[f] # None, bytes'[entry'[f]] = Half
        PROVE  \E q \in Run : f \in AskedFor(q)' /\ (Writing(q, f)' \/ Excused(q)')
    <3>1. PICK q \in Run : f \in AskedFor(q) /\ (Writing(q, f) \/ Excused(q))
      BY <2>3, <2>5 DEF Explained
    <3> QED BY <1>0, <2>1, <2>5, <3>1
  <2>6. ASSUME entry[f] = None, Before[f] # None
        PROVE  \E q \in Run : f \in AskedFor(q)' /\ (Removing(q, f)' \/ Excused(q)')
    <3>1. PICK q \in Run : f \in AskedFor(q) /\ (Removing(q, f) \/ Excused(q))
      BY <2>6 DEF Explained
    <3> QED BY <1>0, <2>2, <2>6, <3>1
  <2> QED BY <2>3, <2>4, <2>5, <2>6 DEF Explained
<1> QED BY <1>1, <1>2, <1>3, <1>4, FileStep

LEMMA BlamedNext == IInv /\ Blamed /\ [Next]_vars => Blamed'
<1> SUFFICES ASSUME IInv, Blamed, [Next]_vars
             PROVE  Blamed'
  OBVIOUS
<1>1. CASE Next
  <2>1. PICK r \in Run : Any(r)
    BY <1>1 DEF Next, Any
  <2>2. oneFs' = oneFs
    BY <2>1, SiteStays DEF site
  <2> QED BY <2>1, <2>2, ExplainedNext DEF Blamed
<1>2. CASE UNCHANGED vars
  <2>1. /\ entry' = entry /\ bytes' = bytes /\ command' = command /\ oneFs' = oneFs
        /\ pc' = pc /\ turn' = turn /\ fd' = fd /\ failed' = failed
    BY <1>2 DEF vars, site
  <2>2. /\ \A q : AskedFor(q)' = AskedFor(q) /\ Excused(q)' = Excused(q)
        /\ \A q, f : Writing(q, f)' = Writing(q, f) /\ Removing(q, f)' = Removing(q, f)
    BY <2>1 DEF AskedFor, Inputs, Excused, Writing, Removing, Wanted, Input
  <2>3. \A f : Explained(f)' = Explained(f)
    BY <2>1, <2>2 DEF Explained
  <2> QED BY <2>1, <2>3 DEF Blamed
<1> QED BY <1>1, <1>2

(***************************************************************************)
(* On another file system, where `deliver` removes the old file and copies *)
(* the new one, a file that is missing or half written is one a run is at  *)
(* work on, or was when it was killed or failed.                           *)
(***************************************************************************)
THEOREM BrokenIsBlamed == Spec => []BrokenOutputsAreBlamed
<1>1. Init => Blamed
  <2> SUFFICES ASSUME Init, NEW f \in File
               PROVE  Explained(f)
    BY DEF Blamed
  <2>1. entry[f] = (IF Before[f] # None THEN f ELSE None) /\ bytes[f] = Before[f]
    BY DEF Init, Inode
  <2>2. f # None /\ Before[f] \in Whole \cup {None} /\ Half \notin Whole
    BY NoneApart, NamesApart, BuildsAssumption
  <2> QED BY <2>1, <2>2 DEF Explained
<1>2. Blamed => BrokenOutputsAreBlamed
  <2> SUFFICES ASSUME ~oneFs, NEW f \in File, Explained(f), Broken(f)
               PROVE  \E r \in Run :
                         /\ f \in AskedFor(r)
                         /\ \/ pc[r] \in {"opening", "writing", "ruling", "killed"}
                            \/ failed[r]
    BY DEF Blamed, BrokenOutputsAreBlamed
  <2>1. None # Half
    BY NamesApart
  <2> QED BY <2>1 DEF Explained, Broken, Read, Writing, Removing, Excused
<1> QED BY <1>1, <1>2, BlamedNext, DriverInvariant, PTL DEF Spec

-----------------------------------------------------------------------------
(***************************************************************************)
(* What `check_stamp` reads when the command line is read is what the link *)
(* hands to rustc, for any number of runs and any commands.  Between the   *)
(* two an object is read through three names: the user's, the one it is    *)
(* brought into the work directory by, and the one rustc finds it by.      *)
(***************************************************************************)

(* A run that is taking what it will link, and has taken an object that is *)
(* not in its work directory yet.                                          *)
Linking(r) ==
    /\ command[r].link
    /\ pc[r] \in {"input", "rustc", "rule", "ruling", "bring", "copying", "crates"}
Pending(r) == pc[r] \in {"bring", "copying"}
Holding == {"writing", "ruling", "copying", "loading"}
Needs(r, f) == \E j \in DOMAIN Inputs(r) : ~IsC(Inputs(r)[j]) /\ Inputs(r)[j].path = f

(* What is in an object a run has taken, wherever it is.                   *)
Awaited(r, k) == Pending(r) /\ k = Len(objects[r])
Content(r, k) == Read(IF Awaited(r, k) THEN Input(r).path ELSE objects[r][k].name)

(* Runs at work at the same time, one of which makes what the other links. *)
Overlaps ==
    \A r, w \in Run :
        Working(r) /\ (w = r \/ Working(w)) /\ Feeds(w, r) => r \in overlapped

(* An inode no run is writing, and that only a file the run links has.     *)
Safe(i, r) ==
    /\ i \in Inode
    /\ \A q \in Run : pc[q] \in Holding => fd[q] # i
    /\ \A f \in File : entry[f] = i => Needs(r, f)
Awaits(r) ==
    Pending(r) => Len(objects[r]) > 0 /\ objects[r][Len(objects[r])].name = Brought(r)
Guarded(r) ==
    \A k \in DOMAIN objects[r] : Awaited(r, k) \/ Safe(entry[objects[r][k].name], r)
(* What a run has noted of its objects is what is in them.                 *)
Agreed(r) ==
    /\ \A k \in DOMAIN objects[r] :
          /\ Says(Content(r, k)).crates = objects[r][k].crates
          /\ Content(r, k) \in Marked => Content(r, k).rustc = command[r].rustc
    /\ info[r].runtime <=> \E k \in DOMAIN objects[r] : Says(Content(r, k)).runtime
    /\ info[r].native <=> \E k \in DOMAIN objects[r] : Says(Content(r, k)).native
Loads(r) ==
    pc[r] = "crates" => \A k \in DOMAIN objects[r] :
        k < turn[r] /\ objects[r][k].crates # {} =>
            entry[<<r, "lib", k>>] = entry[objects[r][k].name]
Sound(r) == Awaits(r) /\ Guarded(r) /\ Agreed(r) /\ Loads(r)

Matched ==
    /\ \A r \in Run : pc[r] = "idle" => objects[r] = <<>> /\ info[r] = Nothing
    /\ (\A r \in Run : ~CratesClash(r)) =>
          \A r \in Run \ overlapped : Linking(r) => Sound(r)

-----------------------------------------------------------------------------
(* Only a run at work takes a step, and what overlapped has.               *)
LEMMA StepsWork ==
    ASSUME NEW r \in Run, Any(r), ~Start(r)
    PROVE  Working(r) /\ overlapped' = overlapped
BY DEF Any, Step, Compile, Deliver, Depend, TakeIn, Crates, Translate, RustcFails, CopyFails,
   NoRule, Check, AtInput, NotThere, InputsDone, NotACrate, AtObject, LinkFails, Kill, Working,
   Rustc, Rename, Unlink, CopyOut, CopiedOut, WriteRule, WroteRule, Bring, CopyIn, CopiedIn,
   LinkCrate, CopyCrate, CopiedCrate, Link, Drop

LEMMA OverlapStays ==
    ASSUME NEW r \in Run, Any(r)
    PROVE  overlapped \subseteq overlapped'
<1>1. CASE Start(r)
  BY <1>1 DEF Start
<1>2. CASE ~Start(r)
  BY <1>2, StepsWork
<1> QED BY <1>1, <1>2

LEMMA OverlapsNext ==
    ASSUME IInv, Overlaps, NEW r \in Run, Any(r)
    PROVE  Overlaps'
<1>1. command' = command
  BY SiteStays DEF site
<1>2. \A q, w : Feeds(w, q)' = Feeds(w, q)
  BY <1>1 DEF Feeds, AskedFor, Inputs
<1>3. \A q \in Run : q # r => Working(q)' = Working(q)
  BY OthersStay DEF Working, IInv
<1>4. ASSUME NEW q \in Run, NEW w \in Run, Working(q)', w = q \/ Working(w)', Feeds(w, q)
      PROVE  q \in overlapped'
  <2>1. CASE Start(r)
    <3>1. overlapped' = overlapped
             \cup {p \in Run : Working(p) /\ Feeds(r, p)}
             \cup {p \in {r} : \E v \in Run : (v = r \/ Working(v)) /\ Feeds(v, r)}
      BY <2>1 DEF Start
    <3>2. CASE q = r
      BY <1>3, <1>4, <3>1, <3>2
    <3>3. CASE q # r /\ w = r
      BY <1>3, <1>4, <3>1, <3>3
    <3>4. CASE q # r /\ w # r
      BY <1>3, <1>4, <3>1, <3>4 DEF Overlaps
    <3> QED BY <3>2, <3>3, <3>4
  <2>2. CASE ~Start(r)
    <3>1. Working(q) /\ (w = q \/ Working(w)) /\ overlapped' = overlapped
      BY <1>3, <1>4, <2>2, StepsWork
    <3> QED BY <1>4, <3>1 DEF Overlaps
  <2> QED BY <2>1, <2>2
<1> QED BY <1>2, <1>4 DEF Overlaps

(* No run at work is asked for what a run that overlaps no other links.    *)
LEMMA NoneFeeds ==
    ASSUME IInv, Overlaps, NEW r \in Run \ overlapped, Working(r),
           NEW q \in Run, Working(q), NEW f \in File, Needs(r, f)
    PROVE  f \notin AskedFor(q)
<1>1. ~Feeds(q, r)
  BY DEF Overlaps
<1>2. DOMAIN Inputs(r) = 1..Len(Inputs(r))
  BY CommandOf DEF IInv
<1> QED BY <1>1, <1>2 DEF Feeds, Needs

(* A name in a run's work directory is that run's alone.                   *)
LEMMA OwnNames ==
    ASSUME IInv, NEW r \in Run, Any(r), NEW n \in WorkFile, n[1] # r
    PROVE  entry'[n] = entry[n]
<1> USE DEF IInv
<1>0. entry \in [File \cup WorkFile -> Inode \cup {None}] /\ n \notin File
  BY PlacesOf DEF TypeOK
<1>1. CASE Quiet(r)
  BY <1>1, QuietLeaves
<1>2. CASE Rustc(r) \/ Link(r)
  <2>1. PICK o \in WorkFile : o[1] = r /\ entry' = [entry EXCEPT ![o] = o]
    BY <1>2, Creates
  <2> QED BY <1>0, <2>1
<1>3. CASE CopyOut(r) \/ WriteRule(r)
  <2>1. PICK f \in File, i \in Inode : entry' = [entry EXCEPT ![f] = i]
    BY <1>3, Opens
  <2> QED BY <1>0, <2>1
<1>4. CASE CopiedOut(r) \/ WroteRule(r) \/ CopiedIn(r) \/ CopiedCrate(r) \/ CopyCrate(r)
  BY <1>4, Fills, CopiesCrate
<1>5. CASE CopyIn(r)
  <2>1. PICK i \in WorkFile : i[1] = r /\ entry' = [entry EXCEPT ![i] = i]
    BY <1>5, CopiesIn
  <2> QED BY <1>0, <2>1
<1>6. CASE Rename(r)
  <2>1. PICK f \in File, w \in WorkFile :
           w[1] = r /\ entry' = [entry EXCEPT ![f] = w, ![w] = None]
    BY <1>6, Renames
  <2> QED BY <1>0, <2>1
<1>7. CASE Unlink(r)
  <2>1. PICK f \in File : entry' = [entry EXCEPT ![f] = None] \/ entry' = entry
    BY <1>7, Unlinks
  <2> QED BY <1>0, <2>1
<1>8. CASE Bring(r)
  <2>1. PICK m \in WorkFile, f \in File : m[1] = r /\ entry' = [entry EXCEPT ![m] = entry[f]]
    BY <1>8, Brings
  <2> QED BY <1>0, <2>1
<1>9. CASE LinkCrate(r)
  <2>1. PICK m \in WorkFile, s \in WorkFile : m[1] = r /\ entry' = [entry EXCEPT ![m] = entry[s]]
    BY <1>9, LinksCrate
  <2> QED BY <1>0, <2>1
<1>10. CASE Drop(r)
  BY <1>10, Drops
<1> QED BY <1>1, <1>2, <1>3, <1>4, <1>5, <1>6, <1>7, <1>8, <1>9, <1>10, AnyIs


-----------------------------------------------------------------------------
(* An object that is in the work directory stays there, and as it is.      *)
LEMMA SafeStays ==
    ASSUME IInv, Overlaps, NEW q \in Run, Any(q), \A p \in Run : ~CratesClash(p)',
           NEW r \in Run \ overlapped, Linking(r),
           NEW n \in {r} \X {"o", "in"} \X Place, Safe(entry[n], r)
    PROVE  /\ n \in WorkFile /\ entry'[n] = entry[n] /\ Read(n)' = Read(n)
           /\ Safe(entry[n], r)'
<1> USE DEF IInv
<1> DEFINE i == entry[n]
<1>0. /\ n \in WorkFile /\ n[1] = r /\ n[2] \in {"o", "in"} /\ n \notin File
      /\ i \in Inode /\ i # None /\ Used(i)
      /\ entry \in [File \cup WorkFile -> Inode \cup {None}]
      /\ bytes \in [Inode -> Whole \cup {None, Half}]
      /\ fd \in [Run -> Inode \cup {None}] /\ pc[r] \in Phase
  <2>1. n \in WorkFile
    BY DEF WorkFile
  <2> QED BY <2>1, PlacesOf, NoneApart DEF Safe, Used, TypeOK
<1>1. /\ \A p \in Run : pc[p] \in Holding => fd[p] # i
      /\ \A f \in File : entry[f] = i => Needs(r, f)
      /\ Working(r)
  BY DEF Safe, Linking, Working
<1>2. \A f : Needs(r, f)' = Needs(r, f)
  <2>1. command' = command
    BY SiteStays DEF site
  <2> QED BY <2>1 DEF Needs, Inputs
<1>3. \A p \in Run : p # q => pc'[p] = pc[p] /\ fd'[p] = fd[p]
  BY OthersStay
<1> HIDE DEF i
<1>4. SUFFICES /\ entry'[n] = i /\ bytes'[i] = bytes[i]
               /\ pc'[q] \in Holding => fd'[q] # i
               /\ \A f \in File : entry'[f] # i \/ entry[f] = i
  BY <1>0, <1>1, <1>2, <1>3 DEF Safe, Read, i
<1>5. CASE Quiet(q)
  BY <1>0, <1>5, QuietLeaves DEF i, Holding
<1>6. CASE Rustc(q) \/ Link(q)
  <2>1. PICK o \in WorkFile :
           /\ o \in Run \X {"o", "out"} \X Place /\ ~Used(o)
           /\ entry' = [entry EXCEPT ![o] = o]
           /\ \E c \in Whole : bytes' = [bytes EXCEPT ![o] = c]
           /\ fd' = fd
    BY <1>6, Creates
  <2>2. pc'[q] \notin Holding
    BY <1>6 DEF Rustc, Link, Goto, TypeOK, Holding
  <2>3. entry[o] \in {o, None}
    BY <2>1 DEF Homes
  <2>4. n # o /\ i # o
    BY <1>0, <2>1, <2>3 DEF i, Used
  <2> QED BY <1>0, <2>1, <2>2, <2>4, PlacesOf DEF i
<1>7. CASE CopyOut(q) \/ WriteRule(q)
  <2>1. PICK f \in File, new \in Run \X {"copy", "rule"} \X Place, j \in Inode :
           /\ ~Used(new)
           /\ j = (IF entry[f] = None THEN new ELSE entry[f])
           /\ entry' = [entry EXCEPT ![f] = j]
           /\ bytes' = [bytes EXCEPT ![j] = Half]
           /\ fd' = [fd EXCEPT ![q] = j]
           /\ f \in AskedFor(q)
    BY <1>7, Opens
  <2>2. Working(q)
    BY <1>7 DEF CopyOut, WriteRule, Working
  <2>3. j # i
    BY <1>0, <1>1, <2>1, <2>2, NoneFeeds
  <2> QED BY <1>0, <2>1, <2>3 DEF i
<1>8. CASE CopiedOut(q) \/ WroteRule(q) \/ CopiedIn(q) \/ CopiedCrate(q)
  <2>1. /\ entry' = entry /\ fd' = fd
        /\ \E c : bytes' = [bytes EXCEPT ![fd[q]] = c]
        /\ pc[q] \in Holding /\ pc'[q] \notin Holding
    BY <1>8, Fills DEF Holding
  <2> QED BY <1>0, <1>1, <2>1 DEF i
<1>9. CASE CopyIn(q)
  <2>1. PICK m \in WorkFile :
           /\ m \in Inode /\ ~Used(m) /\ entry[m] = None
           /\ entry' = [entry EXCEPT ![m] = m]
           /\ bytes' = [bytes EXCEPT ![m] = Half]
           /\ fd' = [fd EXCEPT ![q] = m]
    BY <1>9, CopiesIn
  <2> QED BY <1>0, <2>1, PlacesOf DEF i
<1>10. CASE CopyCrate(q)
  BY <1>10, CopiesCrate
<1>11. CASE Rename(q)
  <2>1. PICK f \in File, w \in WorkFile :
           /\ w \in Run \X {"o", "out"} \X Place /\ w[1] = q
           /\ \A m \in File \cup WorkFile : entry[m] = w => m = w
           /\ w = Written(q)
           /\ entry' = [entry EXCEPT ![f] = w, ![w] = None]
           /\ bytes' = bytes /\ fd' = fd
           /\ pc[q] = "deliver" /\ pc'[q] \in {"drop", "rule"}
    BY <1>11, Renames
  <2>2. n # w
    BY <1>0, <2>1 DEF Linking
  <2>3. i # w
    BY <1>0, <2>1, <2>2 DEF i
  <2> QED BY <1>0, <2>1, <2>2, <2>3 DEF i, Holding
<1>12. CASE Unlink(q)
  <2>1. PICK f \in File :
           /\ entry' = [entry EXCEPT ![f] = None] \/ entry' = entry
           /\ bytes' = bytes /\ pc'[q] = "opening"
    BY <1>12, Unlinks
  <2> QED BY <1>0, <2>1 DEF i, Holding
<1>13. CASE Bring(q)
  <2>1. PICK f \in File, m \in WorkFile :
           /\ entry[m] = None /\ entry' = [entry EXCEPT ![m] = entry[f]]
           /\ bytes' = bytes /\ pc'[q] = "input"
    BY <1>13, Brings
  <2> QED BY <1>0, <2>1, PlacesOf DEF i, Holding
<1>14. CASE LinkCrate(q)
  <2>1. PICK m \in WorkFile, s \in WorkFile :
           /\ entry[m] = None /\ entry' = [entry EXCEPT ![m] = entry[s]]
           /\ bytes' = bytes /\ pc' = pc /\ pc[q] = "crates"
    BY <1>14, LinksCrate
  <2> QED BY <1>0, <2>1, PlacesOf DEF i, Holding
<1>15. CASE Drop(q)
  <2>1. q # r
    BY <1>15 DEF Drop, Linking
  <2> QED BY <1>0, <1>15, <2>1, Drops DEF i, Holding
<1> QED BY <1>5, <1>6, <1>7, <1>8, <1>9, <1>10, <1>11, <1>12, <1>13, <1>14, <1>15, AnyIs

(* A file that a run has checked stays as it is till it is brought in.     *)
LEMMA InputStays ==
    ASSUME IInv, Overlaps, NEW q \in Run, Any(q), \A p \in Run : ~CratesClash(p)',
           NEW r \in Run \ overlapped, Linking(r), NEW f \in File, Needs(r, f)
    PROVE  Read(f)' = Read(f)
<1>1. SUFFICES ASSUME Read(f)' # Read(f)
               PROVE  FALSE
  OBVIOUS
<1>2. f \in AskedFor(q)
  BY <1>1, KeepsInputs, ClashStays
<1>3. ~Start(q)
  BY <1>1 DEF Start, Read
<1>4. Working(q) /\ Working(r)
  BY <1>3, StepsWork DEF Linking, Working
<1> QED BY <1>2, <1>4, NoneFeeds

LEMMA PendingIs ==
    ASSUME IInv, NEW r \in Run, Pending(r)
    PROVE  /\ Input(r).path \in File /\ Needs(r, Input(r).path)
           /\ turn[r] \in DOMAIN Inputs(r) /\ turn[r] \in Place
           /\ Brought(r) \in {r} \X {"in"} \X Place
<1>1. turn[r] \in DOMAIN Inputs(r) /\ ~IsC(Input(r))
  BY DEF IInv, Control, Where, AtOther, Pending
<1>2. Input(r).path \in File /\ turn[r] \in Place
  BY <1>1, CommandOf, BuildsAssumption DEF IInv, Input, Place
<1> QED BY <1>1, <1>2 DEF Needs, Input, Brought

(* What is in the work directory is as it was, by the name it had.         *)
LEMMA OlderStay ==
    ASSUME IInv, Overlaps, NEW q \in Run, Any(q), \A p \in Run : ~CratesClash(p)',
           NEW r \in Run \ overlapped, Linking(r), Guarded(r),
           NEW k \in DOMAIN objects[r], ~Awaited(r, k), ~Awaited(r, k)',
           objects'[r][k] = objects[r][k]
    PROVE  /\ Content(r, k)' = Content(r, k)
           /\ entry'[objects[r][k].name] = entry[objects[r][k].name]
           /\ Safe(entry[objects[r][k].name], r)'
<1>1. PICK n : n = objects[r][k].name
  OBVIOUS
<1>2. n \in {r} \X {"o", "in"} \X Place
  BY <1>1 DEF IInv, Control, Taken
<1>3. Safe(entry[n], r)
  BY <1>1 DEF Guarded
<1>4. entry'[n] = entry[n] /\ Read(n)' = Read(n) /\ Safe(entry[n], r)'
  BY <1>2, <1>3, SafeStays
<1>5. objects'[r][k].name = n
  BY <1>1
<1>6. Content(r, k) = Read(n)
  BY <1>1 DEF Content
<1>7. Content(r, k)' = Read(n)'
  BY <1>5 DEF Content, Read
<1>8. entry'[objects[r][k].name] = entry[objects[r][k].name] /\ Safe(entry[objects[r][k].name], r)'
  BY <1>1, <1>4, <1>5 DEF Safe
<1> QED BY <1>4, <1>6, <1>7, <1>8

(* What a run has taken has not changed after a step that leaves what it   *)
(* has taken and where it is.                                              *)
LEMMA ContentStays ==
    ASSUME IInv, Overlaps, NEW q \in Run, Any(q), \A p \in Run : ~CratesClash(p)',
           NEW r \in Run \ overlapped, Linking(r), Guarded(r),
           objects'[r] = objects[r], Pending(r)' <=> Pending(r),
           Pending(r) => turn'[r] = turn[r],
           NEW k \in DOMAIN objects[r]
    PROVE  /\ Content(r, k)' = Content(r, k)
           /\ Awaited(r, k)' = Awaited(r, k)
           /\ ~Awaited(r, k) => /\ entry'[objects[r][k].name] = entry[objects[r][k].name]
                                /\ Safe(entry[objects[r][k].name], r)'
<1>1. Awaited(r, k)' = Awaited(r, k)
  BY DEF Awaited
<1>2. CASE Awaited(r, k)
  <2>1. command' = command /\ Pending(r) /\ Pending(r)'
    BY <1>2, SiteStays DEF site, Awaited
  <2>2. Input(r)' = Input(r)
    BY <2>1 DEF Input, Inputs
  <2>3. PICK f : f = Input(r).path
    OBVIOUS
  <2>4. Read(f)' = Read(f)
    BY <2>1, <2>3, PendingIs, InputStays
  <2>5. Input(r)'.path = f
    BY <2>2, <2>3
  <2>6. Content(r, k) = Read(f)
    BY <1>2, <2>3 DEF Content
  <2>7. Content(r, k)' = Read(f)'
    BY <1>1, <1>2, <2>5 DEF Content, Read
  <2> QED BY <1>1, <1>2, <2>4, <2>6, <2>7
<1>3. CASE ~Awaited(r, k)
  BY <1>1, <1>3, OlderStay
<1> QED BY <1>2, <1>3


-----------------------------------------------------------------------------
(* What a run has noted stays true of what has not changed.                *)
LEMMA AgreedStays ==
    ASSUME NEW r \in Run, Agreed(r), command' = command,
           objects'[r] = objects[r], info'[r] = info[r],
           \A k \in DOMAIN objects[r] : Content(r, k)' = Content(r, k)
    PROVE  Agreed(r)'
<1>1. \A k \in DOMAIN objects[r] : Says(Content(r, k))' = Says(Content(r, k))
  BY DEF Says, Foreign
<1>2. /\ \A k \in DOMAIN objects'[r] :
            /\ Says(Content(r, k))'.crates = objects'[r][k].crates
            /\ Content(r, k)' \in Marked => Content(r, k)'.rustc = command'[r].rustc
      /\ info'[r].runtime <=> \E k \in DOMAIN objects'[r] : Says(Content(r, k))'.runtime
      /\ info'[r].native <=> \E k \in DOMAIN objects'[r] : Says(Content(r, k))'.native
  BY <1>1 DEF Agreed
<1> QED BY <1>2 DEF Agreed

(* It stays true of one object more, when what that one says is added.     *)
LEMMA AgreedTakes ==
    ASSUME IInv, NEW r \in Run, Agreed(r), command' = command,
           NEW name \in WorkFile, NEW c, Take(r, name, Says(c)),
           c \in Marked => c.rustc = command[r].rustc,
           \A k \in DOMAIN objects[r] : Content(r, k)' = Content(r, k),
           NEW n, n = Len(objects[r]) + 1, Content(r, n)' = c
    PROVE  Agreed(r)'
<1>1. /\ objects'[r] = Append(objects[r], [name |-> name, crates |-> Says(c).crates])
      /\ info'[r] = Add(info[r], Says(c))
      /\ objects[r] \in Seq(Part)
  BY SaysTyped, TakeTyped DEF Take, IInv, TypeOK
<1>2. /\ DOMAIN objects'[r] = DOMAIN objects[r] \cup {n}
      /\ n \notin DOMAIN objects[r]
      /\ \A k \in DOMAIN objects[r] : objects'[r][k] = objects[r][k]
      /\ objects'[r][n].crates = Says(c).crates
  BY <1>1
<1>3. /\ \A k \in DOMAIN objects[r] : Says(Content(r, k))' = Says(Content(r, k))
      /\ Says(Content(r, n))' = Says(c)
  BY DEF Says, Foreign
<1>4. /\ info'[r].runtime = (info[r].runtime \/ Says(c).runtime)
      /\ info'[r].native = (info[r].native \/ Says(c).native)
  BY <1>1 DEF Add
<1>5. \A k \in DOMAIN objects'[r] :
         /\ Says(Content(r, k))'.crates = objects'[r][k].crates
         /\ Content(r, k)' \in Marked => Content(r, k)'.rustc = command'[r].rustc
  <2> SUFFICES ASSUME NEW k \in DOMAIN objects'[r]
               PROVE  /\ Says(Content(r, k))'.crates = objects'[r][k].crates
                      /\ Content(r, k)' \in Marked => Content(r, k)'.rustc = command'[r].rustc
    OBVIOUS
  <2>1. CASE k = n
    BY <1>2, <1>3, <2>1
  <2>2. CASE k \in DOMAIN objects[r]
    BY <1>2, <1>3, <2>2 DEF Agreed
  <2> QED BY <1>2, <2>1, <2>2
<1>6. info'[r].runtime <=> \E k \in DOMAIN objects'[r] : Says(Content(r, k))'.runtime
  <2>1. info'[r].runtime <=> info[r].runtime \/ Says(c).runtime
    BY <1>4
  <2>2. info[r].runtime <=> \E k \in DOMAIN objects[r] : Says(Content(r, k)).runtime
    BY DEF Agreed
  <2>3. (\E k \in DOMAIN objects'[r] : Says(Content(r, k))'.runtime)
           <=> (\E k \in DOMAIN objects[r] : Says(Content(r, k)).runtime) \/ Says(c).runtime
    BY <1>2, <1>3
  <2> QED BY <2>1, <2>2, <2>3
<1>7. info'[r].native <=> \E k \in DOMAIN objects'[r] : Says(Content(r, k))'.native
  <2>1. info'[r].native <=> info[r].native \/ Says(c).native
    BY <1>4
  <2>2. info[r].native <=> \E k \in DOMAIN objects[r] : Says(Content(r, k)).native
    BY DEF Agreed
  <2>3. (\E k \in DOMAIN objects'[r] : Says(Content(r, k))'.native)
           <=> (\E k \in DOMAIN objects[r] : Says(Content(r, k)).native) \/ Says(c).native
    BY <1>2, <1>3
  <2> QED BY <2>1, <2>2, <2>3
<1> QED BY <1>5, <1>6, <1>7 DEF Agreed

LEMMA SoundOthers ==
    ASSUME IInv, Overlaps, NEW q \in Run, Any(q), \A p \in Run : ~CratesClash(p)',
           NEW r \in Run \ overlapped, r # q, Linking(r), Sound(r)
    PROVE  Sound(r)'
<1>1. /\ pc'[r] = pc[r] /\ turn'[r] = turn[r] /\ objects'[r] = objects[r]
      /\ info'[r] = info[r] /\ command' = command
  BY OthersStay, SiteStays DEF IInv, site
<1>2. Pending(r)' <=> Pending(r)
  BY <1>1 DEF Pending
<1>3. \A k \in DOMAIN objects[r] :
         /\ Content(r, k)' = Content(r, k)
         /\ Awaited(r, k)' = Awaited(r, k)
         /\ ~Awaited(r, k) => /\ entry'[objects[r][k].name] = entry[objects[r][k].name]
                              /\ Safe(entry[objects[r][k].name], r)'
  BY <1>1, <1>2, ContentStays DEF Sound
<1>4. Awaits(r)'
  BY <1>1, <1>2 DEF Sound, Awaits, Brought
<1>5. Guarded(r)'
  BY <1>1, <1>3 DEF Guarded
<1>6. Agreed(r)'
  BY <1>1, <1>3, AgreedStays DEF Sound
<1>7. Loads(r)'
  <2> SUFFICES ASSUME pc[r] = "crates", NEW k \in DOMAIN objects[r],
                      k < turn[r], objects[r][k].crates # {}
               PROVE  entry'[<<r, "lib", k>>] = entry'[objects[r][k].name]
    BY <1>1 DEF Loads
  <2>1. entry[<<r, "lib", k>>] = entry[objects[r][k].name]
    BY DEF Sound, Loads
  <2>2. k \in Place
    BY BuildsAssumption DEF IInv, Control, Taken, TypeOK, Place
  <2>3. <<r, "lib", k>> \in WorkFile
    BY <2>2 DEF WorkFile
  <2>4. entry'[<<r, "lib", k>>] = entry[<<r, "lib", k>>]
    BY <2>3, OwnNames
  <2>5. ~Awaited(r, k)
    BY DEF Awaited, Pending
  <2> QED BY <1>3, <2>1, <2>4, <2>5
<1> QED BY <1>4, <1>5, <1>6, <1>7 DEF Sound

-----------------------------------------------------------------------------
(* The steps of a run that neither take an object nor bring one in.        *)
LEMMA SoundSame ==
    ASSUME IInv, Overlaps, NEW r \in Run \ overlapped, Any(r), \A p \in Run : ~CratesClash(p)',
           Linking(r), Linking(r)', Sound(r),
           objects'[r] = objects[r], info'[r] = info[r],
           Pending(r)' <=> Pending(r), Pending(r) => turn'[r] = turn[r],
           Loads(r)'
    PROVE  Sound(r)'
<1>1. command' = command
  BY SiteStays DEF site
<1>2. \A k \in DOMAIN objects[r] :
         /\ Content(r, k)' = Content(r, k)
         /\ Awaited(r, k)' = Awaited(r, k)
         /\ ~Awaited(r, k) => /\ entry'[objects[r][k].name] = entry[objects[r][k].name]
                              /\ Safe(entry[objects[r][k].name], r)'
  BY ContentStays DEF Sound
<1>3. Awaits(r)'
  BY DEF Sound, Awaits, Brought
<1>4. Guarded(r)'
  BY <1>2 DEF Guarded
<1>5. Agreed(r)'
  BY <1>1, <1>2, AgreedStays DEF Sound
<1> QED BY <1>3, <1>4, <1>5 DEF Sound


(* An object rustc has made is the run's own, and says what was noted.     *)
LEMMA SoundRustc ==
    ASSUME IInv, Overlaps, NEW r \in Run \ overlapped, Rustc(r), \A p \in Run : ~CratesClash(p)',
           Linking(r), Sound(r)
    PROVE  Sound(r)'
<1> USE DEF IInv
<1> DEFINE o == Object(r)
<1>0. /\ Any(r) /\ command[r].link /\ command' = command /\ pc'[r] = "rule" /\ pc[r] = "rustc"
      /\ objects[r] \in Seq(Part) /\ fd' = fd
  BY DEF Any, Step, Compile, Linking, Rustc, Goto, TypeOK, site
<1>1. /\ o \in WorkFile /\ o \in Inode /\ ~Used(o) /\ Made(r) \in Whole /\ o # None
  <2>1. /\ Made(r) \in Whole /\ Object(r) \in WorkFile /\ Object(r) \in Inode
    BY <1>0, MadeTyped
  <2>2. ~Came(Object(r))
    BY <1>0 DEF Came, Passed, Past, Object, Delivering, TypeOK
  <2> QED BY <2>1, <2>2, PlacesOf, NoneApart DEF NoneAhead
<1>2. /\ entry' = [entry EXCEPT ![o] = o] /\ bytes' = [bytes EXCEPT ![o] = Made(r)]
      /\ Take(r, o, Says(Made(r)))
  BY <1>0 DEF Rustc
<1>3. PICK n : n = Len(objects[r]) + 1
  OBVIOUS
<1>4. objects'[r] = Append(objects[r], [name |-> o, crates |-> Says(Made(r)).crates])
  BY <1>1, <1>2, SaysTyped, TakeTyped
<1>5. /\ DOMAIN objects'[r] = DOMAIN objects[r] \cup {n} /\ n \notin DOMAIN objects[r]
      /\ \A k \in DOMAIN objects[r] : objects'[r][k] = objects[r][k]
      /\ objects'[r][n].name = o
  BY <1>0, <1>3, <1>4
<1>6. PICK w : w = o
  OBVIOUS
<1>7. \A k : ~Awaited(r, k) /\ ~Awaited(r, k)'
  BY <1>0 DEF Awaited, Pending
<1>8. \A k \in DOMAIN objects[r] :
         Content(r, k)' = Content(r, k) /\ Safe(entry[objects[r][k].name], r)'
  BY <1>0, <1>5, <1>7, OlderStay DEF Sound
<1>9. entry'[w] = w /\ bytes'[w] = Made(r) /\ w # None
  BY <1>1, <1>2, <1>6 DEF TypeOK
<1>10. Content(r, n)' = Made(r)
  BY <1>5, <1>6, <1>7, <1>9 DEF Content, Read
<1>11. Safe(w, r)'
  <2>1. \A f \in File : entry'[f] = entry[f]
    BY <1>1, <1>2, PlacesOf DEF TypeOK
  <2> QED BY <1>0, <1>1, <1>6, <2>1 DEF Safe, Used
<1>12. Guarded(r)'
  <2>1. Safe(entry[objects[r][n].name], r)'
    BY <1>5, <1>6, <1>9, <1>11 DEF Safe
  <2>2. \A k \in DOMAIN objects'[r] : Safe(entry[objects[r][k].name], r)'
    BY <1>5, <1>8, <2>1
  <2> QED BY <2>2 DEF Guarded
<1>13. Agreed(r)'
  <2>1. Made(r).rustc = command[r].rustc
    BY DEF Made
  <2> QED BY <1>0, <1>1, <1>2, <1>3, <1>8, <1>10, <2>1, AgreedTakes DEF Sound
<1>14. Awaits(r)' /\ Loads(r)'
  BY <1>0 DEF Awaits, Pending, Loads
<1> QED BY <1>12, <1>13, <1>14 DEF Sound

(* An object that was checked is noted for what it says.                   *)
LEMMA SoundCheck ==
    ASSUME IInv, Overlaps, NEW r \in Run \ overlapped, Check(r), \A p \in Run : ~CratesClash(p)',
           Linking(r), Linking(r)', Sound(r)
    PROVE  Sound(r)'
<1> USE DEF IInv
<1> DEFINE f == Input(r).path
<1> DEFINE b == Brought(r)
<1> DEFINE seen == Read(f)
<1>0. /\ Any(r) /\ command' = command /\ pc'[r] = "bring" /\ pc[r] = "input"
      /\ objects[r] \in Seq(Part) /\ turn' = turn /\ entry' = entry /\ bytes' = bytes
      /\ Foreign(seen) \/ seen.rustc = command[r].rustc
      /\ Take(r, b, Says(seen))
  BY DEF Any, Step, TakeIn, Linking, Check, AtInput, Fail, Goto, TypeOK, site
<1>1. b \in WorkFile
  <2>1. turn[r] \in Place
    BY CommandOf, BuildsAssumption DEF Check, AtInput, Place, TypeOK
  <2> QED BY <2>1 DEF Brought, WorkFile
<1>2. PICK n : n = Len(objects[r]) + 1
  OBVIOUS
<1>3. objects'[r] = Append(objects[r], [name |-> b, crates |-> Says(seen).crates])
  BY <1>0, <1>1, SaysTyped, TakeTyped
<1>4. /\ DOMAIN objects'[r] = DOMAIN objects[r] \cup {n} /\ n \notin DOMAIN objects[r]
      /\ \A k \in DOMAIN objects[r] : objects'[r][k] = objects[r][k]
      /\ objects'[r][n].name = b /\ Len(objects'[r]) = n /\ n > 0
  BY <1>0, <1>2, <1>3
<1>5. /\ \A k : ~Awaited(r, k)
      /\ \A k : Awaited(r, k)' <=> k = n
  BY <1>0, <1>4 DEF Awaited, Pending
<1>6. \A k \in DOMAIN objects[r] :
         Content(r, k)' = Content(r, k) /\ Safe(entry[objects[r][k].name], r)'
  BY <1>0, <1>4, <1>5, OlderStay DEF Sound
<1>7. PICK c : c = seen
  OBVIOUS
<1>8. Content(r, n)' = c
  <2>1. Input(r)' = Input(r)
    BY <1>0 DEF Input, Inputs
  <2>2. PICK g : g = f
    OBVIOUS
  <2>3. Input(r)'.path = g
    BY <2>1, <2>2
  <2>4. Content(r, n)' = Read(g)'
    BY <1>5, <2>3 DEF Content, Read
  <2>5. Read(g)' = Read(g)
    BY <1>0 DEF Read
  <2> QED BY <1>7, <2>2, <2>4, <2>5
<1>9. Guarded(r)'
  BY <1>4, <1>5, <1>6 DEF Guarded
<1>10. Agreed(r)'
  <2>1. Take(r, b, Says(c)) /\ (c \in Marked => c.rustc = command[r].rustc)
    BY <1>0, <1>7 DEF Foreign
  <2> QED BY <1>0, <1>1, <1>2, <1>6, <1>8, <2>1, AgreedTakes DEF Sound
<1>11. Awaits(r)' /\ Loads(r)'
  <2>1. Brought(r)' = Brought(r)
    BY <1>0 DEF Brought
  <2> QED BY <1>0, <1>4, <2>1 DEF Awaits, Loads
<1> QED BY <1>9, <1>10, <1>11 DEF Sound


(* What was checked is what is brought in.                                 *)
LEMMA SoundBrought ==
    ASSUME IInv, Overlaps, NEW r \in Run \ overlapped, Any(r), \A p \in Run : ~CratesClash(p)',
           Linking(r), Sound(r), Pending(r), pc'[r] = "input",
           objects'[r] = objects[r], info'[r] = info[r],
           NEW b, b = Brought(r), Read(b)' = Read(Input(r).path), Safe(entry[b], r)'
    PROVE  Sound(r)'
<1>0. /\ command' = command /\ objects[r] \in Seq(Part)
      /\ \A k : ~Awaited(r, k)'
  BY SiteStays DEF site, IInv, TypeOK, Awaited, Pending
<1>1. PICK n \in DOMAIN objects[r] : n = Len(objects[r]) /\ objects[r][n].name = b
  BY <1>0 DEF Sound, Awaits
<1>2. ASSUME NEW k \in DOMAIN objects[r], k # n
      PROVE  Content(r, k)' = Content(r, k) /\ Safe(entry[objects[r][k].name], r)'
  <2>1. ~Awaited(r, k)
    BY <1>1, <1>2 DEF Awaited
  <2> QED BY <1>0, <2>1, OlderStay DEF Sound
<1>3. Content(r, n)' = Content(r, n) /\ Safe(entry[objects[r][n].name], r)'
  <2>1. Content(r, n) = Read(Input(r).path)
    BY <1>1 DEF Content, Awaited
  <2>2. objects'[r][n].name = b
    BY <1>1
  <2>3. Content(r, n)' = Read(b)'
    BY <1>0, <2>2 DEF Content, Read
  <2>4. Safe(entry[objects[r][n].name], r)'
    BY <2>2 DEF Safe
  <2> QED BY <2>1, <2>3, <2>4
<1>4. Guarded(r)'
  <2>1. \A k \in DOMAIN objects'[r] : Safe(entry[objects[r][k].name], r)'
    BY <1>2, <1>3
  <2> QED BY <2>1 DEF Guarded
<1>5. Agreed(r)'
  BY <1>0, <1>2, <1>3, AgreedStays DEF Sound
<1>6. Awaits(r)' /\ Loads(r)'
  BY DEF Awaits, Pending, Loads
<1> QED BY <1>4, <1>5, <1>6 DEF Sound

LEMMA SoundBring ==
    ASSUME IInv, Overlaps, NEW r \in Run \ overlapped, Bring(r), \A p \in Run : ~CratesClash(p)',
           Linking(r), Sound(r)
    PROVE  Sound(r)'
<1> USE DEF IInv
<1>1. /\ Any(r) /\ Pending(r) /\ Working(r) /\ objects' = objects /\ info' = info
      /\ pc'[r] = "input" /\ \A p \in Run : p # r => pc'[p] = pc[p]
      /\ command' = command
  BY DEF Any, Step, TakeIn, Bring, Pending, Working, NextInput, Goto, TypeOK, site
<1>2. PICK f \in File, b \in WorkFile :
         /\ f = Input(r).path /\ b = Brought(r)
         /\ entry[f] # None /\ oneFs /\ entry' = [entry EXCEPT ![b] = entry[f]]
         /\ bytes' = bytes /\ fd' = fd
  BY Brings
<1>3. PICK i \in Inode : i = entry[f]
  BY <1>2 DEF TypeOK
<1>4. entry'[b] = i /\ \A g \in File : entry'[g] = entry[g]
  BY <1>2, <1>3, PlacesOf DEF TypeOK
<1>5. Read(b)' = Read(f)
  BY <1>2, <1>3, <1>4 DEF Read
<1>6. Needs(r, f)
  BY <1>1, <1>2, PendingIs
<1>7. ASSUME NEW q \in Run, pc[q] \in Holding
      PROVE  fd[q] # i
  <2>1. CASE pc[q] \in {"writing", "copying"}
    BY <1>2, <2>1 DEF Control, Where
  <2>2. CASE pc[q] = "loading"
    <3>1. CratesClash(q)
      BY <2>2 DEF Control, Where
    <3> QED BY <1>1, <3>1, ClashStays
  <2>3. CASE pc[q] = "ruling"
    <3>1. fd[q] = i => f \in AskedFor(q)
      BY <1>3, <2>3, RulesAre DEF Hands, Target
    <3>2. Working(q)
      BY <2>3 DEF Working
    <3> QED BY <1>1, <1>6, <3>1, <3>2, NoneFeeds
  <2> QED BY <1>7, <2>1, <2>2, <2>3 DEF Holding
<1>8. Safe(i, r)'
  <2>1. \A q \in Run : pc'[q] \in Holding => fd'[q] # i
    BY <1>1, <1>2, <1>7 DEF Holding
  <2>2. \A g \in File : entry'[g] = i => g = f
    BY <1>2, <1>3, <1>4 DEF FilesApart
  <2>3. Needs(r, f)'
    BY <1>1, <1>6 DEF Needs, Inputs
  <2> QED BY <2>1, <2>2, <2>3 DEF Safe
<1>9. Safe(entry[b], r)'
  BY <1>4, <1>8 DEF Safe
<1> QED BY <1>1, <1>2, <1>5, <1>9, SoundBrought

LEMMA SoundCopied ==
    ASSUME IInv, Overlaps, NEW r \in Run \ overlapped, CopiedIn(r), \A p \in Run : ~CratesClash(p)',
           Linking(r), Sound(r)
    PROVE  Sound(r)'
<1> USE DEF IInv
<1>1. /\ Any(r) /\ Pending(r) /\ objects' = objects /\ info' = info /\ pc[r] = "copying"
      /\ pc'[r] = "input" /\ \A p \in Run : p # r => pc'[p] = pc[p]
      /\ command' = command /\ entry' = entry /\ fd' = fd
      /\ bytes' = [bytes EXCEPT ![fd[r]] = Read(Input(r).path)]
  BY DEF Any, Step, TakeIn, CopiedIn, Fill, Pending, NextInput, Goto, TypeOK, site
<1>2. PICK b \in Run \X {"in"} \X Place : b = <<r, "in", turn[r]>> /\ b \in WorkFile /\ b \in Inode
  <2>1. turn[r] \in Place
    BY <1>1, PendingIs
  <2>2. /\ <<r, "in", turn[r]>> \in WorkFile
        /\ <<r, "in", turn[r]>> \in Inode
    BY <2>1 DEF WorkFile, Inode
  <2> QED BY <2>1, <2>2
<1>3. fd[r] = b /\ entry[b] = b /\ b = Brought(r) /\ ~oneFs /\ b # None
  BY <1>1, <1>2, NoneApart DEF Hands, Brought, Control, Where
<1>4. Read(b)' = Read(Input(r).path)
  BY <1>1, <1>2, <1>3 DEF Read, TypeOK
<1>5. ASSUME NEW q \in Run, q # r, pc[q] \in Holding
      PROVE  fd[q] # b
  <2>1. CASE pc[q] \in {"writing", "ruling"}
    <3>1. b \notin UserInode
      BY <1>2, PlacesOf DEF UserInode
    <3> QED BY <2>1, <3>1 DEF Hands
  <2>2. CASE pc[q] = "loading"
    <3>1. CratesClash(q)
      BY <2>2 DEF Control, Where
    <3> QED BY <1>1, <3>1, ClashStays
  <2>3. CASE pc[q] = "copying"
    <3>1. fd[q] = <<q, "in", turn[q]>>
      BY <2>3 DEF Hands, Brought
    <3> QED BY <1>2, <1>5, <3>1
  <2> QED BY <1>5, <2>1, <2>2, <2>3 DEF Holding
<1>6. \A f \in File : entry[f] # b
  BY <1>2, <1>3 DEF Apart, OwnInode
<1>7. Safe(entry[b], r)'
  <2>1. Safe(b, r)'
    BY <1>1, <1>2, <1>5, <1>6 DEF Safe, Holding
  <2> QED BY <1>1, <1>3, <2>1 DEF Safe
<1> QED BY <1>1, <1>3, <1>4, <1>7, SoundBrought

(* A crate is found by a name for the object that was checked.             *)
LEMMA SoundCrate ==
    ASSUME IInv, Overlaps, NEW r \in Run \ overlapped, LinkCrate(r), \A p \in Run : ~CratesClash(p)',
           Linking(r), Sound(r)
    PROVE  Sound(r)'
<1> USE DEF IInv
<1>1. /\ Any(r) /\ objects' = objects /\ info' = info /\ pc' = pc /\ pc[r] = "crates"
      /\ turn'[r] = turn[r] + 1 /\ turn[r] \in DOMAIN objects[r] /\ turn[r] \in Nat
      /\ Loaded(r).crates # {}
      /\ entry[Library(r, turn[r])] = None
      /\ entry' = [entry EXCEPT ![Library(r, turn[r])] = entry[Loaded(r).name]]
  BY DEF Any, Step, Crates, LinkCrate, AtObject, NextObject, TypeOK
<1>2. PICK k : k = turn[r]
  OBVIOUS
<1>3. PICK j \in 1..k :
         /\ Library(r, k) = <<r, "lib", j>>
         /\ j \in DOMAIN objects[r] /\ objects[r][j].crates = objects[r][k].crates
         /\ Library(r, k) \in WorkFile
  BY <1>1, <1>2, FirstOfCrate DEF Control, Taken
<1>4. j = k
  <2>1. ~CratesClash(r)
    BY <1>1, ClashStays
  <2> QED BY <1>1, <1>2, <1>3, <2>1 DEF CratesClash, Loaded
<1>5. PICK lib \in WorkFile : lib = <<r, "lib", k>>
  BY <1>3, <1>4
<1>6. /\ entry' = [entry EXCEPT ![lib] = entry[objects[r][k].name]]
      /\ \A m \in DOMAIN objects[r] : objects[r][m].name # lib
      /\ \A m \in Nat : m # k => <<r, "lib", m>> # lib
      /\ \A m \in DOMAIN objects[r] : objects[r][m].name \in WorkFile
      /\ DOMAIN objects[r] \subseteq Nat
  <2>1. \A m \in DOMAIN objects[r] : objects[r][m].name \in {r} \X {"o", "in"} \X Place
    BY DEF Control, Taken
  <2>2. \A m \in DOMAIN objects[r] : objects[r][m].name \in WorkFile
    BY <2>1 DEF WorkFile
  <2>3. DOMAIN objects[r] \subseteq Nat
    BY DEF TypeOK
  <2> QED BY <1>1, <1>2, <1>3, <1>4, <1>5, <2>1, <2>2, <2>3 DEF Loaded
<1>7. Loads(r)'
  <2> SUFFICES ASSUME NEW m \in DOMAIN objects[r], m < turn'[r], objects[r][m].crates # {}
               PROVE  entry'[<<r, "lib", m>>] = entry'[objects[r][m].name]
    BY <1>1 DEF Loads
  <2>1. entry'[objects[r][m].name] = entry[objects[r][m].name]
    BY <1>6 DEF TypeOK
  <2>2. CASE m = k
    BY <1>5, <1>6, <2>1, <2>2 DEF TypeOK
  <2>3. CASE m # k
    <3>1. m < turn[r] /\ m \in Nat
      BY <1>1, <1>2, <1>6, <2>3
    <3>2. entry[<<r, "lib", m>>] = entry[objects[r][m].name]
      BY <1>1, <3>1 DEF Sound, Loads
    <3>3. m \in Place
      BY <3>1, BuildsAssumption DEF Control, Taken, TypeOK, Place
    <3>4. entry'[<<r, "lib", m>>] = entry[<<r, "lib", m>>]
      BY <1>6, <2>3, <3>1, <3>3 DEF TypeOK, WorkFile
    <3> QED BY <2>1, <3>2, <3>4
  <2> QED BY <2>2, <2>3
<1>8. Linking(r)' /\ (Pending(r)' <=> Pending(r)) /\ ~Pending(r)
  <2>1. command' = command
    BY <1>1, SiteStays DEF site
  <2> QED BY <1>1, <2>1 DEF Linking, Pending
<1> QED BY <1>1, <1>7, <1>8, SoundSame


LEMMA SoundOwn ==
    ASSUME IInv, Overlaps, NEW r \in Run \ overlapped, Any(r), \A p \in Run : ~CratesClash(p)',
           Linking(r), Linking(r)', Sound(r)
    PROVE  Sound(r)'
<1> USE DEF IInv
<1>1. /\ pc[r] \in {"input", "rustc", "rule", "ruling", "bring", "copying", "crates"}
      /\ pc'[r] \in {"input", "rustc", "rule", "ruling", "bring", "copying", "crates"}
  BY DEF Linking
<1>2. CASE Translate(r) \/ NoRule(r) \/ WriteRule(r) \/ WroteRule(r)
  <2>1. /\ objects' = objects /\ info' = info
        /\ pc[r] \in {"input", "rule", "ruling"} /\ pc'[r] \in {"input", "rustc", "ruling"}
    BY <1>1, <1>2 DEF Translate, AtInput, NoRule, WriteRule, WroteRule, NextInput, Fail, Goto,
       TypeOK
  <2>2. ~Pending(r) /\ ~Pending(r)' /\ Loads(r)'
    BY <2>1 DEF Pending, Loads
  <2> QED BY <2>1, <2>2, SoundSame
<1>3. CASE InputsDone(r)
  <2>1. /\ objects' = objects /\ info' = info
        /\ pc[r] = "input" /\ pc'[r] = "crates" /\ turn'[r] = 1
    BY <1>1, <1>3 DEF InputsDone, Goto, TypeOK
  <2>2. DOMAIN objects[r] \subseteq Nat \ {0}
    BY DEF TypeOK
  <2>3. ~Pending(r) /\ ~Pending(r)' /\ Loads(r)'
    BY <2>1, <2>2 DEF Pending, Loads
  <2> QED BY <2>1, <2>3, SoundSame
<1>4. CASE NotACrate(r)
  <2>1. /\ objects' = objects /\ info' = info /\ entry' = entry /\ pc' = pc
        /\ pc[r] = "crates" /\ turn'[r] = turn[r] + 1 /\ turn[r] \in Nat
        /\ objects[r][turn[r]].crates = {}
    BY <1>4 DEF NotACrate, AtObject, Loaded, NextObject, TypeOK
  <2>2. DOMAIN objects[r] \subseteq Nat
    BY DEF TypeOK
  <2>3. \A k \in DOMAIN objects[r] :
           k < turn[r] + 1 /\ objects[r][k].crates # {} => k < turn[r]
    BY <2>1, <2>2
  <2>4. ~Pending(r) /\ ~Pending(r)' /\ Loads(r)'
    BY <2>1, <2>3 DEF Pending, Sound, Loads
  <2> QED BY <2>1, <2>4, SoundSame
<1>5. CASE CopyIn(r)
  <2>1. objects' = objects /\ info' = info /\ turn' = turn /\ pc'[r] = "copying" /\ pc[r] = "bring"
    BY <1>5 DEF CopyIn, Goto, TypeOK
  <2>2. Pending(r) /\ Pending(r)' /\ Loads(r)'
    BY <2>1 DEF Pending, Loads
  <2> QED BY <2>1, <2>2, SoundSame
<1>6. CASE RustcFails(r) \/ CopyFails(r) \/ NotThere(r) \/ LinkFails(r) \/ Kill(r) \/ Link(r)
  BY <1>1, <1>6 DEF RustcFails, CopyFails, NotThere, LinkFails, Kill, Link, Fail, Goto, TypeOK
<1>7. CASE Start(r) \/ Rename(r) \/ Unlink(r) \/ CopyOut(r) \/ CopiedOut(r) \/ CopiedCrate(r)
           \/ Drop(r)
  BY <1>1, <1>7 DEF Start, Rename, Unlink, CopyOut, CopiedOut, CopiedCrate, Drop
<1>8. CASE CopyCrate(r)
  BY <1>8, CopiesCrate
<1> QED BY <1>2, <1>3, <1>4, <1>5, <1>6, <1>7, <1>8, SoundRustc, SoundCheck, SoundBring,
     SoundCopied, SoundCrate, AnyIs DEF Quiet

LEMMA StaysAwake ==
    ASSUME IInv, NEW r \in Run, Any(r), ~Start(r)
    PROVE  pc'[r] # "idle"
<1>1. CASE Quiet(r)
  BY <1>1, QuietLeaves DEF IInv
<1>2. CASE ~Quiet(r)
  BY <1>2, AnyIs DEF IInv, TypeOK, Rustc, Rename, Unlink, CopyOut, CopiedOut, WriteRule, WroteRule,
     Bring, CopyIn, CopiedIn, LinkCrate, AtObject, CopyCrate, CopiedCrate, Link, Drop, AfterDelivery,
     NextInput, Goto
<1> QED BY <1>1, <1>2

LEMMA SoundNext ==
    ASSUME IInv, Overlaps, Matched, NEW q \in Run, Any(q), \A p \in Run : ~CratesClash(p)',
           NEW r \in Run \ overlapped', Linking(r)'
    PROVE  Sound(r)'
<1> USE DEF IInv
<1>1. r \notin overlapped /\ \A p \in Run : ~CratesClash(p)
  BY OverlapStays, ClashStays
<1>2. Linking(r) => Sound(r)
  BY <1>1 DEF Matched
<1>3. command' = command
  BY SiteStays DEF site
<1>4. CASE r # q
  <2>1. pc'[r] = pc[r]
    BY <1>4, OthersStay
  <2>2. Linking(r)
    BY <1>3, <2>1 DEF Linking
  <2> QED BY <1>1, <1>2, <1>4, <2>2, SoundOthers
<1>5. CASE r = q /\ Linking(r)
  BY <1>1, <1>2, <1>5, SoundOwn
<1>6. CASE r = q /\ ~Linking(r)
  <2>1. pc[r] \notin {"input", "rustc", "rule", "ruling", "bring", "copying", "crates"}
        /\ pc'[r] \in {"input", "rustc", "rule", "ruling", "bring", "copying", "crates"}
        /\ command[r].link
    BY <1>3, <1>6 DEF Linking
  <2>2. CASE Start(r)
    <3>1. objects'[r] = <<>> /\ info'[r] = Nothing /\ pc'[r] = "input"
      BY <2>1, <2>2 DEF Start, Goto, TypeOK, Matched
    <3>2. DOMAIN objects'[r] = {}
      BY <3>1
    <3>3. Agreed(r)'
      BY <3>1, <3>2 DEF Agreed, Nothing
    <3> QED BY <3>1, <3>2, <3>3 DEF Sound, Awaits, Guarded, Pending, Loads
  <2>3. CASE Rename(r) \/ CopiedOut(r) \/ Unlink(r) \/ CopyOut(r) \/ Drop(r) \/ Kill(r) \/ CopyFails(r)
    BY <2>1, <2>3 DEF Rename, CopiedOut, Unlink, CopyOut, Drop, Kill, CopyFails, Fail,
       AfterDelivery, Goto, TypeOK
  <2>4. CASE CopiedCrate(r)
    BY <1>1, <2>4 DEF CopiedCrate, Control, Where
  <2>5. CASE \/ Translate(r) \/ RustcFails(r) \/ NoRule(r) \/ Check(r) \/ NotThere(r) \/ InputsDone(r)
             \/ NotACrate(r) \/ LinkFails(r) \/ Rustc(r) \/ WriteRule(r) \/ WroteRule(r) \/ Bring(r)
             \/ CopyIn(r) \/ CopiedIn(r) \/ LinkCrate(r) \/ CopyCrate(r) \/ Link(r)
    BY <2>1, <2>5 DEF Translate, RustcFails, NoRule, Check, AtInput, NotThere, InputsDone, NotACrate,
       AtObject, LinkFails, Rustc, WriteRule, WroteRule, Bring, CopyIn, CopiedIn, LinkCrate,
       CopyCrate, Link
  <2> QED BY <1>6, <2>2, <2>3, <2>4, <2>5, AnyIs DEF Quiet
<1> QED BY <1>4, <1>5, <1>6

LEMMA MatchedNext == IInv /\ Overlaps /\ Matched /\ [Next]_vars => Overlaps' /\ Matched'
<1> SUFFICES ASSUME IInv, Overlaps, Matched, [Next]_vars
             PROVE  Overlaps' /\ Matched'
  OBVIOUS
<1>1. CASE Next
  <2>1. PICK q \in Run : Any(q)
    BY <1>1 DEF Next, Any
  <2>2. ASSUME NEW r \in Run, pc'[r] = "idle"
        PROVE  objects'[r] = <<>> /\ info'[r] = Nothing
    <3>1. r # q
      <4>1. pc'[q] # "idle"
        <5>1. CASE Start(q)
          BY <5>1 DEF Start, Goto, IInv, TypeOK
        <5>2. CASE ~Start(q)
          BY <2>1, <5>2, StaysAwake
        <5> QED BY <5>1, <5>2
      <4> QED BY <2>2, <4>1
    <3>2. pc'[r] = pc[r] /\ objects'[r] = objects[r] /\ info'[r] = info[r]
      BY <2>1, <3>1, OthersStay DEF IInv
    <3> QED BY <2>2, <3>2 DEF Matched
  <2>3. Overlaps'
    BY <2>1, OverlapsNext
  <2>4. ASSUME \A p \in Run : ~CratesClash(p)', NEW r \in Run \ overlapped', Linking(r)'
        PROVE  Sound(r)'
    BY <2>1, <2>4, SoundNext
  <2> QED BY <2>2, <2>3, <2>4 DEF Matched
<1>2. CASE UNCHANGED vars
  <2>1. /\ entry' = entry /\ bytes' = bytes /\ command' = command /\ pc' = pc /\ turn' = turn
        /\ fd' = fd /\ info' = info /\ objects' = objects /\ overlapped' = overlapped
    BY <1>2 DEF vars, site
  <2>2. /\ \A r : CratesClash(r)' = CratesClash(r)
        /\ \A r : Linking(r)' = Linking(r)
        /\ \A r : Working(r)' = Working(r)
        /\ \A r, q : Feeds(r, q)' = Feeds(r, q)
        /\ \A r : (Pending(r)' <=> Pending(r))
        /\ \A r, k : Awaited(r, k)' = Awaited(r, k)
        /\ \A i, r : Safe(i, r)' = Safe(i, r)
        /\ \A r : Awaits(r)' = Awaits(r)
        /\ \A r : Loads(r)' = Loads(r)
    BY <2>1 DEF CratesClash, Linking, Working, Feeds, AskedFor, Inputs, Pending, Awaited, Safe,
       Needs, Awaits, Brought, Loads
  <2>3. \A r, k : Content(r, k)' = Content(r, k)
    BY <2>1 DEF Content, Awaited, Pending, Read, Input, Inputs
  <2>4. Overlaps'
    BY <2>1, <2>2 DEF Overlaps
  <2>5. ASSUME NEW r \in Run, Sound(r)
        PROVE  Sound(r)'
    <3>1. Guarded(r)'
      BY <2>1, <2>2, <2>5 DEF Sound, Guarded, Safe
    <3>2. Agreed(r)'
      BY <2>1, <2>3, <2>5, AgreedStays DEF Sound
    <3> QED BY <2>2, <2>5, <3>1, <3>2 DEF Sound
  <2>6. Matched'
    BY <2>1, <2>2, <2>5 DEF Matched
  <2> QED BY <2>4, <2>6
<1> QED BY <1>1, <1>2


(***************************************************************************)
(* A link hands rustc what was checked when the command line was read: the *)
(* objects are this rustc's, and the runtime and the whole program are     *)
(* decided for the very objects there are, unless a run at work beside it  *)
(* makes one of them or a run was given two objects of one crate.          *)
(***************************************************************************)
THEOREM CheckedAreLinked == Spec => []CheckedIsLinked
<1>1. Init => Overlaps /\ Matched
  <2> SUFFICES ASSUME Init
               PROVE  Overlaps /\ Matched
    OBVIOUS
  <2>1. \A r \in Run : pc[r] = "idle" /\ objects[r] = <<>> /\ info[r] = Nothing
    BY DEF Init
  <2> QED BY <2>1 DEF Overlaps, Matched, Working, Linking
<1>2. IInv /\ Matched => CheckedIsLinked
  <2> SUFFICES ASSUME IInv, Matched, \A r \in Run : ~CratesClash(r),
                      NEW r \in Run \ overlapped, pc[r] = "crates", turn[r] > Len(objects[r]),
                      NEW parts, parts = {Parts(r)[k] : k \in DOMAIN Parts(r)},
                      NEW ours, ours = {p \in parts : ~Foreign(p)}
               PROVE  /\ \A p \in ours : p.rustc = command[r].rustc
                      /\ info[r].runtime <=> \E p \in ours : p.runtime
                      /\ info[r].native <=> \E p \in ours : p.crate = None
    BY DEF CheckedIsLinked
  <2>1. Sound(r)
    <3>1. Linking(r)
      BY DEF Linking, IInv, Control, Where
    <3> QED BY <3>1 DEF Matched
  <2>2. /\ DOMAIN objects[r] = 1..Len(objects[r]) /\ Len(objects[r]) \in Nat /\ turn[r] \in Nat
        /\ DOMAIN Parts(r) = DOMAIN objects[r]
    BY DEF IInv, TypeOK, Parts
  <2>3. ASSUME NEW k \in DOMAIN objects[r]
        PROVE  Parts(r)[k] = Content(r, k)
    <3>1. Content(r, k) = Read(objects[r][k].name)
      BY DEF Content, Awaited, Pending
    <3>2. CASE objects[r][k].crates = {}
      BY <2>2, <3>1, <3>2 DEF Parts
    <3>3. CASE objects[r][k].crates # {}
      <4>1. PICK j \in 1..k :
               /\ Library(r, k) = <<r, "lib", j>>
               /\ j \in DOMAIN objects[r] /\ objects[r][j].crates = objects[r][k].crates
        BY FirstOfCrate DEF IInv, Control, Taken
      <4>2. j = k
        BY <3>3, <4>1 DEF CratesClash
      <4>3. entry[<<r, "lib", k>>] = entry[objects[r][k].name]
        BY <2>1, <2>2, <3>3 DEF Sound, Loads
      <4> QED BY <2>2, <3>1, <3>3, <4>1, <4>2, <4>3 DEF Parts, Read
    <3> QED BY <3>2, <3>3
  <2>4. /\ \A p \in ours : \E k \in DOMAIN objects[r] : p = Content(r, k) /\ p \in Marked
        /\ \A k \in DOMAIN objects[r] : Content(r, k) \in Marked => Content(r, k) \in ours
    BY <2>2, <2>3 DEF Foreign
  <2>5. \A k \in DOMAIN objects[r] :
           /\ Says(Content(r, k)).runtime
                 <=> Content(r, k) \in Marked /\ Content(r, k).runtime
           /\ Says(Content(r, k)).native
                 <=> Content(r, k) \in Marked /\ Content(r, k).crate = None
    BY DEF Says, Foreign, Nothing
  <2>6. \A p \in ours : p.rustc = command[r].rustc
    BY <2>1, <2>4 DEF Sound, Agreed
  <2>7. info[r].runtime <=> \E p \in ours : p.runtime
    <3>1. info[r].runtime <=> \E k \in DOMAIN objects[r] : Says(Content(r, k)).runtime
      BY <2>1 DEF Sound, Agreed
    <3> QED BY <2>4, <2>5, <3>1
  <2>8. info[r].native <=> \E p \in ours : p.crate = None
    <3>1. info[r].native <=> \E k \in DOMAIN objects[r] : Says(Content(r, k)).native
      BY <2>1 DEF Sound, Agreed
    <3> QED BY <2>4, <2>5, <3>1
  <2> QED BY <2>6, <2>7, <2>8
<1> QED BY <1>1, <1>2, MatchedNext, DriverInvariant, PTL DEF Spec
=============================================================================
