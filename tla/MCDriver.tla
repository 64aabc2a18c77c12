------------------------------ MODULE MCDriver ------------------------------
(* Driver with two runs at a time.                                         *)
EXTENDS Driver

CONSTANTS r1, r2, aC, bC, aObj, bObj, oObj, mObj, aDep, prog, both, new, old

C(unit, object, rule) == [unit |-> unit, path |-> object, rule |-> rule]
L(file) == [unit |-> None, path |-> file, rule |-> None]
Compiles(rustc, lto, inputs) ==
    [link |-> FALSE, rustc |-> rustc, lto |-> lto, output |-> None, inputs |-> inputs]
LinksTo(output, lto, inputs) ==
    [link |-> TRUE, rustc |-> new, lto |-> lto, output |-> output, inputs |-> inputs]

(* A link of a file that is being compiled again by a newer rustc, of      *)
(* another C file, and of an -flto object made before: each beside a       *)
(* compile of several files, a link that takes two objects of one crate,   *)
(* and a link into the same program.                                       *)
Mixed == LinksTo(prog, TRUE, <<L(aObj), C(bC, None, None), L(oObj)>>)
Asked ==
    {[r \in Run |-> IF r = r1 THEN other ELSE Mixed] :
        other \in {Compiles(old, FALSE, <<C(aC, aObj, aDep), C(bC, bObj, None)>>),
                   Compiles(new, TRUE, <<C(aC, aObj, aDep)>>),
                   LinksTo(both, TRUE, <<L(oObj), L(mObj)>>),
                   LinksTo(prog, FALSE, <<L(oObj), L(aObj)>>)}}

(* mObj was made as oObj, from the same C file, before oObj was.           *)
Was(rustc, runtime, crate) ==
    [rustc |-> rustc, runtime |-> runtime, crate |-> crate, by |-> None]
Built ==
    [f \in File |->
        CASE f = aObj -> Was(new, TRUE, None)
          [] f = oObj -> Was(new, FALSE, <<aC, oObj>>)
          [] f = mObj -> Was(new, TRUE, <<aC, oObj>>)
          [] f = prog -> [made |-> prog, by |-> None]
          [] OTHER -> None]
=============================================================================
