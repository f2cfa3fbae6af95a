---------------------------- MODULE MCCleanFiles ---------------------------
(* Two digests, two processes and one run of cmsCleanFiles.  The storage   *)
(* starts empty; with a file of a task and an executable; with two         *)
(* executables; with an executable equal to a file of a task, and an       *)
(* orphan.                                                                 *)
EXTENDS CleanFiles
CONSTANTS d1, d2, p1, p2
MCDigest == {d1, d2}
MCProc == {p1, p2}
MCEnumerated == {"task", "executable"}
MCKind == {"task", "executable"}
Holding(initial) == [stored |-> MCDigest, rows |-> initial]
MCStores == {[stored |-> {}, rows |-> {}],
             Holding({<<"task", d1>>, <<"executable", d2>>}),
             Holding({<<"executable", d1>>, <<"executable", d2>>}),
             Holding({<<"task", d1>>, <<"executable", d1>>})}
=============================================================================
