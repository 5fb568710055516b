--------------------------- MODULE MCNamingIndex ----------------------------
EXTENDS NamingIndex

CONSTANTS n1, n2, n3, f1, f2, f3

(* Paths as byte sequences: directory d, file d/f, and file d/f2, whose    *)
(* bytes extend those of d/f.                                              *)
D   == <<"d">>
DF  == <<"d", "/", "f">>
DF2 == <<"d", "/", "f", "2">>

MCNodes == {n1, n2, n3}
MCFDs == {f1, f2, f3}

(* For CREATE: d/g, whose bytes do not extend d/f, is created under d;    *)
(* n1 holds d and d/f, n2 only the directory d, n3 nothing.               *)
DG  == <<"d", "/", "g">>
MCCreatePaths == {D, DF, DG}
MCCreateDisk0 == [n \in MCNodes |-> CASE n = n1 -> {D, DF}
                                      [] n = n2 -> {D}
                                      [] OTHER  -> {}]

(* Without the directory: n1 holds d/f and n2 holds d/f2.                *)
MCFiles == {DF, DF2}
MCFilesDisk0 == [n \in MCNodes |-> CASE n = n1 -> {DF}
                                     [] n = n2 -> {DF2}
                                     [] OTHER  -> {}]

(* n1 may reconnect once; n2 and n3 connect once.                         *)
MCSessions == [n \in MCNodes |-> IF n = n1 THEN 2 ELSE 1]

MCOneSession == [n \in MCNodes |-> 1]

FdSymmetry == Permutations(MCFDs)
=============================================================================
