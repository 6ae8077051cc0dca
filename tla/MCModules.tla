------------------------------ MODULE MCModules ------------------------------
(* ModuleList on small instances: one DLL imports the other, and the other *)
(* is found under its name too.                                            *)
EXTENDS ModuleList

MCWithin == [n \in Dlls |-> IF n = "codec" THEN {"codec", "lib"} ELSE {n}]

MCImports == [n \in Dlls |-> IF n = "codec" THEN {"lib"} ELSE {}]
=============================================================================
