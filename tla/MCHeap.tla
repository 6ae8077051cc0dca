------------------------------- MODULE MCHeap -------------------------------
(* WinHeap on small instances: the constants are given by the cfgs.        *)
EXTENDS WinHeap
=============================================================================
