------------------------------- MODULE MCSync -------------------------------
(* WinSync on small instances: the constants are given by the cfg.         *)
EXTENDS WinSync
=============================================================================
