----------------------------- MODULE MCCritSect -----------------------------
(* CriticalSection on small instances: the constants are given by the cfgs.*)
EXTENDS CriticalSection
=============================================================================
