------------------------------ MODULE MCFilter ------------------------------
(* DshowFilter on small instances: the constants are given by the cfg.     *)
EXTENDS DshowFilter
=============================================================================
