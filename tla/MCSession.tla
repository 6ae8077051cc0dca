----------------------------- MODULE MCSession -----------------------------
(* DshowSession on small instances: the constants are given by the cfgs.   *)
EXTENDS DshowSession
============================================================================
