----------------------------- MODULE MCFrames -----------------------------
(* FrameStore on small instances.  Blocks are told apart by where they lie *)
(* only.                                                                   *)
EXTENDS FrameStore, TLC

BlockPermutations == Permutations(Blocks)
===========================================================================
