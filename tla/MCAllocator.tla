---------------------------- MODULE MCAllocator ----------------------------
(* MemAllocator on small instances.  Samples and nodes only tell each      *)
(* other apart.                                                            *)
EXTENDS MemAllocator, TLC

Interchangeable == Permutations(Samples) \cup Permutations(Nodes)
============================================================================
