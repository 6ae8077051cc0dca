------------------------------ MODULE MCMemory ------------------------------
(* AddressSpace on small instances: two images with bases in one granule.  *)
EXTENDS AddressSpace

MCBase == [d \in Images |-> 4]
=============================================================================
