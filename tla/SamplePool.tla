----------------------------- MODULE SamplePool -----------------------------
(***************************************************************************)
(* What the IMemAllocator of this program gives its clients, whatever      *)
(* lists it keeps: one sample, which is idle or out, and none before it is *)
(* filled or after it is drained.  A client that asks is refused only when *)
(* no sample is idle, and the sample that comes back is idle again.        *)
(***************************************************************************)
CONSTANT Samples

VARIABLES idle, out, result

vars == <<idle, out, result>>

Init == idle = {} /\ out = {} /\ result = "ok"

Fill(s) ==
  /\ idle = {} /\ out = {}
  /\ idle' = {s}
  /\ UNCHANGED <<out, result>>

Get(s) ==
  /\ s \in idle
  /\ idle' = idle \ {s} /\ out' = out \cup {s}
  /\ result' = "ok"

Refuse ==
  /\ idle = {}
  /\ result' = "none"
  /\ UNCHANGED <<idle, out>>

Put(s) ==
  /\ s \in out
  /\ idle' = idle \cup {s} /\ out' = out \ {s}
  /\ result' = "ok"

Drain ==
  /\ idle' = {} /\ out' = {}
  /\ UNCHANGED result

Next == Refuse \/ Drain \/ \E s \in Samples : Fill(s) \/ Get(s) \/ Put(s)

Spec == Init /\ [][Next]_vars
=============================================================================
