---------------------------- MODULE SyncDecoder ----------------------------
(***************************************************************************)
(* What a player is promised by the wrapped codec: a decoder it calls as   *)
(* if it ran in its own process.  A call is asked and answered before the  *)
(* next one, and a picture handed out is the picture decoded by that call  *)
(* from the frame and the time stamp given to it.  A call may also answer  *)
(* "no picture" (the codec needs more input, it was a seek, the server is  *)
(* gone).  A call that takes too long may be given up: with that the       *)
(* promise ends.                                                           *)
(***************************************************************************)
EXTENDS Integers

CONSTANTS MaxCalls,   \* bound on the calls made
          Kinds,      \* what can be asked
          Places,     \* where a picture can lie
          NoPicture   \* "no picture"

VARIABLES phase, call, kind, shown

vars == <<phase, call, kind, shown>>

Picture(n, p) == [call |-> n, pts |-> n, data |-> n, page |-> p]

Init == phase = "off" /\ call = 0 /\ kind \in Kinds /\ shown = NoPicture

Open ==
  /\ phase = "off" /\ phase' = "ready"
  /\ UNCHANGED <<call, kind, shown>>

Ask ==
  /\ phase = "ready" /\ call < MaxCalls
  /\ phase' = "asked" /\ call' = call + 1 /\ kind' \in Kinds
  /\ UNCHANGED shown

Answer ==
  /\ phase = "asked" /\ phase' = "ready"
  /\ shown' \in {NoPicture} \cup {Picture(call, p) : p \in Places}
  /\ UNCHANGED <<call, kind>>

GiveUp ==
  /\ phase = "asked" /\ phase' = "over"
  /\ call' = 0 /\ kind' \in Kinds /\ shown' = NoPicture

Quit ==
  /\ phase # "over" /\ phase' = "over"
  /\ UNCHANGED <<call, kind, shown>>

Next == Open \/ Ask \/ Answer \/ GiveUp \/ Quit

Spec     == Init /\ [][Next]_vars
FairSpec == Spec /\ WF_vars(Answer)
============================================================================
