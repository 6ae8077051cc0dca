---------------------------- MODULE PictureQueue ----------------------------
(***************************************************************************)
(* What the decoder promises about decoded pictures: they are handed to    *)
(* the player one per call, in the order the codec delivered them.  The    *)
(* queue holds Capacity pictures; a picture delivered to a full queue      *)
(* takes the place of the newest one.  A seek drops what is queued.        *)
(***************************************************************************)
EXTENDS Integers, Sequences

CONSTANT Capacity

VARIABLES queue,     \* pictures delivered and not yet handed out
          count,     \* how many the codec delivered so far
          picture    \* the last one handed out (0: none since the last seek)

vars == <<queue, count, picture>>

Init == queue = <<>> /\ count = 0 /\ picture = 0

Deliver ==
  /\ count' = count + 1
  /\ queue' = IF Len(queue) < Capacity
                THEN Append(queue, count + 1)
                ELSE [queue EXCEPT ![Capacity] = count + 1]
  /\ UNCHANGED picture

HandOut ==
  /\ queue # <<>>
  /\ picture' = Head(queue) /\ queue' = Tail(queue)
  /\ UNCHANGED count

Flush ==
  /\ queue' = <<>> /\ picture' = 0
  /\ UNCHANGED count

Next == Deliver \/ HandOut \/ Flush

Spec == Init /\ [][Next]_vars
=============================================================================
