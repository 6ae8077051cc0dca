----------------------------- MODULE MCRegistry -----------------------------
(* Registry on small instances: two values of one length and a longer one, *)
(* two keys of which one begins with the text of the other.                *)
EXTENDS Registry, TLC

CONSTANTS a, ab

MCKeys   == {a, ab}
MCLonger == (a :> {a, ab}) @@ (ab :> {ab})

MCSize == [v \in Values \cup {DIR, BLANK} |-> IF v = BLANK THEN 0 ELSE IF v = "long" THEN 2 ELSE 1]
=============================================================================
