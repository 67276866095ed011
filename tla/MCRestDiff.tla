----------------------------- MODULE MCRestDiff -----------------------------
(***************************************************************************)
(* The instances of RestDiff that TLC checks: two locations of one         *)
(* operator each.  Two statuses are enough for every comparison; a third   *)
(* one only adds transitions of the same kind.                             *)
(***************************************************************************)
EXTENDS RestDiff

CONSTANTS evika, batteryfly, l1, l2

Owner == [l \in Locs |-> IF l = l1 THEN evika ELSE batteryfly]

Anything == {"call", "stop"}
=============================================================================
