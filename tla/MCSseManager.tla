---------------------------- MODULE MCSseManager ----------------------------
(***************************************************************************)
(* The instances of SseManager that TLC checks: a location with two        *)
(* devices that keeps its subscribers, and one with a single device whose  *)
(* subscribers come and go.                                                *)
(***************************************************************************)
EXTENDS SseManager

CONSTANTS l1, l2, d1, d2, d3

Layout == [l \in Locs |-> IF l = l1 THEN {d1, d2} ELSE {d3}]
OnlyL1 == {l1}

AnyCall == {"detail", "hdel", "task"}
=============================================================================
