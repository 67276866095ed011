---------------------------- MODULE MCSseWorker -----------------------------
(***************************************************************************)
(* The instances of SseWorker that TLC checks: a device with connectors of *)
(* two types, two of one of them or one of each.                           *)
(***************************************************************************)
EXTENDS SseWorker

CONSTANTS c1, c2, c3, ccs, chademo

TwoTypes == [c \in Conns |-> IF c = c2 THEN chademo ELSE ccs]
=============================================================================
