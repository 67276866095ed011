--------------------------- MODULE MCQuietHours ---------------------------
(* A small instance of QuietHours for TLC: a short day, every window. *)
EXTENDS QuietHours

CONSTANTS Hours

MCPresets == [from : 0..(Hours - 1), to : 0..(Hours - 1)]
=============================================================================
