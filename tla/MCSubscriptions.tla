-------------------------- MODULE MCSubscriptions --------------------------
(* A small instance of Subscriptions for TLC. *)
EXTENDS Subscriptions, TLC

CONSTANTS Schuko, Mennekes

\* The types in the order of the keyboard: both, or the first one is gone.
MCCatalogs == {<<Schuko, Mennekes>>, <<Mennekes>>}
MCTypes == {Schuko, Mennekes}

\* Nothing tells two taps apart.
MCSymmetry == Permutations(Taps)
=============================================================================
