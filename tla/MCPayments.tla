----------------------------- MODULE MCPayments -----------------------------
(***************************************************************************)
(* The instances of Payments that TLC checks: two users, each of whom may  *)
(* invite the other, and one or two payments by either of them.  A payment *)
(* is worth two periods, a referral one.  Users are alike, and so are      *)
(* charges.                                                                *)
(***************************************************************************)
EXTENDS Payments, TLC

CONSTANTS u1, u2, c1, c2, a1

Alike == Permutations(Users) \cup Permutations(Charges)
=============================================================================
