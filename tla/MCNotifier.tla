----------------------------- MODULE MCNotifier -----------------------------
(***************************************************************************)
(* The instances of Notifier that TLC checks: one or two subscriptions to  *)
(* one or two locations.  A tick is a minute: Cooldown = 1, Delay = 2 and  *)
(* ReapAge = 5 are the deployed thresholds; the instances that need fewer  *)
(* ages keep their order, Cooldown <= Delay < ReapAge.                     *)
(***************************************************************************)
EXTENDS Notifier

CONSTANTS s1, s2, l1, l2, t1, t2

\* Both subscriptions wait for the same location; the other one has none.
SameLoc == [s \in Subs |-> l1]

\* No filter at all, or s1 waiting for a connector of type t1.
NoFilter == [s \in Subs |-> None]
S1WantsT1 == [s \in Subs |-> IF s = s1 THEN t1 ELSE None]

\* notify_limit: none, one alert each, one for s1 and two for the others.
Unlimited == [s \in Subs |-> 0]
Single == [s \in Subs |-> 1]
OneOrTwo == [s \in Subs |-> IF s = s1 THEN 1 ELSE 2]

Nobody == {}
OnlyS1 == {s1}
Everybody == Subs

\* What freed up: nothing told, t1, t2, or only the list of an older poller.
Untold == {[freed |-> {}, free |-> {}]}
Told == {[freed |-> {t1}, free |-> {t1, t2}], [freed |-> {t2}, free |-> {t1, t2}],
         [freed |-> {}, free |-> {t2}], [freed |-> {}, free |-> {}]}

Down == {"down"}
UpAndDown == {"up", "down"}
Fixed == {}
=============================================================================
