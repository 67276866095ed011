------------------------------ MODULE Promise ------------------------------
(***************************************************************************)
(* What the notifier promises a subscriber, whatever crashes, fails, is    *)
(* replayed or races (src/bot/notifier.py:1-45): alerts of an event only   *)
(* while the event is open, one of them, and one more for each excuse: a   *)
(* claim that was reaped, a message whose answer was lost.  How claims,    *)
(* tasks, the stream and the ZSET keep it is in Notifier.                  *)
(***************************************************************************)
EXTENDS Naturals

CONSTANTS Subs, Epochs

VARIABLES
  phase,    \* events are "new", then "open" until nothing holds them, then "closed"
  told,     \* alerts of an event a subscriber has got
  excuse    \* reasons for one more

promiseVars == <<phase, told, excuse>>

Init ==
  /\ phase = [e \in Epochs |-> "new"]
  /\ told = [s \in Subs |-> [e \in Epochs |-> 0]]
  /\ excuse = [s \in Subs |-> [e \in Epochs |-> 0]]

\* Another event of the same second opens an epoch again.
Open(e) ==
  /\ phase[e] # "open"
  /\ phase' = [phase EXCEPT ![e] = "open"]
  /\ UNCHANGED <<told, excuse>>

Tell(s, e) ==
  /\ phase[e] = "open" /\ told[s][e] <= excuse[s][e]
  /\ told' = [told EXCEPT ![s][e] = @ + 1]
  /\ UNCHANGED <<phase, excuse>>

TellUnseen(s, e) ==
  /\ phase[e] = "open" /\ told[s][e] <= excuse[s][e]
  /\ told' = [told EXCEPT ![s][e] = @ + 1]
  /\ excuse' = [excuse EXCEPT ![s][e] = @ + 1]
  /\ UNCHANGED phase

\* The claims of some slots are reaped, of events long closed perhaps.
Excuse(slots) ==
  /\ excuse' = [s \in Subs |-> [e \in Epochs |->
                  IF <<s, e>> \in slots THEN excuse[s][e] + 1 ELSE excuse[s][e]]]
  /\ UNCHANGED <<phase, told>>

Close(e) ==
  /\ phase[e] = "open"
  /\ phase' = [phase EXCEPT ![e] = "closed"]
  /\ UNCHANGED <<told, excuse>>

Next ==
  \/ \E e \in Epochs : Open(e) \/ Close(e) \/ \E s \in Subs : Tell(s, e) \/ TellUnseen(s, e)
  \/ \E slots \in SUBSET (Subs \X Epochs) : Excuse(slots)

Spec == Init /\ [][Next]_promiseVars
=============================================================================
